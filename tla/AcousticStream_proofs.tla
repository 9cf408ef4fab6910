------------------------ MODULE AcousticStream_proofs ------------------------
(***************************************************************************)
(* The acoustic stage never opens a gap, never repeats a sample and ends   *)
(* at the cropped length, for every ladder, context window, lookahead and  *)
(* crossfade that MarginAssumption allows.                                 *)
(***************************************************************************)
EXTENDS AcousticStream, TLAPS

USE DEF SamplesPerCodecToken

-----------------------------------------------------------------------------
(* The ladder and the window                                               *)

\* A block never shrinks to nothing: the schedule always moves on.
LEMMA NextBlockPositive ==
  ASSUME NEW b \in BlockSizes, b # 0
  PROVE  NextBlock(b) \in BlockSizes /\ NextBlock(b) # 0
<1>1. b \in Nat /\ b >= 1
  BY LadderAssumption DEF BlockSizes, MaxOf
<1>2. b * GrowthPct >= b * 100 /\ b * GrowthPct \in Nat
  BY <1>1, LadderAssumption
<1>3. (b * GrowthPct) \div 100 \in Nat /\ (b * GrowthPct) \div 100 >= 1
  BY <1>1, <1>2
<1>4. QED
  BY <1>3, LadderAssumption DEF NextBlock, BlockSizes, MinOf, MaxOf

StreamRecord == [codes : Nat, next : Nat, block : BlockSizes, last : Nat, cond : BOOLEAN]

\* The window starts at the utterance, or an overlap margin before the last
\* decode, and what is left to decode is enough to render.
LEMMA WindowReachesBack ==
  ASSUME NEW s \in StreamRecord, s.last < s.next
  PROVE  /\ WindowStart(s) \in Nat
         /\ WindowStart(s) <= s.next
         /\ WindowStart(s) # 0 => WindowStart(s) + OverlapMargin <= s.last
         /\ WindowStart(s) # 0 => s.next - WindowStart(s) >= Lookahead + MinEmit
<1>1. s.next \in Nat /\ s.last \in Nat
  BY DEF StreamRecord
<1>2. QED
  BY <1>1, AcousticAssumption, MarginAssumption DEF WindowStart, MaxOf

-----------------------------------------------------------------------------
(* Segments                                                                *)

\* The slice taken out of a decode joins what was sent to the new cut.
LEMMA SentJoins ==
  ASSUME NEW e \in [committed : Nat, tail : {0, Crossfade}],
         NEW base \in Nat, NEW n \in Nat, NEW cut \in Nat,
         e.tail = 0 <=> e.committed = 0,
         base <= e.committed, e.committed <= cut, cut <= base + n
  PROVE  Sent(e, base, n, cut) = [from |-> e.committed, to |-> cut]
<1>1. e.committed \in Nat
  OBVIOUS
<1>2. CASE e.tail = 0
  BY <1>1, <1>2 DEF Sent, Slice, MinOf, MaxOf
<1>3. CASE e.tail # 0
  BY <1>1, <1>3 DEF Sent, Slice, MinOf, MaxOf
<1>4. QED
  BY <1>2, <1>3

Unbroken(segs) ==
  \A i \in 1..Len(segs) : segs[i].from = StartOf(segs, i) /\ segs[i].from < segs[i].to

\* One more segment that starts where the last one ended keeps a run unbroken.
LEMMA AppendUnbroken ==
  ASSUME NEW segs \in Seq(Segment), Unbroken(segs),
         NEW seg \in Segment, seg.from = EndOf(segs), seg.from < seg.to
  PROVE  /\ Append(segs, seg) \in Seq(Segment)
         /\ Unbroken(Append(segs, seg))
         /\ EndOf(Append(segs, seg)) = seg.to
<1> DEFINE longer == Append(segs, seg)
<1>1. /\ longer \in Seq(Segment)
      /\ Len(longer) = Len(segs) + 1
      /\ \A i \in 1..Len(segs) : longer[i] = segs[i]
      /\ longer[Len(segs) + 1] = seg
      /\ Len(segs) \in Nat
  OBVIOUS
<1>2. EndOf(longer) = seg.to
  <2>1. longer # <<>>
    BY <1>1
  <2>2. QED
    BY <1>1, <2>1 DEF EndOf
<1>3. ASSUME NEW i \in 1..Len(longer)
      PROVE  longer[i].from = StartOf(longer, i) /\ longer[i].from < longer[i].to
  <2>1. CASE i \in 1..Len(segs)
    <3>1. StartOf(longer, i) = StartOf(segs, i)
      BY <1>1, <2>1 DEF StartOf
    <3>2. QED
      BY <1>1, <2>1, <3>1 DEF Unbroken
  <2>2. CASE i = Len(segs) + 1
    <3>1. StartOf(longer, i) = EndOf(segs)
      BY <1>1, <2>2 DEF StartOf, EndOf
    <3>2. QED
      BY <1>1, <2>2, <3>1
  <2>3. QED
    BY <1>1, <1>3, <2>1, <2>2
<1>4. QED
  BY <1>1, <1>2, <1>3 DEF Unbroken

-----------------------------------------------------------------------------
(* Type correctness                                                        *)

\* The buffer after a payload, on the ladder or not, is a buffer.
LEMMA ReceivedType ==
  ASSUME TypeOK, NEW r \in Streams, NEW k \in Nat, NEW ref \in BOOLEAN
  PROVE  /\ Received(r, k, ref) \in StreamRecord
         /\ Laddered(Received(r, k, ref)) \in StreamRecord
         /\ Laddered(Received(r, k, ref)).codes = stream[r].codes + k
         /\ Laddered(Received(r, k, ref)).last = stream[r].last
<1>1. stream[r] \in StreamRecord
  BY DEF TypeOK, StreamRecord
<1>2. FirstBlock \in BlockSizes /\ FirstBlock \in Nat
  BY LadderAssumption DEF BlockSizes, MaxOf
<1>3. Received(r, k, ref) \in StreamRecord
  <2> DEFINE voiced == stream[r].cond \/ ref
  <2>1. voiced \in BOOLEAN
    BY DEF TypeOK
  <2>2. ASSUME NEW n \in Nat, NEW c \in BOOLEAN
        PROVE  [stream[r] EXCEPT !.codes = n, !.cond = c] \in StreamRecord
    BY <1>1 DEF StreamRecord
  <2>3. stream[r].codes + k \in Nat
    BY <1>1 DEF StreamRecord
  <2>4. QED
    BY <2>1, <2>2, <2>3 DEF Received
<1>4. QED
  BY <1>1, <1>2, <1>3 DEF Received, Laddered, StreamRecord

\* A started schedule moves on to a schedule.
LEMMA AdvancedType ==
  ASSUME NEW s \in StreamRecord
  PROVE  Advanced(s) \in StreamRecord
<1>1. NextBlock(s.block) \in BlockSizes /\ NextBlock(s.block) \in Nat
  <2>1. CASE s.block # 0
    BY <2>1, NextBlockPositive DEF StreamRecord, BlockSizes
  <2>2. CASE s.block = 0
    BY <2>2, LadderAssumption DEF NextBlock, BlockSizes, MinOf, MaxOf
  <2>3. QED
    BY <2>1, <2>2
<1>2. s.next \in Nat /\ s.next + NextBlock(s.block) \in Nat
  BY <1>1 DEF StreamRecord
<1>3. ASSUME NEW l \in Nat, NEW b \in BlockSizes, NEW n \in Nat
      PROVE  [s EXCEPT !.last = l, !.block = b, !.next = n] \in StreamRecord
  BY DEF StreamRecord
<1>4. QED
  BY <1>1, <1>2, <1>3 DEF Advanced

\* An utterance is cropped to all its codes but one, and never to nothing.
LEMMA FinalLength ==
  ASSUME NEW n \in Nat, n # 0
  PROVE  /\ FinalSampleLimit(n) \in Nat
         /\ FinalSampleLimit(n) >= (n - 1) * 960
         /\ FinalSampleLimit(n) > 0
  BY DEF FinalSampleLimit, MaxOf

\* A noise bank has a size, whatever it has to cover.
LEMMA BankType ==
  ASSUME NEW offset \in Nat, NEW len \in Nat, NEW final \in BOOLEAN
  PROVE  BankFor(offset, len, final) \in Nat
<1> DEFINE need == 2 * (PromptCodes + len - (IF final THEN 0 ELSE Lookahead) + offset)
<1> DEFINE unit == 2 * BankUnit
<1>1. unit \in Nat /\ unit > 0 /\ need \in Int
  BY AcousticAssumption
<1>2. MaxOf(0, need - 1) \in Nat
  BY <1>1 DEF MaxOf
<1>3. MaxOf(0, need - 1) \div unit + 1 \in Nat
  BY <1>1, <1>2
<1>4. (MaxOf(0, need - 1) \div unit + 1) * unit \in Nat
  BY <1>1, <1>3
<1>5. QED
  BY <1>4 DEF BankFor

\* A window starts at a code of the prefix, whatever the schedule.
LEMMA WindowType ==
  ASSUME NEW s \in StreamRecord
  PROVE  WindowStart(s) \in Nat /\ s.next - WindowStart(s) \in Nat
<1>1. s.next \in Nat /\ s.last \in Nat
  BY DEF StreamRecord
<1>2. QED
  BY <1>1, AcousticAssumption DEF WindowStart, MaxOf

\* What is sent out of a decode is a segment of the utterance.
LEMMA SentType ==
  ASSUME NEW e \in [committed : Nat, tail : {0, Crossfade}],
         NEW base \in Nat, NEW n \in Nat, NEW cut \in Int, base <= e.committed
  PROVE  Sent(e, base, n, cut) \in Segment
<1>1. e.committed \in Nat
  OBVIOUS
<1> DEFINE i == IF e.tail = 0 THEN 0 ELSE e.committed - base
<1>2. i \in Nat
  BY <1>1
<1>3. /\ Slice(i, cut - base, n).from \in Nat
      /\ Slice(i, cut - base, n).to \in Nat
  BY <1>2 DEF Slice, MinOf, MaxOf
<1>4. QED
  BY <1>3 DEF Sent, Segment

\* Delivering a segment keeps the history a sequence of segments.
LEMMA DeliverType ==
  ASSUME TypeOK, NEW r \in Streams, NEW seg \in Segment, Deliver(r, seg)
  PROVE  pcm' \in [Streams -> Seq(Segment)]
<1>1. pcm \in [Streams -> Seq(Segment)] /\ Append(pcm[r], seg) \in Seq(Segment)
  BY DEF TypeOK
<1>2. QED
  BY <1>1 DEF Deliver

\* Emitting the slice of a rung keeps what was sent a count of samples.
LEMMA EmitSliceType ==
  ASSUME TypeOK, NEW r \in Streams, NEW base \in Nat, NEW n \in Nat,
         EmitSlice(r, base, n)
  PROVE  /\ emitter' \in [Streams -> [committed : Nat, tail : {0, Crossfade}]]
         /\ pcm' \in [Streams -> Seq(Segment)]
         /\ phase' \in [Streams -> Phases]
<1> DEFINE cut == base + n - Crossfade
           e == emitter[r]
<1>1. e \in [committed : Nat, tail : {0, Crossfade}] /\ e.committed \in Nat
  BY DEF TypeOK
<1>2. cut \in Int
  BY AcousticAssumption
<1>3. CASE UNCHANGED <<emitter, pcm, phase>>
  BY <1>3 DEF TypeOK
<1>4. CASE /\ phase' = [phase EXCEPT ![r] = "failed"]
           /\ UNCHANGED <<emitter, pcm>>
  BY <1>4 DEF TypeOK, Phases
<1>5. CASE /\ cut > e.committed /\ base <= e.committed
           /\ Deliver(r, Sent(e, base, n, cut))
           /\ emitter' = [emitter EXCEPT ![r] = [committed |-> cut, tail |-> Crossfade]]
           /\ UNCHANGED phase
  <2> HIDE DEF cut
  <2>1. Sent(e, base, n, cut) \in Segment
    BY <1>1, <1>2, <1>5, SentType
  <2>2. pcm' \in [Streams -> Seq(Segment)]
    BY <1>5, <2>1, DeliverType
  <2>3. cut \in Nat
    BY <1>1, <1>2, <1>5
  <2>4. QED
    BY <1>5, <2>2, <2>3 DEF TypeOK
<1>6. QED
  BY <1>3, <1>4, <1>5 DEF EmitSlice

\* One payload leaves every variable in its type.
LEMMA ForwardType ==
  ASSUME TypeOK, NEW r \in Streams, NEW k \in 0..MaxPayload,
         NEW ref \in BOOLEAN, NEW final \in BOOLEAN, Forward(r, k, ref, final)
  PROVE  TypeOK'
<1> DEFINE s == Laddered(Received(r, k, ref))
<1>1. k \in Nat
  BY AcousticAssumption
<1>2. Received(r, k, ref) \in StreamRecord /\ s \in StreamRecord
  BY <1>1, ReceivedType
<1>3. /\ stream \in [Streams -> StreamRecord]
      /\ emitter[r] \in [committed : Nat, tail : {0, Crossfade}]
      /\ emitter[r].committed \in Nat
  BY DEF TypeOK, StreamRecord
<1>4. CASE DropUnvoiced(r, k, ref, final)
  BY <1>4 DEF DropUnvoiced, TypeOK, Phases
<1>5. CASE KeepReference(r, k, ref, final)
  BY <1>2, <1>5 DEF KeepReference, TypeOK, Phases, StreamRecord
<1>6. CASE Buffer(r, k, ref, final)
  BY <1>2, <1>6 DEF Buffer, TypeOK, StreamRecord
<1>7. CASE DecodeRung(r, k, ref, final)
  <2> DEFINE offset == WindowStart(s)
             len == s.next - offset
  <2>1. offset \in Nat /\ len \in Nat
    BY <1>2, WindowType
  <2>2. BankFor(offset, len, FALSE) \in Nat
    BY <2>1, BankType
  <2>3. stream' \in [Streams -> StreamRecord] /\ decoded' = decoded
    BY <1>2, <1>3, <1>7, AdvancedType DEF DecodeRung
  <2>4. CASE ~Rendered(len, FALSE)
    <3>1. UNCHANGED <<bank, emitter, pcm, phase>>
      BY <1>7, <2>4 DEF DecodeRung, RenderRung
    <3>2. /\ bank' \in [Streams -> Nat]
          /\ emitter' \in [Streams -> [committed : Nat, tail : {0, Crossfade}]]
          /\ pcm' \in [Streams -> Seq(Segment)]
          /\ decoded' \in [Streams -> Nat]
          /\ phase' \in [Streams -> Phases]
      BY <2>3, <3>1 DEF TypeOK
    <3>3. QED
      BY <2>3, <3>2 DEF TypeOK, StreamRecord
  <2>5. CASE Rendered(len, FALSE)
    <3>1. AudioSamples(len, FALSE) \in Nat /\ offset * 960 \in Nat
      BY <2>1, <2>5, AcousticAssumption DEF AudioSamples, Rendered
    <3>2. /\ bank' = [bank EXCEPT ![r] = BankFor(offset, len, FALSE)]
          /\ EmitSlice(r, offset * 960, AudioSamples(len, FALSE))
      BY <1>7, <2>5 DEF DecodeRung, RenderRung
    <3>3. bank' \in [Streams -> Nat]
      BY <2>2, <3>2 DEF TypeOK
    <3>4. /\ emitter' \in [Streams -> [committed : Nat, tail : {0, Crossfade}]]
          /\ pcm' \in [Streams -> Seq(Segment)]
          /\ phase' \in [Streams -> Phases]
      <4> DEFINE base == offset * 960
                 n == AudioSamples(len, FALSE)
      <4>1. base \in Nat /\ n \in Nat /\ EmitSlice(r, base, n)
        BY <3>1, <3>2
      <4> HIDE DEF base, n
      <4> QED BY <4>1, EmitSliceType
    <3>5. QED
      BY <2>3, <3>3, <3>4 DEF TypeOK, StreamRecord
  <2>6. QED
    BY <2>4, <2>5
<1>8. CASE DecodeFinal(r, k, ref, final)
  <2> DEFINE cut == AudioSamples(s.codes, TRUE)
  <2>1. s.codes \in Nat /\ s.codes # 0
    BY <1>2, <1>8 DEF DecodeFinal, StreamRecord
  <2>2. cut \in Nat
    BY <2>1 DEF AudioSamples, FinalSampleLimit, MinOf, MaxOf
  <2>3. Sent(emitter[r], 0, cut, cut) \in Segment
    <3> HIDE DEF cut
    <3>1. 0 \in Nat /\ cut \in Int /\ 0 <= emitter[r].committed
      BY <1>3, <2>2
    <3>2. QED
      BY <1>3, <2>2, <3>1, SentType
  <2>4. pcm' \in [Streams -> Seq(Segment)]
    BY <1>8, <2>3, DeliverType DEF DecodeFinal
  <2>5. NoStream \in StreamRecord
    BY LadderAssumption DEF NoStream, StreamRecord, BlockSizes, MaxOf
  <2>6. QED
    BY <1>8, <2>1, <2>4, <2>5
    DEF DecodeFinal, TypeOK, NoEmitter, Phases, StreamRecord
<1>9. CASE DecodeRaises(r, k, ref, final)
  <2>1. s.codes \in Nat
    BY <1>2 DEF StreamRecord
  <2> HIDE DEF s
  <2>2. BankFor(0, s.codes, TRUE) \in Nat
    BY <2>1, BankType
  <2>3. NoStream \in StreamRecord
    BY LadderAssumption DEF NoStream, StreamRecord, BlockSizes, MaxOf
  <2>4. QED
    BY <1>9, <2>2, <2>3 DEF DecodeRaises, TypeOK, Phases, StreamRecord, s
<1>10. QED
  BY <1>4, <1>5, <1>6, <1>7, <1>8, <1>9 DEF Forward

\* A released stream keeps every variable in its type.
LEMMA ReleaseType ==
  ASSUME TypeOK, NEW r \in Streams, Release(r)
  PROVE  TypeOK'
<1>1. NoStream \in StreamRecord
  BY LadderAssumption DEF NoStream, StreamRecord, BlockSizes, MaxOf
<1>2. QED
  BY <1>1 DEF Release, TypeOK, NoEmitter, Phases, StreamRecord

\* An id used again keeps every variable in its type.
LEMMA ReopenType ==
  ASSUME TypeOK, NEW r \in Streams, Reopen(r)
  PROVE  TypeOK'
  BY DEF Reopen, TypeOK, Phases

\* Every variable starts in its type.
LEMMA InitType == Init => TypeOK
<1>1. 0 \in BlockSizes
  BY LadderAssumption DEF BlockSizes, MaxOf
<1>2. QED
  BY <1>1 DEF Init, TypeOK, NoStream, NoEmitter, Phases

\* Every step leaves every variable in its type.
LEMMA StepType == TypeOK /\ [Next]_vars => TypeOK'
<1> SUFFICES ASSUME TypeOK, [Next]_vars PROVE TypeOK'
  OBVIOUS
<1>1. CASE UNCHANGED vars
  BY <1>1 DEF vars, TypeOK
<1>2. CASE Next
  BY <1>2, ForwardType, ReleaseType, ReopenType DEF Next, Step
<1>3. QED
  BY <1>1, <1>2

\* The buffer, schedule, emitter and history of every stream keep their types:
\* no block outgrows the ladder, no count of samples goes below zero.
THEOREM TypeCorrect == Spec => []TypeOK
<1>1. QED
  BY InitType, StepType, PTL DEF Spec

-----------------------------------------------------------------------------
(* The audio of a stream is unbroken                                       *)

\* StreamInv, stream by stream.
StreamOK(r) ==
  /\ phase[r] # "failed"
  /\ Unbroken(pcm[r])
  /\ phase[r] = "closed" => EndOf(pcm[r]) = FinalSampleLimit(decoded[r])
  /\ NothingLeft(r)
  /\ phase[r] = "open" =>
       ScheduleInv(stream[r]) /\ EmitterInv(stream[r], emitter[r], pcm[r])

\* The invariant is a statement about each stream on its own.
LEMMA StreamByStream == StreamInv <=> \A r \in Streams : StreamOK(r)
  BY DEF StreamInv, StreamOK, NoWindowGap, ExactlyOnce, CompleteAtClose, Unbroken

\* A step of one stream leaves the others untouched.
LEMMA OthersUntouched ==
  ASSUME TypeOK, NEW r \in Streams, NEW q \in Streams, q # r,
         \/ \E k \in 0..MaxPayload, ref, final \in BOOLEAN : Forward(r, k, ref, final)
         \/ Release(r)
         \/ Reopen(r)
  PROVE  /\ stream'[q] = stream[q] /\ emitter'[q] = emitter[q] /\ bank'[q] = bank[q]
         /\ pcm'[q] = pcm[q] /\ decoded'[q] = decoded[q] /\ phase'[q] = phase[q]
<1>1. CASE Release(r) \/ Reopen(r)
  BY <1>1 DEF Release, Reopen, TypeOK
<1>2. ASSUME NEW k \in 0..MaxPayload, NEW ref \in BOOLEAN, NEW final \in BOOLEAN,
             Forward(r, k, ref, final)
      PROVE  /\ stream'[q] = stream[q] /\ emitter'[q] = emitter[q] /\ bank'[q] = bank[q]
             /\ pcm'[q] = pcm[q] /\ decoded'[q] = decoded[q] /\ phase'[q] = phase[q]
  <2>1. CASE DropUnvoiced(r, k, ref, final)
    BY <2>1 DEF DropUnvoiced, TypeOK
  <2>2. CASE KeepReference(r, k, ref, final)
    BY <2>2 DEF KeepReference, TypeOK
  <2>3. CASE Buffer(r, k, ref, final)
    BY <2>3 DEF Buffer, TypeOK
  <2>4. CASE DecodeRung(r, k, ref, final)
    <3>1. /\ UNCHANGED decoded
          /\ \E new : stream' = [stream EXCEPT ![r] = new]
          /\ \/ UNCHANGED <<bank, emitter, pcm, phase>>
             \/ /\ \E size : bank' = [bank EXCEPT ![r] = size]
                /\ \E base, n : EmitSlice(r, base, n)
      <4> DEFINE s == Laddered(Received(r, k, ref))
      <4>1. /\ UNCHANGED decoded /\ stream' = [stream EXCEPT ![r] = Advanced(s)]
            /\ RenderRung(r, WindowStart(s), s.next - WindowStart(s))
        BY <2>4 DEF DecodeRung
      <4> HIDE DEF s
      <4>2. ASSUME NEW offset, NEW len, RenderRung(r, offset, len)
            PROVE  \/ UNCHANGED <<bank, emitter, pcm, phase>>
                   \/ /\ \E size : bank' = [bank EXCEPT ![r] = size]
                      /\ \E base, n : EmitSlice(r, base, n)
        <5>1. CASE Rendered(len, FALSE)
          <6>1. /\ bank' = [bank EXCEPT ![r] = BankFor(offset, len, FALSE)]
                /\ EmitSlice(r, offset * SamplesPerCodecToken, AudioSamples(len, FALSE))
            BY <4>2, <5>1 DEF RenderRung
          <6>2. \E base, n : EmitSlice(r, base, n)
            BY <6>1
          <6>3. \E size : bank' = [bank EXCEPT ![r] = size]
            BY <6>1
          <6> QED BY <6>2, <6>3
        <5>2. CASE ~Rendered(len, FALSE)
          BY <4>2, <5>2 DEF RenderRung
        <5> QED BY <5>1, <5>2
      <4>3. QED
        BY <4>1, <4>2
    <3>2. ASSUME NEW base, NEW n, EmitSlice(r, base, n)
          PROVE  /\ emitter'[q] = emitter[q]
                 /\ pcm'[q] = pcm[q] /\ phase'[q] = phase[q]
      BY <3>2 DEF EmitSlice, Deliver, TypeOK
    <3>3. QED
      BY <3>1, <3>2 DEF TypeOK
  <2>5. CASE DecodeFinal(r, k, ref, final)
    BY <2>5 DEF DecodeFinal, Deliver, TypeOK
  <2>6. CASE DecodeRaises(r, k, ref, final)
    BY <2>6 DEF DecodeRaises, TypeOK
  <2>7. QED
    BY <1>2, <2>1, <2>2, <2>3, <2>4, <2>5, <2>6 DEF Forward
<1>3. QED
  BY <1>1, <1>2

\* The others stand as they stood.
LEMMA OthersKept ==
  ASSUME TypeOK, NEW r \in Streams, NEW q \in Streams, q # r, StreamOK(q),
         \/ \E k \in 0..MaxPayload, ref, final \in BOOLEAN : Forward(r, k, ref, final)
         \/ Release(r)
         \/ Reopen(r)
  PROVE  StreamOK(q)'
  BY OthersUntouched DEF StreamOK, NothingLeft

\* Buffering a payload, with the schedule started or not, keeps the schedule.
LEMMA ScheduleKept ==
  ASSUME TypeOK, NEW r \in Streams, ScheduleInv(stream[r]),
         NEW k \in Nat, NEW ref \in BOOLEAN,
         Laddered(Received(r, k, ref)).codes > 0
  PROVE  /\ ScheduleInv(Laddered(Received(r, k, ref)))
         /\ Laddered(Received(r, k, ref)).next # 0
<1> DEFINE old == stream[r]
           got == Received(r, k, ref)
<1>1. old \in StreamRecord
  BY DEF TypeOK, StreamRecord
<1>2. /\ got.codes = old.codes + k /\ got.next = old.next
      /\ got.block = old.block /\ got.last = old.last
      /\ got \in StreamRecord
  <2>1. got \in StreamRecord
    BY ReceivedType
  <2>2. QED
    BY <1>1, <2>1 DEF Received, StreamRecord
<1>3. FirstBlock \in Nat /\ FirstBlock # 0
  BY LadderAssumption
<1> HIDE DEF got
<1>4. CASE got.next = 0
  <2>1. /\ Laddered(got).codes = got.codes /\ Laddered(got).next = FirstBlock
        /\ Laddered(got).block = FirstBlock /\ Laddered(got).last = got.last
    BY <1>2, <1>4 DEF Laddered, StreamRecord
  <2>2. QED
    BY <1>1, <1>2, <1>3, <1>4, <2>1 DEF ScheduleInv, StreamRecord, got
<1>5. CASE got.next # 0
  BY <1>1, <1>2, <1>5 DEF Laddered, ScheduleInv, StreamRecord, got
<1>6. QED
  BY <1>4, <1>5

\* Arithmetic of one rung: with the window reaching back over the margin, the
\* decode starts within what was sent, and only a window at 0 can be too short.
LEMMA RungJoins ==
  ASSUME NEW s \in StreamRecord, s.last < s.next,
         NEW e \in [committed : Nat, tail : {0, Crossfade}],
         NEW segs, EmitterInv(s, e, segs)
  PROVE  /\ WindowStart(s) * 960 <= e.committed
         /\ s.next - WindowStart(s) < Lookahead + MinEmit => s.next < Lookahead + MinEmit
         /\ e.committed = 0 \/ e.committed + Crossfade + Lookahead * 960 <= s.next * 960
<1>1. /\ s.next \in Nat /\ s.last \in Nat /\ e.committed \in Nat
      /\ Lookahead \in Nat /\ MinEmit \in Nat /\ Crossfade \in Nat /\ OverlapMargin \in Nat
  BY AcousticAssumption DEF StreamRecord
<1>2. /\ WindowStart(s) \in Nat /\ WindowStart(s) <= s.next
      /\ WindowStart(s) # 0 => WindowStart(s) + OverlapMargin <= s.last
      /\ WindowStart(s) # 0 => s.next - WindowStart(s) >= Lookahead + MinEmit
  BY WindowReachesBack
<1>3. WindowStart(s) * 960 <= e.committed
  <2>1. CASE WindowStart(s) = 0
    BY <1>1, <2>1
  <2>2. CASE WindowStart(s) # 0
    <3>1. s.last >= Lookahead + MinEmit
      BY <1>1, <1>2, <2>2, MarginAssumption
    <3>2. e.committed + Crossfade + Lookahead * 960 >= s.last * 960
      BY <3>1 DEF EmitterInv
    <3>3. WindowStart(s) * 960 + OverlapMargin * 960 <= s.last * 960
      BY <1>1, <1>2, <2>2
    <3>4. QED
      BY <1>1, <1>2, <3>2, <3>3, MarginAssumption
  <2>3. QED
    BY <2>1, <2>2
<1>4. e.committed = 0 \/ e.committed + Crossfade + Lookahead * 960 <= s.next * 960
  <2>1. e.committed # 0 => e.committed + Crossfade + Lookahead * 960 <= s.last * 960
    BY DEF EmitterInv
  <2>2. s.last * 960 <= s.next * 960
    BY <1>1
  <2>3. QED
    BY <1>1, <2>1, <2>2
<1>5. QED
  BY <1>1, <1>2, <1>3, <1>4

\* A rung that renders keeps the audio unbroken, and cannot open a gap.
LEMMA EmitSliceKept ==
  ASSUME TypeOK, NEW r \in Streams, StreamOK(r), phase[r] = "open",
         NEW s \in StreamRecord, s.last = stream[r].last, s.last < s.next,
         NEW n \in Nat, n = (s.next - WindowStart(s) - Lookahead) * 960,
         EmitSlice(r, WindowStart(s) * 960, n),
         NEW after, after.last = s.next
  PROVE  /\ phase' = phase
         /\ Unbroken(pcm[r])'
         /\ EmitterInv(after, emitter[r]', pcm[r]')
<1> DEFINE base == WindowStart(s) * 960
           cut == base + n - Crossfade
           e == emitter[r]
<1>1. /\ e \in [committed : Nat, tail : {0, Crossfade}] /\ e.committed \in Nat
      /\ pcm[r] \in Seq(Segment) /\ Unbroken(pcm[r])
      /\ EmitterInv(stream[r], e, pcm[r])
  BY DEF TypeOK, StreamOK
<1>2. EmitterInv(s, e, pcm[r])
  BY <1>1 DEF EmitterInv
<1>3. /\ WindowStart(s) \in Nat /\ s.next \in Nat
      /\ Lookahead \in Nat /\ Crossfade \in Nat \ {0}
  BY WindowType, AcousticAssumption DEF StreamRecord
<1>4. /\ base <= e.committed
      /\ e.committed + Crossfade + Lookahead * 960 <= s.next * 960 \/ e.committed = 0
  <2> HIDE DEF e
  <2>1. QED
    BY <1>1, <1>2, RungJoins
<1>5. /\ base \in Nat /\ cut \in Int /\ cut <= base + n
      /\ cut + Crossfade + Lookahead * 960 = s.next * 960
  <2>1. ASSUME NEW w \in Nat, n = (s.next - w - Lookahead) * 960
        PROVE  /\ w * 960 \in Nat /\ w * 960 + n - Crossfade \in Int
               /\ w * 960 + n - Crossfade <= w * 960 + n
               /\ w * 960 + n - Crossfade + Crossfade + Lookahead * 960 = s.next * 960
    BY <1>3, <2>1
  <2>2. QED
    BY <1>3, <2>1
<1>6. \/ /\ cut <= e.committed
         /\ UNCHANGED <<emitter, pcm, phase>>
      \/ /\ cut > e.committed /\ base > e.committed
      \/ /\ cut > e.committed /\ base <= e.committed
         /\ Deliver(r, Sent(e, base, n, cut))
         /\ emitter' = [emitter EXCEPT ![r] = [committed |-> cut, tail |-> Crossfade]]
         /\ UNCHANGED phase
  BY DEF EmitSlice
<1> HIDE DEF base, cut, e
<1>8. CASE /\ cut <= e.committed
           /\ UNCHANGED <<emitter, pcm, phase>>
  <2>1. e.committed + Crossfade + Lookahead * 960 >= s.next * 960
    BY <1>1, <1>4, <1>3, <1>5, <1>8
  <2>2. e.committed # 0 => e.committed + Crossfade + Lookahead * 960 <= s.next * 960
    BY <1>4
  <2>3. emitter[r]' = e /\ pcm[r]' = pcm[r]
    BY <1>8 DEF e
  <2>4. QED
    BY <1>1, <1>8, <2>1, <2>2, <2>3 DEF EmitterInv
<1>9. CASE cut > e.committed /\ base > e.committed
  BY <1>1, <1>4, <1>3, <1>5, <1>9
<1>10. CASE /\ cut > e.committed /\ base <= e.committed
            /\ Deliver(r, Sent(e, base, n, cut))
            /\ emitter' = [emitter EXCEPT ![r] = [committed |-> cut, tail |-> Crossfade]]
            /\ UNCHANGED phase
  <2> DEFINE seg == [from |-> e.committed, to |-> cut]
  <2>1. cut \in Nat /\ e.committed <= cut
    BY <1>1, <1>5, <1>10
  <2>2. e.tail = 0 <=> e.committed = 0
    BY <1>2 DEF EmitterInv
  <2>3. Sent(e, base, n, cut) = [from |-> e.committed, to |-> cut]
    <3>1. base \in Nat /\ n \in Nat /\ cut \in Nat
      BY <1>5, <2>1
    <3>2. base <= e.committed /\ e.committed <= cut /\ cut <= base + n
      BY <1>5, <1>10, <2>1
    <3>3. QED
      BY <1>1, <2>2, <3>1, <3>2, SentJoins
  <2>4. Sent(e, base, n, cut) = seg /\ seg \in Segment /\ seg.from = e.committed /\ seg.to = cut /\ seg.from # seg.to
    BY <1>1, <1>10, <2>1, <2>3 DEF Segment
  <2>5. e.committed = EndOf(pcm[r])
    BY <1>2 DEF EmitterInv
  <2>6. seg.from < seg.to
    BY <1>10
  <2> HIDE DEF seg
  <2>7. /\ pcm[r]' = Append(pcm[r], seg)
        /\ emitter[r]' = [committed |-> cut, tail |-> Crossfade]
    BY <1>10, <2>4 DEF Deliver, TypeOK
  <2>8. Unbroken(Append(pcm[r], seg)) /\ EndOf(Append(pcm[r], seg)) = cut
    BY <1>1, <2>4, <2>5, <2>6, AppendUnbroken
  <2>9. emitter[r]'.committed = cut /\ emitter[r]'.tail = Crossfade
    BY <2>7
  <2>10. cut # 0 /\ Crossfade # 0
    BY <1>1, <1>3, <1>5, <1>10, <2>1
  <2>11. EmitterInv(after, emitter[r]', pcm[r]')
    BY <1>4, <1>3, <1>5, <2>1, <2>7, <2>8, <2>9, <2>10 DEF EmitterInv
  <2>12. QED
    BY <1>10, <2>7, <2>8, <2>11
<1>11. QED
  BY <1>6, <1>8, <1>9, <1>10

\* A payload that decodes nothing keeps the stream as it should be.
LEMMA BufferedKept ==
  ASSUME TypeOK, NEW r \in Streams, StreamOK(r),
         NEW k \in Nat, NEW ref \in BOOLEAN, NEW final \in BOOLEAN,
         \/ DropUnvoiced(r, k, ref, final)
         \/ KeepReference(r, k, ref, final)
         \/ Buffer(r, k, ref, final)
  PROVE  StreamOK(r)'
<1> DEFINE s == Laddered(Received(r, k, ref))
<1>1. phase[r] = "open" /\ UNCHANGED <<emitter, bank, pcm, decoded>>
  BY DEF DropUnvoiced, KeepReference, Buffer, Payload
<1>2. /\ ScheduleInv(stream[r]) /\ EmitterInv(stream[r], emitter[r], pcm[r])
      /\ Unbroken(pcm[r])
  BY <1>1 DEF StreamOK
<1>3. CASE DropUnvoiced(r, k, ref, final)
  BY <1>1, <1>2, <1>3 DEF DropUnvoiced, StreamOK, NothingLeft, TypeOK
<1>4. CASE KeepReference(r, k, ref, final)
  <2> DEFINE got == Received(r, k, ref)
  <2>1. got \in StreamRecord /\ stream[r] \in StreamRecord
    BY ReceivedType DEF TypeOK, StreamRecord
  <2>2. /\ got.codes = stream[r].codes + k /\ got.next = stream[r].next
        /\ got.block = stream[r].block /\ got.last = stream[r].last
    BY <2>1 DEF Received, StreamRecord
  <2>3. got.codes = 0 /\ stream[r]' = got
    BY <1>4 DEF KeepReference, TypeOK
  <2> HIDE DEF got
  <2>4. stream[r].codes = 0
    BY <2>1, <2>2, <2>3 DEF StreamRecord
  <2>5. ScheduleInv(got) /\ EmitterInv(got, emitter[r], pcm[r])
    BY <1>2, <2>2, <2>3, <2>4 DEF ScheduleInv, EmitterInv
  <2>6. phase[r]' \in {"open", "silent"}
    BY <1>4 DEF KeepReference, TypeOK
  <2>7. QED
    BY <1>1, <1>2, <2>3, <2>5, <2>6 DEF StreamOK, NothingLeft
<1>5. CASE Buffer(r, k, ref, final)
  <2>1. stream[r]' = s /\ s.codes > 0 /\ phase' = phase
    BY <1>5 DEF Buffer, TypeOK
  <2>2. ScheduleInv(s)
    BY <1>2, <2>1, ScheduleKept
  <2>3. s.last = stream[r].last
    BY ReceivedType
  <2> HIDE DEF s
  <2>4. EmitterInv(s, emitter[r], pcm[r])
    BY <1>2, <2>3 DEF EmitterInv
  <2>5. QED
    BY <1>1, <1>2, <2>1, <2>2, <2>4 DEF StreamOK, NothingLeft
<1>6. QED
  BY <1>3, <1>4, <1>5

\* A decode of a rung keeps the stream as it should be.
LEMMA DecodeRungKept ==
  ASSUME TypeOK, NEW r \in Streams, StreamOK(r),
         NEW k \in Nat, NEW ref \in BOOLEAN, NEW final \in BOOLEAN,
         DecodeRung(r, k, ref, final)
  PROVE  StreamOK(r)'
<1> DEFINE s == Laddered(Received(r, k, ref))
<1>1. phase[r] = "open" /\ UNCHANGED decoded /\ s.codes > 0 /\ s.codes >= s.next
  BY DEF DecodeRung, Payload
<1>2. /\ ScheduleInv(stream[r]) /\ EmitterInv(stream[r], emitter[r], pcm[r])
      /\ Unbroken(pcm[r])
  BY <1>1 DEF StreamOK
<1>3. s \in StreamRecord /\ s.last = stream[r].last
  BY ReceivedType
<1>4. ScheduleInv(s) /\ s.next # 0
  BY <1>1, <1>2, ScheduleKept
<1>5. stream[r]' = Advanced(s)
  BY DEF DecodeRung, TypeOK
<1>6. IF Rendered(s.next - WindowStart(s), FALSE)
      THEN EmitSlice(r, WindowStart(s) * 960, AudioSamples(s.next - WindowStart(s), FALSE))
      ELSE UNCHANGED <<bank, emitter, pcm, phase>>
  BY Zenon DEF DecodeRung, RenderRung
<1> HIDE DEF s
<1>7. s.next \in Nat /\ s.last \in Nat /\ s.codes \in Nat /\ s.block \in BlockSizes
  BY <1>3 DEF StreamRecord
<1>8. s.last < s.next /\ s.block # 0
  BY <1>4 DEF ScheduleInv
<1>9. NextBlock(s.block) \in Nat /\ NextBlock(s.block) # 0
  BY <1>7, <1>8, NextBlockPositive DEF BlockSizes
<1>10. /\ Advanced(s).last = s.next /\ Advanced(s).codes = s.codes
       /\ Advanced(s).block = NextBlock(s.block)
       /\ Advanced(s).next = s.next + NextBlock(s.block)
  BY <1>3 DEF Advanced, StreamRecord
<1>11. ScheduleInv(Advanced(s))
  BY <1>1, <1>7, <1>9, <1>10 DEF ScheduleInv
<1>12. /\ phase' = phase /\ Unbroken(pcm[r])'
       /\ EmitterInv(Advanced(s), emitter[r]', pcm[r]')
  <2>1. CASE ~Rendered(s.next - WindowStart(s), FALSE)
    <3>0. UNCHANGED <<bank, emitter, pcm, phase>>
      BY <1>6, <2>1, Zenon
    <3>1. EmitterInv(s, emitter[r], pcm[r])
      BY <1>2, <1>3 DEF EmitterInv
    <3>2. emitter[r] \in [committed : Nat, tail : {0, Crossfade}]
      BY DEF TypeOK
    <3>3. /\ s.next - WindowStart(s) < Lookahead + MinEmit => s.next < Lookahead + MinEmit
          /\ \/ emitter[r].committed = 0
             \/ emitter[r].committed + Crossfade + Lookahead * 960 <= s.next * 960
      BY <1>3, <1>8, <3>1, <3>2, RungJoins
    <3>4. s.next - WindowStart(s) < Lookahead + MinEmit
      BY <1>3, <2>1, WindowType, AcousticAssumption DEF Rendered
    <3>5. ~(s.next >= Lookahead + MinEmit)
      BY <1>7, <3>3, <3>4, AcousticAssumption
    <3>6. EmitterInv(Advanced(s), emitter[r], pcm[r])
      BY <1>10, <3>1, <3>3, <3>5 DEF EmitterInv
    <3>7. QED
      BY <1>2, <3>0, <3>6
  <2>2. CASE Rendered(s.next - WindowStart(s), FALSE)
    <3>0. EmitSlice(r, WindowStart(s) * 960, AudioSamples(s.next - WindowStart(s), FALSE))
      BY <1>6, <2>2, Zenon
    <3>1. PICK n : n = AudioSamples(s.next - WindowStart(s), FALSE)
      OBVIOUS
    <3>2. n = (s.next - WindowStart(s) - Lookahead) * 960
      BY <3>1 DEF AudioSamples
    <3>3. n \in Nat
      BY <1>3, <2>2, <3>2, WindowType, AcousticAssumption DEF Rendered
    <3>4. EmitSlice(r, WindowStart(s) * 960, n)
      BY <3>0, <3>1
    <3>5. QED
      BY <1>1, <1>3, <1>8, <1>10, <3>2, <3>3, <3>4, EmitSliceKept
  <2>3. QED
    BY <2>1, <2>2, Zenon
<1>13. QED
  BY <1>1, <1>5, <1>11, <1>12 DEF StreamOK, NothingLeft

\* The final decode delivers the rest, to the sample, and leaves nothing.
LEMMA DecodeFinalKept ==
  ASSUME TypeOK, NEW r \in Streams, StreamOK(r),
         NEW k \in Nat, NEW ref \in BOOLEAN, NEW final \in BOOLEAN,
         DecodeFinal(r, k, ref, final)
  PROVE  StreamOK(r)'
<1> DEFINE s == Laddered(Received(r, k, ref))
           cut == FinalSampleLimit(s.codes)
           e == emitter[r]
           seg == [from |-> e.committed, to |-> cut]
<1>1. s.codes \in Nat /\ s.codes # 0 /\ s.codes > 0 /\ phase[r] = "open"
  BY ReceivedType DEF DecodeFinal, Payload, StreamRecord
<1>2. /\ ScheduleInv(stream[r]) /\ EmitterInv(stream[r], e, pcm[r])
      /\ Unbroken(pcm[r]) /\ pcm[r] \in Seq(Segment)
  BY <1>1 DEF StreamOK, TypeOK
<1>3. /\ AudioSamples(s.codes, TRUE) = cut
      /\ cut \in Nat /\ cut >= (s.codes - 1) * 960 /\ cut > 0
  <2> HIDE DEF s
  <2>1. cut \in Nat /\ cut >= (s.codes - 1) * 960 /\ cut > 0
    BY <1>1, FinalLength
  <2>2. AudioSamples(s.codes, TRUE) = cut
    BY <1>1 DEF AudioSamples, FinalSampleLimit, MinOf, MaxOf
  <2>3. QED
    BY <2>1, <2>2
<1>4. /\ Deliver(r, Sent(e, 0, cut, cut))
      /\ stream[r]' = NoStream /\ emitter[r]' = NoEmitter /\ bank[r]' = 0
      /\ decoded[r]' = s.codes /\ phase[r]' = "closed"
  BY <1>3 DEF DecodeFinal, TypeOK
<1>5. s.last = stream[r].last /\ s \in StreamRecord
  BY ReceivedType
<1>6. s.last \in Nat /\ s.last <= s.codes
  BY <1>1, <1>2, <1>5, ScheduleKept DEF ScheduleInv, StreamRecord
<1>7. e \in [committed : Nat, tail : {0, Crossfade}] /\ e.committed \in Nat
  BY DEF TypeOK
<1>8. e.tail = 0 <=> e.committed = 0
  BY <1>2 DEF EmitterInv
<1>9. e.committed < cut
  <2>1. e.committed # 0 => e.committed + Crossfade + Lookahead * 960 <= s.last * 960
    BY <1>2, <1>5 DEF EmitterInv
  <2> HIDE DEF s, cut, e
  <2>2. QED
    BY <1>1, <1>3, <1>6, <1>7, <2>1, AcousticAssumption
<1>10. e.committed = EndOf(pcm[r])
  BY <1>2 DEF EmitterInv
<1> HIDE DEF s, cut, e
<1>11. Sent(e, 0, cut, cut) = [from |-> e.committed, to |-> cut]
  <2>1. 0 \in Nat /\ 0 <= e.committed /\ e.committed <= cut /\ cut <= 0 + cut
    BY <1>3, <1>7, <1>9
  <2>2. QED
    BY <1>3, <1>7, <1>8, <2>1, SentJoins
<1>12. /\ Sent(e, 0, cut, cut) = seg /\ seg \in Segment
       /\ seg.from = e.committed /\ seg.to = cut /\ seg.from # seg.to /\ seg.from < seg.to
  BY <1>3, <1>7, <1>9, <1>11 DEF Segment
<1> HIDE DEF seg
<1>13. pcm[r]' = Append(pcm[r], seg)
  BY <1>4, <1>12 DEF Deliver, TypeOK
<1>14. Unbroken(Append(pcm[r], seg)) /\ EndOf(Append(pcm[r], seg)) = cut
  BY <1>2, <1>10, <1>12, AppendUnbroken
<1>15. EndOf(pcm[r]') = FinalSampleLimit(decoded[r]')
  BY <1>4, <1>13, <1>14 DEF cut
<1>16. QED
  BY <1>4, <1>13, <1>14, <1>15 DEF StreamOK, NothingLeft

\* A final decode whose vocoder raises sends nothing and leaves the emitter alone.
LEMMA DecodeRaisesKept ==
  ASSUME TypeOK, NEW r \in Streams, StreamOK(r),
         NEW k \in Nat, NEW ref \in BOOLEAN, NEW final \in BOOLEAN,
         DecodeRaises(r, k, ref, final)
  PROVE  StreamOK(r)'
  BY DEF DecodeRaises, StreamOK, NothingLeft, TypeOK

\* An id used again starts where Release left it: at the beginning.
LEMMA ReopenKept ==
  ASSUME TypeOK, NEW r \in Streams, StreamOK(r), Reopen(r)
  PROVE  StreamOK(r)'
<1>1. /\ stream'[r] = NoStream /\ emitter'[r] = NoEmitter
      /\ pcm'[r] = <<>> /\ phase'[r] = "open"
  BY DEF Reopen, StreamOK, NothingLeft, TypeOK
<1>2. ScheduleInv(NoStream) /\ EmitterInv(NoStream, NoEmitter, <<>>) /\ Unbroken(<<>>)
  BY AcousticAssumption
  DEF ScheduleInv, EmitterInv, NoStream, NoEmitter, EndOf, Unbroken
<1>3. QED
  BY <1>1, <1>2 DEF StreamOK, NothingLeft

\* Every step keeps the inductive invariant.
LEMMA StepKept == TypeOK /\ StreamInv /\ [Next]_vars => StreamInv'
<1> SUFFICES ASSUME TypeOK, StreamInv, [Next]_vars PROVE StreamInv'
  OBVIOUS
<1>1. \A r \in Streams : StreamOK(r)
  BY StreamByStream
<1>2. CASE UNCHANGED vars
  BY <1>2 DEF vars, StreamInv, NoWindowGap, ExactlyOnce, CompleteAtClose, NothingLeft
<1>3. ASSUME NEW r \in Streams,
             \/ \E k \in 0..MaxPayload, ref, final \in BOOLEAN : Forward(r, k, ref, final)
             \/ Release(r)
             \/ Reopen(r)
      PROVE  StreamInv'
  <2>1. StreamOK(r)'
    <3>1. CASE Release(r)
      BY <1>1, <3>1 DEF Release, StreamOK, NothingLeft, TypeOK
    <3>2. ASSUME NEW k \in 0..MaxPayload, NEW ref \in BOOLEAN, NEW final \in BOOLEAN,
                 Forward(r, k, ref, final)
          PROVE  StreamOK(r)'
      <4>1. k \in Nat
        BY AcousticAssumption
      <4>2. QED
        BY <1>1, <3>2, <4>1, BufferedKept, DecodeRungKept, DecodeFinalKept, DecodeRaisesKept
        DEF Forward
    <3>3. CASE Reopen(r)
      BY <1>1, <3>3, ReopenKept
    <3>4. QED
      BY <1>3, <3>1, <3>2, <3>3
  <2>2. ASSUME NEW q \in Streams PROVE StreamOK(q)'
    BY <1>1, <1>3, <2>1, OthersKept
  <2>3. QED
    BY <2>2 DEF StreamOK, StreamInv, NoWindowGap, ExactlyOnce, CompleteAtClose, Unbroken
<1>4. QED
  BY <1>2, <1>3 DEF Next, Step

\* The inductive invariant holds before anything arrived.
LEMMA InitKept == Init => StreamInv
<1> SUFFICES ASSUME Init PROVE StreamInv
  OBVIOUS
<1>1. ASSUME NEW r \in Streams PROVE StreamOK(r)
  BY AcousticAssumption
  DEF Init, StreamOK, NothingLeft, Unbroken, ScheduleInv, EmitterInv, NoStream, NoEmitter, EndOf
<1>2. QED
  BY <1>1, StreamByStream

\* The inductive invariant holds of every run.
THEOREM StreamsInvariant == Spec => []StreamInv
<1>1. QED
  BY InitType, StepType, InitKept, StepKept, PTL DEF Spec

\* Every sample goes out once, in order, with no gap: the second streaming
\* invariant of streaming.py, for every ladder and every window.
THEOREM SamplesOnce == Spec => []ExactlyOnce
<1>1. StreamInv => ExactlyOnce
  BY DEF StreamInv
<1>2. QED
  BY <1>1, StreamsInvariant, PTL

\* The AcousticError of _emit_stream_slice is unreachable: an overlap margin of
\* the lookahead, the shortest render and the crossfade is enough.
THEOREM NoGap == Spec => []NoWindowGap
<1>1. StreamInv => NoWindowGap
  BY DEF StreamInv
<1>2. QED
  BY <1>1, StreamsInvariant, PTL

\* A stream closed by its terminal payload has delivered the cropped length of
\* the codes it received, whatever the payloads they came in.
THEOREM WholeAtClose == Spec => []CompleteAtClose
<1>1. StreamInv => CompleteAtClose
  BY DEF StreamInv
<1>2. QED
  BY <1>1, StreamsInvariant, PTL

\* No decode keeps back more than the lookahead and one crossfade.
THEOREM BoundedLag == Spec => []HeldBackBounded
<1>1. StreamInv => HeldBackBounded
  BY DEF StreamInv, EmitterInv, HeldBackBounded
<1>2. QED
  BY <1>1, StreamsInvariant, PTL

-----------------------------------------------------------------------------
(* The noise of a stream                                                   *)

\* An utterance, its prompt and what a rung drops fit in one unit of the bank.
OneUnit == PromptCodes + MaxCodes <= BankUnit + Lookahead

\* The bank of a stream that goes on is not drawn yet, or is one unit long.
BankInv == \A r \in Streams : phase[r] \in {"open", "gone"} => bank[r] \in {0, 2 * BankUnit}

\* Whatever rung of whatever window is decoded, one unit covers it.
LEMMA RungBank ==
  ASSUME OneUnit, NEW offset \in Nat, NEW len \in Nat, offset + len <= MaxCodes
  PROVE  BankFor(offset, len, FALSE) = 2 * BankUnit
<1> DEFINE need == 2 * (PromptCodes + len - Lookahead + offset)
           unit == 2 * BankUnit
<1>1. unit \in Nat /\ unit > 0 /\ need \in Int /\ need <= unit
  BY AcousticAssumption DEF OneUnit
<1> HIDE DEF need, unit
<1>2. MaxOf(0, need - 1) \in 0..(unit - 1)
  BY <1>1 DEF MaxOf
<1>3. MaxOf(0, need - 1) \div unit = 0
  BY <1>1, <1>2
<1>4. (MaxOf(0, need - 1) \div unit + 1) * unit = unit
  BY <1>1, <1>3
<1>5. QED
  BY <1>4 DEF BankFor, need, unit

\* A payload leaves every bank as it is, draws the one unit, or ends the stream.
LEMMA ForwardBank ==
  ASSUME OneUnit, TypeOK, NEW r \in Streams, NEW k \in 0..MaxPayload,
         NEW ref \in BOOLEAN, NEW final \in BOOLEAN, Forward(r, k, ref, final)
  PROVE  \/ bank' = bank
         \/ bank' = [bank EXCEPT ![r] = 2 * BankUnit]
         \/ /\ \E size \in Nat : bank' = [bank EXCEPT ![r] = size]
            /\ phase'[r] \in {"closed", "raised"}
<1> DEFINE s == Laddered(Received(r, k, ref))
<1>1. CASE DropUnvoiced(r, k, ref, final) \/ KeepReference(r, k, ref, final)
             \/ Buffer(r, k, ref, final)
  BY <1>1 DEF DropUnvoiced, KeepReference, Buffer
<1>2. CASE DecodeRung(r, k, ref, final)
  <2>1. s \in StreamRecord /\ s.codes = stream[r].codes + k
    BY ReceivedType, AcousticAssumption
  <2>2. s.codes >= s.next /\ stream[r].codes + k <= MaxCodes
    BY <1>2 DEF DecodeRung, Payload
  <2>3. /\ WindowStart(s) \in Nat /\ s.next - WindowStart(s) \in Nat
        /\ s.next \in Nat /\ s.codes \in Nat
    BY <2>1, WindowType DEF StreamRecord
  <2>4. bank' = bank
          \/ bank' = [bank EXCEPT ![r] = BankFor(WindowStart(s), s.next - WindowStart(s), FALSE)]
    BY <1>2 DEF DecodeRung, RenderRung
  <2> HIDE DEF s
  <2>5. WindowStart(s) + (s.next - WindowStart(s)) <= MaxCodes
    BY <2>1, <2>2, <2>3, AcousticAssumption
  <2>6. QED
    BY <2>3, <2>4, <2>5, RungBank
<1>3. CASE DecodeFinal(r, k, ref, final)
  BY <1>3 DEF DecodeFinal, TypeOK
<1>4. CASE DecodeRaises(r, k, ref, final)
  <2>1. s.codes \in Nat
    BY ReceivedType, AcousticAssumption DEF StreamRecord
  <2>2. bank' = [bank EXCEPT ![r] = BankFor(0, s.codes, TRUE)] /\ phase'[r] = "raised"
    BY <1>4 DEF DecodeRaises, TypeOK
  <2> HIDE DEF s
  <2>3. QED
    BY <2>1, <2>2, BankType
<1>5. QED
  BY <1>1, <1>2, <1>3, <1>4 DEF Forward

\* A step draws no bank but the one unit, and drops one with its stream only.
LEMMA StepBank ==
  ASSUME OneUnit, TypeOK, BankInv, [Next]_vars
  PROVE  /\ BankInv'
         /\ \A r \in Streams : bank[r] # 0 /\ phase'[r] = "open" => bank'[r] = bank[r]
<1>1. CASE UNCHANGED vars
  BY <1>1 DEF vars, BankInv
<1>2. ASSUME NEW r \in Streams, Release(r) \/ Reopen(r)
      PROVE  /\ BankInv'
             /\ \A q \in Streams : bank[q] # 0 /\ phase'[q] = "open" => bank'[q] = bank[q]
  BY <1>2 DEF Release, Reopen, BankInv, TypeOK
<1>3. ASSUME NEW r \in Streams, NEW k \in 0..MaxPayload, NEW ref \in BOOLEAN,
             NEW final \in BOOLEAN, Forward(r, k, ref, final)
      PROVE  /\ BankInv'
             /\ \A q \in Streams : bank[q] # 0 /\ phase'[q] = "open" => bank'[q] = bank[q]
  <2>1. \/ bank' = bank
        \/ bank' = [bank EXCEPT ![r] = 2 * BankUnit]
        \/ /\ \E size \in Nat : bank' = [bank EXCEPT ![r] = size]
           /\ phase'[r] \in {"closed", "raised"}
    BY <1>3, ForwardBank
  <2>2. phase[r] = "open" /\ \A q \in Streams \ {r} : phase'[q] = phase[q] /\ bank'[q] = bank[q]
    <3>1. phase[r] = "open"
      BY <1>3, Zenon
      DEF Forward, DropUnvoiced, KeepReference, Buffer, DecodeRung, DecodeFinal, DecodeRaises, Payload
    <3>2. \A q \in Streams \ {r} : phase'[q] = phase[q] /\ bank'[q] = bank[q]
      BY <1>3, OthersUntouched
    <3>3. QED
      BY <3>1, <3>2
  <2>3. bank'[r] = bank[r] \/ bank'[r] = 2 * BankUnit \/ phase'[r] \in {"closed", "raised"}
    BY <2>1 DEF TypeOK
  <2>4. bank[r] \in {0, 2 * BankUnit}
    BY <2>2 DEF BankInv
  <2>5. QED
    BY <2>2, <2>3, <2>4 DEF BankInv
<1>4. QED
  BY <1>1, <1>2, <1>3 DEF Next, Step

\* The noise of an open stream is drawn once: a prefix decoded again meets the
\* same noise, as long as prompt and utterance fit one unit of the bank (250
\* and 1000 codes of 4096 as deployed).
THEOREM NoiseDrawnOnce == ASSUME OneUnit PROVE Spec => NoiseStable
<1>1. Init => BankInv
  BY DEF Init, BankInv
<1>2. TypeOK /\ BankInv /\ [Next]_vars => BankInv'
  BY StepBank
<1>3. TypeOK /\ BankInv /\ [Next]_vars =>
        [\A r \in Streams : bank[r] # 0 /\ phase'[r] = "open" => bank'[r] = bank[r]]_vars
  BY StepBank
<1>4. QED
  BY <1>1, <1>2, <1>3, TypeCorrect, PTL DEF Spec, NoiseStable

-----------------------------------------------------------------------------
(* The acoustic stage implements PCMLedger: whatever its ladder, window    *)
(* and payloads do, its listener sees audio that grows, and a length that  *)
(* is fixed once, to the crop of the codes decoded.                        *)

\* What a listener has heard, and the length of its utterance once known.
Heard == [r \in Streams |-> EndOf(pcm[r])]
Length == [r \in Streams |-> IF decoded[r] = 0 THEN -1 ELSE FinalSampleLimit(decoded[r])]

Ledger == INSTANCE PCMLedger WITH
  Listeners <- Streams, delivered <- Heard, limit <- Length

\* An open stream has not been decoded to its end.
OpenUndecoded == \A r \in Streams : phase[r] = "open" => decoded[r] = 0

LEMMA UndecodedStarts == Init => OpenUndecoded
  BY DEF Init, OpenUndecoded

LEMMA UndecodedKept == TypeOK /\ OpenUndecoded /\ [Step]_vars => OpenUndecoded'
<1> SUFFICES ASSUME TypeOK, OpenUndecoded, [Step]_vars PROVE OpenUndecoded'
  OBVIOUS
<1>1. CASE UNCHANGED vars
  BY <1>1 DEF vars, OpenUndecoded
<1>2. ASSUME NEW r \in Streams, Release(r) PROVE OpenUndecoded'
  BY <1>2 DEF Release, OpenUndecoded, TypeOK
<1>3. ASSUME NEW r \in Streams, NEW k \in 0..MaxPayload, NEW ref \in BOOLEAN,
             NEW final \in BOOLEAN, Forward(r, k, ref, final)
      PROVE  OpenUndecoded'
  <2>1. CASE DropUnvoiced(r, k, ref, final)
    BY <2>1 DEF DropUnvoiced, Payload, OpenUndecoded, TypeOK
  <2>2. CASE KeepReference(r, k, ref, final)
    BY <2>2 DEF KeepReference, Payload, OpenUndecoded, TypeOK
  <2>3. CASE Buffer(r, k, ref, final)
    BY <2>3 DEF Buffer, OpenUndecoded
  <2>4. CASE DecodeRung(r, k, ref, final)
    <3>1. phase[r] = "open" /\ decoded' = decoded
      BY <2>4 DEF DecodeRung, Payload
    <3>2. UNCHANGED phase \/ \E base, n : EmitSlice(r, base, n)
      BY <2>4 DEF DecodeRung, RenderRung
    <3>3. ASSUME NEW base, NEW n, EmitSlice(r, base, n)
          PROVE  phase' = phase \/ phase' = [phase EXCEPT ![r] = "failed"]
      BY <3>3 DEF EmitSlice
    <3>4. QED
      BY <3>1, <3>2, <3>3 DEF OpenUndecoded, TypeOK
  <2>5. CASE DecodeFinal(r, k, ref, final)
    BY <2>5 DEF DecodeFinal, OpenUndecoded, TypeOK
  <2>6. CASE DecodeRaises(r, k, ref, final)
    BY <2>6 DEF DecodeRaises, OpenUndecoded, TypeOK
  <2>7. QED
    BY <1>3, <2>1, <2>2, <2>3, <2>4, <2>5, <2>6 DEF Forward
<1>4. QED
  BY <1>1, <1>2, <1>3 DEF Step

-----------------------------------------------------------------------------
(* What a step does to what is heard                                       *)

\* Audio is only added to, and to one stream.
Grows(r) ==
  \/ pcm' = pcm
  \/ \E seg \in Segment : pcm' = [pcm EXCEPT ![r] = Append(@, seg)]

LEMMA DeliverGrows ==
  ASSUME NEW r, NEW seg \in Segment, TypeOK, r \in Streams, Deliver(r, seg)
  PROVE  Grows(r)
<1>1. CASE seg.from = seg.to
  <2>1. pcm' = [pcm EXCEPT ![r] = pcm[r]]
    BY <1>1 DEF Deliver
  <2>2. QED
    BY <2>1 DEF Grows, TypeOK
<1>2. CASE seg.from # seg.to
  BY <1>2 DEF Deliver, Grows
<1>3. QED
  BY <1>1, <1>2

LEMMA EndNatural ==
  ASSUME NEW segs \in Seq(Segment)
  PROVE  EndOf(segs) \in Nat
<1>1. segs # <<>> => segs[Len(segs)] \in Segment
  OBVIOUS
<1>2. QED
  BY <1>1 DEF EndOf, Segment

LEMMA HeardGrows ==
  ASSUME TypeOK, TypeOK', StreamInv', NEW r \in Streams, Grows(r)
  PROVE  /\ Heard' = [Heard EXCEPT ![r] = Heard'[r]]
         /\ Heard[r] \in Nat /\ Heard'[r] \in Nat
         /\ Heard' = Heard \/ Heard[r] < Heard'[r]
<1>1. \A q \in Streams : EndOf(pcm[q]) \in Nat
  BY EndNatural DEF TypeOK
<1>2. \A q \in Streams : EndOf(pcm'[q]) \in Nat
  BY EndNatural DEF TypeOK
<1>3. CASE pcm' = pcm
  <2>1. Heard' = Heard
    BY <1>3 DEF Heard
  <2>2. QED
    BY <1>1, <2>1 DEF Heard
<1>4. ASSUME NEW seg \in Segment, pcm' = [pcm EXCEPT ![r] = Append(@, seg)]
      PROVE  Heard' = [Heard EXCEPT ![r] = Heard'[r]] /\ Heard[r] < Heard'[r]
  <2> DEFINE longer == Append(pcm[r], seg)
  <2>1. pcm[r] \in Seq(Segment) /\ pcm'[r] = longer
    BY <1>4 DEF TypeOK
  <2>2. /\ Len(longer) = Len(pcm[r]) + 1 /\ Len(pcm[r]) \in Nat
        /\ \A i \in 1..Len(pcm[r]) : longer[i] = pcm[r][i]
        /\ longer[Len(longer)] = seg
        /\ longer # <<>>
    BY <2>1
  <2> HIDE DEF longer
  <2>3. EndOf(longer) = seg.to
    BY <2>2 DEF EndOf
  <2>4. /\ longer[Len(longer)].from = StartOf(longer, Len(longer))
        /\ longer[Len(longer)].from < longer[Len(longer)].to
    BY <2>1, <2>2 DEF StreamInv, ExactlyOnce
  <2>5. StartOf(longer, Len(longer)) = EndOf(pcm[r])
    BY <2>1, <2>2 DEF StartOf, EndOf
  <2>6. EndOf(pcm[r]) < EndOf(pcm'[r])
    <3>1. longer[Len(longer)].from = EndOf(pcm[r])
      BY <2>4, <2>5
    <3>2. longer[Len(longer)].to = EndOf(longer)
      BY <2>2, <2>3
    <3>3. QED
      BY <2>1, <2>4, <3>1, <3>2
  <2>7. \A q \in Streams : q # r => pcm'[q] = pcm[q]
    BY <1>4 DEF TypeOK
  <2>8. QED
    BY <2>6, <2>7 DEF Heard
<1>5. QED
  BY <1>1, <1>2, <1>3, <1>4 DEF Grows, Heard

-----------------------------------------------------------------------------
(* Refinement                                                              *)

LEMMA LedgerStarts == Init => Ledger!Init
  BY DEF Init, Ledger!Init, Ledger!Open, Heard, Length, EndOf

\* Every step of a stream that is not its last extends what is heard, or
\* changes nothing of it.
LEMMA OpenStep ==
  ASSUME TypeOK, TypeOK', StreamInv', OpenUndecoded, NEW r \in Streams,
         phase[r] = "open", Grows(r), decoded' = decoded
  PROVE  [Ledger!Next]_(Ledger!ledgerVars)
<1>1. Length' = Length /\ Length[r] = -1
  BY DEF Length, OpenUndecoded
<1>2. CASE Heard' = Heard
  BY <1>1, <1>2 DEF Ledger!ledgerVars
<1>3. CASE Heard' # Heard
  <2>1. Heard' = [Heard EXCEPT ![r] = Heard'[r]] /\ Heard'[r] > Heard[r]
    BY <1>3, HeardGrows
  <2>2. Ledger!Extend(r)
    BY <1>1, <2>1 DEF Ledger!Extend, Ledger!Open
  <2>3. QED
    BY <2>2 DEF Ledger!Next
<1>4. QED
  BY <1>2, <1>3

\* The final decode fixes the length and delivers up to it.
LEMMA FinalStep ==
  ASSUME TypeOK, TypeOK', StreamInv, StreamInv', OpenUndecoded, NEW r \in Streams,
         NEW k \in Nat, NEW ref \in BOOLEAN, NEW final \in BOOLEAN,
         DecodeFinal(r, k, ref, final)
  PROVE  Ledger!Seal(r)
<1> DEFINE n == Laddered(Received(r, k, ref)).codes
<1>1. n = stream[r].codes + k /\ n \in Nat
  BY ReceivedType DEF StreamRecord
<1>2. /\ phase[r] = "open" /\ n > 0 /\ n <= MaxCodes
      /\ decoded' = [decoded EXCEPT ![r] = n] /\ phase'[r] = "closed"
      /\ Deliver(r, Sent(emitter[r], 0, AudioSamples(n, TRUE), AudioSamples(n, TRUE)))
  BY <1>1 DEF DecodeFinal, Payload, TypeOK
<1>3. decoded'[r] = n
  BY <1>2 DEF TypeOK
<1> HIDE DEF n
<1>4. Grows(r)
  <2>1. PICK a : a = AudioSamples(n, TRUE)
    OBVIOUS
  <2>2. a \in Nat
    <3>1. n * 960 \in Nat /\ FinalSampleLimit(n) \in Nat
      BY <1>1 DEF FinalSampleLimit, MaxOf
    <3>2. QED
      BY <2>1, <3>1 DEF AudioSamples, MinOf
  <2>3. ASSUME NEW e \in [committed : Nat, tail : {0, Crossfade}]
        PROVE  Sent(e, 0, a, a) \in Segment
    BY <2>2, SentType
  <2>4. Sent(emitter[r], 0, a, a) \in Segment
    BY <2>3 DEF TypeOK
  <2>5. QED
    BY <1>2, <2>1, <2>4, DeliverGrows
<1>5. /\ Heard' = [Heard EXCEPT ![r] = Heard'[r]]
      /\ Heard[r] \in Nat /\ Heard'[r] \in Nat /\ Heard[r] <= Heard'[r]
  BY <1>4, HeardGrows
<1>6. EndOf(pcm'[r]) = FinalSampleLimit(n)
  BY <1>2, <1>3 DEF StreamInv, CompleteAtClose
<1>7. Heard'[r] = FinalSampleLimit(n)
  BY <1>6 DEF Heard
<1>8. Length' = [Length EXCEPT ![r] = FinalSampleLimit(n)] /\ Length[r] = -1
  <2>1. decoded[r] = 0 /\ n # 0
    BY <1>1, <1>2 DEF OpenUndecoded
  <2>2. \A q \in Streams : q # r => decoded'[q] = decoded[q]
    BY <1>2 DEF TypeOK
  <2>3. QED
    BY <1>3, <2>1, <2>2 DEF Length
<1>9. Length'[r] = FinalSampleLimit(n)
  BY <1>8 DEF Length
<1>10. Ledger!FinalSampleLimit(n) = FinalSampleLimit(n)
  BY DEF Ledger!FinalSampleLimit, FinalSampleLimit, Ledger!MaxOf, MaxOf,
         Ledger!SamplesPerCodecToken
<1>11. n \in 0..MaxCodes
  BY <1>1, <1>2, AcousticAssumption
<1>12. Heard'[r] \in Heard[r]..Length'[r]
  BY <1>5, <1>7, <1>9
<1>13. QED
  BY <1>5, <1>8, <1>10, <1>11, <1>12 DEF Ledger!Seal, Ledger!Open

LEMMA LedgerStep ==
  ASSUME TypeOK, TypeOK', StreamInv, StreamInv', OpenUndecoded, [Step]_vars
  PROVE  [Ledger!Next]_(Ledger!ledgerVars)
<1>1. CASE UNCHANGED <<pcm, decoded>>
  BY <1>1 DEF Ledger!ledgerVars, Heard, Length
<1>2. ASSUME NEW r \in Streams, NEW k \in 0..MaxPayload, NEW ref \in BOOLEAN,
             NEW final \in BOOLEAN, Forward(r, k, ref, final)
      PROVE  [Ledger!Next]_(Ledger!ledgerVars)
  <2>0. k \in Nat
    BY AcousticAssumption
  <2>1. CASE \/ DropUnvoiced(r, k, ref, final)
             \/ KeepReference(r, k, ref, final)
             \/ Buffer(r, k, ref, final)
             \/ DecodeRaises(r, k, ref, final)
    BY <1>1, <2>1 DEF DropUnvoiced, KeepReference, Buffer, DecodeRaises
  <2>2. CASE DecodeRung(r, k, ref, final)
    <3> DEFINE s == Laddered(Received(r, k, ref))
               base == WindowStart(s) * SamplesPerCodecToken
               samples == AudioSamples(s.next - WindowStart(s), FALSE)
               cut == base + samples - Crossfade
    <3>1. phase[r] = "open" /\ decoded' = decoded /\ s \in StreamRecord
      BY <2>0, <2>2, ReceivedType DEF DecodeRung, Payload
    <3>2. \/ pcm' = pcm
          \/ /\ Rendered(s.next - WindowStart(s), FALSE)
             /\ Deliver(r, Sent(emitter[r], base, samples, cut))
             /\ cut > emitter[r].committed /\ base <= emitter[r].committed
      <4>1. IF Rendered(s.next - WindowStart(s), FALSE)
            THEN EmitSlice(r, base, samples)
            ELSE UNCHANGED <<bank, emitter, pcm, phase>>
        BY <2>2, Zenon DEF DecodeRung, RenderRung
      <4> HIDE DEF s, base, samples
      <4>2. ASSUME EmitSlice(r, base, samples)
            PROVE  \/ pcm' = pcm
                   \/ /\ Deliver(r, Sent(emitter[r], base, samples, cut))
                      /\ cut > emitter[r].committed /\ base <= emitter[r].committed
        BY <4>2 DEF EmitSlice
      <4>3. CASE Rendered(s.next - WindowStart(s), FALSE)
        BY <4>1, <4>2, <4>3, Zenon
      <4>4. CASE ~Rendered(s.next - WindowStart(s), FALSE)
        BY <4>1, <4>4, Zenon
      <4>5. QED
        BY <4>3, <4>4, Zenon
    <3>3. CASE pcm' = pcm
      BY <3>1, <3>3, OpenStep DEF Grows
    <3>4. CASE /\ Rendered(s.next - WindowStart(s), FALSE)
               /\ Deliver(r, Sent(emitter[r], base, samples, cut))
               /\ cut > emitter[r].committed /\ base <= emitter[r].committed
      <4>1. WindowStart(s) \in Nat /\ s.next \in Nat
        BY <3>1, WindowType DEF StreamRecord
      <4> HIDE DEF s
      <4>2. base \in Nat /\ samples \in Nat /\ cut \in Int
        BY <3>4, <4>1, AcousticAssumption DEF AudioSamples, Rendered
      <4>3. emitter[r] \in [committed : Nat, tail : {0, Crossfade}]
        BY DEF TypeOK
      <4> HIDE DEF base, samples, cut
      <4>4. cut \in Nat
        BY <3>4, <4>2, <4>3
      <4>5. Grows(r)
        BY <3>4, <4>2, <4>3, <4>4, SentType, DeliverGrows
      <4>6. QED
        BY <3>1, <4>5, OpenStep
    <3> HIDE DEF s, base, samples, cut
    <3>5. QED
      BY <3>2, <3>3, <3>4, Zenon
  <2>3. CASE DecodeFinal(r, k, ref, final)
    BY <2>0, <2>3, FinalStep DEF Ledger!Next
  <2>4. QED
    BY <1>2, <2>1, <2>2, <2>3 DEF Forward
<1>3. QED
  BY <1>1, <1>2 DEF Step, vars, Release

\* The acoustic stage implements the ledger its listener is promised, in the one
\* life of each id: the listener of the next has a ledger of its own.
THEOREM StreamsImplementLedger == OneLife => Ledger!LedgerSpec
<1>1. OneLife => Spec
  <2>1. [Step]_vars => [Next]_vars
    BY DEF Next
  <2>2. QED
    BY <2>1, PTL DEF OneLife, Spec
<1>2. OneLife => []OpenUndecoded
  BY <1>1, UndecodedStarts, UndecodedKept, TypeCorrect, PTL DEF OneLife
<1>3. QED
  BY <1>1, <1>2, TypeCorrect, StreamsInvariant, LedgerStarts, LedgerStep, PTL
  DEF OneLife, Ledger!LedgerSpec
=============================================================================

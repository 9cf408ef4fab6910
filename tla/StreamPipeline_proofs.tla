------------------------ MODULE StreamPipeline_proofs ------------------------
(***************************************************************************)
(* The streaming path end to end, for every ladder and every utterance.    *)
(* Each step of the path is a step of one stage, so what is proved of each *)
(* stage on its own holds of it here; what ties them is LinkInv: once the  *)
(* first payload brought the voice, stage 1 holds the codes of those       *)
(* delivered and stands on the rung that stage 0 cuts next; where it did   *)
(* not, no later one does and stage 1 holds nothing.                       *)
(***************************************************************************)
EXTENDS StreamPipeline, TLAPS

P == INSTANCE CodecTransport_proofs
A == INSTANCE AcousticStream_proofs WITH
  Streams <- Rows, MaxPayload <- MaxTokens, MaxCodes <- MaxTokens

\* The constants are those of either stage.
LEMMA Assumed ==
  /\ P!LadderAssumption /\ P!TransportAssumption
  /\ A!LadderAssumption /\ A!AcousticAssumption /\ A!MarginAssumption
  BY PipelineAssumption, LadderAssumption
  DEF P!LadderAssumption, P!TransportAssumption, A!LadderAssumption, A!AcousticAssumption,
      A!MarginAssumption, A!SamplesPerCodecToken, SamplesPerCodecToken

-----------------------------------------------------------------------------
(* The steps of the path are steps of the stages                           *)

LEMMA SameCodes ==
  ASSUME NEW r
  PROVE  /\ Producer!Utterance(r) = P!Utterance(r) /\ Producer!Sampled(r) = P!Sampled(r)
         /\ Producer!IsCompanion(r) = P!IsCompanion(r)
<1>1. Producer!Utterance(r) = P!Utterance(r)
  BY Zenon DEF Producer!Utterance, P!Utterance, Producer!CodesOf, P!CodesOf, Producer!Picked, P!Picked,
    Producer!Kept, P!Kept, Producer!IsCode, P!IsCode, Producer!Codes, P!Codes,
    Producer!Cardinality, P!Cardinality, Producer!IsFiniteSet, P!IsFiniteSet
<1>2. Producer!ControlCount(r) = P!ControlCount(r)
  BY Zenon DEF Producer!ControlCount, P!ControlCount, Producer!IsCode, P!IsCode, Producer!Codes, P!Codes
<1>3. Producer!Sampled(r) = P!Sampled(r)
  BY <1>2, Zenon DEF Producer!Sampled, P!Sampled, Producer!Control, P!Control, Producer!IsCode, P!IsCode,
    Producer!Codes, P!Codes
<1>4. Producer!IsCompanion(r) = P!IsCompanion(r)
  BY Zenon DEF Producer!IsCompanion, P!IsCompanion
<1> QED BY <1>1, <1>3, <1>4

\* A callback of stage 0.
LEMMA SameCallback == ASSUME NEW r, Producer!Callback(r) PROVE P!Callback(r)
<1>1. CASE Producer!CallbackUncond(r)
  <2>1. P!CallbackUncond(r)
    BY <1>1, Zenon
    DEF Producer!CallbackUncond, P!CallbackUncond, Producer!IsCompanion, P!IsCompanion,
      Producer!Called, P!Called, Producer!TerminalSent, P!TerminalSent, Producer!Finished,
      P!Finished, Producer!CursorOf, P!CursorOf, Producer!NewCursor, P!NewCursor,
      Producer!NoCursor, P!NoCursor, Producer!Publish, P!Publish, Producer!Released,
      P!Released
  <2> QED BY <2>1 DEF P!Callback
<1>2. CASE Producer!CallbackRefused(r)
  <2>1. P!CallbackRefused(r)
    BY <1>2, Zenon
    DEF Producer!CallbackRefused, P!CallbackRefused, Producer!IsCompanion, P!IsCompanion,
      Producer!Called, P!Called, Producer!TerminalSent, P!TerminalSent,
      Producer!Contradicts, P!Contradicts, Producer!CursorOf, P!CursorOf,
      Producer!NewCursor, P!NewCursor, Producer!NoCursor, P!NoCursor, Producer!IsPrefix,
      P!IsPrefix
  <2> QED BY <2>1 DEF P!Callback
<1>3. CASE Producer!CallbackCond(r)
  <2>1. P!CallbackCond(r)
    BY <1>3, Zenon
    DEF Producer!CallbackCond, P!CallbackCond, Producer!IsCompanion, P!IsCompanion,
      Producer!Called, P!Called, Producer!TerminalSent, P!TerminalSent, Producer!Finished,
      P!Finished, Producer!Contradicts, P!Contradicts, Producer!CursorOf, P!CursorOf,
      Producer!NewCursor, P!NewCursor, Producer!NoCursor, P!NoCursor,
      Producer!MarkFinished, P!MarkFinished, Producer!Observe, P!Observe,
      Producer!CodesOf, P!CodesOf, Producer!Picked, P!Picked, Producer!Kept, P!Kept,
      Producer!IsCode, P!IsCode, Producer!Codes, P!Codes, Producer!Cardinality,
      P!Cardinality, Producer!IsFiniteSet, P!IsFiniteSet, Producer!Terminal, P!Terminal,
      Producer!Taken, P!Taken, Producer!TakeCount, P!TakeCount, Producer!NextBlock,
      P!NextBlock, Producer!MinOf, P!MinOf, Producer!Publish, P!Publish,
      Producer!CarriesReference, P!CarriesReference, Producer!Released, P!Released,
      Producer!IsPrefix, P!IsPrefix, Producer!Range, P!Range
  <2> QED BY <2>1 DEF P!Callback
<1> QED BY <1>1, <1>2, <1>3 DEF Producer!Callback

\* Every step of the path is a step of stage 0, or leaves it alone.
LEMMA ProducerStep == [Next]_vars => [P!Next]_(P!vars)
<1> SUFFICES ASSUME [Next]_vars PROVE [P!Next]_(P!vars)
  OBVIOUS
<1>1. CASE UNCHANGED stage0
  BY <1>1 DEF stage0, P!vars
<1>2. ASSUME NEW r \in Rows, NEW t \in Producer!Sampled(r), Generate(r, t) PROVE P!Next
  <2>1. t \in P!Sampled(r)
    BY SameCodes
  <2>2. P!Generate(r, t)
    BY <1>2, <2>1, SameCodes DEF Generate, Producer!Generate, P!Generate
  <2> QED BY <2>1, <2>2 DEF P!Next
<1>3. ASSUME NEW r \in Rows, Callback(r) PROVE P!Next
  BY <1>3, SameCallback DEF Callback, P!Next
<1>4. ASSUME NEW r \in Rows, Finish(r) PROVE P!Next
  BY <1>4 DEF Finish, Producer!Finish, P!Finish, P!Next
<1>5. ASSUME NEW r \in Rows, Cancel(r) PROVE P!Next
  BY <1>5 DEF Cancel, Producer!Abort, P!Abort, P!Next
<1>6. ASSUME NEW r \in Rows, Deliver(r) \/ DropBare(r) \/ Release(r) PROVE UNCHANGED stage0
  BY <1>6 DEF Deliver, DropBare, Release
<1> QED BY <1>1, <1>2, <1>3, <1>4, <1>5, <1>6 DEF Next, vars

\* The decode schedule of stage 1.
LEMMA SameSchedule ==
  ASSUME NEW r, NEW k, NEW ref, NEW s
  PROVE  /\ Acoustic!Received(r, k, ref) = A!Received(r, k, ref)
         /\ Acoustic!Laddered(Acoustic!Received(r, k, ref)) = A!Laddered(A!Received(r, k, ref))
         /\ Acoustic!WindowStart(s) = A!WindowStart(s)
         /\ Acoustic!Advanced(s) = A!Advanced(s)
         /\ Acoustic!Payload(r, k) = A!Payload(r, k)
         /\ Acoustic!NoStream = A!NoStream /\ Acoustic!NoEmitter = A!NoEmitter
  BY DEF Acoustic!Received, A!Received, Acoustic!Laddered, A!Laddered, Acoustic!WindowStart,
      A!WindowStart, Acoustic!Advanced, A!Advanced, Acoustic!NextBlock, A!NextBlock,
      Acoustic!MinOf, A!MinOf, Acoustic!MaxOf, A!MaxOf, Acoustic!Payload, A!Payload,
      Acoustic!NoStream, A!NoStream, Acoustic!NoEmitter, A!NoEmitter

\* The samples of a decode.
LEMMA SameAudio ==
  ASSUME NEW len, NEW final, NEW offset, NEW e, NEW base, NEW n, NEW cut
  PROVE  /\ Acoustic!AudioSamples(len, final) = A!AudioSamples(len, final)
         /\ Acoustic!Rendered(len, final) = A!Rendered(len, final)
         /\ Acoustic!BankFor(offset, len, final) = A!BankFor(offset, len, final)
         /\ Acoustic!Sent(e, base, n, cut) = A!Sent(e, base, n, cut)
  BY DEF Acoustic!AudioSamples, A!AudioSamples, Acoustic!Rendered, A!Rendered,
      Acoustic!BankFor, A!BankFor, Acoustic!Sent, A!Sent, Acoustic!Slice, A!Slice,
      Acoustic!FinalSampleLimit, A!FinalSampleLimit, Acoustic!SamplesPerCodecToken,
      A!SamplesPerCodecToken, Acoustic!MinOf, A!MinOf, Acoustic!MaxOf, A!MaxOf

\* What is emitted of them.
LEMMA SameEmit ==
  ASSUME NEW r, NEW base, NEW n, NEW seg
  PROVE  /\ Acoustic!Deliver(r, seg) <=> A!Deliver(r, seg)
         /\ Acoustic!EmitSlice(r, base, n) <=> A!EmitSlice(r, base, n)
<1>1. \A x : Acoustic!Deliver(r, x) <=> A!Deliver(r, x)
  BY Zenon DEF Acoustic!Deliver, A!Deliver
<1>2. \A e, cut : Acoustic!Sent(e, base, n, cut) = A!Sent(e, base, n, cut)
  BY SameAudio
<1>3. Acoustic!EmitSlice(r, base, n) <=> A!EmitSlice(r, base, n)
  BY <1>1, <1>2, Zenon DEF Acoustic!EmitSlice, A!EmitSlice
<1> QED BY <1>1, <1>3

\* The decode of a rung.
LEMMA SameRender ==
  ASSUME NEW r, NEW offset, NEW len
  PROVE  Acoustic!RenderRung(r, offset, len) <=> A!RenderRung(r, offset, len)
<1> DEFINE n == Acoustic!AudioSamples(len, FALSE)
           m == A!AudioSamples(len, FALSE)
           base == offset * 960
<1>1. Acoustic!Rendered(len, FALSE) <=> A!Rendered(len, FALSE)
  BY SameAudio
<1>2. n = m
  BY SameAudio
<1>3. Acoustic!BankFor(offset, len, FALSE) = A!BankFor(offset, len, FALSE)
  BY SameAudio
<1>4. Acoustic!EmitSlice(r, base, n) <=> A!EmitSlice(r, base, n)
  <2> HIDE DEF n, base
  <2> QED BY SameEmit
<1>5. A!EmitSlice(r, base, n) <=> A!EmitSlice(r, base, m)
  <2> HIDE DEF n, m, base
  <2> QED BY <1>2
<1>6. Acoustic!RenderRung(r, offset, len) <=>
        IF Acoustic!Rendered(len, FALSE)
        THEN /\ bank' = [bank EXCEPT ![r] = Acoustic!BankFor(offset, len, FALSE)]
             /\ Acoustic!EmitSlice(r, base, n)
        ELSE UNCHANGED <<bank, emitter, pcm, phase>>
  BY Zenon DEF Acoustic!RenderRung, Acoustic!SamplesPerCodecToken
<1>7. A!RenderRung(r, offset, len) <=>
        IF A!Rendered(len, FALSE)
        THEN /\ bank' = [bank EXCEPT ![r] = A!BankFor(offset, len, FALSE)]
             /\ A!EmitSlice(r, base, m)
        ELSE UNCHANGED <<bank, emitter, pcm, phase>>
  BY Zenon DEF A!RenderRung, A!SamplesPerCodecToken
<1> HIDE DEF n, m, base
<1> QED BY <1>1, <1>3, <1>4, <1>5, <1>6, <1>7

\* What stage 1 does with a payload.
LEMMA SameForward ==
  ASSUME NEW r, NEW k, NEW ref, NEW final, Acoustic!Forward(r, k, ref, final)
  PROVE  A!Forward(r, k, ref, final)
<1>1. CASE Acoustic!DecodeRung(r, k, ref, final)
  <2>1. A!DecodeRung(r, k, ref, final)
    BY <1>1, SameSchedule, SameRender DEF Acoustic!DecodeRung, A!DecodeRung
  <2> QED BY <2>1 DEF A!Forward
<1>2. CASE Acoustic!DecodeFinal(r, k, ref, final)
  <2>1. \A n : Acoustic!AudioSamples(n, TRUE) = A!AudioSamples(n, TRUE)
    BY SameAudio
  <2>2. \A e, n : Acoustic!Sent(e, 0, n, n) = A!Sent(e, 0, n, n)
    BY SameAudio
  <2>3. \A x : Acoustic!Deliver(r, x) <=> A!Deliver(r, x)
    BY SameEmit
  <2>4. A!DecodeFinal(r, k, ref, final)
    BY <1>2, <2>1, <2>2, <2>3, SameSchedule DEF Acoustic!DecodeFinal, A!DecodeFinal
  <2> QED BY <2>4 DEF A!Forward
<1>3. CASE \/ Acoustic!DropUnvoiced(r, k, ref, final)
           \/ Acoustic!KeepReference(r, k, ref, final)
           \/ Acoustic!Buffer(r, k, ref, final)
  BY <1>3, SameSchedule
  DEF Acoustic!DropUnvoiced, A!DropUnvoiced, Acoustic!KeepReference, A!KeepReference,
      Acoustic!Buffer, A!Buffer, A!Forward
<1>4. CASE Acoustic!DecodeRaises(r, k, ref, final)
  <2>1. \A n : Acoustic!BankFor(0, n, TRUE) = A!BankFor(0, n, TRUE)
    BY SameAudio
  <2>2. A!DecodeRaises(r, k, ref, final)
    BY <1>4, <2>1, SameSchedule DEF Acoustic!DecodeRaises, A!DecodeRaises
  <2> QED BY <2>2 DEF A!Forward
<1> QED BY <1>1, <1>2, <1>3, <1>4 DEF Acoustic!Forward

LEMMA SameRelease == ASSUME NEW r, Acoustic!Release(r) PROVE A!Release(r)
  BY SameSchedule DEF Acoustic!Release, A!Release

-----------------------------------------------------------------------------
(* Stage 0 on the path                                                     *)

\* What is proved of stage 0, of a path that submits every id once.
ProducerInv ==
  /\ P!TypeOK /\ P!EndInv /\ P!DataInv /\ P!OutputBound
  /\ \A r \in Rows : epoch[r] = 1

LEMMA ProducerStarts == Init => ProducerInv
<1> SUFFICES ASSUME Init PROVE ProducerInv
  OBVIOUS
<1>1. P!Init
  BY Zenon DEF Init, Producer!Init, P!Init, Producer!NoCursor, P!NoCursor
<1>2. P!TypeOK /\ P!EndInv /\ P!DataInv /\ P!OutputBound
  BY <1>1, Assumed, P!InitType, P!InitEnd, P!InitData, P!InitBound
<1>3. \A r \in Rows : epoch[r] = 1
  BY <1>1 DEF P!Init
<1> QED BY <1>2, <1>3 DEF ProducerInv

LEMMA ProducerKept == ProducerInv /\ [Next]_vars => ProducerInv'
<1> SUFFICES ASSUME ProducerInv, [Next]_vars PROVE ProducerInv'
  OBVIOUS
<1>1. P!TypeOK /\ P!EndInv /\ P!DataInv /\ P!OutputBound /\ [P!Next]_(P!vars)
  BY ProducerStep DEF ProducerInv
<1>2. P!TypeOK' /\ P!EndInv' /\ P!DataInv' /\ P!OutputBound'
  BY <1>1, Assumed, P!StepType, P!NextEnd, P!StepData, P!StepBound
<1>3. epoch' = epoch
  <2>1. CASE UNCHANGED stage0
    BY <2>1 DEF stage0
  <2>2. ASSUME NEW r \in Rows, Callback(r) PROVE epoch' = epoch
    BY <2>2, SameCallback
    DEF Callback, P!Callback, P!CallbackUncond, P!CallbackRefused, P!CallbackCond
  <2>3. ASSUME NEW r \in Rows, \/ \E t \in Producer!Sampled(r) : Generate(r, t)
                               \/ Finish(r) \/ Cancel(r)
        PROVE  epoch' = epoch
    BY <2>3 DEF Generate, Finish, Cancel, Producer!Generate, Producer!Finish, Producer!Abort
  <2>4. ASSUME NEW r \in Rows, Deliver(r) \/ DropBare(r) \/ Release(r) PROVE UNCHANGED stage0
    BY <2>4 DEF Deliver, DropBare, Release
  <2> QED BY <2>1, <2>2, <2>3, <2>4 DEF Next, vars
<1> QED BY <1>2, <1>3 DEF ProducerInv

-----------------------------------------------------------------------------
(* What ties the stages                                                    *)

Size(r, i) == Len(wire[r][i].codes)

\* at[i]: how many codes the first i of the payloads w carry, m in all.
Tally(w, m, at) ==
  /\ at \in [0..Len(w) -> Nat] /\ at[0] = 0 /\ at[Len(w)] = m
  /\ \A i \in 1..Len(w) : at[i] = at[i - 1] + Len(w[i].codes)
  /\ \A i \in 0..Len(w) : at[i] <= m

\* A stream of n codes that decoded all of them as its last rung, one of `size`
\* codes, and waits for the rung after it.
OnLadder(s, n, size) ==
  /\ s.cond /\ s.codes = n /\ s.last = n /\ n # 0
  /\ s.block = NextBlock(size) /\ s.next = n + s.block

\* How an open stream of stage 1 stands when d payloads of n codes are delivered:
\* on the rung behind them, or empty when the first came without the voice.
Follows(r, d, n) ==
  /\ d = 0 \/ ~wire[r][1].ref => stream[r] = A!NoStream
  /\ d # 0 /\ ~wire[r][d].final => Size(r, d) # 0
  /\ d # 0 /\ ~wire[r][d].final /\ wire[r][1].ref => OnLadder(stream[r], n, Size(r, d))

\* Only the first payload that carries a code may bring the voice.
VoiceFirst(w) == \A i \in 1..Len(w) : w[i].codes # <<>> /\ w[i].ref => i = 1

LinkInv(r) ==
  /\ delivered[r] \in 0..Len(wire[r])
  /\ VoiceFirst(wire[r])
  /\ \E at :
       /\ Tally(wire[r], Len(published[r]), at)
       /\ phase[r] = "open" => Follows(r, delivered[r], at[delivered[r]])
  /\ phase[r] = "closed" => decoded[r] = Len(published[r]) /\ P!TerminalSent(r)

\* The inductive invariant of the path: what is proved of each stage on its
\* own, no companion row ever decoded, and the other rows tied.
PathInv ==
  /\ ProducerInv /\ A!TypeOK /\ A!StreamInv
  /\ delivered \in [Rows -> Nat]
  /\ \A r \in Uncond : phase[r] # "closed"
  /\ \A r \in Rows \ Uncond : LinkInv(r)

\* The ladder is the one of either stage.
LEMMA SameLadder ==
  ASSUME NEW n
  PROVE  P!NextBlock(n) = NextBlock(n) /\ A!NextBlock(n) = NextBlock(n)
  BY DEF P!NextBlock, A!NextBlock, NextBlock, P!MinOf, A!MinOf, MinOf

\* The ladder always goes on.
LEMMA NextRung == ASSUME NEW n \in Nat, n # 0 PROVE NextBlock(n) # 0
<1>1. n * GrowthPct >= n * 100 /\ n * GrowthPct \in Nat
  BY LadderAssumption
<1>2. (n * GrowthPct) \div 100 >= 1
  BY <1>1
<1> QED BY <1>2, LadderAssumption DEF NextBlock, MinOf

\* A row neither stage touches stays tied.
LEMMA LinkUntouched ==
  ASSUME NEW r, LinkInv(r), wire'[r] = wire[r], published'[r] = published[r],
         stream'[r] = stream[r], decoded'[r] = decoded[r], delivered'[r] = delivered[r],
         phase'[r] = phase[r]
  PROVE  LinkInv(r)'
<1>1. PICK at : /\ Tally(wire[r], Len(published[r]), at)
                /\ phase[r] = "open" => Follows(r, delivered[r], at[delivered[r]])
  BY DEF LinkInv
<1>2. Tally(wire'[r], Len(published'[r]), at)
  BY <1>1
<1>3. phase'[r] = "open" => Follows(r, delivered[r], at[delivered[r]])'
  BY <1>1 DEF Follows, OnLadder, Size, A!NoStream
<1>4. P!TerminalSent(r)' = P!TerminalSent(r)
  BY DEF P!TerminalSent
<1> QED BY <1>2, <1>3, <1>4 DEF LinkInv

\* One payload more: the tally goes on behind it.
LEMMA TallyOn ==
  ASSUME NEW w \in Seq(P!Payloads), NEW m \in Nat, NEW at, Tally(w, m, at),
         NEW p \in P!Payloads
  PROVE  \E on : /\ Tally(Append(w, p), m + Len(p.codes), on)
                 /\ \A i \in 0..Len(w) : on[i] = at[i]
<1>0. PICK n : n = Len(w)
  OBVIOUS
<1>9. PICK v : v = Append(w, p)
  OBVIOUS
<1>1. PICK k : k = Len(p.codes) /\ k \in Nat
  <2>1. p.codes \in Seq(P!Codes)
    BY DEF P!Payloads
  <2> QED BY <2>1
<1>2. /\ n \in Nat /\ Len(v) = n + 1 /\ v[n + 1] = p /\ \A i \in 1..n : v[i] = w[i]
  BY <1>0, <1>9
<1>4. /\ at \in [0..n -> Nat] /\ at[0] = 0 /\ at[n] = m
      /\ \A i \in 1..n : at[i] = at[i - 1] + Len(w[i].codes)
      /\ \A i \in 0..n : at[i] <= m
  BY <1>0 DEF Tally
<1>3. PICK on : on = [i \in 0..(n + 1) |-> IF i <= n THEN at[i] ELSE m + k]
  OBVIOUS
<1>5. on \in [0..(n + 1) -> Nat] /\ on[n + 1] = m + k /\ \A i \in 0..n : on[i] = at[i]
  <2>1. ASSUME NEW i \in 0..(n + 1) PROVE (IF i <= n THEN at[i] ELSE m + k) \in Nat
    <3>1. CASE i <= n
      <4>1. i \in 0..n
        BY <1>2, <3>1
      <4> QED BY <1>4, <3>1, <4>1
    <3>2. CASE ~(i <= n)
      BY <1>1, <3>2
    <3> QED BY <3>1, <3>2
  <2>2. n + 1 \in 0..(n + 1) /\ ~(n + 1 <= n) /\ \A i \in 0..n : i \in 0..(n + 1) /\ i <= n
    BY <1>2
  <2> QED BY <1>3, <2>1, <2>2
<1>6. \A i \in 1..(n + 1) : on[i] = on[i - 1] + Len(v[i].codes)
  <2> SUFFICES ASSUME NEW i \in 1..(n + 1) PROVE on[i] = on[i - 1] + Len(v[i].codes)
    OBVIOUS
  <2>1. CASE i \in 1..n
    <3>1. i \in 0..n /\ i - 1 \in 0..n
      BY <1>2, <2>1
    <3> QED BY <1>2, <1>4, <1>5, <2>1, <3>1
  <2>2. CASE i = n + 1
    <3>1. i - 1 = n /\ n \in 0..n
      BY <1>2, <2>2
    <3> QED BY <1>1, <1>2, <1>4, <1>5, <2>2, <3>1
  <2> QED BY <1>2, <2>1, <2>2
<1>7. \A i \in 0..(n + 1) : on[i] <= m + k
  <2> SUFFICES ASSUME NEW i \in 0..(n + 1) PROVE on[i] <= m + k
    OBVIOUS
  <2>1. CASE i \in 0..n
    <3>1. at[i] <= m /\ at[i] \in Nat
      BY <1>4, <2>1
    <3> QED BY <1>1, <1>5, <2>1, <3>1
  <2>2. CASE i = n + 1
    BY <1>1, <1>5, <2>2
  <2> QED BY <1>2, <2>1, <2>2
<1>8. on[0] = 0
  BY <1>2, <1>4, <1>5
<1>10. Tally(v, m + k, on)
  BY <1>2, <1>5, <1>6, <1>7, <1>8 DEF Tally
<1> QED BY <1>0, <1>1, <1>5, <1>9, <1>10

\* The payload a row's stage 1 has not had yet: the codes behind those it has,
\* the last payload or exactly the rung behind the one before.
LEMMA NextPayload ==
  ASSUME PathInv, NEW r \in Rows \ Uncond, Pending(r)
  PROVE  \E at, d, k :
           /\ d = delivered[r] /\ k = Len(Arriving(r).codes)
           /\ Tally(wire[r], Len(published[r]), at) /\ Follows(r, d, at[d])
           /\ d \in Nat /\ d + 1 \in 1..Len(wire[r]) /\ Arriving(r) = wire[r][d + 1]
           /\ Arriving(r) \in P!Payloads
           /\ k \in Nat /\ k <= MaxTokens /\ at[d] \in Nat /\ at[d + 1] = at[d] + k
           /\ d = 0 => at[d] = 0
           /\ d # 0 => ~wire[r][d].final
           /\ Arriving(r).final => d + 1 = Len(wire[r])
           /\ ~Arriving(r).final => k = IF d = 0 THEN FirstBlock ELSE NextBlock(Size(r, d))
<1>1. PICK at : /\ Tally(wire[r], Len(published[r]), at)
                /\ phase[r] = "open" => Follows(r, delivered[r], at[delivered[r]])
  BY DEF PathInv, LinkInv
<1>2. PICK d : d = delivered[r]
  OBVIOUS
<1>3. PICK n : n = Len(wire[r])
  OBVIOUS
<1>4. PICK k : k = Len(Arriving(r).codes)
  OBVIOUS
<1>5. /\ wire[r] \in Seq(P!Payloads) /\ published[r] \in Seq(P!Codes) /\ P!First(r)
      /\ P!TypeOK /\ P!EndInv /\ P!DataInv /\ P!OutputBound
  BY DEF PathInv, ProducerInv, P!TypeOK, P!First
<1>6. d \in Nat /\ n \in Nat /\ d < n /\ phase[r] = "open"
  BY <1>2, <1>3, <1>5 DEF PathInv, Pending
<1>7. d + 1 \in 1..n /\ d \in 0..n /\ d + 1 \in 0..n /\ n \in 0..n /\ (d + 1) - 1 = d
  BY <1>6
<1>8. Arriving(r) = wire[r][d + 1] /\ Arriving(r) \in P!Payloads
  BY <1>2, <1>3, <1>5, <1>7 DEF Arriving
<1>9. k \in Nat /\ k = Size(r, d + 1)
  <2>1. Arriving(r).codes \in Seq(P!Codes)
    BY <1>8 DEF P!Payloads
  <2> QED BY <1>4, <1>8, <2>1 DEF Size
<1>10. /\ at \in [0..n -> Nat] /\ at[0] = 0 /\ at[n] = Len(published[r])
       /\ \A i \in 1..n : at[i] = at[i - 1] + Size(r, i)
       /\ \A i \in 0..n : at[i] <= at[n]
  BY <1>1, <1>3 DEF Tally, Size
<1>11. /\ at[d] \in Nat /\ at[d + 1] \in Nat /\ at[n] \in Nat
       /\ at[d + 1] = at[d] + k /\ at[d + 1] <= at[n]
  BY <1>7, <1>9, <1>10
<1>12. Len(published[r]) <= MaxTokens
  BY <1>5, Assumed, P!PublishedBound
<1>13. k <= MaxTokens
  BY <1>9, <1>10, <1>11, <1>12, PipelineAssumption
<1>14. \A i \in 1..n : wire[r][i].final => i = n
  BY <1>3, <1>5 DEF P!EndInv, P!WireInv
<1>15. d # 0 => ~wire[r][d].final
  BY <1>6, <1>7, <1>14
<1>16. P!RungsInv(r)
  BY <1>5 DEF P!DataInv, P!RowInv
<1>17. ~Arriving(r).final => k = IF d = 0 THEN FirstBlock ELSE NextBlock(Size(r, d))
  <2>1. ~wire[r][d + 1].final =>
          P!Size(r, d + 1) = IF d + 1 = 1 THEN FirstBlock ELSE P!NextBlock(P!Size(r, (d + 1) - 1))
    BY <1>3, <1>7, <1>16 DEF P!RungsInv
  <2>2. P!Size(r, d + 1) = k /\ P!Size(r, d) = Size(r, d)
    BY <1>9 DEF P!Size, Size
  <2>3. P!NextBlock(Size(r, d)) = NextBlock(Size(r, d))
    BY SameLadder
  <2>4. d + 1 = 1 <=> d = 0
    BY <1>6
  <2> QED BY <1>7, <1>8, <2>1, <2>2, <2>3, <2>4
<1> QED BY <1>1, <1>2, <1>3, <1>4, <1>6, <1>7, <1>8, <1>9, <1>10, <1>11, <1>13, <1>14, <1>15, <1>17

\* A callback: the payload it publishes goes on the tally.
LEMMA LinkCallback ==
  ASSUME PathInv, NEW r \in Rows \ Uncond, Callback(r)
  PROVE  LinkInv(r)'
<1>1. P!Callback(r) /\ UNCHANGED <<stage1, delivered>>
  BY SameCallback DEF Callback
<1>2. UNCHANGED <<stream, phase, decoded, delivered>>
  BY <1>1 DEF stage1
<1>3. P!TypeOK /\ P!DataInv /\ P!First(r) /\ LinkInv(r)
  BY DEF PathInv, ProducerInv, P!First
<1>4. CASE UNCHANGED <<wire, published>>
  BY <1>2, <1>3, <1>4, LinkUntouched
<1>5. CASE /\ ~P!TerminalSent(r)
           /\ \E p \in P!Payloads :
                /\ P!Publish(r, p)
                /\ p.codes # <<>> => p.seq = Len(wire[r]) + 1
                /\ p.ref => p.seq = 1
  <2>1. PICK p \in P!Payloads :
          /\ P!Publish(r, p)
          /\ p.codes # <<>> => p.seq = Len(wire[r]) + 1
          /\ p.ref => p.seq = 1
    BY <1>5
  <2>2. /\ wire[r] \in Seq(P!Payloads) /\ published[r] \in Seq(P!Codes)
        /\ wire'[r] = Append(wire[r], p) /\ published'[r] = published[r] \o p.codes
    BY <1>3, <2>1 DEF P!TypeOK, P!Publish
  <2>3. /\ Len(wire[r]) \in Nat /\ Len(wire'[r]) = Len(wire[r]) + 1
        /\ wire'[r][Len(wire[r]) + 1] = p
        /\ \A i \in 1..Len(wire[r]) : wire'[r][i] = wire[r][i]
    BY <2>2
  <2>4. PICK at : /\ Tally(wire[r], Len(published[r]), at)
                  /\ phase[r] = "open" => Follows(r, delivered[r], at[delivered[r]])
    BY <1>3 DEF LinkInv
  <2>5. PICK on : /\ Tally(wire'[r], Len(published'[r]), on)
                  /\ \A i \in 0..Len(wire[r]) : on[i] = at[i]
    <3>1. Len(published[r]) \in Nat /\ p.codes \in Seq(P!Codes)
      BY <2>2 DEF P!Payloads
    <3>2. Len(published'[r]) = Len(published[r]) + Len(p.codes)
      BY <2>2, <3>1
    <3>3. Tally(wire[r], Len(published[r]), at)
      BY <2>4
    <3>4. PICK on : /\ Tally(Append(wire[r], p), Len(published[r]) + Len(p.codes), on)
                    /\ \A i \in 0..Len(wire[r]) : on[i] = at[i]
      <4>1. PICK w \in Seq(P!Payloads), m \in Nat : w = wire[r] /\ m = Len(published[r])
        BY <2>2, <3>1
      <4>2. Tally(w, m, at)
        BY <3>3, <4>1
      <4>3. \E on : /\ Tally(Append(w, p), m + Len(p.codes), on)
                     /\ \A i \in 0..Len(w) : on[i] = at[i]
        BY <4>2, TallyOn
      <4> QED BY <4>1, <4>3
    <3>5. Tally(wire'[r], Len(published'[r]), on)
      BY <2>2, <3>2, <3>4
    <3> QED BY <3>4, <3>5
  <2>6. delivered[r] \in 0..Len(wire[r]) /\ delivered'[r] = delivered[r]
    BY <1>2, <1>3 DEF LinkInv
  <2>7. ASSUME phase[r] = "open" PROVE Follows(r, delivered[r], on[delivered[r]])'
    <3>1. Follows(r, delivered[r], at[delivered[r]]) /\ on[delivered[r]] = at[delivered[r]]
      BY <2>4, <2>5, <2>6, <2>7
    <3>2. delivered[r] # 0 => /\ wire'[r][delivered[r]] = wire[r][delivered[r]]
                              /\ wire'[r][1] = wire[r][1]
      BY <2>3, <2>6
    <3>3. stream' = stream /\ delivered' = delivered
      BY <1>2
    <3> QED BY <3>1, <3>2, <3>3 DEF Follows, OnLadder, Size, A!NoStream
  <2>8. delivered'[r] \in 0..Len(wire'[r])
    BY <2>3, <2>6
  <2>9. VoiceFirst(wire'[r])
    <3>1. ASSUME NEW i \in 1..Len(wire[r]), wire'[r][i].codes # <<>>, wire'[r][i].ref PROVE i = 1
      BY <1>3, <2>3, <3>1 DEF LinkInv, VoiceFirst
    <3>2. ASSUME p.codes # <<>>, p.ref PROVE Len(wire[r]) + 1 = 1
      BY <2>1, <3>2
    <3>3. ASSUME NEW i \in 1..Len(wire'[r]) PROVE i \in 1..Len(wire[r]) \/ i = Len(wire[r]) + 1
      BY <2>3
    <3> QED BY <2>3, <3>1, <3>2, <3>3 DEF VoiceFirst
  <2>10. phase[r] # "closed"
    BY <1>3, <1>5 DEF LinkInv
  <2> QED BY <1>2, <2>5, <2>7, <2>8, <2>9, <2>10 DEF LinkInv
<1> QED BY <1>1, <1>3, <1>4, <1>5, Assumed, P!OnePayload


\* A payload of k codes is what a stream of n codes waits for: its first
\* block, with the reference, or the rung behind the one of `size` codes.
Awaits(s, n, size, k, ref) ==
  \/ s = A!NoStream /\ n = 0 /\ ref /\ k = FirstBlock
  \/ OnLadder(s, n, size) /\ k = NextBlock(size)

\* A payload of the rung a stream waits for reaches that rung exactly, and
\* leaves it waiting for the one behind.
LEMMA RungReached ==
  ASSUME NEW r, stream[r] \in A!StreamRecord, NEW k \in Nat \ {0}, NEW ref \in BOOLEAN,
         NEW n \in Nat, NEW size, Awaits(stream[r], n, size, k, ref)
  PROVE  /\ A!Laddered(A!Received(r, k, ref)).next = n + k
         /\ OnLadder(A!Advanced(A!Laddered(A!Received(r, k, ref))), n + k, k)
<1>0. PICK old \in A!StreamRecord :
        /\ old = stream[r]
        /\ \/ old = A!NoStream /\ n = 0 /\ ref /\ k = FirstBlock
           \/ OnLadder(old, n, size) /\ k = NextBlock(size)
  BY DEF Awaits
<1>1. PICK got : got = A!Received(r, k, ref) /\ got = [old EXCEPT !.codes = @ + k, !.cond = @ \/ ref]
  BY <1>0 DEF A!Received
<1>10. PICK s : s = A!Laddered(got)
  OBVIOUS
<1>2. /\ got.codes = old.codes + k /\ got.cond = (old.cond \/ ref) /\ got.next = old.next
      /\ got.block = old.block /\ got.last = old.last
      /\ got = [codes |-> old.codes + k, next |-> old.next, block |-> old.block,
                last |-> old.last, cond |-> old.cond \/ ref]
  BY <1>1 DEF A!StreamRecord
<1>3. s.cond /\ s.codes = n + k /\ s.next = n + k /\ s.block = k
  <2>1. CASE old = A!NoStream /\ n = 0 /\ ref /\ k = FirstBlock
    <3>1. /\ old.codes = 0 /\ old.next = 0
      BY <2>1 DEF A!NoStream
    <3>2. s = [got EXCEPT !.next = FirstBlock, !.block = FirstBlock]
      BY <1>2, <1>10, <3>1 DEF A!Laddered
    <3>3. s = [codes |-> got.codes, next |-> FirstBlock, block |-> FirstBlock,
               last |-> got.last, cond |-> got.cond]
      BY <1>2, <3>2
    <3>4. got.cond
      BY <1>2, <2>1, Zenon
    <3>5. got.codes = k
      BY <1>2, <2>1, <3>1
    <3>6. /\ s.cond = got.cond /\ s.codes = got.codes
          /\ s.next = FirstBlock /\ s.block = FirstBlock
      BY <3>3
    <3>7. s.cond
      BY <3>4, <3>6
    <3>8. s.codes = n + k /\ s.next = n + k /\ s.block = k
      BY <2>1, <3>5, <3>6
    <3> QED BY <3>7, <3>8
  <2>2. CASE OnLadder(old, n, size) /\ k = NextBlock(size)
    <3>1. old.cond /\ old.codes = n /\ old.block = k /\ old.next = n + k /\ n # 0
      BY <2>2 DEF OnLadder
    <3>2. s = got
      BY <1>2, <1>10, <3>1 DEF A!Laddered
    <3> QED BY <1>2, <3>1, <3>2
  <2> QED BY <1>0, <2>1, <2>2
<1>4. \E c, x, b, l, v : s = [codes |-> c, next |-> x, block |-> b, last |-> l, cond |-> v]
  <2>1. CASE got.next = 0
    <3>1. s = [got EXCEPT !.next = FirstBlock, !.block = FirstBlock]
      BY <1>10, <2>1 DEF A!Laddered
    <3>2. s = [codes |-> got.codes, next |-> FirstBlock, block |-> FirstBlock,
               last |-> got.last, cond |-> got.cond]
      BY <1>2, <3>1
    <3> QED BY <3>2
  <2>2. CASE got.next # 0
    BY <1>2, <1>10, <2>2 DEF A!Laddered
  <2> QED BY <2>1, <2>2
<1>5. PICK after : after = A!Advanced(s)
  OBVIOUS
<1>6. /\ after.cond = s.cond /\ after.codes = s.codes /\ after.last = s.next
      /\ after.block = A!NextBlock(s.block) /\ after.next = s.next + A!NextBlock(s.block)
  BY <1>4, <1>5 DEF A!Advanced
<1>7. OnLadder(after, n + k, k)
  BY <1>3, <1>6, SameLadder DEF OnLadder
<1> QED BY <1>1, <1>3, <1>5, <1>7, <1>10

\* A payload at stage 1: it is the rung the stream waits for, or its last.
LEMMA LinkDeliver ==
  ASSUME PathInv, NEW r \in Rows \ Uncond, Deliver(r)
  PROVE  LinkInv(r)'
<1>1. PICK at, d, k :
        /\ d = delivered[r] /\ k = Len(Arriving(r).codes)
        /\ Tally(wire[r], Len(published[r]), at) /\ Follows(r, d, at[d])
        /\ d \in Nat /\ d + 1 \in 1..Len(wire[r]) /\ Arriving(r) = wire[r][d + 1]
        /\ Arriving(r) \in P!Payloads
        /\ k \in Nat /\ k <= MaxTokens /\ at[d] \in Nat /\ at[d + 1] = at[d] + k
        /\ d = 0 => at[d] = 0
        /\ d # 0 => ~wire[r][d].final
        /\ Arriving(r).final => d + 1 = Len(wire[r])
        /\ ~Arriving(r).final => k = IF d = 0 THEN FirstBlock ELSE NextBlock(Size(r, d))
  BY NextPayload DEF Deliver
<1>2. PICK arriving : arriving = Arriving(r)
  OBVIOUS
<1>3. arriving.ref \in BOOLEAN /\ arriving.final \in BOOLEAN /\ arriving.codes \in Seq(P!Codes)
  BY <1>1, <1>2 DEF P!Payloads
<1>4. k \in Nat \ {0}
  BY <1>1, <1>2, <1>3 DEF Deliver
<1>5. PICK ref, final : ref = arriving.ref /\ final = arriving.final
  OBVIOUS
<1>6. A!Forward(r, k, ref, final)
  BY <1>1, <1>2, <1>5, SameForward DEF Deliver
<1>7. /\ UNCHANGED stage0 /\ delivered' = [delivered EXCEPT ![r] = @ + 1] /\ phase[r] = "open"
      /\ r \in Rows /\ delivered \in [Rows -> Nat]
  BY DEF Deliver, Pending, PathInv
<1>8. wire' = wire /\ published' = published /\ delivered'[r] = d + 1
  BY <1>1, <1>7 DEF stage0
<1>9. PICK old : old = stream[r]
  OBVIOUS
<1>10. /\ old \in A!StreamRecord
       /\ stream \in [Rows -> A!StreamRecord] /\ phase \in [Rows -> A!Phases]
       /\ decoded \in [Rows -> Nat]
  BY <1>7, <1>9 DEF PathInv, A!TypeOK, A!StreamRecord
<1>30. LinkInv(r)
  BY DEF PathInv
<1>31. d = 0 => wire[r][1].ref = ref
  BY <1>1, <1>2, <1>5
<1>32. d # 0 => ~ref
  <2>1. ref => d + 1 = 1
    BY <1>1, <1>2, <1>5, <1>30 DEF LinkInv, VoiceFirst, Deliver
  <2> QED BY <1>1, <2>1
<1>22. d + 1 \in Nat /\ d + 1 # 0 /\ d + 1 \in 0..Len(wire[r])
  BY <1>1
<1>23. /\ delivered'[r] \in 0..Len(wire'[r]) /\ VoiceFirst(wire'[r])
       /\ Tally(wire'[r], Len(published'[r]), at)
  BY <1>1, <1>8, <1>22, <1>30 DEF LinkInv
<1>33. Size(r, d + 1) = k /\ Size(r, d + 1)' = k
  BY <1>1, <1>8 DEF Size
<1>34. CASE ~wire[r][1].ref
  <2>1. old = A!NoStream
    BY <1>1, <1>9, <1>34 DEF Follows
  <2>2. ~ref
    BY <1>31, <1>32, <1>34
  <2>3. ~A!Laddered(A!Received(r, k, ref)).cond /\ ~A!Received(r, k, ref).cond
    <3>1. PICK got : got = A!Received(r, k, ref) /\ got = [old EXCEPT !.codes = @ + k, !.cond = @ \/ ref]
      BY <1>9 DEF A!Received
    <3>2. ~got.cond
      BY <1>10, <2>1, <2>2, <3>1 DEF A!NoStream
    <3>3. ~A!Laddered(got).cond
      <4>1. \E c, x, b, l : got = [codes |-> c, next |-> x, block |-> b, last |-> l, cond |-> FALSE]
        BY <2>1, <2>2, <3>1 DEF A!NoStream
      <4> QED BY <4>1 DEF A!Laddered
    <3> QED BY <3>1, <3>2, <3>3
  <2>4. A!DropUnvoiced(r, k, ref, final)
    BY <1>6, <2>3
    DEF A!Forward, A!KeepReference, A!Buffer, A!DecodeRung, A!DecodeFinal, A!DecodeRaises
  <2>5. stream' = stream /\ phase'[r] # "closed"
    BY <1>7, <1>10, <2>4 DEF A!DropUnvoiced
  <2>6. Follows(r, delivered[r], at[delivered[r]])'
    BY <1>4, <1>8, <1>9, <1>22, <1>33, <1>34, <2>1, <2>5 DEF Follows, A!NoStream
  <2> QED BY <1>23, <2>5, <2>6 DEF LinkInv
<1> SUFFICES ASSUME wire[r][1].ref PROVE LinkInv(r)'
  BY <1>34
<1>11. \/ old = A!NoStream /\ at[d] = 0 /\ ref /\ (~final => k = FirstBlock)
       \/ /\ old.cond /\ old.codes = at[d]
          /\ ~final => OnLadder(old, at[d], Size(r, d)) /\ k = NextBlock(Size(r, d))
  <2>1. CASE d = 0
    <3>1. ref
      BY <1>31, <2>1
    <3>2. old = A!NoStream
      BY <1>1, <1>9, <2>1 DEF Follows
    <3>3. at[d] = 0 /\ (~final => k = FirstBlock)
      BY <1>1, <1>2, <1>5, <2>1
    <3> QED BY <3>1, <3>2, <3>3
  <2>2. CASE d # 0
    <3>1. OnLadder(old, at[d], Size(r, d))
      BY <1>1, <1>9, <2>2 DEF Follows
    <3>2. old.cond /\ old.codes = at[d]
      BY <3>1 DEF OnLadder
    <3>3. ~final => k = NextBlock(Size(r, d))
      BY <1>1, <1>2, <1>5, <2>2
    <3> QED BY <3>1, <3>2, <3>3
  <2> QED BY <2>1, <2>2
<1>12. PICK got : got = A!Received(r, k, ref)
  OBVIOUS
<1>13. got = [old EXCEPT !.codes = @ + k, !.cond = @ \/ ref]
  BY <1>9, <1>12 DEF A!Received
<1>14. PICK s : s = A!Laddered(got)
  OBVIOUS
<1>15. old.cond \/ ref
  BY <1>11
<1>16. got.codes = at[d] + k /\ s.codes = at[d] + k
  <2>1. old.codes = at[d]
    BY <1>11 DEF A!NoStream
  <2>2. A!Laddered(A!Received(r, k, ref)).codes = stream[r].codes + k
    BY <1>3, <1>4, <1>5, <1>7, Assumed, A!ReceivedType DEF PathInv
  <2>3. got.codes = old.codes + k
    BY <1>10, <1>13 DEF A!StreamRecord
  <2> QED BY <1>9, <1>12, <1>14, <2>1, <2>2, <2>3
<1>17. at[d] + k > 0
  BY <1>1, <1>4
<1>18. ~A!DropUnvoiced(r, k, ref, final)
  BY <1>9, <1>15 DEF A!DropUnvoiced
<1>19. ~A!KeepReference(r, k, ref, final)
  BY <1>12, <1>16, <1>17 DEF A!KeepReference
<1>20. ASSUME ~final
       PROVE  s.codes = s.next /\ OnLadder(A!Advanced(s), at[d + 1], Size(r, d + 1))
  <2>1. k = Size(r, d + 1)
    BY <1>1 DEF Size
  <2>2. \/ old = A!NoStream /\ at[d] = 0 /\ ref /\ k = FirstBlock
        \/ OnLadder(old, at[d], Size(r, d)) /\ k = NextBlock(Size(r, d))
    BY <1>11, <1>20
  <2>3. /\ s.codes = at[d] + k /\ s.next = at[d] + k
        /\ OnLadder(A!Advanced(s), at[d] + k, k)
    <3>1. PICK n \in Nat : n = at[d]
      BY <1>1
    <3>2. PICK size : size = Size(r, d)
      OBVIOUS
    <3>3. Awaits(stream[r], n, size, k, ref)
      BY <1>9, <2>2, <3>1, <3>2 DEF Awaits
    <3>4. stream[r] \in A!StreamRecord /\ k \in Nat \ {0} /\ ref \in BOOLEAN
      BY <1>3, <1>4, <1>5, <1>9, <1>10
    <3>5. /\ A!Laddered(A!Received(r, k, ref)).next = n + k
          /\ OnLadder(A!Advanced(A!Laddered(A!Received(r, k, ref))), n + k, k)
      BY <3>3, <3>4, RungReached
    <3> QED BY <1>12, <1>14, <1>16, <3>1, <3>5
  <2>4. OnLadder(A!Advanced(s), at[d + 1], Size(r, d + 1))
    BY <1>1, <2>1, <2>3
  <2>5. s.codes = s.next
    BY <2>3
  <2> QED BY <2>4, <2>5
<1>21. ~A!Buffer(r, k, ref, final)
  <2> SUFFICES ASSUME ~final PROVE ~(s.codes < s.next)
    BY <1>12, <1>14 DEF A!Buffer
  <2> QED BY <1>1, <1>4, <1>16, <1>20
<1>24. CASE A!DecodeRung(r, k, ref, final)
  <2>1. ~final /\ stream' = [stream EXCEPT ![r] = A!Advanced(s)] /\ decoded' = decoded
    BY <1>12, <1>14, <1>24 DEF A!DecodeRung
  <2>2. stream'[r] = A!Advanced(s)
    BY <1>7, <1>10, <2>1
  <2>3. phase'[r] # "closed"
    BY <1>7, <1>10, <1>24 DEF A!DecodeRung, A!RenderRung, A!EmitSlice
  <2>4. OnLadder(stream'[r], at[d + 1], Size(r, d + 1))
    BY <1>20, <2>1, <2>2
  <2>5. Follows(r, delivered[r], at[delivered[r]])'
    BY <1>4, <1>8, <1>22, <1>33, <2>4 DEF Follows, OnLadder, Size
  <2> QED BY <1>23, <2>3, <2>5 DEF LinkInv
<1>25. CASE A!DecodeFinal(r, k, ref, final)
  <2>1. final /\ phase' = [phase EXCEPT ![r] = "closed"] /\ decoded' = [decoded EXCEPT ![r] = s.codes]
    BY <1>12, <1>14, <1>25 DEF A!DecodeFinal
  <2>2. phase'[r] = "closed" /\ decoded'[r] = at[d + 1]
    BY <1>1, <1>7, <1>10, <1>16, <2>1
  <2>3. d + 1 = Len(wire[r])
    BY <1>1, <1>2, <1>5, <2>1
  <2>4. at[d + 1] = Len(published[r])
    BY <1>1, <2>3 DEF Tally
  <2>5. wire[r][d + 1].final
    BY <1>1, <1>2, <1>5, <2>1
  <2>6. P!TerminalSent(r)'
    BY <1>1, <1>8, <2>5 DEF P!TerminalSent
  <2>7. decoded'[r] = Len(published'[r])
    BY <1>8, <2>2, <2>4
  <2> QED BY <1>23, <2>2, <2>6, <2>7 DEF LinkInv
<1>26. CASE A!DecodeRaises(r, k, ref, final)
  <2>1. phase'[r] = "raised"
    BY <1>7, <1>10, <1>26 DEF A!DecodeRaises
  <2> QED BY <1>23, <2>1 DEF LinkInv
<1> QED BY <1>6, <1>18, <1>19, <1>21, <1>24, <1>25, <1>26 DEF A!Forward

\* A payload without codes is the last one: it starts no pass of stage 1.
LEMMA LinkBare ==
  ASSUME PathInv, NEW r \in Rows \ Uncond, DropBare(r)
  PROVE  LinkInv(r)'
<1>1. PICK at, d, k :
        /\ d = delivered[r] /\ k = Len(Arriving(r).codes)
        /\ Tally(wire[r], Len(published[r]), at) /\ Follows(r, d, at[d])
        /\ d \in Nat /\ d + 1 \in 1..Len(wire[r]) /\ Arriving(r) = wire[r][d + 1]
        /\ Arriving(r) \in P!Payloads
        /\ k \in Nat /\ k <= MaxTokens /\ at[d] \in Nat /\ at[d + 1] = at[d] + k
        /\ d = 0 => at[d] = 0
        /\ d # 0 => ~wire[r][d].final
        /\ Arriving(r).final => d + 1 = Len(wire[r])
        /\ ~Arriving(r).final => k = IF d = 0 THEN FirstBlock ELSE NextBlock(Size(r, d))
  BY NextPayload DEF DropBare
<1>2. k = 0
  BY <1>1 DEF DropBare
<1>3. UNCHANGED <<stage0, stage1>> /\ delivered'[r] = d + 1 /\ phase[r] = "open"
  BY <1>1 DEF DropBare, Pending, PathInv
<1>4. Arriving(r).final
  <2> SUFFICES ASSUME ~Arriving(r).final PROVE FALSE
    OBVIOUS
  <2>1. CASE d = 0
    BY <1>1, <1>2, <2>1, LadderAssumption
  <2>2. CASE d # 0
    <3>1. Size(r, d) # 0 /\ k = NextBlock(Size(r, d))
      BY <1>1, <2>2 DEF Follows
    <3>2. Size(r, d) \in Nat
      <4>1. wire[r] \in Seq(P!Payloads) /\ d \in 1..Len(wire[r])
        BY <1>1, <2>2 DEF PathInv, ProducerInv, P!TypeOK
      <4>2. wire[r][d] \in P!Payloads
        BY <4>1
      <4>3. wire[r][d].codes \in Seq(P!Codes)
        BY <4>2 DEF P!Payloads
      <4> QED BY <4>3 DEF Size
    <3> QED BY <1>2, <3>1, <3>2, NextRung
  <2> QED BY <2>1, <2>2
<1>5. wire' = wire /\ published' = published /\ phase' = phase /\ stream' = stream
  BY <1>3 DEF stage0, stage1
<1>6. d + 1 \in Nat /\ d + 1 # 0 /\ d + 1 \in 0..Len(wire[r])
  BY <1>1
<1>7. Follows(r, delivered[r], at[delivered[r]])'
  <2>1. wire'[r][d + 1].final /\ delivered'[r] # 0
    BY <1>1, <1>3, <1>4, <1>5, <1>6
  <2>2. stream[r] = A!NoStream \/ wire[r][1].ref
    BY <1>1 DEF Follows
  <2> QED BY <1>3, <1>5, <2>1, <2>2 DEF Follows, A!NoStream
<1>8. LinkInv(r)
  BY DEF PathInv
<1>9. /\ delivered'[r] \in 0..Len(wire'[r]) /\ phase'[r] # "closed"
      /\ VoiceFirst(wire'[r]) /\ Tally(wire'[r], Len(published'[r]), at)
  BY <1>1, <1>3, <1>5, <1>6, <1>8 DEF LinkInv
<1> QED BY <1>7, <1>9 DEF LinkInv

\* What the connector hands on is a payload of a conditional row, in bounds.
LEMMA Handed ==
  ASSUME PathInv, NEW r \in Rows, Deliver(r)
  PROVE  /\ r \notin Uncond
         /\ \E k \in 0..MaxTokens, ref, final \in BOOLEAN : A!Forward(r, k, ref, final)
<1>1. r \notin Uncond
  <2> SUFFICES ASSUME r \in Uncond PROVE FALSE
    OBVIOUS
  <2>1. wire[r] \in Seq(P!Payloads) /\ delivered[r] \in Nat
    BY DEF PathInv, ProducerInv, P!TypeOK
  <2>2. delivered[r] + 1 \in 1..Len(wire[r])
    BY <2>1 DEF Deliver, Pending
  <2>3. P!WireInv(r)
    BY DEF PathInv, ProducerInv, P!EndInv
  <2> QED BY <2>2, <2>3 DEF P!WireInv, Deliver, Arriving
<1>2. PICK k : k = Len(Arriving(r).codes) /\ k \in 0..MaxTokens /\ Arriving(r) \in P!Payloads
  <2>1. PICK k : k = Len(Arriving(r).codes) /\ k \in Nat /\ k <= MaxTokens /\ Arriving(r) \in P!Payloads
    BY <1>1, NextPayload DEF Deliver
  <2> QED BY <2>1, PipelineAssumption
<1>3. PICK ref, final \in BOOLEAN : ref = Arriving(r).ref /\ final = Arriving(r).final
  BY <1>2 DEF P!Payloads
<1>4. A!Forward(r, k, ref, final)
  BY <1>2, <1>3, SameForward DEF Deliver
<1> QED BY <1>1, <1>2, <1>3, <1>4

\* A step of one row leaves what stage 1 and the connector keep of another.
LEMMA OtherRows ==
  ASSUME PathInv, NEW r \in Rows, NEW q \in Rows \ Uncond, q # r,
         \/ \E t \in Producer!Sampled(r) : Generate(r, t)
         \/ Finish(r) \/ Callback(r) \/ Cancel(r) \/ Deliver(r) \/ DropBare(r) \/ Release(r)
  PROVE  LinkInv(q)'
<1>1. LinkInv(q) /\ A!TypeOK /\ P!TypeOK /\ delivered \in [Rows -> Nat]
  BY DEF PathInv, ProducerInv
<1> SUFFICES /\ wire'[q] = wire[q] /\ published'[q] = published[q]
             /\ stream'[q] = stream[q] /\ decoded'[q] = decoded[q]
             /\ delivered'[q] = delivered[q] /\ phase'[q] = phase[q]
  BY <1>1, LinkUntouched
<1>2. CASE \/ \E t \in Producer!Sampled(r) : Generate(r, t)
           \/ Finish(r) \/ Cancel(r)
  BY <1>2
  DEF Generate, Finish, Cancel, Producer!Generate, Producer!Finish, Producer!Abort, stage1
<1>3. CASE Callback(r)
  <2>1. P!Callback(r) /\ UNCHANGED <<stage1, delivered>>
    BY <1>3, SameCallback DEF Callback
  <2>2. wire'[q] = wire[q] /\ published'[q] = published[q]
    <3>1. (\E x : P!Publish(r, x)) \/ UNCHANGED <<wire, published>>
      <4>1. P!CallbackCond(r) => (\E x : P!Publish(r, x)) \/ UNCHANGED <<wire, published>>
        BY Zenon DEF P!CallbackCond
      <4>2. P!CallbackUncond(r) => (\E x : P!Publish(r, x)) \/ UNCHANGED <<wire, published>>
        BY Zenon DEF P!CallbackUncond
      <4>3. P!CallbackRefused(r) => UNCHANGED <<wire, published>>
        BY DEF P!CallbackRefused
      <4> QED BY <2>1, <4>1, <4>2, <4>3 DEF P!Callback
    <3> QED BY <1>1, <3>1 DEF P!TypeOK, P!Publish
  <2> QED BY <2>1, <2>2 DEF stage1
<1>4. CASE DropBare(r)
  BY <1>1, <1>4 DEF DropBare, stage0, stage1
<1>5. CASE Release(r)
  <2>1. A!Release(r) /\ UNCHANGED <<stage0, delivered>>
    BY <1>5, SameRelease DEF Release
  <2> QED BY <1>1, <2>1 DEF stage0, A!Release, A!TypeOK
<1>6. CASE Deliver(r)
  <2>1. /\ delivered'[q] = delivered[q] /\ UNCHANGED stage0
    BY <1>1, <1>6 DEF Deliver
  <2>2. stream'[q] = stream[q] /\ decoded'[q] = decoded[q] /\ phase'[q] = phase[q]
    BY <1>1, <1>6, Handed, Assumed, A!OthersUntouched
  <2> QED BY <2>1, <2>2 DEF stage0
<1> QED BY <1>2, <1>3, <1>4, <1>5, <1>6

-----------------------------------------------------------------------------
(* The invariant of the path                                               *)

\* Every step of the path is a step in the life of a request at stage 1, or
\* leaves it alone.
LEMMA AcousticStep == PathInv /\ [Next]_vars => [A!Step]_(A!vars)
<1> SUFFICES ASSUME PathInv, [Next]_vars PROVE [A!Step]_(A!vars)
  OBVIOUS
<1>1. CASE UNCHANGED stage1
  BY <1>1 DEF stage1, A!vars
<1>2. ASSUME NEW r \in Rows, Deliver(r) PROVE A!Step
  BY <1>2, Handed DEF A!Step
<1>3. ASSUME NEW r \in Rows, Release(r) PROVE A!Step
  BY <1>3, SameRelease DEF Release, A!Step
<1>4. ASSUME NEW r \in Rows,
             \/ \E t \in Producer!Sampled(r) : Generate(r, t)
             \/ Finish(r) \/ Callback(r) \/ Cancel(r) \/ DropBare(r)
      PROVE  UNCHANGED stage1
  BY <1>4 DEF Generate, Finish, Callback, Cancel, DropBare
<1> QED BY <1>1, <1>2, <1>3, <1>4 DEF Next, vars

LEMMA PathStarts == Init => PathInv
<1> SUFFICES ASSUME Init PROVE PathInv
  OBVIOUS
<1>1. A!Init
  BY DEF Init, Acoustic!Init, A!Init, Acoustic!NoStream, A!NoStream, Acoustic!NoEmitter,
    A!NoEmitter
<1>2. A!TypeOK /\ A!StreamInv
  BY <1>1, Assumed, A!InitType, A!InitKept
<1>3. /\ delivered = [r \in Rows |-> 0] /\ wire = [r \in Rows |-> <<>>]
      /\ published = [r \in Rows |-> <<>>]
      /\ stream = [r \in Rows |-> A!NoStream] /\ phase = [r \in Rows |-> "open"]
  BY <1>1 DEF Init, Producer!Init, A!Init
<1>4. ASSUME NEW r \in Rows \ Uncond PROVE LinkInv(r)
  <2>1. /\ wire[r] = <<>> /\ published[r] = <<>> /\ delivered[r] = 0
        /\ stream[r] = A!NoStream /\ phase[r] = "open"
    BY <1>3
  <2>2. Len(<<>>) = 0
    OBVIOUS
  <2>3. PICK at : at = [i \in 0..0 |-> 0]
    OBVIOUS
  <2>4. Tally(wire[r], Len(published[r]), at)
    BY <2>1, <2>2, <2>3 DEF Tally
  <2>5. Follows(r, delivered[r], at[delivered[r]])
    BY <2>1 DEF Follows
  <2>6. delivered[r] \in 0..Len(wire[r]) /\ Len(wire[r]) = 0 /\ phase[r] # "closed"
    BY <2>1, <2>2
  <2>7. /\ VoiceFirst(wire[r])
        /\ phase[r] = "closed" => decoded[r] = Len(published[r]) /\ P!TerminalSent(r)
    BY <2>6 DEF VoiceFirst
  <2> QED BY <2>4, <2>5, <2>6, <2>7 DEF LinkInv
<1>5. delivered \in [Rows -> Nat] /\ \A r \in Uncond : phase[r] # "closed"
  BY <1>3, PipelineAssumption
<1> QED BY <1>2, <1>4, <1>5, ProducerStarts DEF PathInv

LEMMA PathKept == PathInv /\ [Next]_vars => PathInv'
<1> SUFFICES ASSUME PathInv, [Next]_vars PROVE PathInv'
  OBVIOUS
<1>1. ProducerInv'
  BY ProducerKept DEF PathInv
<1>2. A!TypeOK' /\ A!StreamInv'
  <2>1. [A!Next]_(A!vars)
    BY AcousticStep DEF A!Next
  <2> QED BY <2>1, Assumed, A!StepType, A!StepKept DEF PathInv
<1>3. A!TypeOK /\ delivered \in [Rows -> Nat]
  BY DEF PathInv
<1>4. delivered' \in [Rows -> Nat]
  <2>1. ASSUME NEW r \in Rows, delivered' = [delivered EXCEPT ![r] = @ + 1]
        PROVE  delivered' \in [Rows -> Nat]
    BY <1>3, <2>1
  <2> QED
    BY <1>3, <2>1 DEF Next, vars, Generate, Finish, Callback, Cancel, Deliver, DropBare, Release
<1>5. ASSUME NEW q \in Uncond PROVE phase'[q] # "closed"
  <2>1. q \in Rows /\ phase[q] # "closed"
    BY PipelineAssumption DEF PathInv
  <2>2. CASE UNCHANGED stage1
    BY <2>1, <2>2 DEF stage1
  <2>3. ASSUME NEW r \in Rows, Deliver(r) PROVE phase'[q] = phase[q]
    BY <1>3, <2>1, <2>3, Handed, Assumed, A!OthersUntouched
  <2>4. ASSUME NEW r \in Rows, Release(r) PROVE phase'[q] # "closed"
    BY <1>3, <2>1, <2>4, SameRelease DEF Release, A!Release, A!TypeOK
  <2>5. ASSUME NEW r \in Rows,
               \/ \E t \in Producer!Sampled(r) : Generate(r, t)
               \/ Finish(r) \/ Callback(r) \/ Cancel(r) \/ DropBare(r)
        PROVE  UNCHANGED stage1
    BY <2>5 DEF Generate, Finish, Callback, Cancel, DropBare
  <2> QED BY <2>1, <2>2, <2>3, <2>4, <2>5 DEF Next, vars
<1>6. ASSUME NEW q \in Rows \ Uncond PROVE LinkInv(q)'
  <2>1. LinkInv(q)
    BY DEF PathInv
  <2>2. CASE UNCHANGED <<wire, published, stream, decoded, delivered, phase>>
    BY <2>1, <2>2, LinkUntouched
  <2>3. CASE Callback(q)
    BY <2>3, LinkCallback
  <2>4. CASE Deliver(q)
    BY <2>4, LinkDeliver
  <2>5. CASE DropBare(q)
    BY <2>5, LinkBare
  <2>6. CASE (\E t \in Producer!Sampled(q) : Generate(q, t)) \/ Finish(q) \/ Cancel(q)
    <3>1. UNCHANGED <<wire, published, stream, decoded, delivered, phase>>
      BY <2>6
      DEF Generate, Finish, Cancel, Producer!Generate, Producer!Finish, Producer!Abort, stage1
    <3> QED BY <2>2, <3>1
  <2>7. CASE Release(q)
    <3>1. A!Release(q) /\ UNCHANGED <<stage0, delivered>>
      BY <2>7, SameRelease DEF Release
    <3>2. phase'[q] = "gone" /\ wire' = wire /\ published' = published /\ delivered' = delivered
      BY <1>3, <3>1 DEF A!Release, A!TypeOK, stage0
    <3> QED BY <2>1, <3>2 DEF LinkInv
  <2>8. ASSUME NEW r \in Rows, r # q,
               \/ \E t \in Producer!Sampled(r) : Generate(r, t)
               \/ Finish(r) \/ Callback(r) \/ Cancel(r) \/ Deliver(r) \/ DropBare(r) \/ Release(r)
        PROVE  LinkInv(q)'
    BY <2>8, OtherRows
  <2>9. CASE UNCHANGED vars
    BY <2>2, <2>9 DEF vars, stage0, stage1
  <2> QED BY <2>3, <2>4, <2>5, <2>6, <2>7, <2>8, <2>9 DEF Next
<1> QED BY <1>1, <1>2, <1>4, <1>5, <1>6 DEF PathInv

\* The stages stay tied.  A row whose first payload brought the voice: stage 1
\* holds what the payloads delivered carry and waits for the rung stage 0 cuts
\* next.  A row whose first payload did not: stage 1 holds nothing, ever.
THEOREM PathInvariant == Spec => []PathInv
<1> QED BY PathStarts, PathKept, PTL DEF Spec

-----------------------------------------------------------------------------
(* The properties of the path                                              *)

\* What the listener of a closed stream has heard is the cropped one-shot
\* length of the whole utterance, wherever it was cut and whenever it ended.
THEOREM WholeUtteranceIsHeard == Spec => []WholeUtteranceHeard
<1>1. PathInv => WholeUtteranceHeard
  <2> SUFFICES ASSUME PathInv, NEW r \in Rows, phase[r] = "closed"
               PROVE  EndOf(pcm[r]) = FinalSampleLimit(Len(Utterance(r)))
    BY DEF WholeUtteranceHeard
  <2>1. r \in Rows \ Uncond /\ LinkInv(r)
    BY DEF PathInv
  <2>2. decoded[r] = Len(published[r]) /\ P!TerminalSent(r)
    BY <2>1 DEF LinkInv
  <2>3. published[r] = P!Utterance(r)
    BY <2>1, <2>2 DEF PathInv, ProducerInv, P!DataInv, P!RowInv, P!First, P!ClosedInv
  <2>4. A!EndOf(pcm[r]) = A!FinalSampleLimit(decoded[r])
    BY DEF PathInv, A!StreamInv, A!CompleteAtClose
  <2>5. A!EndOf(pcm[r]) = EndOf(pcm[r])
    BY DEF A!EndOf, EndOf, Acoustic!EndOf
  <2>6. A!FinalSampleLimit(decoded[r]) = FinalSampleLimit(decoded[r])
    BY DEF A!FinalSampleLimit, FinalSampleLimit, A!MaxOf, MaxOf, A!SamplesPerCodecToken,
      SamplesPerCodecToken
  <2>7. P!Utterance(r) = Utterance(r)
    BY SameCodes DEF Utterance
  <2> QED BY <2>2, <2>3, <2>4, <2>5, <2>6, <2>7
<1> QED BY <1>1, PathInvariant, PTL

\* The two ladders, computed in two processes, agree: whenever the connector is
\* drained, stage 1 holds what stage 0 let go of, has decoded all of it, and
\* waits for the rung that stage 0 cuts next, provided the voice came.
THEOREM LaddersStayInStep == Spec => []LaddersAgree
<1>1. PathInv => LaddersAgree
  <2> SUFFICES ASSUME PathInv, NEW r \in Rows \ Uncond, phase[r] = "open", cursor[r].live,
                      delivered[r] = Len(wire[r]), delivered[r] > 0, ~Voiceless(r)
               PROVE  /\ stream[r].codes = cursor[r].next
                      /\ stream[r].last = cursor[r].next
                      /\ stream[r].next = cursor[r].next + cursor[r].block
    BY DEF LaddersAgree
  <2>1. PICK n : n = Len(wire[r]) /\ n \in Nat /\ n # 0
    BY DEF PathInv, ProducerInv, P!TypeOK
  <2>2. n \in 1..n /\ n \in 0..n
    BY <2>1
  <2>3. ~P!TerminalSent(r)
    BY DEF PathInv, ProducerInv, P!EndInv, P!WireInv, P!TerminalSent
  <2>4. P!CursorInv(r)
    BY <2>3 DEF PathInv, ProducerInv, P!DataInv, P!RowInv, P!First
  <2>5. PICK at : /\ Tally(wire[r], Len(published[r]), at)
                  /\ phase[r] = "open" => Follows(r, delivered[r], at[delivered[r]])
    BY DEF PathInv, LinkInv
  <2>6. at[n] = Len(published[r])
    BY <2>1, <2>5 DEF Tally
  <2>7. ~wire[r][n].final
    BY <2>1, <2>2, <2>3 DEF P!TerminalSent
  <2>13. wire[r][1].ref
    BY <2>1 DEF Voiceless
  <2>8. OnLadder(stream[r], Len(published[r]), Size(r, n))
    BY <2>1, <2>5, <2>6, <2>7, <2>13 DEF Follows
  <2>9. /\ published[r] = SubSeq(cursor[r].valid, 1, cursor[r].next)
        /\ cursor[r].block = P!NextBlock(P!Size(r, n))
    BY <2>1, <2>4 DEF P!CursorInv, P!CursorOf
  <2>10. /\ cursor[r].valid \in Seq(P!Codes) /\ cursor[r].next \in Nat
         /\ cursor[r].next <= Len(cursor[r].valid)
    BY DEF PathInv, ProducerInv, P!TypeOK, P!Cursors
  <2>11. Len(published[r]) = cursor[r].next
    BY <2>9, <2>10
  <2>12. cursor[r].block = NextBlock(Size(r, n))
    BY <2>9, SameLadder DEF Size, P!Size
  <2> QED BY <2>8, <2>11, <2>12 DEF OnLadder
<1> QED BY <1>1, PathInvariant, PTL

\* What the listeners of the path have heard, and the lengths they know.
PathHeard == [r \in Rows |-> IF Unbroken(pcm[r]) THEN EndOf(pcm[r]) ELSE -1]
PathLength == [r \in Rows |-> IF decoded[r] = 0 THEN -1 ELSE FinalSampleLimit(decoded[r])]

\* The ledger of the path is the ledger of its stage 1.
LEMMA SameLedger == PathInv => PathHeard = A!Heard /\ PathLength = A!Length
<1> SUFFICES ASSUME PathInv PROVE PathHeard = A!Heard /\ PathLength = A!Length
  OBVIOUS
<1>1. ASSUME NEW r \in Rows PROVE Unbroken(pcm[r])
  <2>1. A!ExactlyOnce
    BY DEF PathInv, A!StreamInv
  <2>2. ASSUME NEW i \in 1..Len(pcm[r]) PROVE pcm[r][i].from = Acoustic!StartOf(pcm[r], i)
    BY <2>1 DEF A!ExactlyOnce, A!StartOf, Acoustic!StartOf
  <2> QED BY <2>2 DEF Unbroken
<1>2. ASSUME NEW r \in Rows PROVE EndOf(pcm[r]) = A!EndOf(pcm[r])
  BY DEF A!EndOf, EndOf, Acoustic!EndOf
<1>3. ASSUME NEW n PROVE A!FinalSampleLimit(n) = FinalSampleLimit(n)
  BY DEF A!FinalSampleLimit, FinalSampleLimit, A!MaxOf, MaxOf, A!SamplesPerCodecToken,
    SamplesPerCodecToken
<1> QED BY <1>1, <1>2, <1>3 DEF A!Heard, A!Length, PathHeard, PathLength

\* The whole streaming path, cut, delivered and decoded as it may be, is the
\* sample ledger its listener is promised: samples go out in order, each once,
\* up to a length that is fixed once and never taken back.
THEOREM PathImplementsLedger == Spec => ImplementsLedger
<1>1. PathInv /\ Init => A!Init
  BY DEF Init, Acoustic!Init, A!Init, Acoustic!NoStream, A!NoStream, Acoustic!NoEmitter,
    A!NoEmitter
<1>2. Spec => A!OneLife
  BY <1>1, PathInvariant, PathStarts, AcousticStep, PTL DEF Spec, A!OneLife
<1>3. Spec => A!Ledger!LedgerSpec
  BY <1>2, Assumed, A!StreamsImplementLedger
<1>4. PathInv /\ A!Ledger!Init => Ledger!Init
  <2> SUFFICES ASSUME PathInv, A!Ledger!Init PROVE Ledger!Init
    OBVIOUS
  <2>1. A!Heard = [r \in Rows |-> 0] /\ A!Length = [r \in Rows |-> -1]
    BY DEF A!Ledger!Init, A!Ledger!Open
  <2> QED BY <2>1, SameLedger DEF Ledger!Init, Ledger!Open, PathHeard, PathLength
<1>5. PathInv' => (PathHeard = A!Heard)' /\ (PathLength = A!Length)'
  BY SameLedger, PTL
<1>6. PathInv /\ PathInv' /\ [A!Ledger!Next]_(A!Ledger!ledgerVars)
        => [Ledger!Next]_(Ledger!ledgerVars)
  <2> SUFFICES ASSUME PathInv, PathInv', [A!Ledger!Next]_(A!Ledger!ledgerVars)
               PROVE  [Ledger!Next]_(Ledger!ledgerVars)
    OBVIOUS
  <2>1. PathHeard = A!Heard /\ PathLength = A!Length
    BY SameLedger
  <2>2. PathHeard' = A!Heard' /\ PathLength' = A!Length'
    BY <1>5
  <2>3. CASE UNCHANGED A!Ledger!ledgerVars
    <3>1. PathHeard' = PathHeard /\ PathLength' = PathLength
      BY <2>1, <2>2, <2>3 DEF A!Ledger!ledgerVars
    <3> QED BY <3>1 DEF Ledger!ledgerVars, PathHeard, PathLength
  <2>4. ASSUME NEW r \in Rows, A!Ledger!Extend(r) PROVE Ledger!Extend(r)
    <3>1. /\ PathHeard'[r] > PathHeard[r]
          /\ PathLength[r] # -1 => PathHeard'[r] <= PathLength[r]
          /\ PathHeard' = [PathHeard EXCEPT ![r] = PathHeard'[r]]
          /\ PathLength' = PathLength
      BY <2>1, <2>2, <2>4 DEF A!Ledger!Extend, A!Ledger!Open
    <3> QED BY <3>1 DEF Ledger!Extend, Ledger!Open, PathHeard, PathLength
  <2>5. ASSUME NEW r \in Rows, A!Ledger!Seal(r) PROVE Ledger!Seal(r)
    <3>1. \A n : A!Ledger!FinalSampleLimit(n) = Ledger!FinalSampleLimit(n)
      BY DEF A!Ledger!FinalSampleLimit, Ledger!FinalSampleLimit, A!Ledger!MaxOf, Ledger!MaxOf,
        A!Ledger!SamplesPerCodecToken, Ledger!SamplesPerCodecToken
    <3>2. /\ PathLength[r] = -1
          /\ \E n \in 0..MaxTokens :
               PathLength' = [PathLength EXCEPT ![r] = Ledger!FinalSampleLimit(n)]
          /\ PathHeard'[r] \in PathHeard[r]..PathLength'[r]
          /\ PathHeard' = [PathHeard EXCEPT ![r] = PathHeard'[r]]
      BY <2>1, <2>2, <2>5, <3>1 DEF A!Ledger!Seal, A!Ledger!Open
    <3> QED BY <3>2 DEF Ledger!Seal, Ledger!Open, PathHeard, PathLength
  <2> QED BY <2>3, <2>4, <2>5 DEF A!Ledger!Next, Ledger!Next
<1> QED BY <1>3, <1>4, <1>6, PathInvariant, PTL
  DEF ImplementsLedger, Ledger!LedgerSpec, A!Ledger!LedgerSpec
=============================================================================

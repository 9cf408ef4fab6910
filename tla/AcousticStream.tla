--------------------------- MODULE AcousticStream ---------------------------
(***************************************************************************)
(* Stage 1 of the streaming path: what the acoustic model does with one    *)
(* connector payload, from the cumulative code buffer and the decode       *)
(* schedule of _forward_s3gen to the PCM slice that _emit_stream_slice     *)
(* lets out.                                                               *)
(*                                                                         *)
(* Codes are counted, not carried: a stream is cut by position only.  PCM  *)
(* is a sequence of segments [from, to) in ABSOLUTE samples of the         *)
(* utterance, computed from the bounds of the slice the code takes out of  *)
(* the decoded audio, so a repeated, skipped or reordered sample shows.    *)
(***************************************************************************)
EXTENDS DecodeLadder, Sequences

CONSTANTS
  Streams,        \* request ids, as carried by meta.req_id
  Lookahead,      \* ACOUSTIC_PRE_LOOKAHEAD_LEN: codes a non-final decode drops
  MinEmit,        \* ACOUSTIC_MIN_EMIT_CODES
  Crossfade,      \* ACOUSTIC_STREAM_CROSSFADE_SAMPLES
  CtxWindow,      \* ACOUSTIC_STREAM_CTX_WINDOW, 0 disables it
  OverlapMargin,  \* the literal 96 of the window widening
  PromptCodes,    \* codes of the reference prompt in front of every decode
  BankUnit,       \* MAX_SPEECH_TOKENS: the noise bank grows in these steps
  MaxPayload,     \* bound: codes in one payload
  MaxCodes        \* bound: codes in one utterance

ASSUME AcousticAssumption ==
  /\ Lookahead \in Nat \ {0}
  /\ MinEmit \in Nat \ {0}
  /\ Crossfade \in Nat \ {0}
  /\ CtxWindow \in Nat
  /\ OverlapMargin \in Nat
  /\ PromptCodes \in Nat
  /\ BankUnit \in Nat \ {0}
  /\ MaxPayload \in Nat
  /\ MaxCodes \in Nat

\* The overlap a window keeps over the previous decode point must cover what
\* that decode held back: its lookahead codes and its crossfade tail.
ASSUME MarginAssumption ==
  /\ OverlapMargin >= Lookahead + MinEmit
  /\ OverlapMargin * SamplesPerCodecToken >= Lookahead * SamplesPerCodecToken + Crossfade

VARIABLES
  stream,   \* _stream_codes, _stream_next_decode, _stream_block,
            \* _stream_last_decode_at, _stream_cond, by request id
  emitter,  \* s3gen._stream_state: samples committed and held-back tail
  bank,     \* s3gen._stream_noise: size of the cached noise bank, 0 if none
  pcm,      \* history: the segments handed to the client
  decoded,  \* history: codes in the final decode
  phase     \* history: how the stream stands

vars == <<stream, emitter, bank, pcm, decoded, phase>>

\* "silent": the terminal payload came and there was nothing to decode.
\* "failed": the emitter raised AcousticError.  "raised": the vocoder raised.
\* "gone": on_requests_finished.
Phases == {"open", "closed", "silent", "failed", "raised", "gone"}

NoStream == [codes |-> 0, next |-> 0, block |-> 0, last |-> 0, cond |-> FALSE]
NoEmitter == [committed |-> 0, tail |-> 0]

Segment == [from : Nat, to : Nat]

TypeOK ==
  /\ stream \in [Streams -> [codes : Nat, next : Nat, block : BlockSizes,
                             last : Nat, cond : BOOLEAN]]
  /\ emitter \in [Streams -> [committed : Nat, tail : {0, Crossfade}]]
  /\ bank \in [Streams -> Nat]
  /\ pcm \in [Streams -> Seq(Segment)]
  /\ decoded \in [Streams -> Nat]
  /\ phase \in [Streams -> Phases]

Init ==
  /\ stream = [r \in Streams |-> NoStream]
  /\ emitter = [r \in Streams |-> NoEmitter]
  /\ bank = [r \in Streams |-> 0]
  /\ pcm = [r \in Streams |-> <<>>]
  /\ decoded = [r \in Streams |-> 0]
  /\ phase = [r \in Streams |-> "open"]

-----------------------------------------------------------------------------
(* _forward_s3gen: the buffer and the schedule                             *)

\* Fault variant: the payload takes the place of the prefix.
ReceivedAlone(r, k, ref) ==
  [stream[r] EXCEPT !.codes = k, !.cond = @ \/ ref]

\* The payload is appended and its reference, if it is the first, kept.
Received(r, k, ref) ==
  [stream[r] EXCEPT !.codes = @ + k, !.cond = @ \/ ref]

\* The ladder starts with the first decode the buffer is tested for.
Laddered(s) ==
  IF s.next = 0 THEN [s EXCEPT !.next = FirstBlock, !.block = FirstBlock] ELSE s

\* Fault variant: the window is never widened.
WindowStartFixed(s) ==
  IF CtxWindow > 0 /\ s.next > CtxWindow THEN s.next - CtxWindow ELSE 0

\* First code a non-final decode renders: 0 unless the context window is on
\* and passed, and then widened to reach back over the previous decode point.
WindowStart(s) ==
  IF CtxWindow > 0 /\ s.next > CtxWindow
  THEN MaxOf(0, s.next - MaxOf(CtxWindow, s.next - s.last + OverlapMargin))
  ELSE 0

\* Fault variant: the next rung is a block of the old size away.
AdvancedShort(s) ==
  [s EXCEPT !.last = s.next, !.block = NextBlock(s.block), !.next = s.next + s.block]

\* The schedule moves on when the decode is queued, whatever it then emits.
Advanced(s) ==
  [s EXCEPT !.last = s.next,
            !.block = NextBlock(s.block),
            !.next = s.next + NextBlock(s.block)]

-----------------------------------------------------------------------------
(* decode_batch and _emit_stream_slice: the audio of one decode            *)

\* Fault variant: the final decode is not cropped.
AudioSamplesUncropped(len, final) ==
  (IF final THEN len ELSE len - Lookahead) * SamplesPerCodecToken

\* Samples of `len` decoded codes.  A final decode is cropped, a non-final one
\* loses the lookahead and renders nothing while fewer than MinEmit are left.
AudioSamples(len, final) ==
  IF final
  THEN MinOf(len * SamplesPerCodecToken, FinalSampleLimit(len))
  ELSE (len - Lookahead) * SamplesPerCodecToken

Rendered(len, final) == final \/ len - Lookahead >= MinEmit

\* Fault variant: the bank is as long as the decode, not quantised.
BankForExact(offset, len, final) ==
  2 * (PromptCodes + len - (IF final THEN 0 ELSE Lookahead) + offset)

\* Size of the noise bank a decode of `len` codes at `offset` needs: a whole
\* number of units covering every mel frame up to the end of the decode.
BankFor(offset, len, final) ==
  LET dropped == IF final THEN 0 ELSE Lookahead
      need == 2 * (PromptCodes + len - dropped + offset)
      unit == 2 * BankUnit
  IN  (MaxOf(0, need - 1) \div unit + 1) * unit

\* s[i:j] of a list of n items, for 0 <= i: the bounds Python clamps them to.
Slice(i, j, n) == [from |-> MinOf(i, n), to |-> MaxOf(MinOf(i, n), MinOf(j, n))]

\* Fault variant: the decoded prefix is sent whole, however much was sent.
SentWhole(e, base, n, cut) == [from |-> base, to |-> cut]

\* The segment sent, in absolute samples, for audio of n samples at `base`.
Sent(e, base, n, cut) ==
  LET s == Slice(IF e.tail = 0 THEN 0 ELSE e.committed - base, cut - base, n)
  IN  [from |-> base + s.from, to |-> base + s.to]

Deliver(r, seg) ==
  pcm' = [pcm EXCEPT ![r] = IF seg.from = seg.to THEN @ ELSE Append(@, seg)]

\* _emit_stream_slice for the n samples of a rung decoded from sample `base`:
\* all but a crossfade tail goes out, unless it was sent before; audio that
\* starts past what was sent is an AcousticError.
EmitSlice(r, base, n) ==
  LET cut == base + n - Crossfade
      e == emitter[r]
  IN  \/ /\ cut <= e.committed
         /\ UNCHANGED <<emitter, pcm, phase>>
      \/ /\ cut > e.committed /\ base > e.committed
         /\ phase' = [phase EXCEPT ![r] = "failed"]
         /\ UNCHANGED <<emitter, pcm>>
      \/ /\ cut > e.committed /\ base <= e.committed
         /\ Deliver(r, Sent(e, base, n, cut))
         /\ emitter' = [emitter EXCEPT ![r] = [committed |-> cut, tail |-> Crossfade]]
         /\ UNCHANGED phase

\* decode_batch for `len` codes from `offset`, not the last of the stream:
\* nothing is rendered yet, or the bank is drawn and new audio let out.
RenderRung(r, offset, len) ==
  IF Rendered(len, FALSE)
  THEN /\ bank' = [bank EXCEPT ![r] = BankFor(offset, len, FALSE)]
       /\ EmitSlice(r, offset * SamplesPerCodecToken, AudioSamples(len, FALSE))
  ELSE UNCHANGED <<bank, emitter, pcm, phase>>

-----------------------------------------------------------------------------
(* One payload of k codes, with or without the reference, final or not     *)

Payload(r, k) == phase[r] = "open" /\ stream[r].codes + k <= MaxCodes

\* No reference known: the codes are refused, never decoded in another voice.
DropUnvoiced(r, k, ref, final) ==
  /\ Payload(r, k)
  /\ ~(stream[r].cond \/ ref)
  /\ phase' = [phase EXCEPT ![r] = IF final THEN "silent" ELSE "open"]
  /\ UNCHANGED <<stream, emitter, bank, pcm, decoded>>

\* No code yet: only the reference is kept, the schedule does not start.
KeepReference(r, k, ref, final) ==
  LET s == Received(r, k, ref)
  IN  /\ Payload(r, k)
      /\ s.cond /\ s.codes = 0
      /\ stream' = [stream EXCEPT ![r] = s]
      /\ phase' = [phase EXCEPT ![r] = IF final THEN "silent" ELSE "open"]
      /\ UNCHANGED <<emitter, bank, pcm, decoded>>

\* Short of the next rung: buffer only.
Buffer(r, k, ref, final) ==
  LET s == Laddered(Received(r, k, ref))
  IN  /\ Payload(r, k)
      /\ s.cond /\ s.codes > 0 /\ ~final
      /\ s.codes < s.next
      /\ stream' = [stream EXCEPT ![r] = s]
      /\ UNCHANGED <<emitter, bank, pcm, decoded, phase>>

\* A rung is reached: exactly the scheduled codes are decoded, from the window
\* start, and the samples past what is committed go out.
DecodeRung(r, k, ref, final) ==
  LET s == Laddered(Received(r, k, ref))
  IN  /\ Payload(r, k)
      /\ s.cond /\ s.codes > 0 /\ ~final
      /\ s.codes >= s.next
      /\ stream' = [stream EXCEPT ![r] = Advanced(s)]
      /\ RenderRung(r, WindowStart(s), s.next - WindowStart(s))
      /\ UNCHANGED decoded

\* End of stream: the whole prefix is decoded, cropped, and what was not yet
\* sent goes out; every trace of the stream is dropped.  No length is refused.
DecodeFinal(r, k, ref, final) ==
  LET s == Laddered(Received(r, k, ref))
      cut == AudioSamples(s.codes, TRUE)
  IN  /\ Payload(r, k)
      /\ s.cond /\ s.codes > 0 /\ final
      /\ Deliver(r, Sent(emitter[r], 0, cut, cut))
      /\ stream' = [stream EXCEPT ![r] = NoStream]
      /\ emitter' = [emitter EXCEPT ![r] = NoEmitter]
      /\ bank' = [bank EXCEPT ![r] = 0]
      /\ decoded' = [decoded EXCEPT ![r] = s.codes]
      /\ phase' = [phase EXCEPT ![r] = "closed"]

\* End of a stream of fewer codes than the vocoder is said to pad, which only a
\* decode that is not final looks out for: the buffers of the stream are gone
\* and its bank is drawn when the exception ends the execution.
DecodeRaises(r, k, ref, final) ==
  LET s == Laddered(Received(r, k, ref))
  IN  /\ Payload(r, k)
      /\ s.cond /\ s.codes > 0 /\ final
      /\ s.codes < MinEmit
      /\ stream' = [stream EXCEPT ![r] = NoStream]
      /\ bank' = [bank EXCEPT ![r] = BankFor(0, s.codes, TRUE)]
      /\ phase' = [phase EXCEPT ![r] = "raised"]
      /\ UNCHANGED <<emitter, pcm, decoded>>

Forward(r, k, ref, final) ==
  \/ DropUnvoiced(r, k, ref, final)
  \/ KeepReference(r, k, ref, final)
  \/ Buffer(r, k, ref, final)
  \/ DecodeRung(r, k, ref, final)
  \/ DecodeFinal(r, k, ref, final)
  \/ DecodeRaises(r, k, ref, final)

\* Fault variant: the held-back tail of a cancelled stream is kept.
ReleaseKeepTail(r) ==
  /\ phase[r] # "gone"
  /\ stream' = [stream EXCEPT ![r] = NoStream]
  /\ phase' = [phase EXCEPT ![r] = "gone"]
  /\ UNCHANGED <<emitter, bank, pcm, decoded>>

\* on_requests_finished and release_stream_state, for a cancelled or a
\* finished request: the engine schedules it no more.
Release(r) ==
  /\ phase[r] # "gone"
  /\ stream' = [stream EXCEPT ![r] = NoStream]
  /\ emitter' = [emitter EXCEPT ![r] = NoEmitter]
  /\ bank' = [bank EXCEPT ![r] = 0]
  /\ phase' = [phase EXCEPT ![r] = "gone"]
  /\ UNCHANGED <<pcm, decoded>>

\* The id is used again once it was released, and finds what was left under it.
Reopen(r) ==
  /\ phase[r] = "gone"
  /\ pcm' = [pcm EXCEPT ![r] = <<>>]
  /\ decoded' = [decoded EXCEPT ![r] = 0]
  /\ phase' = [phase EXCEPT ![r] = "open"]
  /\ UNCHANGED <<stream, emitter, bank>>

\* A step in the life of one request.
Step ==
  \E r \in Streams :
    \/ \E k \in 0..MaxPayload, ref, final \in BOOLEAN : Forward(r, k, ref, final)
    \/ Release(r)

Next == Step \/ \E r \in Streams : Reopen(r)

Spec == Init /\ [][Next]_vars

\* Every id is used once, as in the streaming path.
OneLife == Init /\ [][Step]_vars

-----------------------------------------------------------------------------
(* Properties                                                              *)

EndOf(segs) == IF segs = <<>> THEN 0 ELSE segs[Len(segs)].to

StartOf(segs, i) == IF i = 1 THEN 0 ELSE segs[i - 1].to

\* Each PCM sample is emitted exactly once, in order, with no gap: every
\* segment a client gets starts where the one before it ended, and the first
\* at the start of its own utterance, whatever request had the id before (the
\* second streaming invariant of streaming.py, through every decoded prefix).
ExactlyOnce ==
  \A r \in Streams : \A i \in 1..Len(pcm[r]) :
    /\ pcm[r][i].from = StartOf(pcm[r], i)
    /\ pcm[r][i].from < pcm[r][i].to

\* The bounded context window never starts past what was already sent: the
\* AcousticError of _emit_stream_slice cannot be raised, whatever the window.
NoWindowGap == \A r \in Streams : phase[r] # "failed"

\* A stream closed by its terminal payload has delivered exactly the cropped
\* one-shot length of the codes it received, however they were cut up.
CompleteAtClose ==
  \A r \in Streams :
    phase[r] = "closed" => EndOf(pcm[r]) = FinalSampleLimit(decoded[r])

\* Once a rung is decoded, the client lags it by the lookahead and one
\* crossfade at most: no decode keeps more back.
HeldBackBounded ==
  \A r \in Streams :
    phase[r] = "open" /\ stream[r].last >= Lookahead + MinEmit =>
      EndOf(pcm[r]) + Crossfade + Lookahead * SamplesPerCodecToken
        >= stream[r].last * SamplesPerCodecToken

\* A stream's noise bank is never redrawn while the stream is open, so a prefix
\* decoded again meets the same noise at the same position.
NoiseStable ==
  [][\A r \in Streams :
       bank[r] # 0 /\ phase'[r] = "open" => bank'[r] = bank[r]]_vars

-----------------------------------------------------------------------------
(* The inductive invariant behind them                                     *)

\* What a released stream leaves to the next one of its id.
NothingLeft(r) ==
  phase[r] = "gone" => stream[r] = NoStream /\ emitter[r] = NoEmitter /\ bank[r] = 0

\* The schedule of an open stream: not started, or ahead of the last decode,
\* which had all its codes.
ScheduleInv(s) ==
  /\ s.next = 0 => s.codes = 0 /\ s.last = 0
  /\ s.next # 0 => s.block # 0 /\ s.last < s.next
  /\ s.last <= s.codes

\* What is committed is what was sent, and lags the last decode by exactly the
\* lookahead and the crossfade, once a decode had codes enough to render.
EmitterInv(s, e, segs) ==
  /\ e.committed = EndOf(segs)
  /\ e.tail = 0 <=> e.committed = 0
  /\ e.committed # 0 =>
       e.committed + Crossfade + Lookahead * SamplesPerCodecToken <= s.last * SamplesPerCodecToken
  /\ s.last >= Lookahead + MinEmit =>
       e.committed + Crossfade + Lookahead * SamplesPerCodecToken >= s.last * SamplesPerCodecToken

\* Together with the type invariant, preserved by every step: it is what makes
\* a window that reaches back over the last decode reach back over all the
\* audio that decode kept.
StreamInv ==
  /\ NoWindowGap
  /\ ExactlyOnce
  /\ CompleteAtClose
  /\ \A r \in Streams :
       /\ NothingLeft(r)
       /\ phase[r] = "open" =>
            ScheduleInv(stream[r]) /\ EmitterInv(stream[r], emitter[r], pcm[r])
=============================================================================

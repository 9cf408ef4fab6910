--------------------------- MODULE StreamPipeline ---------------------------
(***************************************************************************)
(* The streaming path end to end: the code transport of stage 0, the       *)
(* connector, and the acoustic stage.  Each stage runs in a process of its *)
(* own with a decode ladder of its own; only payloads pass between them.   *)
(* The connector is external: it delivers a row's payloads in order, and   *)
(* one without codes has nothing to put on the token path, so it starts no *)
(* forward pass of stage 1.                                                *)
(***************************************************************************)
EXTENDS DecodeLadder, Sequences

CONSTANTS
  Rows, Uncond, Draws, STOP, NONCODE,
  MaxTokens, MaxControl, MaxEpochs,
  Lookahead, MinEmit, Crossfade, CtxWindow, OverlapMargin, PromptCodes, BankUnit

VARIABLES
  output, status, epoch, cursor, wire, published, refused,  \* stage 0
  stream, emitter, bank, pcm, decoded, phase,    \* stage 1
  delivered                                      \* payloads the connector handed on

stage0 == <<output, status, epoch, cursor, wire, published, refused>>
stage1 == <<stream, emitter, bank, pcm, decoded, phase>>
vars == <<stage0, stage1, delivered>>

\* What CodecTransport and AcousticStream ask of their constants.
ASSUME PipelineAssumption ==
  /\ Uncond \subseteq Rows
  /\ \A d \in Draws, n \in 0..MaxTokens : <<d, n>> \notin {STOP, NONCODE}
  /\ STOP # NONCODE
  /\ MaxTokens \in Nat /\ MaxControl \in Nat /\ MaxEpochs \in Nat
  /\ Lookahead \in Nat \ {0} /\ MinEmit \in Nat \ {0} /\ Crossfade \in Nat \ {0}
  /\ CtxWindow \in Nat /\ OverlapMargin \in Nat
  /\ PromptCodes \in Nat /\ BankUnit \in Nat \ {0}
  /\ OverlapMargin >= Lookahead + MinEmit
  /\ OverlapMargin * SamplesPerCodecToken >= Lookahead * SamplesPerCodecToken + Crossfade

Producer == INSTANCE CodecTransport
Acoustic == INSTANCE AcousticStream WITH
  Streams <- Rows, MaxPayload <- MaxTokens, MaxCodes <- MaxTokens

Init ==
  /\ Producer!Init
  /\ Acoustic!Init
  /\ delivered = [r \in Rows |-> 0]

Generate(r, t) == Producer!Generate(r, t) /\ UNCHANGED <<stage1, delivered>>
Finish(r) == Producer!Finish(r) /\ UNCHANGED <<stage1, delivered>>
Callback(r) == Producer!Callback(r) /\ UNCHANGED <<stage1, delivered>>

\* The client hangs up; both stages are told, each in its own time.
Cancel(r) == Producer!Abort(r) /\ UNCHANGED <<stage1, delivered>>

\* The next payload of a row that stage 1 still runs.
Pending(r) == phase[r] = "open" /\ delivered[r] < Len(wire[r])
Arriving(r) == wire[r][delivered[r] + 1]

Deliver(r) ==
  /\ Pending(r)
  /\ Arriving(r).codes # <<>>
  /\ Acoustic!Forward(r, Len(Arriving(r).codes), Arriving(r).ref, Arriving(r).final)
  /\ delivered' = [delivered EXCEPT ![r] = @ + 1]
  /\ UNCHANGED stage0

DropBare(r) ==
  /\ Pending(r)
  /\ Arriving(r).codes = <<>>
  /\ delivered' = [delivered EXCEPT ![r] = @ + 1]
  /\ UNCHANGED <<stage0, stage1>>

\* on_requests_finished at stage 1: the request was cancelled, or has ended.
Release(r) ==
  /\ status[r] = "aborted" \/ phase[r] # "open"
  /\ Acoustic!Release(r)
  /\ UNCHANGED <<stage0, delivered>>

Next ==
  \E r \in Rows :
    \/ \E t \in Producer!Sampled(r) : Generate(r, t)
    \/ Finish(r)
    \/ Callback(r)
    \/ Cancel(r)
    \/ Deliver(r)
    \/ DropBare(r)
    \/ Release(r)

\* Generation ends, the engine keeps calling back, the connector keeps
\* delivering, and the scheduler runs whatever was delivered.
Fairness ==
  \A r \in Rows :
    /\ WF_vars(Finish(r))
    /\ WF_vars(Callback(r))
    /\ WF_vars(Deliver(r))
    /\ WF_vars(DropBare(r))

Spec == Init /\ [][Next]_vars /\ Fairness

-----------------------------------------------------------------------------
(* Properties                                                              *)

Utterance(r) == Producer!Utterance(r)
EndOf(segs) == Acoustic!EndOf(segs)

\* The first payload, the only one that can bring the reference, brought none.
Voiceless(r) == wire[r] # <<>> /\ ~wire[r][1].ref

\* The two ladders, computed apart, agree: whenever the connector is drained,
\* stage 1 holds exactly the codes stage 0 let go of, has decoded all of them,
\* and waits for the rung that stage 0 will cut next.  Only a stream whose first
\* payload came without the voice is out of step: all its codes are refused.
LaddersAgree ==
  \A r \in Rows \ Uncond :
    phase[r] = "open" /\ cursor[r].live /\ delivered[r] = Len(wire[r])
        /\ delivered[r] > 0 /\ ~Voiceless(r) =>
      /\ stream[r].codes = cursor[r].next
      /\ stream[r].last = cursor[r].next
      /\ stream[r].next = cursor[r].next + cursor[r].block

\* What the listener of a closed stream has heard is the cropped one-shot
\* length of the whole utterance, wherever it was cut and whenever it ended.
WholeUtteranceHeard ==
  \A r \in Rows :
    phase[r] = "closed" =>
      EndOf(pcm[r]) = FinalSampleLimit(Len(Utterance(r)))

Unbroken(segs) ==
  \A i \in 1..Len(segs) : segs[i].from = Acoustic!StartOf(segs, i)

Ledger == INSTANCE PCMLedger WITH
  Listeners <- Rows,
  MaxCodes <- MaxTokens,
  delivered <- [r \in Rows |-> IF Unbroken(pcm[r]) THEN EndOf(pcm[r]) ELSE -1],
  limit <- [r \in Rows |-> IF decoded[r] = 0 THEN -1 ELSE FinalSampleLimit(decoded[r])]

\* The streaming path implements the sample ledger its listener is promised.
ImplementsLedger == Ledger!LedgerSpec

\* An utterance, once generated, is heard to its end, unless its voice is missing
\* or it is shorter than the vocoder is said to bear.
Heard ==
  \A r \in Rows \ Uncond :
    status[r] = "finished" /\ Len(Utterance(r)) >= MinEmit ~>
      decoded[r] = Len(Utterance(r)) \/ Voiceless(r)
=============================================================================

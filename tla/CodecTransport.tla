--------------------------- MODULE CodecTransport ---------------------------
(***************************************************************************)
(* Stage 0 of the streaming path: codec_async_chunk, called back by the    *)
(* engine with a row's cumulative output, feeds the CodecCursor kept for   *)
(* the row's request id and publishes the blocks the cursor lets go.       *)
(*                                                                         *)
(* A row's output is a sequence of tokens: codes, or one of the control    *)
(* tokens STOP and NONCODE (start of speech, or an id out of range).  The  *)
(* callback only compares codes for equality, so those of a submission are *)
(* all different: a drawing of Draws with their place in the output.  What *)
(* the engine does around the callback (generate, finish, cancel, submit   *)
(* the same external id again) is external, the environment of the model.  *)
(***************************************************************************)
EXTENDS DecodeLadder, FiniteSets, SequencesExt

CONSTANTS
  Rows,           \* stage-0 request ids
  Uncond,         \* those with the __cfg_uncond suffix
  Draws,          \* what a submission may generate: one drawing of codes each
  STOP, NONCODE,
  MaxTokens,      \* bound: tokens of one submission
  MaxControl,     \* bound: control tokens of one row
  MaxEpochs       \* bound: submissions of one id

ASSUME TransportAssumption ==
  /\ Uncond \subseteq Rows
  /\ \A d \in Draws, n \in 0..MaxTokens : <<d, n>> \notin {STOP, NONCODE}
  /\ STOP # NONCODE
  /\ MaxTokens \in Nat /\ MaxControl \in Nat /\ MaxEpochs \in Nat

VARIABLES
  output,   \* request.output_token_ids, cumulative
  status,   \* the row in the engine: "running", "finished", "aborted"
  epoch,    \* history: how often the id has been submitted
  cursor,   \* _CURSORS, NoCursor where the id has none
  wire,     \* payloads published for the current submission
  published, \* history: the codes of those payloads, one after the other
  refused   \* rows whose callback raised StreamStateError

vars == <<output, status, epoch, cursor, wire, published, refused>>

Codes == Draws \X (1..MaxTokens)
Control == {STOP, NONCODE}

\* The id has no cursor; a new one has the same values.
NoCursor == [live |-> FALSE, accepted |-> <<>>, valid |-> <<>>, next |-> 0,
             seq |-> 0, block |-> 0, reason |-> "none", sent |-> FALSE]
NewCursor == [NoCursor EXCEPT !.live = TRUE]

Cursors ==
  [live : BOOLEAN, accepted : Seq(Codes \cup Control), valid : Seq(Codes), next : Nat,
   seq : Nat, block : BlockSizes, reason : {"none", "eos", "length_limit"}, sent : BOOLEAN]

Payloads == [codes : Seq(Codes), seq : Nat, final : BOOLEAN, ref : BOOLEAN]

TypeOK ==
  /\ output \in [Rows -> Seq(Codes \cup Control)]
  /\ status \in [Rows -> {"running", "finished", "aborted"}]
  /\ epoch \in [Rows -> Nat \ {0}]
  /\ cursor \in [Rows -> Cursors]
  /\ \A r \in Rows : cursor[r].next <= Len(cursor[r].valid)
  /\ wire \in [Rows -> Seq(Payloads)]
  /\ published \in [Rows -> Seq(Codes)]
  /\ refused \in [Rows -> BOOLEAN]

Init ==
  /\ output = [r \in Rows |-> <<>>]
  /\ status = [r \in Rows |-> "running"]
  /\ epoch = [r \in Rows |-> 1]
  /\ cursor = [r \in Rows |-> NoCursor]
  /\ wire = [r \in Rows |-> <<>>]
  /\ published = [r \in Rows |-> <<>>]
  /\ refused = [r \in Rows |-> FALSE]

-----------------------------------------------------------------------------
(* CodecCursor                                                             *)

IsCode(t) == t \in Codes

\* The members of a sequence at the places in I, in their order there.
Picked(s, I) ==
  [n \in 1..Cardinality(I) |->
     s[CHOOSE i \in I : Cardinality({j \in I : j <= i}) = n]]

\* Where a list of tokens has its codes, those after its first STOP left out.
Kept(ts) == {i \in DOMAIN ts : IsCode(ts[i]) /\ \A j \in 1..i : ts[j] # STOP}

\* The codes of a list of tokens before its first STOP.
CodesOf(ts) == Picked(ts, Kept(ts))

\* observe() raises on a list that shrank or rewrote its accepted prefix; one
\* of the length already seen returns before the prefix is looked at.
Contradicts(c, ids) ==
  Len(ids) # Len(c.accepted) /\ ~IsPrefix(c.accepted, ids)

\* Fault variant: codes after EOS are accepted.
ObservePastEos(c, ids) ==
  LET new == SubSeq(ids, Len(c.accepted) + 1, Len(ids))
  IN  [c EXCEPT !.accepted = @ \o new,
                !.valid = @ \o Picked(new, {i \in DOMAIN new : IsCode(new[i])}),
                !.reason = IF STOP \in Range(new) THEN "eos" ELSE @]

\* observe(): the new tokens are accepted, the codes before the first STOP
\* become valid, and nothing does once the cursor is terminal.
Observe(c, ids) ==
  LET new == SubSeq(ids, Len(c.accepted) + 1, Len(ids))
      kept == IF c.reason = "none" THEN CodesOf(new) ELSE <<>>
  IN  [c EXCEPT !.accepted = @ \o new,
                !.valid = @ \o kept,
                !.reason = IF @ = "none" /\ STOP \in Range(new)
                           THEN "eos" ELSE @]

\* mark_terminal(LENGTH_LIMIT) on a finished request: the first reason stays.
MarkFinished(c, finished) ==
  IF finished /\ c.reason = "none" THEN [c EXCEPT !.reason = "length_limit"] ELSE c

\* Fault variant: only the cursor's own EOS flushes.
TerminalAtEos(c, finished) == c.reason = "eos"

Terminal(c, finished) == finished \/ c.reason # "none"

\* Fault variants: no code is kept for the terminal payload; and all but one
\* of the available codes go at once, off the ladder.
TakeCountNoHoldback(c, flushing) ==
  LET available == Len(c.valid) - c.next
      block == IF c.block = 0 THEN FirstBlock ELSE c.block
  IN  IF flushing THEN available ELSE IF available >= block THEN block ELSE 0

TakeCountAll(c, flushing) ==
  LET available == Len(c.valid) - c.next
      block == IF c.block = 0 THEN FirstBlock ELSE c.block
  IN  IF flushing THEN available
      ELSE IF available - 1 >= block THEN available - 1 ELSE 0

\* Codes take_scheduled_chunk lets go: everything on a flush, else one whole
\* block provided a code is left over for the terminal payload.
TakeCount(c, flushing) ==
  LET available == Len(c.valid) - c.next
      block == IF c.block = 0 THEN FirstBlock ELSE c.block
  IN  IF flushing THEN available
      ELSE IF available - 1 >= block THEN block ELSE 0

\* The cursor after take_scheduled_chunk.
Taken(c, flushing) ==
  LET n == TakeCount(c, flushing)
      block == IF c.block = 0 THEN FirstBlock ELSE c.block
  IN  [c EXCEPT !.next = @ + n,
                !.seq = IF n > 0 THEN @ + 1 ELSE @,
                !.block = IF n > 0 /\ ~flushing THEN NextBlock(block) ELSE block]

-----------------------------------------------------------------------------
(* codec_async_chunk                                                       *)

IsCompanion(r) == r \in Uncond

\* The reference goes with the first payload, if the output then has one: the
\* row may have been given none, or empty tensors, which stage 1 takes for none.
CarriesReference(c, voiced) == c.seq = 1 /\ voiced

\* send_terminal claims the end of the stream, and the cursor is dropped.
Released(c, final) == IF final THEN NoCursor ELSE c

CursorOf(r) == IF cursor[r].live THEN cursor[r] ELSE NewCursor

Finished(r) == status[r] = "finished"

TerminalSent(r) == \E i \in 1..Len(wire[r]) : wire[r][i].final

\* The engine calls back rows it still runs or has just finished, and never
\* after the terminal payload.
Called(r) ==
  /\ status[r] # "aborted"
  /\ ~refused[r]
  /\ ~TerminalSent(r)

\* A payload: its codes, its number, the end-of-stream mark, and whether it
\* carries the reference conditioning.
Publish(r, payload) ==
  /\ wire' = [wire EXCEPT ![r] = Append(@, payload)]
  /\ published' = [published EXCEPT ![r] = @ \o payload.codes]

\* The companion row publishes one bare terminal marker and never a code.
CallbackUncond(r) ==
  /\ IsCompanion(r) /\ Called(r)
  /\ IF Finished(r) /\ ~CursorOf(r).sent
     THEN /\ Publish(r, [codes |-> <<>>, seq |-> CursorOf(r).seq,
                         final |-> TRUE, ref |-> FALSE])
          /\ cursor' = [cursor EXCEPT ![r] =
                           Released([CursorOf(r) EXCEPT !.sent = TRUE], TRUE)]
     ELSE /\ cursor' = [cursor EXCEPT ![r] = CursorOf(r)]
          /\ UNCHANGED <<wire, published>>
  /\ UNCHANGED <<output, status, epoch, refused>>

\* A rewritten or shortened history is an error of the whole callback.
CallbackRefused(r) ==
  /\ ~IsCompanion(r) /\ Called(r)
  /\ Contradicts(CursorOf(r), output[r])
  /\ refused' = [refused EXCEPT ![r] = TRUE]
  /\ UNCHANGED <<output, status, epoch, cursor, wire, published>>

\* The conditional row: observe, then publish what the schedule lets go.  The
\* terminal payload goes out even without codes, once, and drops the cursor.
CallbackCond(r) ==
  /\ ~IsCompanion(r) /\ Called(r)
  /\ ~Contradicts(CursorOf(r), output[r])
  /\ \E seen \in {MarkFinished(Observe(CursorOf(r), output[r]), Finished(r))} :
     \E flushing \in {Terminal(seen, Finished(r))} :
     \E c \in {Taken(seen, flushing)}, final \in {flushing /\ ~seen.sent}, voiced \in BOOLEAN :
       /\ IF c.next > seen.next \/ final
          THEN Publish(r, [codes |-> SubSeq(c.valid, seen.next + 1, c.next),
                           seq |-> c.seq, final |-> final,
                           ref |-> CarriesReference(c, voiced)])
          ELSE UNCHANGED <<wire, published>>
       /\ cursor' = [cursor EXCEPT ![r] =
                       Released([c EXCEPT !.sent = @ \/ flushing], final)]
  /\ UNCHANGED <<output, status, epoch, refused>>

Callback(r) == CallbackUncond(r) \/ CallbackRefused(r) \/ CallbackCond(r)

-----------------------------------------------------------------------------
(* The engine around the callback (external)                               *)

ControlCount(r) == Len(SelectSeq(output[r], LAMBDA t : ~IsCode(t)))

\* What the next decode step may sample: the next code of the submission's
\* drawing, or a control token.
Sampled(r) ==
  {<<d, Len(output[r]) + 1>> : d \in
     {e \in Draws : \A i \in 1..Len(output[r]) : IsCode(output[r][i]) => output[r][i][1] = e}}
  \cup {t \in Control : ControlCount(r) < MaxControl}

\* One decode step: a token is sampled, and the callback may come much later.
\* The callback never looks at a companion's output, which is left out.
Generate(r, t) ==
  /\ status[r] = "running" /\ ~IsCompanion(r)
  /\ Len(output[r]) < MaxTokens
  /\ t \in Sampled(r)
  /\ output' = [output EXCEPT ![r] = Append(@, t)]
  /\ UNCHANGED <<status, epoch, cursor, wire, published, refused>>

\* End of generation: EOS (perhaps only in the stop metadata) or the limit.
Finish(r) ==
  /\ status[r] = "running"
  /\ status' = [status EXCEPT ![r] = "finished"]
  /\ UNCHANGED <<output, epoch, cursor, wire, published, refused>>

\* Cancellation.  No code of stage 0 runs: the cursor stays in _CURSORS.
Abort(r) ==
  /\ status[r] = "running"
  /\ status' = [status EXCEPT ![r] = "aborted"]
  /\ UNCHANGED <<output, epoch, cursor, wire, published, refused>>

\* A client retries a cancelled utterance under the same external id.
Resubmit(r) ==
  /\ status[r] = "aborted"
  /\ epoch[r] < MaxEpochs
  /\ status' = [status EXCEPT ![r] = "running"]
  /\ epoch' = [epoch EXCEPT ![r] = @ + 1]
  /\ output' = [output EXCEPT ![r] = <<>>]
  /\ wire' = [wire EXCEPT ![r] = <<>>]
  /\ published' = [published EXCEPT ![r] = <<>>]
  /\ UNCHANGED <<cursor, refused>>

Next ==
  \E r \in Rows :
    \/ Callback(r)
    \/ \E t \in Sampled(r) : Generate(r, t)
    \/ Finish(r)
    \/ Abort(r)
    \/ Resubmit(r)

\* The engine keeps calling back; generation stops at EOS or at its limit.
Fairness == \A r \in Rows : WF_vars(Callback(r)) /\ WF_vars(Finish(r))

Spec == Init /\ [][Next]_vars /\ Fairness

-----------------------------------------------------------------------------
(* Properties                                                              *)

\* The id has not been submitted before.
First(r) == epoch[r] = 1

\* The codes of an utterance: everything legal before its first EOS.
Utterance(r) == CodesOf(output[r])

Finals(r) == {i \in 1..Len(wire[r]) : wire[r][i].final}

\* Every code is published exactly once, in order, none past EOS, and the
\* terminal payload leaves none behind (the first invariant of streaming.py).
CodesOnce ==
  \A r \in Rows \ Uncond : First(r) =>
    /\ IsPrefix(published[r], Utterance(r))
    /\ TerminalSent(r) => published[r] = Utterance(r)

\* The terminal flag always has a carrier: the terminal payload of an utterance
\* with any code at all has a code, so it is not dropped on the token path.
FinalCarriesCode ==
  \A r \in Rows \ Uncond : First(r) => \A i \in Finals(r) :
    Utterance(r) # <<>> => wire[r][i].codes # <<>>

Size(r, i) == Len(wire[r][i].codes)

\* A payload before the terminal one is exactly one rung of the ladder, and is
\* numbered by it, however many tokens a callback finds.
RungsExact ==
  \A r \in Rows : First(r) => \A i \in 1..Len(wire[r]) \ Finals(r) :
    /\ Size(r, i) = IF i = 1 THEN FirstBlock ELSE NextBlock(Size(r, i - 1))
    /\ wire[r][i].seq = i

\* A finished row's stream is closed, unless its callback failed: nobody waits
\* for an end that never comes, not even behind the cursor of a cancelled epoch.
TerminalReached ==
  \A r \in Rows : status[r] = "finished" ~> TerminalSent(r) \/ refused[r]

\* A request submitted again under its id is served from its own start, not
\* from what an earlier epoch of the id left in the cursor.
RestartServedFresh ==
  \A r \in Rows : ~refused[r] /\ (wire[r] # <<>> => wire[r][1].seq <= 1)
=============================================================================

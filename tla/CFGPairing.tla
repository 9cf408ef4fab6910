----------------------------- MODULE CFGPairing -----------------------------
(***************************************************************************)
(* sampling.ChatterboxCFGLogitsProcessor: guidance couples two rows of the *)
(* engine's batch, a conditional one and its unconditional companion.  The *)
(* processor follows the rows as the engine removes, adds and moves them,  *)
(* blends the logits of a pair, forces a row without its companion to stop *)
(* and copies the token the conditional row draws into the companion.      *)
(*                                                                         *)
(* A token is one of Draws; logits are not modelled: a row may draw any of *)
(* Draws, guided or not, and a row forced to stop draws STOP.              *)
(***************************************************************************)
EXTENDS Naturals, FiniteSets, SequencesExt

CONSTANTS
  Pairs,      \* pair ids of the guided requests (cfg_pair_id)
  Plain,      \* requests without guidance (cfg_weight = 0), one row each
  Capacity,   \* rows of the batch
  Draws,      \* what a row may draw
  STOP,       \* STOP_SPEECH_TOKEN, one of them
  MaxTokens   \* max_tokens of a request

ASSUME CFGAssumption ==
  /\ STOP \in Draws
  /\ Capacity \in Nat \ {0}
  /\ MaxTokens \in Nat \ {0}

Slots == 0..(Capacity - 1)

Cond(p) == <<p, "cond">>
Uncond(p) == <<p, "uncond">>
Guided == Pairs \X {"cond", "uncond"}
Requests == Guided \cup (Plain \X {"none"})
NoRow == <<>>

VARIABLES
  batch,     \* the engine's batch: who is in a slot
  rows,      \* _rows: who the processor takes to be in a slot, guided rows only
  pairs,     \* _pairs: the pairs of slots found by the last rebuild
  dirty,     \* _dirty
  failed,    \* _failed_pairs
  output,    \* output_tokens of each request
  served,    \* how the codes of a guided request were handed on
  broken,    \* history: pairs with a row sampled without its companion
  unguided,  \* history: guided requests that drew a code without their companion
  mixed      \* history: requests given a token another request drew

vars == <<batch, rows, pairs, dirty, failed, output, served, broken, unguided, mixed>>

Init ==
  /\ batch = [s \in Slots |-> NoRow]
  /\ rows = [s \in Slots |-> NoRow]
  /\ pairs = {}
  /\ dirty = TRUE
  /\ failed = {}
  /\ output = [q \in Requests |-> <<>>]
  /\ served = [p \in Pairs |-> "no"]
  /\ broken = {}
  /\ unguided = {}
  /\ mixed = {}

-----------------------------------------------------------------------------
(* The engine's batch, and update_state                                    *)

Occupied(b) == {s \in Slots : b[s] # NoRow}

\* logits has one row for each of 0..n-1: the engine keeps its batch dense.
Dense(b) == \A s \in Occupied(b) : \A t \in 0..s : t \in Occupied(b)

Finished(q) ==
  output[q] # <<>> /\ (Last(output[q]) = STOP \/ Len(output[q]) = MaxTokens)

\* Requests the engine may put into the batch.
Waiting == {q \in Requests : ~Finished(q) /\ \A s \in Slots : batch[s] # q}

\* The engine moves a row to an empty slot (compaction) or swaps two rows.
NoMove == <<>>
Moves == {NoMove} \cup {m \in Slots \X Slots : m[1] # m[2]}

\* What the engine does to its own batch.
EngineMoved(b, m) ==
  IF m = NoMove THEN b
  ELSE [s \in Slots |-> b[IF s = m[1] THEN m[2] ELSE IF s = m[2] THEN m[1] ELSE s]]

\* Fault variant: a swap forgets the row at the destination.
AfterMoveOneWay(f, m) ==
  IF m = NoMove THEN f ELSE [f EXCEPT ![m[2]] = f[m[1]], ![m[1]] = NoRow]

\* An entry of batch_update.moved: a swap when the destination is occupied.
AfterMove(f, m) ==
  IF m = NoMove THEN f ELSE [f EXCEPT ![m[2]] = f[m[1]], ![m[1]] = f[m[2]]]

\* An entry of batch_update.added: only a row with a role is kept.
Tracked(q) == IF q \in Guided THEN q ELSE NoRow

\* One batch_update: rows removed, then added, then at most one moved (several
\* moves are several updates).  A removed row whose slot is filled at once is
\* not reported as removed.  Finished requests leave; any other may be
\* preempted, left unscheduled or aborted, and may come back.
UpdateState(gone, added, m) ==
  LET joined == [s \in Slots |-> IF s \in DOMAIN added THEN added[s]
                                 ELSE IF s \in gone THEN NoRow ELSE batch[s]]
      tracked == [s \in Slots |-> IF s \in DOMAIN added THEN Tracked(added[s])
                                  ELSE IF s \in gone THEN NoRow ELSE rows[s]]
  IN  /\ gone \subseteq Occupied(batch)
      /\ DOMAIN added \subseteq gone \cup (Slots \ Occupied(batch))
      /\ m # NoMove => joined[m[1]] # NoRow
      /\ gone # {} \/ DOMAIN added # {} \/ m # NoMove
      /\ batch' = EngineMoved(joined, m)
      /\ rows' = AfterMove(tracked, m)
      /\ dirty' = TRUE
      /\ UNCHANGED <<pairs, failed, output, served, broken, unguided, mixed>>

-----------------------------------------------------------------------------
(* apply and the patched _sample                                           *)

\* Fault variant: a pair is looked for once and its slots remembered.
RebuiltOnce ==
  IF pairs # {} THEN pairs
  ELSE {cu \in Slots \X Slots :
          \E p \in Pairs : rows[cu[1]] = Cond(p) /\ rows[cu[2]] = Uncond(p)}

\* _rebuild_pairs
Rebuilt ==
  {cu \in Slots \X Slots :
     \E p \in Pairs : rows[cu[1]] = Cond(p) /\ rows[cu[2]] = Uncond(p)}

\* _pairs as apply leaves it: it returns at once when it follows no row, before
\* it looks at the dirty flag.
PairsSeen ==
  IF Occupied(rows) = {} \/ ~dirty THEN pairs ELSE Rebuilt

Paired(n) == {cu \in PairsSeen : cu[1] < n /\ cu[2] < n}

\* Rows apply forces to stop: it follows them and handled no pair with them.
Lone(n) ==
  {s \in Occupied(rows) : s < n /\ \A cu \in Paired(n) : s \notin {cu[1], cu[2]}}

\* Fault variant: a lone row is forced to stop and nobody is told.
RecordedNone(n) == {}

\* record_failed_cfg_pair for every lone row.
Recorded(n) == {rows[s][1] : s \in Lone(n)}

\* Fault variant: the companion keeps the token it drew itself.
SampledApart(draw, n, s) == draw[s]

\* _sample: the companion of a pair gets the token of the conditional row.
Sampled(draw, n, s) ==
  IF \E c \in Slots : <<c, s>> \in Paired(n)
  THEN draw[CHOOSE c \in Slots : <<c, s>> \in Paired(n)] ELSE draw[s]

\* Fault variant: a lone row goes on as it is.
MayDrawAny(s, n) == Draws

MayDraw(s, n) == IF s \in Lone(n) THEN {STOP} ELSE Draws

SlotOf(q) == {s \in Slots : batch[s] = q}

\* The companion is in the batch too.
HasCompanion(q) ==
  SlotOf(Cond(q[1])) # {} /\ SlotOf(Uncond(q[1])) # {}

\* One forward pass: logits for n rows, apply, sample, tokens appended.
Step ==
  LET n == Cardinality(Occupied(batch))
      sampled(draw) == [s \in 0..(n - 1) |-> Sampled(draw, n, s)]
      drawer(s) == IF \E c \in Slots : <<c, s>> \in Paired(n)
                   THEN CHOOSE c \in Slots : <<c, s>> \in Paired(n) ELSE s
  IN  /\ n > 0 /\ Dense(batch)
      /\ \A s \in 0..(n - 1) : ~Finished(batch[s])
      /\ pairs' = PairsSeen
      /\ dirty' = IF Occupied(rows) = {} THEN dirty ELSE FALSE
      /\ failed' = failed \cup Recorded(n)
      /\ \E draw \in [0..(n - 1) -> Draws] :
           /\ \A s \in 0..(n - 1) : draw[s] \in MayDraw(s, n)
           /\ output' = [q \in Requests |->
                IF SlotOf(q) = {} THEN output[q]
                ELSE Append(output[q], sampled(draw)[CHOOSE s \in SlotOf(q) : TRUE])]
           /\ unguided' = unguided \cup
                {q \in Guided : /\ SlotOf(q) # {} /\ ~HasCompanion(q)
                                /\ Last(output'[q]) # STOP}
      /\ broken' = broken \cup
           {p \in Pairs : (SlotOf(Cond(p)) = {}) # (SlotOf(Uncond(p)) = {})}
      /\ mixed' = mixed \cup
           {q \in Requests : \E s \in SlotOf(q) : batch[drawer(s)][1] # q[1]}
      /\ UNCHANGED <<batch, rows, served>>

-----------------------------------------------------------------------------
(* The conditional request of a pair is finished: its codes are handed on  *)

\* Fault variant: the failure is not looked at.
RefusedNever(p) == FALSE

\* take_cfg_failure, which codec_token_only asks.
Refused(p) == p \in failed

\* A request that stopped at once has no code to hand on.
ServedAs(p) ==
  IF Refused(p) THEN "error"
  ELSE IF output[Cond(p)] = <<STOP>> THEN "silence" ELSE "audio"

Serve(p) ==
  /\ served[p] = "no" /\ Finished(Cond(p))
  /\ served' = [served EXCEPT ![p] = ServedAs(p)]
  /\ failed' = IF Refused(p) THEN failed \ {p} ELSE failed
  /\ UNCHANGED <<batch, rows, pairs, dirty, output, broken, unguided, mixed>>

Next ==
  \/ \E gone \in SUBSET Occupied(batch), m \in Moves :
       \E into \in SUBSET Slots :
         \E added \in [into -> Waiting] :
           /\ \A s, t \in into : added[s] = added[t] => s = t
           /\ UpdateState(gone, added, m)
  \/ Step
  \/ \E p \in Pairs : Serve(p)

Spec == Init /\ [][Next]_vars

-----------------------------------------------------------------------------
(* Properties                                                              *)

\* The processor and the engine never disagree on which guided request sits in
\* which row, however rows are compacted, swapped and reused.
RowsFollowBatch ==
  \A s \in Slots : rows[s] = IF batch[s] \in Guided THEN batch[s] ELSE NoRow

\* The two rows of a pair that was never sampled apart have the same history:
\* the companion's context is the one guidance is computed against.
Lockstep ==
  \A p \in Pairs \ broken : output[Cond(p)] = output[Uncond(p)]

\* "A row that declares a CFG role but whose partner is absent is never allowed
\* to continue unguided": all it can do is stop.
NeverUnguided == unguided = {}

\* A pair sampled apart is on record until its request is answered.
BreakRecorded ==
  \A p \in broken : served[p] = "no" => p \in failed

\* Codes of a pair whose guidance broke are never handed on as audio: "the
\* serving layer raises instead".
BrokenNeverServed == \A p \in broken : served[p] # "audio"

\* A request is given the tokens its own pair drew, never another caller's.
OwnTokens == mixed = {}
=============================================================================

-------------------------- MODULE AcousticScheduler --------------------------
(***************************************************************************)
(* core/sched/ChatterboxAcousticScheduler: which of the admitted streams   *)
(* the acoustic stage executes next.  New streams go in batches, streams   *)
(* already sounding take turns, oldest first, and the two classes          *)
(* alternate.                                                              *)
(*                                                                         *)
(* The token budget never binds: 32768 tokens a step against at most 32    *)
(* streams of at most 1000 codes, and allocation of slots never fails.     *)
(* The base scheduler and the chunk adapter are not in the repository:     *)
(* they are modelled from what this class reads of them.  A stream between *)
(* two chunks may be parked: absent from `running`, its slot retained.     *)
(***************************************************************************)
EXTENDS Places, SequencesExt

CONSTANTS
  Streams,     \* request ids
  MaxRunning,  \* max_num_running_reqs
  FreshBatch,  \* acoustic_fresh_batch_size
  ContBatch,   \* acoustic_continuation_batch_size
  ChunkSizes,  \* codes a chunk may bring
  Pauses       \* pause states the engine is put in

ASSUME SchedulerAssumption ==
  /\ IsFiniteSet(Streams)
  /\ MaxRunning \in Nat \ {0}
  /\ FreshBatch \in Nat \ {0}
  /\ ContBatch \in Nat \ {0}
  /\ ChunkSizes \subseteq Nat \ {0}
  /\ Pauses \subseteq {"unpaused", "new", "all"} /\ "unpaused" \in Pauses

VARIABLES
  waiting,   \* waiting: a queue
  running,   \* running: a list
  parked,    \* the adapter's running streams waiting for their next chunk
  chunk,     \* len(prompt_token_ids) of a stream
  computed,  \* num_computed_tokens
  ended,     \* is_done_receiving_chunks
  started,   \* _audio_started
  last,      \* _audio_last_step, as a rank: -1 when there is none
  fresh,     \* _audio_previous_was_fresh
  pause      \* _pause_state

vars == <<waiting, running, parked, chunk, computed, ended, started, last, fresh, pause>>

\* The requests the engine has.
Active == ToSet(waiting) \cup ToSet(running) \cup parked

Init ==
  /\ waiting = <<>> /\ running = <<>> /\ parked = {}
  /\ chunk = [r \in Streams |-> 0]
  /\ computed = [r \in Streams |-> 0]
  /\ ended = {} /\ started = {}
  /\ last = [r \in Streams |-> -1]
  /\ fresh = FALSE
  /\ pause = "unpaused"

-----------------------------------------------------------------------------
(* _ready_audio_work and _select_audio_work                                *)

Required(r) == chunk[r] - computed[r]

\* Fault variant: a parked stream's slot is given away.
OccupiedUnparked == Len(running)

\* num_running: the slots taken, those of parked streams included.
Occupied == Len(running) + Cardinality(parked)

\* Fault variant: waiting streams are ranked whether or not there is a slot.
ReadyAlways ==
  {r \in ToSet(running) : Required(r) > 0} \cup {r \in ToSet(waiting) : chunk[r] > 0}

\* Waiting streams are ranked only when the admission loop has a slot for one.
Ready ==
  {r \in ToSet(running) : Required(r) > 0}
    \cup {r \in ToSet(waiting) : Occupied < MaxRunning /\ chunk[r] > 0}

\* The order of the list of ready streams: those running, then those waiting.
Place(r) ==
  LET listed == running \o waiting IN CHOOSE i \in DOMAIN listed : listed[i] = r

\* The stable sort by last step: streams of one rank keep their order.
Ahead(q, r) == last[q] < last[r] \/ (last[q] = last[r] /\ Place(q) < Place(r))

FirstOf(set, n) == {r \in set : Cardinality({q \in set : Ahead(q, r)}) < n}

\* Fault variant: new streams always go first.
UseFreshAlways(new, continuing) == new # {}

\* New streams go first unless they did the last time and others are ready.
UseFresh(new, continuing) == new # {} /\ (continuing = {} \/ ~fresh)

\* Fault variant: the newest continuation is the anchor.
OldestNewest(continuing) == CHOOSE r \in continuing : \A q \in continuing : ~Ahead(r, q)

Oldest(continuing) == CHOOSE r \in continuing : \A q \in continuing : ~Ahead(q, r)

\* Fault variant: the fill takes any ready continuation.
SameGeometryAny(continuing) == continuing

SameGeometry(continuing) ==
  LET oldest == Oldest(continuing)
  IN  {r \in continuing : chunk[r] = chunk[oldest] /\ computed[r] = computed[oldest]}

\* The continuations of one batch: the oldest, and others of its geometry.
Turn(continuing) == FirstOf(SameGeometry(continuing), ContBatch)

Selection(ready) ==
  LET new == ready \ started
      continuing == ready \cap started
      first == UseFresh(new, continuing)
  IN  [ids |-> IF first THEN FirstOf(new, FreshBatch)
               ELSE IF continuing = {} THEN {} ELSE Turn(continuing),
       fresh |-> IF ready = {} THEN fresh ELSE first]

-----------------------------------------------------------------------------
(* schedule                                                                *)

\* Running streams that go: selected, with something to compute.
GoRunning(ids) ==
  IF pause = "all" THEN {} ELSE {r \in ToSet(running) : Required(r) > 0 /\ r \in ids}

\* A waiting stream the admission loop would take.
Candidate(r, ids) == chunk[r] > 0 /\ r \in ids

\* The loop reaches a waiting stream while those ahead of it leave a slot.
Reached(i, ids) ==
  /\ pause = "unpaused"
  /\ Occupied + Cardinality({j \in 1..i - 1 : Candidate(waiting[j], ids)}) < MaxRunning

Admitted(ids) ==
  {waiting[i] : i \in {j \in DOMAIN waiting :
                          Reached(j, ids) /\ Candidate(waiting[j], ids)}}

\* Streams with nothing to compute whose last chunk came: they are finished.
Closing(ids) ==
  {r \in ToSet(running) : pause # "all" /\ Required(r) <= 0 /\ r \in ended}
  \cup {waiting[i] : i \in {j \in DOMAIN waiting : /\ Reached(j, ids)
                                                   /\ chunk[waiting[j]] = 0
                                                   /\ waiting[j] \in ended}}

\* _audio_last_step is pruned to the requests the engine still has.  Steps are
\* counted by rank: only their order is ever looked at.
Ranked(now) ==
  LET step == [r \in Streams |-> IF r \in now THEN Cardinality(Streams)
                                 ELSE IF r \in Active THEN last[r] ELSE -1]
      rank == [k \in -1..Cardinality(Streams) |->
        IF k = -1 THEN -1 ELSE Cardinality({step[r] : r \in Streams} \cap 0..k - 1)]
  IN  [r \in Streams |-> rank[step[r]]]

\* A stream is started by the first chunk longer than a placeholder.
Starters(now) == {r \in now : chunk[r] > 1}

\* prev_step_scheduled_req_ids: what the next execution renders.
Batch ==
  LET ids == Selection(Ready).ids IN GoRunning(ids) \cup Admitted(ids)

\* The members of a list that are in S.
Those(s, S) == Picked(s, {i \in DOMAIN s : s[i] \in S})

\* Selected once per step, for every loop of it.
Schedule ==
  /\ UNCHANGED <<parked, pause>>
  /\ \E ready \in {Ready} : \E sel \in {Selection(ready)} :
     \E going \in {GoRunning(sel.ids)}, admitted \in {Admitted(sel.ids)},
        closing \in {Closing(sel.ids)} :
     \E now \in {going \cup admitted} :
       /\ fresh' = sel.fresh
       /\ waiting' = Those(waiting, Streams \ (admitted \cup closing))
       /\ running' = Those(running \o Those(waiting, admitted), Streams \ closing)
       /\ computed' = [r \in Streams |-> IF r \in now THEN chunk[r]
                                         ELSE IF r \in closing THEN 0 ELSE computed[r]]
       /\ chunk' = [r \in Streams |-> IF r \in closing THEN 0 ELSE chunk[r]]
       /\ ended' = ended \ closing
       /\ started' = (started \cap Active) \cup Starters(now)
       /\ last' = Ranked(now)

-----------------------------------------------------------------------------
(* The engine around it: requests, chunks, cancellations, pauses           *)

\* A new caller; an id is not taken again before the schedule forgot it.
Submit(r) ==
  /\ r \notin Active \cup started /\ last[r] = -1
  /\ waiting' = Append(waiting, r)
  /\ UNCHANGED <<running, parked, chunk, computed, ended, started, last, fresh, pause>>

\* The adapter takes a stream with nothing to compute out of `running`.
Park(r) ==
  /\ r \in ToSet(running) \ ended /\ Required(r) <= 0
  /\ running' = Those(running, Streams \ {r})
  /\ parked' = parked \cup {r}
  /\ UNCHANGED <<waiting, chunk, computed, ended, started, last, fresh, pause>>

\* A chunk takes the place of the one computed; a parked stream returns to
\* `running`, or gives its slot up and waits for another.  Only a last chunk
\* brings a single code.
Chunk(r, n, final) ==
  /\ r \in Active \ ended /\ Required(r) <= 0
  /\ n > 1 \/ final
  /\ chunk' = [chunk EXCEPT ![r] = n]
  /\ computed' = [computed EXCEPT ![r] = 0]
  /\ parked' = parked \ {r}
  /\ \/ r \notin parked /\ UNCHANGED <<waiting, running>>
     \/ r \in parked /\ running' = Append(running, r) /\ UNCHANGED waiting
     \/ r \in parked /\ waiting' = Append(waiting, r) /\ UNCHANGED running
  /\ ended' = IF final THEN ended \cup {r} ELSE ended
  /\ UNCHANGED <<started, last, fresh, pause>>

\* The connector has delivered a last payload without codes; a parked stream
\* returns to `running` to be finished.
LastChunk(r) ==
  /\ r \in Active \ ended /\ Required(r) <= 0
  /\ ended' = ended \cup {r}
  /\ parked' = parked \ {r}
  /\ running' = IF r \in parked THEN Append(running, r) ELSE running
  /\ UNCHANGED <<waiting, chunk, computed, started, last, fresh, pause>>

Cancel(r) ==
  /\ r \in Active
  /\ waiting' = Those(waiting, Streams \ {r})
  /\ running' = Those(running, Streams \ {r})
  /\ parked' = parked \ {r}
  /\ chunk' = [chunk EXCEPT ![r] = 0]
  /\ computed' = [computed EXCEPT ![r] = 0]
  /\ ended' = ended \ {r}
  /\ UNCHANGED <<started, last, fresh, pause>>

Pause(to) ==
  /\ pause # to
  /\ pause' = to
  /\ UNCHANGED <<waiting, running, parked, chunk, computed, ended, started, last, fresh>>

Next ==
  \/ Schedule
  \/ \E r \in Streams : Submit(r) \/ Park(r) \/ LastChunk(r) \/ Cancel(r)
                        \/ \E n \in ChunkSizes, final \in BOOLEAN : Chunk(r, n, final)
  \/ \E to \in Pauses : Pause(to)

\* The engine core calls schedule for as long as it has requests.
Fairness == WF_vars(Schedule)

Spec == Init /\ [][Next]_vars /\ Fairness

-----------------------------------------------------------------------------
(* Properties                                                              *)

\* Running and parked streams together never outnumber the model runner's
\* slots, whatever order chunks, parkings and admissions come in.
AdmissionBounded == Occupied <= MaxRunning

\* One execution renders either new streams or continuations of one geometry,
\* no more of them than the class allows: a first chunk never waits for an
\* unrelated long decode inside its own batch.
BatchesHomogeneous ==
  LET batch == Batch
  IN  \/ batch \cap started = {} /\ Cardinality(batch) <= FreshBatch
      \/ /\ batch \subseteq started /\ Cardinality(batch) <= ContBatch
         /\ \A q, r \in batch : chunk[q] = chunk[r]

\* Sounding streams take turns: an execution of continuations holds the oldest
\* that is ready, unless that one waits and the last slot went to another.
OldestTurn ==
  LET batch == Batch
      occupiedAfter == Occupied + Cardinality(batch \ ToSet(running))
  IN  pause = "unpaused" /\ batch \cap started # {} =>
        \E q \in Ready \cap started :
          /\ \A r \in Ready \cap started : last[q] <= last[r]
          /\ q \in batch \/ (q \in ToSet(waiting) /\ occupiedAfter = MaxRunning)

\* While the engine is not paused, an execution is empty only when no stream
\* that holds or could take a slot has a code to render: selection never picks
\* only streams that admission then refuses.
WorkConserving ==
  /\ pause = "unpaused"
  /\ \/ \E r \in ToSet(running) : Required(r) > 0
     \/ Occupied < MaxRunning /\ \E r \in ToSet(waiting) : chunk[r] > 0
  => Batch # {}

Served(r) == r \notin ToSet(running) \/ Required(r) <= 0

\* No running stream is left with a chunk for ever, whatever else keeps arriving,
\* unless the engine is paused: neither class starves the other.
RunningServed ==
  \A r \in Streams : []<>(Served(r) \/ pause = "all")
=============================================================================

------------------------- MODULE Stage0Batch_proofs -------------------------
(***************************************************************************)
(* Who is given which reference voice, and which embeddings, for every     *)
(* number of rows, voices, texts and tokens and every order of the batch.  *)
(***************************************************************************)
EXTENDS Stage0Batch, FiniteSetTheorems, SequenceTheorems, WellFoundedInduction, TLAPS

\* A row's output and its entry of _ref_by_req have its own voice or none; an
\* id that is free has neither, and a voice that is carried has an entry.
VoiceInv ==
  \A r \in Rows :
    /\ carried[r] \in {voice[r], Missing}
    /\ refByReq[r] \in {voice[r], Missing}
    /\ life[r] = "free" => refByReq[r] = Missing /\ carried[r] = Missing
    /\ carried[r] # Missing => refByReq[r] # Missing

\* The invariant of the voices.
Inv == TypeOK /\ VoiceInv

-----------------------------------------------------------------------------
(* Ranks, and the rows of a batch                                          *)

\* Two members of a finite set of numbers have different ranks in it.
LEMMA RankInjective ==
  ASSUME NEW S \in SUBSET Nat, IsFiniteSet(S), NEW i \in S, NEW j \in S, Rank(i, S) = Rank(j, S)
  PROVE  i = j
<1> DEFINE Below(n) == {k \in S : k <= n}
<1>1. ASSUME NEW m \in S, NEW n \in S, m < n PROVE Rank(m, S) # Rank(n, S)
  <2>1. IsFiniteSet(Below(n))
    BY FS_Subset
  <2>2. Below(m) \in SUBSET Below(n) /\ n \in Below(n) /\ n \notin Below(m)
    <3>1. m \in Nat /\ n \in Nat /\ \A k \in S : k \in Nat
      OBVIOUS
    <3>2. Below(m) \subseteq Below(n)
      <4> SUFFICES ASSUME NEW k \in Below(m) PROVE k \in Below(n)
        OBVIOUS
      <4>1. k \in S /\ k <= m /\ k \in Nat
        BY <3>1
      <4> QED BY <1>1, <3>1, <4>1
    <3>3. n \in Below(n) /\ n \notin Below(m)
      BY <1>1, <3>1
    <3> QED BY <3>2, <3>3
  <2>3. Cardinality(Below(n)) # Cardinality(Below(m))
    BY <2>1, <2>2, FS_Subset
  <2> QED BY <2>3 DEF Rank
<1>2. i < j \/ j < i \/ i = j
  OBVIOUS
<1> QED BY <1>1, <1>2

\* What the engine's batches are: rows that are alive, each at one place.
LEMMA BatchType ==
  ASSUME NEW batch \in Batches
  PROVE  /\ Len(batch) \in Nat /\ DOMAIN batch = 1..Len(batch)
         /\ Len(batch) # 0
         /\ \A i \in 1..Len(batch) :
              /\ batch[i] \in Rows /\ made[batch[i]] < MaxTokens
              /\ life[batch[i]] \in {"waiting", "running", "preempted"}
         /\ \A i, j \in 1..Len(batch) : batch[i] = batch[j] => i = j
<1>1. Cardinality(Rows) \in Nat
  BY BatchAssumption, FS_CardinalityType
<1>2. PICK n \in 1..Cardinality(Rows) : batch \in [1..n -> Rows]
  BY DEF Batches
<1>3. n \in Nat /\ n # 0 /\ Len(batch) = n /\ DOMAIN batch = 1..n
  BY <1>1, <1>2
<1> QED BY <1>2, <1>3 DEF Batches

\* Each row of the batch is at one place of it.
LEMMA Place ==
  ASSUME NEW batch \in Batches, NEW r \in Range(batch)
  PROVE  r \in Rows /\ PlaceOf(batch, r) \in 1..Len(batch) /\ batch[PlaceOf(batch, r)] = r
<1>1. \E i \in 1..Len(batch) : batch[i] = r
  BY BatchType DEF Range
<1> QED BY <1>1, BatchType DEF PlaceOf

\* A row takes part in a conditioning step when it starts or is computed again.
LEMMA Prefilling ==
  ASSUME TypeOK, NEW batch \in Batches, NEW i \in 1..Len(batch)
  PROVE  i \in PrefillIndices(batch) <=> life[batch[i]] # "running"
<1> DEFINE r == batch[i]
<1>1. r \in Rows
  BY BatchType
<1>2. text[r] \in Nat /\ made[r] \in Nat /\ CondLen \in Nat \ {0} /\ BosLen \in Nat \ {0}
  BY <1>1, BatchAssumption DEF TypeOK
<1>3. ~(CondLen + text[r] + BosLen + made[r] - 1 < CondLen) /\ 0 < CondLen
  BY <1>2
<1>4. Computed(r) < CondLen <=> life[r] # "running"
  BY <1>3 DEF Computed, PromptLen
<1> QED BY <1>4 DEF PrefillIndices

-----------------------------------------------------------------------------
(* The references of one step                                              *)

\* The item a row is given is its own: as many items as prefilling rows are all
\* of them, in the same order.
LEMMA CapturedOwn ==
  ASSUME NEW batch \in Batches, NEW items \in SUBSET PrefillIndices(batch)
  PROVE  \A i \in DOMAIN Captured(batch, items) :
           i \in 1..Len(batch) /\ Captured(batch, items)[i] = voice[batch[i]]
<1> DEFINE P == PrefillIndices(batch)
<1>1. P \in SUBSET (1..Len(batch)) /\ P \in SUBSET Nat
  BY DEF PrefillIndices
<1>2. IsFiniteSet(P)
  <2>1. IsFiniteSet(1..Len(batch))
    BY BatchType, FS_Interval
  <2> QED BY <1>1, <2>1, FS_Subset
<1>3. CASE Cardinality(items) # Cardinality(P)
  BY <1>3 DEF Captured
<1>4. CASE Cardinality(items) = Cardinality(P)
  <2>1. items = P
    BY <1>2, <1>4, FS_Subset
  <2>2. ASSUME NEW i \in P
        PROVE  (CHOOSE j \in items : Rank(j, items) = Rank(i, P)) = i
    BY <1>1, <1>2, <2>1, RankInjective
  <2>3. Captured(batch, items) =
          [i \in P |-> voice[batch[CHOOSE j \in items : Rank(j, items) = Rank(i, P)]]]
    BY <1>4 DEF Captured
  <2> HIDE DEF P
  <2> QED BY <1>1, <2>2, <2>3
<1> QED BY <1>3, <1>4

\* An entry of _ref_by_req after the step is the row's own voice or was there.
LEMMA StoredOwn ==
  ASSUME NEW batch \in Batches, NEW items \in SUBSET PrefillIndices(batch), NEW r \in Rows
  PROVE  \/ /\ r \in Range(batch)
            /\ Stored(batch, Captured(batch, items))[r] = voice[r]
         \/ /\ \A i \in DOMAIN Captured(batch, items) : batch[i] # r
            /\ Stored(batch, Captured(batch, items))[r] = refByReq[r]
<1> DEFINE captured == Captured(batch, items)
<1>1. \A i \in DOMAIN captured : i \in 1..Len(batch) /\ captured[i] = voice[batch[i]]
  BY CapturedOwn
<1>2. CASE \E i \in DOMAIN captured : batch[i] = r
  <2> DEFINE k == CHOOSE i \in DOMAIN captured : batch[i] = r
  <2>1. k \in DOMAIN captured /\ batch[k] = r
    BY <1>2
  <2>2. Stored(batch, captured)[r] = captured[k]
    BY <1>2 DEF Stored
  <2>3. captured[k] = voice[r] /\ k \in 1..Len(batch)
    BY <1>1, <2>1
  <2>4. r \in Range(batch)
    BY <2>1, <2>3, BatchType DEF Range
  <2> QED BY <2>2, <2>3, <2>4
<1>3. CASE ~\E i \in DOMAIN captured : batch[i] = r
  BY <1>3 DEF Stored
<1> QED BY <1>2, <1>3

\* A row of the batch finds its own entry in the list of references.
LEMMA ElementOwn ==
  ASSUME NEW batch \in Batches, NEW stored, NEW r \in Range(batch)
  PROVE  Element(Column(batch, stored), PlaceOf(batch, r)) = stored[r]
<1> DEFINE i == PlaceOf(batch, r)
           list == [k \in 1..Len(batch) |-> stored[batch[k]]]
<1>1. i \in 1..Len(batch) /\ batch[i] = r /\ Len(batch) \in Nat /\ Len(batch) # 0
  BY Place, BatchType
<1> HIDE DEF i
<1>2. CASE \A k \in 1..Len(batch) : stored[batch[k]] = Missing
  <2>1. Column(batch, stored) = <<>> /\ stored[r] = Missing
    BY <1>1, <1>2 DEF Column
  <2> QED BY <2>1 DEF Element, i
<1>3. CASE ~\A k \in 1..Len(batch) : stored[batch[k]] = Missing
  <2>1. Column(batch, stored) = list
    BY <1>3 DEF Column
  <2>2. Len(list) = Len(batch) /\ list # <<>> /\ list[i] = stored[r]
    BY <1>1
  <2> HIDE DEF list
  <2>3. i <= Len(list)
    BY <1>1, <2>2
  <2>4. Element(list, i) = stored[r]
    BY <2>2, <2>3 DEF Element
  <2> QED BY <2>1, <2>4 DEF i
<1> QED BY <1>2, <1>3

-----------------------------------------------------------------------------
(* Every step preserves the invariant                                      *)

\* The invariant holds of an engine without requests.
LEMMA InitInv == Init => Inv
  BY BatchAssumption DEF Init, Inv, TypeOK, VoiceInv, Life

\* What a step leaves in the output and in the entry of each row.
LEMMA StepVoices ==
  ASSUME Inv, NEW batch \in Batches, NEW items \in SUBSET PrefillIndices(batch),
         Step(batch, items), NEW r \in Rows
  PROVE  /\ refByReq'[r] = Stored(batch, Captured(batch, items))[r]
         /\ carried'[r] = IF r \in Range(batch) THEN refByReq'[r] ELSE carried[r]
         /\ life'[r] = IF r \in Range(batch) THEN "running" ELSE life[r]
         /\ made'[r] = IF r \in Range(batch) THEN made[r] + 1 ELSE made[r]
         /\ voice'[r] = voice[r] /\ text'[r] = text[r]
<1> DEFINE stored == Stored(batch, Captured(batch, items))
<1>1. refByReq' = stored
  BY DEF Step
<1>2. carried' = [q \in Rows |->
        IF q \in Range(batch)
        THEN Element(Column(batch, stored), PlaceOf(batch, q))
        ELSE carried[q]]
  BY DEF Step
<1>3. /\ life' = [q \in Rows |-> IF q \in Range(batch) THEN "running" ELSE life[q]]
      /\ made' = [q \in Rows |-> IF q \in Range(batch) THEN made[q] + 1 ELSE made[q]]
      /\ UNCHANGED <<voice, text>>
  BY DEF Step
<1>4. r \in Range(batch) => carried'[r] = stored[r]
  <2> SUFFICES ASSUME r \in Range(batch) PROVE carried'[r] = stored[r]
    OBVIOUS
  <2> DEFINE element == Element(Column(batch, stored), PlaceOf(batch, r))
  <2>1. carried'[r] = element
    BY <1>2
  <2>2. element = stored[r]
    BY ElementOwn
  <2> QED BY <2>1, <2>2
<1>5. r \notin Range(batch) => carried'[r] = carried[r]
  BY <1>2
<1> HIDE DEF stored
<1>6. refByReq'[r] = stored[r] /\ (carried'[r] = IF r \in Range(batch) THEN stored[r] ELSE carried[r])
  BY <1>1, <1>4, <1>5
<1> QED BY <1>1, <1>3, <1>6 DEF stored

\* The voice of a row of the batch is that of its request.
LEMMA InBatch ==
  ASSUME TypeOK, NEW batch \in Batches, NEW r \in Range(batch)
  PROVE  /\ life[r] \in {"waiting", "running", "preempted"} /\ made[r] < MaxTokens
         /\ voice[r] \in Voices /\ voice[r] # Missing
<1>1. /\ r \in Rows /\ life[r] \in {"waiting", "running", "preempted"}
      /\ made[r] < MaxTokens
  BY Place, BatchType
<1> QED BY <1>1, VoicesAssumption DEF TypeOK, Missing

\* A step over a batch preserves it: forward and _reference_payload.
LEMMA StepInv ==
  ASSUME Inv, NEW batch \in Batches, NEW items \in SUBSET PrefillIndices(batch),
         Step(batch, items)
  PROVE  Inv'
<1>1. ASSUME NEW r \in Rows
      PROVE  /\ refByReq'[r] \in {voice[r], Missing}
             /\ r \in Range(batch) => carried'[r] = refByReq'[r] /\ life'[r] = "running"
             /\ r \notin Range(batch) =>
                  refByReq'[r] = refByReq[r] /\ carried'[r] = carried[r] /\ life'[r] = life[r]
  <2>1. refByReq[r] \in {voice[r], Missing}
    BY DEF Inv, VoiceInv
  <2>2. refByReq'[r] = voice[r] \/ refByReq'[r] = refByReq[r]
    BY StepVoices, StoredOwn
  <2>3. r \notin Range(batch) => refByReq'[r] = refByReq[r]
    BY StepVoices, StoredOwn
  <2> QED BY <2>1, <2>2, <2>3, StepVoices
<1>2. VoiceInv'
  <2> SUFFICES ASSUME NEW r \in Rows
        PROVE /\ carried'[r] \in {voice'[r], Missing}
              /\ refByReq'[r] \in {voice'[r], Missing}
              /\ life'[r] = "free" => refByReq'[r] = Missing /\ carried'[r] = Missing
              /\ carried'[r] # Missing => refByReq'[r] # Missing
    BY DEF VoiceInv
  <2>1. voice'[r] = voice[r]
    BY StepVoices
  <2> QED BY <1>1, <2>1 DEF Inv, VoiceInv
<1>3. TypeOK'
  <2>1. voice' = voice /\ text' = text
    BY DEF Step
  <2>2. life' \in [Rows -> Life]
    BY DEF Step, Inv, TypeOK, Life
  <2>3. made' \in [Rows -> 0..MaxTokens]
    <3>1. made' = [q \in Rows |-> IF q \in Range(batch) THEN made[q] + 1 ELSE made[q]]
      BY DEF Step
    <3>2. \A q \in Range(batch) : made[q] < MaxTokens
      BY InBatch DEF Inv
    <3> QED BY <3>1, <3>2, BatchAssumption DEF Inv, TypeOK
  <2>4. \A r \in Rows : life'[r] # "free" => voice'[r] \in Voices
    <3> SUFFICES ASSUME NEW r \in Rows, life'[r] # "free" PROVE voice[r] \in Voices
      BY <2>1
    <3>1. CASE r \in Range(batch)
      BY <3>1, InBatch DEF Inv
    <3>2. CASE r \notin Range(batch)
      BY <1>1, <3>2 DEF Inv, TypeOK
    <3> QED BY <3>1, <3>2
  <2>5. DOMAIN refByReq' = Rows /\ DOMAIN carried' = Rows
    BY DEF Step, Stored
  <2>6. refByReq' = [r \in Rows |-> refByReq'[r]] /\ carried' = [r \in Rows |-> carried'[r]]
    BY DEF Step, Stored
  <2>7. \A r \in Rows : voice[r] \in Voices \cup {Missing} /\ carried[r] \in Voices \cup {Missing}
    BY DEF Inv, TypeOK
  <2>8. \A r \in Rows : refByReq'[r] \in Voices \cup {Missing}
    BY <1>1, <2>7
  <2>9. \A r \in Rows : carried'[r] \in Voices \cup {Missing}
    BY <1>1, <2>7, <2>8
  <2>10. refByReq' \in [Rows -> Voices \cup {Missing}] /\ carried' \in [Rows -> Voices \cup {Missing}]
    BY <2>6, <2>8, <2>9
  <2> QED BY <2>1, <2>2, <2>3, <2>4, <2>10 DEF Inv, TypeOK
<1> QED BY <1>2, <1>3 DEF Inv

\* A new request preserves it.
LEMMA SubmitInv ==
  ASSUME Inv, NEW r \in Rows, NEW request \in Requests, Submit(r, request[1], request[2])
  PROVE  Inv'
<1>1. request[1] \in Voices /\ request[2] \in Nat
  BY BatchAssumption
<1>2. TypeOK'
  BY <1>1 DEF Inv, TypeOK, Submit, Life
<1>3. VoiceInv'
  BY DEF Inv, TypeOK, VoiceInv, Submit
<1> QED BY <1>2, <1>3 DEF Inv

\* A row that is preempted or over preserves it.
LEMMA LeaveInv == ASSUME Inv, NEW r \in Rows, Preempt(r) \/ End(r) PROVE Inv'
<1>1. TypeOK'
  BY DEF Inv, TypeOK, Preempt, End, Life
<1>2. VoiceInv'
  BY DEF Inv, TypeOK, VoiceInv, Preempt, End
<1> QED BY <1>1, <1>2 DEF Inv

\* on_requests_finished preserves it: the ids lose their entries.
LEMMA FinishedInv == ASSUME Inv, NEW ids \in SUBSET Rows, OnRequestsFinished(ids) PROVE Inv'
<1>1. TypeOK'
  BY BatchAssumption DEF Inv, TypeOK, OnRequestsFinished, Forgotten, Life
<1>2. VoiceInv'
  BY DEF Inv, VoiceInv, OnRequestsFinished, Forgotten
<1> QED BY <1>1, <1>2 DEF Inv

\* Every step preserves it.
LEMMA NextInv == Inv /\ [Next]_vars => Inv'
<1> SUFFICES ASSUME Inv, [Next]_vars PROVE Inv'
  OBVIOUS
<1>1. CASE \E r \in Rows, request \in Requests : Submit(r, request[1], request[2])
  BY <1>1, SubmitInv
<1>2. CASE \E batch \in Batches : \E items \in SUBSET PrefillIndices(batch) : Step(batch, items)
  BY <1>2, StepInv
<1>3. CASE \E r \in Rows : Preempt(r) \/ End(r)
  BY <1>3, LeaveInv
<1>4. CASE OnRequestsFinished(Ended)
  BY <1>4, FinishedInv DEF Ended
<1>5. CASE UNCHANGED vars
  BY <1>5 DEF Inv, TypeOK, VoiceInv, vars
<1> QED BY <1>1, <1>2, <1>3, <1>4, <1>5 DEF Next

-----------------------------------------------------------------------------
(* Theorems                                                                *)

\* The inductive invariant: types, and whose voice each row and entry has.
THEOREM VoicesInvariant == Spec => []Inv
  BY InitInv, NextInv, PTL DEF Spec

\* No row is ever given the voice of another, whatever the batch.
THEOREM Own == Spec => []OwnVoice
<1>1. Inv => OwnVoice
  BY DEF Inv, VoiceInv, OwnVoice
<1> QED BY <1>1, VoicesInvariant, PTL

\* One step: a row that starts has its voice at once unless another row is
\* computed again beside it, and a voice once carried stays.
LEMMA StepStays ==
  ASSUME Inv, NEW batch \in Batches, NEW items \in SUBSET PrefillIndices(batch),
         Step(batch, items), NEW r \in Rows
  PROVE  /\ Starts(r) /\ (\A q \in Rows : ~Resumes(q)) => carried'[r] = voice'[r]
         /\ carried[r] # Missing => carried'[r] = carried[r]
<1>1. ASSUME Starts(r), \A q \in Rows : ~Resumes(q) PROVE carried'[r] = voice'[r]
  <2>1. r \in Range(batch)
    BY <1>1, StepVoices DEF Starts
  <2>2. ASSUME NEW i \in PrefillIndices(batch) PROVE i \in New(batch)
    <3>1. i \in 1..Len(batch)
      BY DEF PrefillIndices
    <3>2. batch[i] \in Rows /\ batch[i] \in Range(batch)
      BY <3>1, BatchType DEF Range
    <3>3. life[batch[i]] # "running" /\ life[batch[i]] \in {"waiting", "running", "preempted"}
      BY <3>1, <3>2, BatchType, Prefilling DEF Inv
    <3>4. life'[batch[i]] = "running"
      BY <3>2, StepVoices
    <3>5. life[batch[i]] # "preempted"
      BY <1>1, <3>2, <3>4 DEF Resumes
    <3> QED BY <3>1, <3>3, <3>5 DEF New
  <2>3. items = PrefillIndices(batch)
    BY <2>2 DEF Step
  <2>4. PICK i \in 1..Len(batch) : batch[i] = r
    BY <2>1, BatchType DEF Range
  <2>5. i \in PrefillIndices(batch)
    BY <1>1, <2>4, Prefilling DEF Starts, Inv
  <2>6. DOMAIN Captured(batch, items) = PrefillIndices(batch)
    BY <2>3 DEF Captured
  <2>7. Stored(batch, Captured(batch, items))[r] = voice[r]
    BY <2>4, <2>5, <2>6, StoredOwn
  <2> QED BY <2>1, <2>7, StepVoices
<1>2. ASSUME carried[r] # Missing PROVE carried'[r] = carried[r]
  <2>1. carried[r] = voice[r] /\ refByReq[r] = voice[r]
    BY <1>2 DEF Inv, VoiceInv
  <2>2. refByReq'[r] = voice[r]
    BY <2>1, StepVoices, StoredOwn
  <2> QED BY <2>1, <2>2, StepVoices
<1> QED BY <1>1, <1>2

\* A voice once carried is carried until the request is over, and a row that
\* starts carries its own from its first output on.
THEOREM Stays == Spec => VoiceStays
<1> DEFINE Kept ==
      \A r \in Rows :
        /\ Starts(r) /\ (\A q \in Rows : ~Resumes(q)) => carried'[r] = voice'[r]
        /\ carried[r] # Missing /\ life'[r] # "free" => carried'[r] = carried[r]
<1>1. ASSUME Inv, [Next]_vars PROVE [Kept]_vars
  <2>1. CASE \E batch \in Batches : \E items \in SUBSET PrefillIndices(batch) : Step(batch, items)
    BY <1>1, <2>1, StepStays
  <2>2. CASE \E r \in Rows, request \in Requests : Submit(r, request[1], request[2])
    BY <1>1, <2>2 DEF Submit, Starts, Inv, TypeOK
  <2>3. CASE \E r \in Rows : Preempt(r) \/ End(r)
    BY <1>1, <2>3 DEF Preempt, End, Starts, Inv, TypeOK
  <2>4. CASE Ended # {} /\ OnRequestsFinished(Ended)
    BY <1>1, <2>4 DEF OnRequestsFinished, Forgotten, Starts
  <2>5. CASE UNCHANGED vars
    BY <2>5
  <2> QED BY <1>1, <2>1, <2>2, <2>3, <2>4, <2>5 DEF Next
<1> QED BY <1>1, VoicesInvariant, PTL DEF Spec, VoiceStays

-----------------------------------------------------------------------------
(* Induction over numbers, and lists joined one after the other           *)

\* A set of numbers has a least one.
LEMMA NatMin ==
  ASSUME NEW T \in SUBSET Nat, T # {}
  PROVE  \E x \in T : \A y \in T : x <= y
<1> DEFINE R == OpToRel(<, Nat)
<1>1. IsWellFoundedOn(R, Nat)
  BY NatLessThanWellFounded
<1>2. \A x, y \in Nat : <<y, x>> \in R <=> y < x
  BY DEF OpToRel
<1> HIDE DEF R
<1>3. PICK x \in T : \A y \in T : ~(<<y, x>> \in R)
  BY <1>1, WFMin
<1>4. ASSUME NEW y \in T PROVE x <= y
  <2>1. x \in Nat /\ y \in Nat
    OBVIOUS
  <2>2. ~(y < x)
    BY <1>2, <1>3, <2>1
  <2> QED BY <2>1, <2>2
<1> QED BY <1>3, <1>4

\* Induction, stated of a set of numbers.
LEMMA AllOfNat ==
  ASSUME NEW S \in SUBSET Nat, 0 \in S, \A n \in S : n + 1 \in S
  PROVE  S = Nat
<1> SUFFICES ASSUME Nat \ S # {} PROVE FALSE
  OBVIOUS
<1>1. PICK x \in Nat \ S : \A y \in Nat \ S : x <= y
  BY NatMin
<1>2. x # 0 /\ x - 1 \in Nat
  BY <1>1
<1>3. x - 1 \in S
  <2>1. ~(x <= x - 1)
    BY <1>1
  <2> QED BY <1>1, <1>2, <2>1
<1>4. (x - 1) + 1 = x
  BY <1>1
<1> QED BY <1>1, <1>3, <1>4

\* The first n of the lists g, joined.
Chunks(g, n) == FlattenSeq([k \in 1..n |-> g[k]])

\* f[i] is the first i lists joined, one after the other.
Joins(f, g, n) ==
  /\ n # 0 => f[1] = g[1]
  /\ \A i \in 2..n : f[i] = f[i - 1] \o g[i]

\* Any lists have such joins.
LEMMA JoinExists ==
  ASSUME NEW g, NEW n \in Nat
  PROVE  \E f : Joins(f, g, n)
<1> DEFINE S == {m \in Nat : \E f : Joins(f, g, m)}
<1>1. 0 \in S
  <2>1. \A f : Joins(f, g, 0)
    BY DEF Joins
  <2> HIDE DEF Joins
  <2> QED BY <2>1
<1>2. ASSUME NEW m \in S PROVE m + 1 \in S
  <2>1. PICK f : Joins(f, g, m)
    OBVIOUS
  <2> DEFINE h == [i \in 1..(m + 1) |->
                     IF i = m + 1 THEN IF m = 0 THEN g[1] ELSE f[m] \o g[m + 1] ELSE f[i]]
  <2>2. Joins(h, g, m + 1)
    <3>1. m \in Nat
      OBVIOUS
    <3>2. m + 1 # 0 => h[1] = g[1]
      BY <2>1, <3>1 DEF Joins
    <3>3. ASSUME NEW i \in 2..(m + 1) PROVE h[i] = h[i - 1] \o g[i]
      <4>1. i - 1 \in 1..(m + 1) /\ i - 1 # m + 1 /\ i \in 1..(m + 1)
        BY <3>1
      <4>2. h[i - 1] = f[i - 1]
        BY <4>1
      <4>3. CASE i = m + 1
        <5>1. i - 1 = m /\ m # 0
          BY <4>1, <4>3, <3>1
        <5>2. h[i] = f[m] \o g[m + 1]
          BY <4>1, <4>3, <5>1
        <5> HIDE DEF h
        <5> QED BY <5>1, <5>2, <4>2, <4>3
      <4>4. CASE i # m + 1
        <5>1. i \in 2..m /\ h[i] = f[i]
          BY <4>1, <4>4, <3>1
        <5> HIDE DEF h
        <5> QED BY <5>1, <4>2, <2>1 DEF Joins
      <4> QED BY <4>3, <4>4
    <3> QED BY <3>2, <3>3 DEF Joins
  <2>3. m + 1 \in Nat
    OBVIOUS
  <2> HIDE DEF h
  <2> QED BY <2>2, <2>3
<1> HIDE DEF S
<1>3. S = Nat
  BY <1>1, <1>2, AllOfNat DEF S
<1> QED BY <1>3 DEF S

\* They are unique.
LEMMA JoinsAgree ==
  ASSUME NEW g, NEW n \in Nat, NEW m \in Nat, m <= n,
         NEW f, Joins(f, g, n), NEW h, Joins(h, g, m)
  PROVE  \A i \in 1..m : f[i] = h[i]
<1> DEFINE S == {k \in Nat : k \in 1..m => f[k] = h[k]}
<1>1. 0 \in S
  OBVIOUS
<1>2. ASSUME NEW k \in S PROVE k + 1 \in S
  <2>1. k \in Nat /\ k + 1 \in Nat /\ (k \in 1..m => f[k] = h[k])
    OBVIOUS
  <2>2. ASSUME k + 1 \in 1..m PROVE f[k + 1] = h[k + 1]
    <3>1. CASE k = 0
      <4>1. n # 0 /\ m # 0 /\ k + 1 = 1
        BY <2>2, <3>1
      <4> QED BY <4>1 DEF Joins
    <3>2. CASE k # 0
      <4>1. k + 1 \in 2..n /\ k + 1 \in 2..m /\ k \in 1..m /\ (k + 1) - 1 = k
        BY <2>1, <2>2, <3>2
      <4>2. f[k + 1] = f[k] \o g[k + 1] /\ h[k + 1] = h[k] \o g[k + 1]
        BY <4>1 DEF Joins
      <4> QED BY <2>1, <4>1, <4>2
    <3> QED BY <3>1, <3>2
  <2> QED BY <2>1, <2>2
<1> HIDE DEF S
<1>3. S = Nat
  BY <1>1, <1>2, AllOfNat DEF S
<1> QED BY <1>3 DEF S

\* FlattenSeq is the last of them.
LEMMA FlattenJoins ==
  ASSUME NEW g, NEW n \in Nat, NEW f, Joins(f, g, n)
  PROVE  Chunks(g, n) = IF n = 0 THEN <<>> ELSE f[n]
<1> DEFINE s == [k \in 1..n |-> g[k]]
<1>1. Len(s) = n /\ \A k \in 1..n : s[k] = g[k]
  OBVIOUS
<1>2. CASE n = 0
  BY <1>2 DEF Chunks, FlattenSeq
<1>3. CASE n # 0
  <2> DEFINE e == [i \in 1..n |-> f[i]]
  <2>1. e = [i \in 1..Len(s) |-> IF i = 1 THEN s[i] ELSE e[i - 1] \o s[i]]
    <3>1. ASSUME NEW i \in 1..n
          PROVE  f[i] = IF i = 1 THEN s[i] ELSE e[i - 1] \o s[i]
      <4>1. CASE i = 1
        BY <1>1, <1>3, <4>1 DEF Joins
      <4>2. CASE i # 1
        <5>1. i \in 2..n /\ i - 1 \in 1..n
          BY <4>2
        <5>2. f[i] = f[i - 1] \o g[i] /\ e[i - 1] = f[i - 1] /\ s[i] = g[i]
          BY <5>1, <1>1 DEF Joins
        <5> HIDE DEF e, s
        <5> QED BY <4>2, <5>2
      <4> QED BY <4>1, <4>2
    <3> HIDE DEF s
    <3> QED BY <1>1, <3>1
  <2> DEFINE flatten == CHOOSE h : h = [i \in 1..Len(s) |-> IF i = 1 THEN s[i] ELSE h[i - 1] \o s[i]]
  <2>2. FlattenSeq(s) = flatten[Len(s)]
    <3> HIDE DEF s
    <3> QED BY <1>1, <1>3 DEF FlattenSeq
  <2> HIDE DEF e
  <2>3. flatten = [i \in 1..Len(s) |-> IF i = 1 THEN s[i] ELSE flatten[i - 1] \o s[i]]
    <3> HIDE DEF s
    <3> QED BY <2>1
  <2> HIDE DEF flatten
  <2>4. Joins(flatten, g, n)
    <3> HIDE DEF s
    <3>1. \A i \in 1..n : flatten[i] = IF i = 1 THEN s[i] ELSE flatten[i - 1] \o s[i]
      BY <1>1, <2>3
    <3>2. flatten[1] = g[1]
      BY <1>1, <1>3, <3>1
    <3>3. ASSUME NEW i \in 2..n PROVE flatten[i] = flatten[i - 1] \o g[i]
      <4>1. i \in 1..n /\ i # 1
        OBVIOUS
      <4> QED BY <4>1, <3>1, <1>1
    <3> QED BY <3>2, <3>3 DEF Joins
  <2>5. flatten[n] = f[n]
    BY <1>3, <2>4, JoinsAgree
  <2> QED BY <1>1, <1>3, <2>2, <2>5 DEF Chunks
<1> QED BY <1>2, <1>3

\* A function on 1..n is a list of length n.
LEMMA ListType ==
  ASSUME NEW E, NEW n \in Nat, NEW f \in [1..n -> E]
  PROVE  f \in Seq(E) /\ Len(f) = n
  OBVIOUS

\* The length of two lists joined.
LEMMA ConcatType ==
  ASSUME NEW E, NEW a \in Seq(E), NEW b \in Seq(E)
  PROVE  a \o b \in Seq(E) /\ Len(a \o b) = Len(a) + Len(b)
  OBVIOUS

\* The elements of the second of two lists joined.
LEMMA ConcatRight ==
  ASSUME NEW E, NEW a \in Seq(E), NEW b \in Seq(E), NEW k \in 1..Len(b)
  PROVE  Len(a) + k \in 1..Len(a \o b) /\ (a \o b)[Len(a) + k] = b[k]
  OBVIOUS

\* The elements of the first of two lists joined.
LEMMA ConcatLeft ==
  ASSUME NEW E, NEW a \in Seq(E), NEW b \in Seq(E), NEW k \in 1..Len(a)
  PROVE  k \in 1..Len(a \o b) /\ (a \o b)[k] = a[k]
  OBVIOUS

\* N sequences of elements of E.
Parts(E, N, g) == N \in Nat /\ g \in [1..N -> Seq(E)]

\* The join of n lists is that of n - 1 of them and the n-th.
LEMMA ChunksStep ==
  ASSUME NEW E, NEW N, NEW g, Parts(E, N, g)
  PROVE  /\ Chunks(g, 0) = <<>>
         /\ \A n \in 1..N : Chunks(g, n) = Chunks(g, n - 1) \o g[n]
         /\ \A n \in 0..N : Chunks(g, n) \in Seq(E)
<1>0. N \in Nat /\ g \in [1..N -> Seq(E)]
  BY DEF Parts
<1> USE <1>0
<1>1. PICK f : Joins(f, g, N)
  BY <1>0, JoinExists
<1>2. ASSUME NEW n \in 0..N PROVE Chunks(g, n) = IF n = 0 THEN <<>> ELSE f[n]
  <2>1. Joins(f, g, n)
    <3>1. \A i \in 2..n : i \in 2..N
      OBVIOUS
    <3>2. n # 0 => N # 0
      OBVIOUS
    <3> QED BY <1>1, <3>1, <3>2 DEF Joins
  <2> QED BY <2>1, FlattenJoins
<1>3. ASSUME NEW n \in 1..N PROVE Chunks(g, n) = Chunks(g, n - 1) \o g[n]
  <2>1. Chunks(g, n) = f[n] /\ n - 1 \in 0..N /\ g[n] \in Seq(E)
    BY <1>2
  <2>2. CASE n = 1
    <3>1. f[n] = g[n] /\ Chunks(g, n - 1) = <<>>
      BY <1>1, <1>2, <2>1, <2>2 DEF Joins
    <3> QED BY <2>1, <3>1
  <2>3. CASE n # 1
    <3>1. n \in 2..N /\ n - 1 # 0
      BY <2>3
    <3>2. f[n] = f[n - 1] \o g[n] /\ Chunks(g, n - 1) = f[n - 1]
      BY <1>1, <1>2, <2>1, <3>1 DEF Joins
    <3> QED BY <2>1, <3>2
  <2> QED BY <2>2, <2>3
<1>4. Chunks(g, 0) = <<>>
  BY <1>2
<1> DEFINE S == {n \in Nat : n \in 0..N => Chunks(g, n) \in Seq(E)}
<1>5. 0 \in S
  <2>1. <<>> \in Seq(E)
    OBVIOUS
  <2>2. Chunks(g, 0) \in Seq(E)
    BY <1>4, <2>1
  <2> QED BY <2>2
<1>6. ASSUME NEW n \in S PROVE n + 1 \in S
  <2>1. n \in Nat /\ n + 1 \in Nat /\ (n \in 0..N => Chunks(g, n) \in Seq(E))
    OBVIOUS
  <2>2. ASSUME n + 1 \in 0..N PROVE Chunks(g, n + 1) \in Seq(E)
    <3>1. n \in 0..N /\ n + 1 \in 1..N /\ (n + 1) - 1 = n
      BY <2>1, <2>2
    <3>2. Chunks(g, n + 1) = Chunks(g, n) \o g[n + 1] /\ g[n + 1] \in Seq(E)
      BY <1>3, <3>1
    <3>3. Chunks(g, n) \in Seq(E)
      BY <2>1, <3>1
    <3>4. Chunks(g, n) \o g[n + 1] \in Seq(E)
      BY <3>2, <3>3, ConcatType
    <3> QED BY <3>2, <3>4
  <2> QED BY <2>1, <2>2
<1> HIDE DEF S
<1>7. S = Nat
  BY <1>5, <1>6, AllOfNat DEF S
<1>8. \A n \in 0..N : Chunks(g, n) \in Seq(E)
  BY <1>7 DEF S
<1> QED BY <1>3, <1>4, <1>8

\* The same, for the list after the n-th.
LEMMA ChunksNext ==
  ASSUME NEW E, NEW N, NEW g, Parts(E, N, g), NEW n \in Nat, n + 1 \in 0..N
  PROVE  /\ Chunks(g, n + 1) = Chunks(g, n) \o g[n + 1]
         /\ Chunks(g, n) \in Seq(E) /\ g[n + 1] \in Seq(E)
         /\ Len(Chunks(g, n + 1)) = Len(Chunks(g, n)) + Len(g[n + 1])
<1>1. n \in 0..N /\ n + 1 \in 1..N /\ (n + 1) - 1 = n
  BY DEF Parts
<1>2. /\ Chunks(g, n + 1) = Chunks(g, n) \o g[n + 1]
      /\ Chunks(g, n) \in Seq(E)
  BY <1>1, ChunksStep
<1>3. g[n + 1] \in Seq(E)
  BY <1>1 DEF Parts
<1> QED BY <1>2, <1>3, ConcatType

\* The k-th element of the n-th part is k places after the parts before it.
LEMMA ChunksAt ==
  ASSUME NEW E, NEW N, NEW g, Parts(E, N, g),
         NEW n \in 1..N, NEW k \in 1..Len(g[n])
  PROVE  /\ Len(Chunks(g, n - 1)) + k \in 1..Len(Chunks(g, N))
         /\ Chunks(g, N)[Len(Chunks(g, n - 1)) + k] = g[n][k]
<1> DEFINE p == Len(Chunks(g, n - 1)) + k
           S == {m \in Nat : m \in n..N => p \in 1..Len(Chunks(g, m)) /\ Chunks(g, m)[p] = g[n][k]}
<1>a. N \in Nat
  BY DEF Parts
<1> USE <1>a
<1>0. n - 1 \in 0..N /\ \A m \in 0..N : Len(Chunks(g, m)) \in Nat /\ Chunks(g, m) \in Seq(E)
  <2>1. \A m \in 0..N : Chunks(g, m) \in Seq(E)
    BY ChunksStep
  <2> QED BY <2>1, LenProperties
<1>1. 0 \in S
  <2>1. 0 \notin n..N
    OBVIOUS
  <2> HIDE DEF p
  <2> QED BY <2>1
<1>2. ASSUME NEW m \in S PROVE m + 1 \in S
  <2>1. m \in Nat /\ m + 1 \in Nat
        /\ (m \in n..N => p \in 1..Len(Chunks(g, m)) /\ Chunks(g, m)[p] = g[n][k])
    OBVIOUS
  <2>2. ASSUME m + 1 \in n..N
        PROVE  p \in 1..Len(Chunks(g, m + 1)) /\ Chunks(g, m + 1)[p] = g[n][k]
    <3>1. m \in 0..N /\ m + 1 \in 1..N /\ (m + 1) - 1 = m
      BY <2>1, <2>2
    <3>2. /\ Chunks(g, m + 1) = Chunks(g, m) \o g[m + 1] /\ g[m + 1] \in Seq(E)
          /\ Chunks(g, m) \in Seq(E) /\ Len(Chunks(g, m)) \in Nat
      <4>1. m + 1 \in 0..N
        BY <2>2, <3>1
      <4>2. /\ Chunks(g, m + 1) = Chunks(g, m) \o g[m + 1] /\ g[m + 1] \in Seq(E)
            /\ Chunks(g, m) \in Seq(E)
        BY <2>1, <4>1, ChunksNext
      <4> QED BY <4>2, LenProperties
    <3>3. CASE m + 1 = n
      <4>1. p = Len(Chunks(g, m)) + k /\ k \in 1..Len(g[m + 1])
        BY <3>1, <3>3
      <4> HIDE DEF p
      <4>2. Len(Chunks(g, m)) + k \in 1..Len(Chunks(g, m) \o g[m + 1])
            /\ (Chunks(g, m) \o g[m + 1])[Len(Chunks(g, m)) + k] = g[m + 1][k]
        BY <3>2, <4>1, ConcatRight
      <4> QED BY <3>2, <3>3, <4>1, <4>2
    <3>4. CASE m + 1 # n
      <4>1. m \in n..N
        BY <2>1, <2>2, <3>4
      <4> HIDE DEF p
      <4>2. p \in 1..Len(Chunks(g, m)) /\ Chunks(g, m)[p] = g[n][k]
        BY <2>1, <4>1
      <4>3. p \in 1..Len(Chunks(g, m) \o g[m + 1])
            /\ (Chunks(g, m) \o g[m + 1])[p] = Chunks(g, m)[p]
        BY <3>2, <4>2, ConcatLeft
      <4> QED BY <3>2, <4>2, <4>3
    <3> QED BY <3>3, <3>4
  <2> HIDE DEF p
  <2> QED BY <2>1, <2>2
<1> HIDE DEF S, p
<1>3. S = Nat
  BY <1>1, <1>2, AllOfNat DEF S
<1>4. N \in n..N
  OBVIOUS
<1> QED BY <1>3, <1>4 DEF S, p

\* Lists of the same lengths.
Alike(g, h, n) == \A i \in 1..n : Len(g[i]) = Len(h[i])

\* Parts of the same lengths start at the same places.
LEMMA ChunksAlike ==
  ASSUME NEW E, NEW F, NEW N, NEW g, Parts(E, N, g), NEW h, Parts(F, N, h),
         Alike(g, h, N), NEW m \in 0..N
  PROVE  Len(Chunks(g, m)) = Len(Chunks(h, m))
<1> DEFINE S == {n \in Nat : n \in 0..N => Len(Chunks(g, n)) = Len(Chunks(h, n))}
<1>0. N \in Nat
  BY DEF Parts
<1> USE <1>0
<1>1. 0 \in S
  BY ChunksStep
<1>2. ASSUME NEW n \in S PROVE n + 1 \in S
  <2>1. n \in Nat /\ n + 1 \in Nat /\ (n \in 0..N => Len(Chunks(g, n)) = Len(Chunks(h, n)))
    OBVIOUS
  <2>2. ASSUME n + 1 \in 0..N PROVE Len(Chunks(g, n + 1)) = Len(Chunks(h, n + 1))
    <3>1. n \in 0..N /\ n + 1 \in 1..N /\ (n + 1) - 1 = n
      BY <2>1, <2>2
    <3>4. Len(Chunks(g, n + 1)) = Len(Chunks(g, n)) + Len(g[n + 1])
      BY <2>1, <2>2, ChunksNext
    <3>5. Len(Chunks(h, n + 1)) = Len(Chunks(h, n)) + Len(h[n + 1])
      BY <2>1, <2>2, ChunksNext
    <3>6. Len(g[n + 1]) = Len(h[n + 1])
      BY <3>1 DEF Alike
    <3> QED BY <2>1, <3>1, <3>4, <3>5, <3>6
  <2> QED BY <2>1, <2>2
<1> HIDE DEF S
<1>3. S = Nat
  BY <1>1, <1>2, AllOfNat DEF S
<1> QED BY <1>3 DEF S

\* Lists of length L.
Equal(g, L, n) == \A i \in 1..n : Len(g[i]) = L

\* Parts of one length L: the n-th starts after (n - 1) * L.
LEMMA ChunksEqual ==
  ASSUME NEW E, NEW N, NEW g, Parts(E, N, g), NEW L \in Nat,
         Equal(g, L, N), NEW m \in 0..N
  PROVE  Len(Chunks(g, m)) = m * L
<1> DEFINE S == {n \in Nat : n \in 0..N => Len(Chunks(g, n)) = n * L}
<1>0. N \in Nat
  BY DEF Parts
<1> USE <1>0
<1>1. 0 \in S
  <2>1. Chunks(g, 0) = <<>>
    BY ChunksStep
  <2>2. 0 * L = 0 /\ Len(<<>>) = 0
    OBVIOUS
  <2> QED BY <2>1, <2>2
<1>2. ASSUME NEW n \in S PROVE n + 1 \in S
  <2>1. n \in Nat /\ n + 1 \in Nat /\ (n \in 0..N => Len(Chunks(g, n)) = n * L)
    OBVIOUS
  <2>2. ASSUME n + 1 \in 0..N PROVE Len(Chunks(g, n + 1)) = (n + 1) * L
    <3>1. n \in 0..N /\ n + 1 \in 1..N /\ (n + 1) - 1 = n
      BY <2>1, <2>2
    <3>3. Len(Chunks(g, n + 1)) = Len(Chunks(g, n)) + Len(g[n + 1])
      BY <2>1, <2>2, ChunksNext
    <3>4. (n + 1) * L = n * L + L
      BY <2>1
    <3>5. Len(g[n + 1]) = L
      BY <3>1 DEF Equal
    <3> QED BY <2>1, <3>1, <3>3, <3>4, <3>5
  <2> QED BY <2>1, <2>2
<1> HIDE DEF S
<1>3. S = Nat
  BY <1>1, <1>2, AllOfNat DEF S
<1> QED BY <1>3 DEF S

\* A finite set of numbers that is not empty has a largest one.
LEMMA MaxProperty ==
  ASSUME NEW S \in SUBSET Nat, IsFiniteSet(S), S # {}
  PROVE  Max(S) \in S /\ \A y \in S : Max(S) >= y
<1> DEFINE Above(x) == {y \in S : y > x}
           T == {Cardinality(Above(x)) : x \in S}
<1>1. ASSUME NEW x \in S
      PROVE  IsFiniteSet(Above(x)) /\ Cardinality(Above(x)) \in Nat
  <2>1. Above(x) \in SUBSET S
    OBVIOUS
  <2> HIDE DEF Above
  <2> QED BY <2>1, FS_Subset, FS_CardinalityType
<1>2. T \in SUBSET Nat /\ T # {}
  BY <1>1
<1>3. PICK n \in T : \A m \in T : n <= m
  BY <1>2, NatMin
<1>4. PICK x \in S : n = Cardinality(Above(x))
  OBVIOUS
<1>5. ASSUME NEW y \in S, y > x PROVE FALSE
  <2>1. Above(y) \in SUBSET Above(x) /\ y \in Above(x) /\ y \notin Above(y)
    <3>1. x \in Nat /\ y \in Nat /\ \A z \in S : z \in Nat
      OBVIOUS
    <3>2. \A z \in S : z > y => z > x
      BY <1>5, <3>1
    <3>3. ~(y > y)
      BY <3>1
    <3> HIDE DEF T
    <3> QED BY <1>5, <3>2, <3>3
  <2>2. Cardinality(Above(y)) <= Cardinality(Above(x))
        /\ Cardinality(Above(y)) # Cardinality(Above(x))
    <3> HIDE DEF Above
    <3> QED BY <1>1, <2>1, FS_Subset
  <2>3. Cardinality(Above(y)) \in T
    OBVIOUS
  <2>5. Cardinality(Above(x)) \in Nat /\ Cardinality(Above(y)) \in Nat
    BY <1>1
  <2> HIDE DEF Above, T
  <2>4. Cardinality(Above(x)) <= Cardinality(Above(y))
    BY <1>3, <1>4, <2>3
  <2> QED BY <2>2, <2>4, <2>5
<1>6. \A y \in S : x >= y
  BY <1>5
<1> QED BY <1>6 DEF Max

-----------------------------------------------------------------------------
(* The flat batch                                                          *)

\* The rows' token ids and positions of the step, before they are laid end to end.
IdType == {"cond", "text", "bos", "speech"} \X Nat
PosRow(r) == [k \in 1..ScheduledTokens(r) |-> Computed(r) + k - 1]
IdRow(r) == [k \in 1..ScheduledTokens(r) |-> TokenIds(r)[Computed(r) + k]]
PosRows(batch) == [i \in 1..Len(batch) |-> PosRow(batch[i])]
IdRows(batch) == [i \in 1..Len(batch) |-> IdRow(batch[i])]

\* The embedding the layout defines for the k-th position of a row.
ContextAt(r, k) ==
  IF k <= CondLen THEN <<"cond", voice[r], SpeechPrompt[voice[r]], k>>
  ELSE IF k <= CondLen + text[r] THEN TextEmbedding(<<"text", k - CondLen>>, k - CondLen - 1, Role(r))
  ELSE IF k <= PromptLen(r) THEN BosEmbedding
  ELSE DecodeStep(k - PromptLen(r) - 1)

\* The embeddings of the first n positions.
Context(r, n) == [k \in 1..n |-> ContextAt(r, k)]

\* A running row has been given a token, and its context is that of the layout.
LayoutInv ==
  /\ DOMAIN embeds = Rows
  /\ \A r \in Rows :
       IF life[r] = "running"
       THEN made[r] >= 1 /\ embeds[r] = Context(r, PromptLen(r) + made[r] - 1)
       ELSE embeds[r] = <<>>

\* A row of the batch computes its whole context, or one token of it.
LEMMA Scheduled ==
  ASSUME Inv, LayoutInv, NEW r \in Rows
  PROVE  /\ PromptLen(r) \in Nat /\ made[r] \in Nat /\ text[r] \in Nat
         /\ PromptLen(r) = CondLen + text[r] + BosLen
         /\ CondLen \in Nat \ {0} /\ BosLen \in Nat \ {0}
         /\ life[r] = "running" =>
              /\ made[r] >= 1 /\ Computed(r) = PromptLen(r) + made[r] - 1 /\ ScheduledTokens(r) = 1
         /\ life[r] # "running" =>
              Computed(r) = 0 /\ ScheduledTokens(r) = PromptLen(r) + made[r]
         /\ Computed(r) \in Nat /\ ScheduledTokens(r) \in Nat
<1>1. made[r] \in Nat /\ text[r] \in Nat /\ CondLen \in Nat \ {0} /\ BosLen \in Nat \ {0}
  BY BatchAssumption DEF Inv, TypeOK
<1>2. PromptLen(r) = CondLen + text[r] + BosLen /\ PromptLen(r) \in Nat
  BY <1>1 DEF PromptLen
<1>3. life[r] = "running" => made[r] >= 1
  BY DEF LayoutInv
<1> QED BY <1>1, <1>2, <1>3 DEF Computed, ScheduledTokens

\* The tokens of a row: placeholders, text, two BOS, and what it generated.
LEMMA Tokens ==
  ASSUME Inv, LayoutInv, NEW r \in Rows
  PROVE  /\ TokenIds(r) \in Seq(IdType) /\ Len(TokenIds(r)) = PromptLen(r) + made[r]
         /\ \A k \in 1..(PromptLen(r) + made[r]) :
              TokenIds(r)[k] = IF k <= CondLen THEN <<"cond", 0>>
                               ELSE IF k <= CondLen + text[r] THEN <<"text", k - CondLen>>
                               ELSE IF k <= PromptLen(r) THEN <<"bos", 0>>
                               ELSE <<"speech", k - PromptLen(r)>>
<1> DEFINE c == [i \in 1..CondLen |-> <<"cond", 0>>]
           t == [i \in 1..text[r] |-> <<"text", i>>]
           b == [i \in 1..BosLen |-> <<"bos", 0>>]
           s == [i \in 1..made[r] |-> <<"speech", i>>]
<1>1. made[r] \in Nat /\ text[r] \in Nat /\ CondLen \in Nat /\ BosLen \in Nat
      /\ PromptLen(r) = CondLen + text[r] + BosLen
  BY Scheduled
<1>2. /\ c \in Seq(IdType) /\ Len(c) = CondLen
      /\ t \in Seq(IdType) /\ Len(t) = text[r]
      /\ b \in Seq(IdType) /\ Len(b) = BosLen
      /\ s \in Seq(IdType) /\ Len(s) = made[r]
  <2>1. c \in [1..CondLen -> IdType] /\ t \in [1..text[r] -> IdType]
        /\ b \in [1..BosLen -> IdType] /\ s \in [1..made[r] -> IdType]
    <3>0. ASSUME NEW n \in Nat
          PROVE  /\ <<"cond", 0>> \in IdType /\ <<"text", n>> \in IdType
                 /\ <<"bos", 0>> \in IdType /\ <<"speech", n>> \in IdType
      BY DEF IdType
    <3>1. c \in [1..CondLen -> IdType]
      BY <3>0
    <3>2. t \in [1..text[r] -> IdType]
      <4>1. ASSUME NEW i \in 1..text[r] PROVE <<"text", i>> \in IdType
        <5>1. i \in Nat
          BY <1>1
        <5> QED BY <3>0, <5>1
      <4> QED BY <4>1
    <3>3. b \in [1..BosLen -> IdType]
      BY <3>0
    <3>4. s \in [1..made[r] -> IdType]
      <4>1. ASSUME NEW i \in 1..made[r] PROVE <<"speech", i>> \in IdType
        <5>1. i \in Nat
          BY <1>1
        <5> QED BY <3>0, <5>1
      <4> QED BY <4>1
    <3> HIDE DEF c, t, b, s
    <3> QED BY <3>1, <3>2, <3>3, <3>4
  <2> HIDE DEF c, t, b, s
  <2> QED BY <1>1, <2>1, ListType
<1>8. /\ \A k \in 1..CondLen : c[k] = <<"cond", 0>>
      /\ \A k \in 1..text[r] : t[k] = <<"text", k>>
      /\ \A k \in 1..BosLen : b[k] = <<"bos", 0>>
      /\ \A k \in 1..made[r] : s[k] = <<"speech", k>>
  OBVIOUS
<1>3. TokenIds(r) = (c \o (t \o b)) \o s
  BY DEF TokenIds, PromptIds, TextIds
<1> HIDE DEF c, t, b, s
<1> DEFINE tb == t \o b
           p == c \o tb
<1>4. tb \in Seq(IdType) /\ Len(tb) = text[r] + BosLen
  BY <1>2, ConcatType
<1>5. p \in Seq(IdType) /\ Len(p) = PromptLen(r)
  <2> HIDE DEF tb
  <2>1. p \in Seq(IdType) /\ Len(p) = Len(c) + Len(tb)
    BY <1>2, <1>4, ConcatType
  <2> HIDE DEF p
  <2> QED BY <1>1, <1>2, <1>4, <2>1
<1>6. p \o s \in Seq(IdType) /\ Len(p \o s) = PromptLen(r) + made[r]
  <2> HIDE DEF p
  <2> QED BY <1>2, <1>5, ConcatType
<1>7. ASSUME NEW k \in 1..(PromptLen(r) + made[r])
      PROVE  (p \o s)[k] = IF k <= CondLen THEN <<"cond", 0>>
                            ELSE IF k <= CondLen + text[r] THEN <<"text", k - CondLen>>
                            ELSE IF k <= PromptLen(r) THEN <<"bos", 0>>
                            ELSE <<"speech", k - PromptLen(r)>>
  <2>0. k \in Nat /\ k >= 1 /\ PromptLen(r) \in Nat
    BY <1>1
  <2>1. k <= PromptLen(r) => k \in 1..Len(p) /\ (p \o s)[k] = p[k]
    <3> HIDE DEF p
    <3>1. k <= PromptLen(r) => k \in 1..Len(p)
      BY <1>5, <2>0
    <3> QED BY <1>2, <1>5, <3>1, ConcatLeft
  <2>2. k <= CondLen => p[k] = c[k] /\ c[k] = <<"cond", 0>>
    <3> HIDE DEF tb
    <3>1. k <= CondLen => k \in 1..Len(c) /\ k \in 1..CondLen
      BY <1>1, <1>2, <2>0
    <3> QED BY <1>2, <1>4, <1>8, <3>1, ConcatLeft
  <2>3. ASSUME CondLen < k, k <= PromptLen(r)
        PROVE  k - CondLen \in 1..Len(tb) /\ p[k] = tb[k - CondLen]
    <3>1. k - CondLen \in 1..Len(tb) /\ Len(c) + (k - CondLen) = k
      BY <1>1, <1>2, <1>4, <2>0, <2>3
    <3> HIDE DEF tb
    <3> DEFINE j == k - CondLen
    <3>3. j \in 1..Len(tb)
      BY <3>1
    <3> HIDE DEF j
    <3>2. (c \o tb)[Len(c) + j] = tb[j]
      BY <1>2, <1>4, <3>3, ConcatRight
    <3> QED BY <3>1, <3>2 DEF j
  <2>4. ASSUME CondLen < k, k <= CondLen + text[r]
        PROVE  tb[k - CondLen] = <<"text", k - CondLen>>
    <3>1. k - CondLen \in 1..Len(t) /\ k - CondLen \in 1..text[r]
      BY <1>1, <1>2, <2>0, <2>4
    <3>2. tb[k - CondLen] = t[k - CondLen]
      BY <1>2, <3>1, ConcatLeft
    <3> QED BY <1>8, <3>1, <3>2
  <2>5. ASSUME CondLen + text[r] < k, k <= PromptLen(r)
        PROVE  tb[k - CondLen] = <<"bos", 0>>
    <3> DEFINE j == k - CondLen - text[r]
    <3>1. j \in 1..Len(b) /\ j \in 1..BosLen /\ Len(t) + j = k - CondLen
      BY <1>1, <1>2, <2>0, <2>5
    <3> HIDE DEF j
    <3>2. (t \o b)[Len(t) + j] = b[j]
      BY <1>2, <3>1, ConcatRight
    <3> QED BY <1>8, <3>1, <3>2
  <2>6. ASSUME PromptLen(r) < k
        PROVE  (p \o s)[k] = <<"speech", k - PromptLen(r)>>
    <3> DEFINE j == k - PromptLen(r)
    <3>0. Len(p) \in Nat /\ Len(p) = PromptLen(r)
      BY <1>5, <2>0
    <3>1. j \in 1..Len(s) /\ j \in 1..made[r] /\ Len(p) + j = k
      <4> HIDE DEF p
      <4>1. k <= PromptLen(r) + made[r] /\ made[r] \in Nat /\ Len(s) = made[r]
        BY <1>1, <1>2
      <4>2. j \in 1..made[r]
        BY <4>1, <2>0, <2>6
      <4>3. Len(p) + j = k
        BY <3>0, <2>0
      <4> QED BY <4>1, <4>2, <4>3
    <3>2. s[j] = <<"speech", j>>
      BY <1>8, <3>1
    <3> HIDE DEF j, p
    <3>3. (p \o s)[Len(p) + j] = s[j]
      BY <1>2, <1>5, <3>1, ConcatRight
    <3> QED BY <3>1, <3>2, <3>3 DEF j
  <2> HIDE DEF p, tb
  <2>7. CASE k <= CondLen
    <3>1. k <= PromptLen(r)
      BY <1>1, <2>0, <2>7
    <3> QED BY <2>1, <2>2, <2>7, <3>1
  <2>8. CASE CondLen < k /\ k <= CondLen + text[r]
    <3>1. k <= PromptLen(r) /\ ~(k <= CondLen)
      BY <1>1, <2>0, <2>8
    <3>2. (p \o s)[k] = <<"text", k - CondLen>>
      BY <2>1, <2>3, <2>4, <2>8, <3>1
    <3> QED BY <2>8, <3>1, <3>2
  <2>9. CASE CondLen + text[r] < k /\ k <= PromptLen(r)
    <3>1. CondLen < k /\ ~(k <= CondLen) /\ ~(k <= CondLen + text[r])
      BY <1>1, <2>0, <2>9
    <3>2. (p \o s)[k] = <<"bos", 0>>
      BY <2>1, <2>3, <2>5, <2>9, <3>1
    <3> QED BY <2>9, <3>1, <3>2
  <2>10. CASE PromptLen(r) < k
    <3>1. ~(k <= CondLen) /\ ~(k <= CondLen + text[r]) /\ ~(k <= PromptLen(r))
      BY <1>1, <2>0, <2>10
    <3> QED BY <2>6, <2>10, <3>1
  <2>11. CondLen \in Nat /\ text[r] \in Nat
    BY <1>1
  <2>12. \/ k <= CondLen
         \/ CondLen < k /\ k <= CondLen + text[r]
         \/ CondLen + text[r] < k /\ k <= PromptLen(r)
         \/ PromptLen(r) < k
    BY <2>0, <2>11
  <2> QED BY <2>7, <2>8, <2>9, <2>10, <2>12
<1> HIDE DEF p
<1> QED BY <1>3, <1>6, <1>7 DEF p, tb

\* The flat arrays are the rows' own, one after the other, and a span starts
\* after those of the rows before it.
LEMMA Flat ==
  ASSUME Inv, LayoutInv, NEW batch \in Batches
  PROVE  /\ Len(batch) \in Nat
         /\ Parts(Nat, Len(batch), PosRows(batch))
         /\ Parts(IdType, Len(batch), IdRows(batch))
         /\ \A i \in 1..Len(batch) :
              /\ Len(PosRows(batch)[i]) = ScheduledTokens(batch[i])
              /\ Len(IdRows(batch)[i]) = ScheduledTokens(batch[i])
         /\ HostPositions(batch) = Chunks(PosRows(batch), Len(batch))
         /\ InputIds(batch) = Chunks(IdRows(batch), Len(batch))
         /\ \A i \in 1..Len(batch) :
              /\ SpanStart(batch, i) = Len(Chunks(PosRows(batch), i - 1))
              /\ SpanStart(batch, i) = Len(Chunks(IdRows(batch), i - 1))
<1>1. Len(batch) \in Nat /\ (\A i \in 1..Len(batch) : batch[i] \in Rows)
  BY BatchType
<1>2. ASSUME NEW i \in 1..Len(batch)
      PROVE  /\ PosRow(batch[i]) \in Seq(Nat) /\ Len(PosRow(batch[i])) = ScheduledTokens(batch[i])
             /\ IdRow(batch[i]) \in Seq(IdType) /\ Len(IdRow(batch[i])) = ScheduledTokens(batch[i])
  <2> DEFINE r == batch[i]
  <2>1. r \in Rows
    BY <1>1
  <2> HIDE DEF r
  <2>2. ScheduledTokens(r) \in Nat /\ Computed(r) \in Nat /\ PromptLen(r) \in Nat /\ made[r] \in Nat
    BY <2>1, Scheduled
  <2>3. PosRow(r) \in [1..ScheduledTokens(r) -> Nat]
    <3>1. ASSUME NEW k \in 1..ScheduledTokens(r) PROVE Computed(r) + k - 1 \in Nat
      BY <2>2
    <3> QED BY <3>1 DEF PosRow
  <2>4. IdRow(r) \in [1..ScheduledTokens(r) -> IdType]
    <3>1. ASSUME NEW k \in 1..ScheduledTokens(r) PROVE TokenIds(r)[Computed(r) + k] \in IdType
      <4>1. Computed(r) + k \in 1..(PromptLen(r) + made[r])
        BY <2>2 DEF ScheduledTokens
      <4>2. TokenIds(r) \in Seq(IdType) /\ Len(TokenIds(r)) = PromptLen(r) + made[r]
        BY <2>1, Tokens
      <4> QED BY <4>1, <4>2
    <3> QED BY <3>1 DEF IdRow
  <2> QED BY <2>2, <2>3, <2>4, ListType DEF r
<1>3. /\ PosRows(batch) \in [1..Len(batch) -> Seq(Nat)]
      /\ \A i \in 1..Len(batch) : PosRows(batch)[i] = PosRow(batch[i])
  BY <1>2 DEF PosRows
<1>4. /\ IdRows(batch) \in [1..Len(batch) -> Seq(IdType)]
      /\ \A i \in 1..Len(batch) : IdRows(batch)[i] = IdRow(batch[i])
  BY <1>2 DEF IdRows
<1>10. Parts(Nat, Len(batch), PosRows(batch)) /\ Parts(IdType, Len(batch), IdRows(batch))
  BY <1>1, <1>3, <1>4 DEF Parts
<1>5. HostPositions(batch) = Chunks(PosRows(batch), Len(batch))
  <2>1. PosRows(batch) = [k \in 1..Len(batch) |-> PosRows(batch)[k]]
    BY DEF PosRows
  <2>2. HostPositions(batch) = FlattenSeq(PosRows(batch))
    BY DEF HostPositions, PosRows, PosRow
  <2> QED BY <2>1, <2>2 DEF Chunks
<1>6. InputIds(batch) = Chunks(IdRows(batch), Len(batch))
  <2>1. IdRows(batch) = [k \in 1..Len(batch) |-> IdRows(batch)[k]]
    BY DEF IdRows
  <2>2. InputIds(batch) = FlattenSeq(IdRows(batch))
    BY DEF InputIds, IdRows, IdRow
  <2> QED BY <2>1, <2>2 DEF Chunks
<1>7. ASSUME NEW i \in 1..Len(batch)
      PROVE  SpanStart(batch, i) = Len(Chunks(PosRows(batch), i - 1))
  <2> DEFINE before == SubSeq(batch, 1, i - 1)
  <2>1. before = [k \in 1..(i - 1) |-> batch[k]]
    <3>1. batch \in Seq(Rows)
      BY <1>1, BatchType DEF Batches
    <3>2. i - 1 \in 0..Len(batch) /\ 1 + (i - 1) - 1 = i - 1
      BY <1>1
    <3> QED BY <3>1, <3>2, <1>1
  <2>2. Len(before) = i - 1 /\ \A k \in 1..(i - 1) : before[k] = batch[k]
    <3>1. i - 1 \in Nat
      BY <1>1
    <3> HIDE DEF before
    <3> QED BY <2>1, <3>1
  <2> HIDE DEF before
  <2>3. [k \in 1..Len(before) |-> PosRow(before[k])] = [k \in 1..(i - 1) |-> PosRows(batch)[k]]
    <3>1. \A k \in 1..(i - 1) : k \in 1..Len(batch)
      BY <1>1
    <3> QED BY <1>3, <2>2, <3>1
  <2>4. HostPositions(before) = FlattenSeq([k \in 1..Len(before) |-> PosRow(before[k])])
    BY DEF HostPositions, PosRow
  <2> QED BY <2>3, <2>4 DEF SpanStart, Chunks, before
<1>8. \A n \in 0..Len(batch) : Len(Chunks(PosRows(batch), n)) = Len(Chunks(IdRows(batch), n))
  <2>1. \A i \in 1..Len(batch) : Len(PosRows(batch)[i]) = Len(IdRows(batch)[i])
    BY <1>2, <1>3, <1>4
  <2>2. Alike(PosRows(batch), IdRows(batch), Len(batch))
    BY <2>1 DEF Alike
  <2> QED BY <1>10, <2>2, ChunksAlike
<1>9. ASSUME NEW i \in 1..Len(batch)
      PROVE  SpanStart(batch, i) = Len(Chunks(IdRows(batch), i - 1))
  <2>1. i - 1 \in 0..Len(batch)
    BY <1>1
  <2> QED BY <1>7, <1>8, <2>1
<1> QED BY <1>1, <1>2, <1>3, <1>4, <1>5, <1>6, <1>7, <1>9, <1>10

\* Where a row's tokens and positions are in the flat arrays.
LEMMA InputAt ==
  ASSUME Inv, LayoutInv, NEW batch \in Batches, NEW i \in 1..Len(batch),
         NEW k \in 1..ScheduledTokens(batch[i])
  PROVE  /\ HostPositions(batch)[SpanStart(batch, i) + k] = Computed(batch[i]) + k - 1
         /\ InputIds(batch)[SpanStart(batch, i) + k] = TokenIds(batch[i])[Computed(batch[i]) + k]
         /\ SpanStart(batch, i) + k \in 1..Len(InputIds(batch))
<1>1. /\ PosRows(batch)[i][k] = Computed(batch[i]) + k - 1
      /\ IdRows(batch)[i][k] = TokenIds(batch[i])[Computed(batch[i]) + k]
  BY DEF PosRows, PosRow, IdRows, IdRow
<1>2. HostPositions(batch)[SpanStart(batch, i) + k] = PosRows(batch)[i][k]
  <2>1. k \in 1..Len(PosRows(batch)[i])
    BY Flat
  <2>2. Chunks(PosRows(batch), Len(batch))[Len(Chunks(PosRows(batch), i - 1)) + k]
          = PosRows(batch)[i][k]
    BY <2>1, Flat, ChunksAt
  <2> QED BY <2>2, Flat
<1>3. /\ InputIds(batch)[SpanStart(batch, i) + k] = IdRows(batch)[i][k]
      /\ SpanStart(batch, i) + k \in 1..Len(InputIds(batch))
  <2>1. k \in 1..Len(IdRows(batch)[i])
    BY Flat
  <2>2. /\ Chunks(IdRows(batch), Len(batch))[Len(Chunks(IdRows(batch), i - 1)) + k]
          = IdRows(batch)[i][k]
        /\ Len(Chunks(IdRows(batch), i - 1)) + k \in 1..Len(Chunks(IdRows(batch), Len(batch)))
    BY <2>1, Flat, ChunksAt
  <2> QED BY <2>2, Flat
<1> QED BY <1>1, <1>2, <1>3

-----------------------------------------------------------------------------
(* The mask of conditioning positions                                      *)

\* A place of a row's span is in the mask when the row is prefilling and the
\* place is one of its first CondLen.
LEMMA InMask ==
  ASSUME Inv, LayoutInv, NEW batch \in Batches, NEW i \in 1..Len(batch),
         NEW k \in 1..ScheduledTokens(batch[i])
  PROVE  IsCond(InputIds(batch)[SpanStart(batch, i) + k])
           <=> i \in PrefillIndices(batch) /\ k <= CondLen
<1>1. PICK r \in Rows : r = batch[i]
  BY BatchType
<1>2. /\ PromptLen(r) \in Nat /\ made[r] \in Nat /\ text[r] \in Nat
      /\ PromptLen(r) = CondLen + text[r] + BosLen /\ CondLen \in Nat /\ BosLen \in Nat
      /\ Computed(r) \in Nat /\ ScheduledTokens(r) = PromptLen(r) + made[r] - Computed(r)
      /\ Computed(r) = 0 \/ Computed(r) >= CondLen
  <2>1. ASSUME life[r] = "running" PROVE Computed(r) >= CondLen
    <3>1. /\ PromptLen(r) = CondLen + text[r] + BosLen /\ text[r] \in Nat
          /\ CondLen \in Nat /\ BosLen \in Nat
      BY Scheduled
    <3>2. PromptLen(r) \in Nat /\ CondLen \in Nat /\ PromptLen(r) >= CondLen
      BY <3>1
    <3>3. made[r] \in Nat /\ made[r] >= 1 /\ Computed(r) = PromptLen(r) + made[r] - 1
      BY <2>1, Scheduled
    <3> QED BY <3>2, <3>3
  <2> QED BY <2>1, Scheduled DEF ScheduledTokens
<1>3. k \in 1..ScheduledTokens(r)
  BY <1>1
<1>4. Computed(r) + k \in 1..(PromptLen(r) + made[r])
  <2>1. PICK p, c, m : p = PromptLen(r) /\ c = Computed(r) /\ m = made[r]
    OBVIOUS
  <2>2. p \in Nat /\ c \in Nat /\ m \in Nat /\ k \in 1..(p + m - c)
    BY <1>2, <1>3, <2>1
  <2>3. c + k \in 1..(p + m)
    BY <2>2
  <2> QED BY <2>1, <2>3
<1>5. IsCond(TokenIds(r)[Computed(r) + k]) <=> Computed(r) + k <= CondLen
  <2>1. PICK n \in 1..(PromptLen(r) + made[r]) : n = Computed(r) + k
    BY <1>4
  <2>2. TokenIds(r)[n] = IF n <= CondLen THEN <<"cond", 0>>
                         ELSE IF n <= CondLen + text[r] THEN <<"text", n - CondLen>>
                         ELSE IF n <= PromptLen(r) THEN <<"bos", 0>>
                         ELSE <<"speech", n - PromptLen(r)>>
    BY Tokens
  <2>3. IsCond(TokenIds(r)[n]) <=> n <= CondLen
    BY <2>2 DEF IsCond
  <2> QED BY <2>1, <2>3
<1>6. InputIds(batch)[SpanStart(batch, i) + k] = TokenIds(r)[Computed(r) + k]
  BY <1>1, InputAt
<1>7. i \in PrefillIndices(batch) <=> Computed(r) < CondLen
  BY <1>1 DEF PrefillIndices
<1>8. Computed(r) + k <= CondLen <=> Computed(r) < CondLen /\ k <= CondLen
  BY <1>2, <1>3
<1> QED BY <1>5, <1>6, <1>7, <1>8

\* A prefilling row computes from its first position, past its conditioning.
LEMMA PrefillSpan ==
  ASSUME Inv, LayoutInv, NEW batch \in Batches, NEW i \in PrefillIndices(batch)
  PROVE  /\ i \in 1..Len(batch) /\ Computed(batch[i]) = 0
         /\ CondLen \in Nat /\ CondLen <= ScheduledTokens(batch[i])
         /\ life[batch[i]] # "running"
<1>1. i \in 1..Len(batch) /\ batch[i] \in Rows /\ life[batch[i]] # "running"
  <2>1. i \in 1..Len(batch)
    BY DEF PrefillIndices
  <2> QED BY <2>1, BatchType, Prefilling DEF Inv
<1> QED BY <1>1, Scheduled

\* The n numbers after a.
LEMMA IntervalAfter ==
  ASSUME NEW a \in Nat, NEW n \in Nat
  PROVE  IsFiniteSet((a + 1)..(a + n)) /\ Cardinality((a + 1)..(a + n)) = n
<1>1. a + 1 \in Int /\ a + n \in Int
  OBVIOUS
<1>2. /\ IsFiniteSet((a + 1)..(a + n))
      /\ Cardinality((a + 1)..(a + n)) = IF a + 1 > a + n THEN 0 ELSE (a + n) - (a + 1) + 1
  BY <1>1, FS_Interval
<1> QED BY <1>2

\* Sizes of disjoint sets add up.
LEMMA DisjointUnion ==
  ASSUME NEW S, NEW T, IsFiniteSet(S), IsFiniteSet(T), S \cap T = {}
  PROVE  IsFiniteSet(S \cup T) /\ Cardinality(S \cup T) = Cardinality(S) + Cardinality(T)
<1>1. Cardinality({}) = 0 /\ Cardinality(S) \in Nat /\ Cardinality(T) \in Nat
  BY FS_EmptySet, FS_CardinalityType
<1>2. /\ IsFiniteSet(S \cup T)
      /\ Cardinality(S \cup T) = Cardinality(S) + Cardinality(T) - Cardinality(S \cap T)
  BY FS_Union
<1>3. Cardinality(S \cap T) = 0
  BY <1>1
<1> QED BY <1>1, <1>2, <1>3

\* The places of the mask among the first n of the flat batch.
Mask(batch, n) == {m \in 1..n : IsCond(InputIds(batch)[m])}
\* The prefilling rows among the first i.
Before(batch, i) == {j \in PrefillIndices(batch) : j <= i}
\* Where the span of row i ends.
SpanEnd(batch, i) == Len(Chunks(IdRows(batch), i))

\* The first i rows have CondLen places each in the mask.
LEMMA MaskCount ==
  ASSUME Inv, LayoutInv, NEW batch \in Batches, NEW i \in 0..Len(batch)
  PROVE  /\ SpanEnd(batch, i) \in Nat
         /\ IsFiniteSet(Mask(batch, SpanEnd(batch, i)))
         /\ IsFiniteSet(Before(batch, i))
         /\ Cardinality(Mask(batch, SpanEnd(batch, i))) = Cardinality(Before(batch, i)) * CondLen
<1> DEFINE Counted(n) ==
             /\ SpanEnd(batch, n) \in Nat
             /\ IsFiniteSet(Mask(batch, SpanEnd(batch, n)))
             /\ IsFiniteSet(Before(batch, n))
             /\ Cardinality(Mask(batch, SpanEnd(batch, n))) = Cardinality(Before(batch, n)) * CondLen
           S == {n \in Nat : n \in 0..Len(batch) => Counted(n)}
<1>0. CondLen \in Nat /\ Len(batch) \in Nat
  BY BatchAssumption, BatchType
<1>1. 0 \in S
  <2>1. SpanEnd(batch, 0) = 0
    <3>1. Chunks(IdRows(batch), 0) = <<>>
      BY Flat, ChunksStep
    <3> QED BY <3>1 DEF SpanEnd
  <2>2. Mask(batch, 0) = {} /\ Before(batch, 0) = {}
    BY DEF Mask, Before, PrefillIndices
  <2>3. Counted(0)
    <3>1. IsFiniteSet({}) /\ Cardinality({}) = 0 /\ 0 * CondLen = 0
      BY <1>0, FS_EmptySet
    <3>2. Mask(batch, SpanEnd(batch, 0)) = {}
      BY <2>1, <2>2
    <3>3. Cardinality(Mask(batch, SpanEnd(batch, 0))) = Cardinality(Before(batch, 0)) * CondLen
      BY <2>2, <3>1, <3>2
    <3>4. SpanEnd(batch, 0) \in Nat
      BY <2>1
    <3>5. IsFiniteSet(Mask(batch, SpanEnd(batch, 0))) /\ IsFiniteSet(Before(batch, 0))
      BY <2>2, <3>1, <3>2
    <3> QED BY <3>3, <3>4, <3>5
  <2> HIDE DEF Counted
  <2> QED BY <2>3
<1>2. ASSUME NEW n \in S PROVE n + 1 \in S
  <2>1. n \in Nat /\ n + 1 \in Nat /\ (n \in 0..Len(batch) => Counted(n))
    OBVIOUS
  <2>2. ASSUME n + 1 \in 0..Len(batch) PROVE Counted(n + 1)
    <3> DEFINE at == SpanEnd(batch, n)
               size == ScheduledTokens(batch[n + 1])
    <3>1. n \in 0..Len(batch) /\ n + 1 \in 1..Len(batch) /\ (n + 1) - 1 = n
      BY <1>0, <2>1, <2>2
    <3>2. /\ at \in Nat /\ IsFiniteSet(Mask(batch, at)) /\ IsFiniteSet(Before(batch, n))
          /\ Cardinality(Mask(batch, at)) = Cardinality(Before(batch, n)) * CondLen
      BY <2>1, <3>1
    <3>3. at = SpanStart(batch, n + 1)
      BY <3>1, Flat DEF SpanEnd
    <3>4. size \in Nat /\ SpanEnd(batch, n + 1) = at + size
      <4>1. Len(Chunks(IdRows(batch), n + 1)) = Len(Chunks(IdRows(batch), n)) + Len(IdRows(batch)[n + 1])
        BY <2>1, <2>2, Flat, ChunksNext
      <4>2. Len(IdRows(batch)[n + 1]) = size
        BY <3>1, Flat
      <4>3. batch[n + 1] \in Rows
        BY <3>1, BatchType
      <4> QED BY <4>1, <4>2, <4>3, Scheduled DEF SpanEnd
    <3>5. ASSUME NEW m \in (at + 1)..(at + size)
          PROVE  IsCond(InputIds(batch)[m]) <=> n + 1 \in PrefillIndices(batch) /\ m - at <= CondLen
      <4> DEFINE k == m - at
      <4>1. k \in 1..size /\ at + k = m
        BY <3>2, <3>4
      <4> HIDE DEF k, at
      <4>2. IsCond(InputIds(batch)[SpanStart(batch, n + 1) + k])
              <=> n + 1 \in PrefillIndices(batch) /\ k <= CondLen
        BY <3>1, <4>1, InMask
      <4> QED BY <3>3, <4>1, <4>2 DEF k
    <3> HIDE DEF at, size
    <3>6. CASE n + 1 \in PrefillIndices(batch)
      <4> DEFINE new == (at + 1)..(at + CondLen)
      <4>1. CondLen <= size
        BY <3>6, PrefillSpan DEF size
      <4>2. Mask(batch, at + size) = Mask(batch, at) \cup new /\ Mask(batch, at) \cap new = {}
        BY <1>0, <3>2, <3>4, <3>5, <3>6, <4>1 DEF Mask
      <4>3. IsFiniteSet(new) /\ Cardinality(new) = CondLen
        BY <1>0, <3>2, IntervalAfter
      <4>4. Before(batch, n + 1) = Before(batch, n) \cup {n + 1} /\ n + 1 \notin Before(batch, n)
        BY <2>1, <3>6 DEF Before, PrefillIndices
      <4>5. /\ IsFiniteSet(Before(batch, n + 1))
            /\ Cardinality(Before(batch, n + 1)) = Cardinality(Before(batch, n)) + 1
        BY <3>2, <4>4, FS_AddElement
      <4>6. /\ IsFiniteSet(Mask(batch, at + size))
            /\ Cardinality(Mask(batch, at + size)) = Cardinality(Mask(batch, at)) + CondLen
        <5> HIDE DEF new
        <5> QED BY <1>0, <3>2, <4>2, <4>3, DisjointUnion
      <4>7. Cardinality(Before(batch, n)) \in Nat
        BY <3>2, FS_CardinalityType
      <4>8. (Cardinality(Before(batch, n)) + 1) * CondLen = Cardinality(Before(batch, n)) * CondLen + CondLen
        BY <1>0, <4>7
      <4> QED BY <3>2, <3>4, <4>5, <4>6, <4>8
    <3>7. CASE n + 1 \notin PrefillIndices(batch)
      <4>1. Mask(batch, at + size) = Mask(batch, at)
        BY <3>2, <3>4, <3>5, <3>7 DEF Mask
      <4>2. Before(batch, n + 1) = Before(batch, n)
        BY <2>1, <3>7 DEF Before, PrefillIndices
      <4> QED BY <3>2, <3>4, <4>1, <4>2
    <3> QED BY <3>6, <3>7
  <2> HIDE DEF Counted
  <2> QED BY <2>1, <2>2
<1> HIDE DEF S
<1>3. S = Nat
  BY <1>1, <1>2, AllOfNat DEF S
<1> QED BY <1>3 DEF S

\* The rank in the mask of the k-th place of a prefilling row.
LEMMA MaskRank ==
  ASSUME Inv, LayoutInv, NEW batch \in Batches, NEW i \in PrefillIndices(batch),
         NEW k \in 1..CondLen
  PROVE  /\ Rank(i, PrefillIndices(batch)) \in 1..Cardinality(PrefillIndices(batch))
         /\ Cardinality(Mask(batch, SpanStart(batch, i) + k))
              = (Rank(i, PrefillIndices(batch)) - 1) * CondLen + k
<1> DEFINE at == SpanStart(batch, i)
           new == (at + 1)..(at + k)
<1>1. i \in 1..Len(batch) /\ CondLen \in Nat /\ CondLen <= ScheduledTokens(batch[i]) /\ Len(batch) \in Nat
  BY PrefillSpan, BatchType
<1>2. at = SpanEnd(batch, i - 1) /\ i - 1 \in 0..Len(batch)
  BY <1>1, Flat DEF SpanEnd
<1>3. /\ at \in Nat /\ IsFiniteSet(Mask(batch, at)) /\ IsFiniteSet(Before(batch, i - 1))
      /\ Cardinality(Mask(batch, at)) = Cardinality(Before(batch, i - 1)) * CondLen
  BY <1>2, MaskCount
<1>4. ASSUME NEW m \in new PROVE IsCond(InputIds(batch)[m])
  <2> DEFINE j == m - at
  <2>0. ScheduledTokens(batch[i]) \in Nat
    BY <1>1, BatchType, Scheduled
  <2>1. j \in 1..ScheduledTokens(batch[i]) /\ j <= CondLen /\ at + j = m
    BY <1>1, <1>3, <2>0
  <2> HIDE DEF j, new
  <2> QED BY <1>1, <2>1, InMask
<1> HIDE DEF at
<1>5. Mask(batch, at + k) = Mask(batch, at) \cup new /\ Mask(batch, at) \cap new = {}
  BY <1>1, <1>3, <1>4 DEF Mask
<1>6. IsFiniteSet(new) /\ Cardinality(new) = k
  BY <1>1, <1>3, IntervalAfter
<1> HIDE DEF new
<1>7. Cardinality(Mask(batch, at + k)) = Cardinality(Mask(batch, at)) + k
  BY <1>3, <1>5, <1>6, DisjointUnion
<1>8. Rank(i, PrefillIndices(batch)) = Cardinality(Before(batch, i - 1)) + 1
  <2>1. Before(batch, i) = Before(batch, i - 1) \cup {i} /\ i \notin Before(batch, i - 1)
    BY <1>1 DEF Before, PrefillIndices
  <2>2. Rank(i, PrefillIndices(batch)) = Cardinality(Before(batch, i))
    BY DEF Rank, Before
  <2> QED BY <1>3, <2>1, <2>2, FS_AddElement
<1>9. Cardinality(Before(batch, i - 1)) \in Nat
  BY <1>3, FS_CardinalityType
<1>10. Rank(i, PrefillIndices(batch)) <= Cardinality(PrefillIndices(batch))
  <2>1. IsFiniteSet(PrefillIndices(batch)) /\ Before(batch, i) \in SUBSET PrefillIndices(batch)
    <3>1. PrefillIndices(batch) \in SUBSET (1..Len(batch)) /\ IsFiniteSet(1..Len(batch))
      BY <1>1, FS_Interval DEF PrefillIndices
    <3> QED BY <3>1, FS_Subset DEF Before
  <2> QED BY <2>1, FS_Subset DEF Rank, Before
<1>11. Cardinality(PrefillIndices(batch)) \in Nat
  <2>1. PrefillIndices(batch) \in SUBSET (1..Len(batch)) /\ IsFiniteSet(1..Len(batch))
    BY <1>1, FS_Interval DEF PrefillIndices
  <2> QED BY <2>1, FS_Subset, FS_CardinalityType
<1> QED BY <1>1, <1>3, <1>7, <1>8, <1>9, <1>10, <1>11 DEF at

-----------------------------------------------------------------------------
(* The conditioning embeddings                                             *)

\* A rank is between one and the size of the set.
LEMMA RankRange ==
  ASSUME NEW S \in SUBSET Nat, IsFiniteSet(S), NEW i \in S
  PROVE  Rank(i, S) \in 1..Cardinality(S)
<1> DEFINE below == {j \in S : j <= i}
<1>1. below \in SUBSET S /\ i \in below
  OBVIOUS
<1>2. Rank(i, S) = Cardinality(below)
  BY DEF Rank
<1> HIDE DEF below
<1>3. /\ IsFiniteSet(below) /\ Cardinality(below) <= Cardinality(S)
      /\ Cardinality(below) \in Nat /\ Cardinality(S) \in Nat
  BY <1>1, FS_Subset, FS_CardinalityType
<1>4. Cardinality(below) # 0
  BY <1>1, <1>3, FS_EmptySet
<1> QED BY <1>2, <1>3, <1>4

\* Ranks are the numbers from 1 up, and each belongs to one element.
LEMMA RankOnto ==
  ASSUME NEW S \in SUBSET Nat, IsFiniteSet(S), NEW k \in 1..Cardinality(S)
  PROVE  \E i \in S : Rank(i, S) = k
<1> DEFINE N == 1..Cardinality(S)
           f == [i \in S |-> Rank(i, S)]
<1>1. Cardinality(S) \in Nat /\ IsFiniteSet(N) /\ Cardinality(N) = Cardinality(S)
  <2>1. Cardinality(S) \in Nat
    BY FS_CardinalityType
  <2> QED BY <2>1, FS_Interval
<1>2. \A i \in S : Rank(i, S) \in N
  BY RankRange
<1> HIDE DEF N
<1>3. f \in [S -> N]
  BY <1>2
<1>4. \A i, j \in S : f[i] = f[j] => i = j
  BY RankInjective
<1> HIDE DEF f
<1>5. f \in Injection(S, N)
  BY <1>3, <1>4 DEF Injection, IsInjective
<1>6. f \in Surjection(S, N)
  BY <1>1, <1>5, FS_Injection
<1> QED BY <1>6 DEF Surjection, f, N

\* The prefilling rows are places of the batch.
LEMMA PrefillFinite ==
  ASSUME NEW batch \in Batches
  PROVE  /\ PrefillIndices(batch) \in SUBSET Nat /\ PrefillIndices(batch) \in SUBSET (1..Len(batch))
         /\ IsFiniteSet(PrefillIndices(batch)) /\ Cardinality(PrefillIndices(batch)) \in Nat
<1>1. PrefillIndices(batch) \in SUBSET (1..Len(batch))
  BY DEF PrefillIndices
<1>2. Len(batch) \in Nat
  BY BatchType
<1>3. IsFiniteSet(1..Len(batch)) /\ (1..Len(batch)) \subseteq Nat
  BY <1>2, FS_Interval
<1>4. IsFiniteSet(PrefillIndices(batch))
  BY <1>1, <1>3, FS_Subset
<1> QED BY <1>1, <1>3, <1>4, FS_CardinalityType

\* The k-th multimodal item is that of the prefilling row of rank k.
LEMMA PrefillRowOf ==
  ASSUME NEW batch \in Batches
  PROVE  /\ DOMAIN PrefillRows(batch) = 1..Cardinality(PrefillIndices(batch))
         /\ \A i \in PrefillIndices(batch) :
              PrefillRows(batch)[Rank(i, PrefillIndices(batch))] = batch[i]
         /\ \A k \in 1..Cardinality(PrefillIndices(batch)) :
              \E j \in PrefillIndices(batch) : PrefillRows(batch)[k] = batch[j]
<1> DEFINE P == PrefillIndices(batch)
           at(k) == CHOOSE j \in P : Rank(j, P) = k
<1>1. P \in SUBSET Nat /\ IsFiniteSet(P)
  BY PrefillFinite
<1>2. PrefillRows(batch) = [k \in 1..Cardinality(P) |-> batch[at(k)]]
  BY DEF PrefillRows
<1> HIDE DEF P
<1>3. ASSUME NEW k \in 1..Cardinality(P) PROVE at(k) \in P /\ Rank(at(k), P) = k
  BY <1>1, RankOnto
<1>4. ASSUME NEW i \in P PROVE Rank(i, P) \in 1..Cardinality(P) /\ at(Rank(i, P)) = i
  <2>1. Rank(i, P) \in 1..Cardinality(P)
    BY <1>1, RankRange
  <2> QED BY <1>1, <1>3, <2>1, RankInjective
<1> HIDE DEF at
<1> QED BY <1>2, <1>3, <1>4 DEF P

\* An item is cut to the length of its own voice's prompt, and never grows.
LEMMA CutOwn ==
  ASSUME Inv, NEW batch \in Batches, NEW k \in 1..Cardinality(PrefillIndices(batch)),
         NEW width, width = Max({0} \cup {SpeechPrompt[voice[r]] : r \in Range(PrefillRows(batch))}),
         NEW n, n = SpeechPrompt[voice[PrefillRows(batch)[k]]]
  PROVE  (IF 0 < n /\ n < width THEN n ELSE width) = n
<1> DEFINE W == {SpeechPrompt[voice[r]] : r \in Range(PrefillRows(batch))}
<1>1. ASSUME NEW j \in 1..Cardinality(PrefillIndices(batch))
      PROVE  SpeechPrompt[voice[PrefillRows(batch)[j]]] \in Nat \ {0}
  <2>1. PICK i \in PrefillIndices(batch) : PrefillRows(batch)[j] = batch[i]
    BY PrefillRowOf
  <2>2. batch[i] \in Range(batch)
    BY PrefillFinite, BatchType DEF Range
  <2>3. voice[batch[i]] \in Voices
    BY <2>2, InBatch DEF Inv
  <2> QED BY <2>1, <2>3, BatchAssumption
<1>2. W = {SpeechPrompt[voice[PrefillRows(batch)[j]]] : j \in 1..Cardinality(PrefillIndices(batch))}
  <2>1. Range(PrefillRows(batch)) = {PrefillRows(batch)[j] : j \in 1..Cardinality(PrefillIndices(batch))}
    BY PrefillRowOf DEF Range
  <2> QED BY <2>1
<1>3. IsFiniteSet({0} \cup W)
  <2> DEFINE f == [j \in 1..Cardinality(PrefillIndices(batch)) |-> SpeechPrompt[voice[PrefillRows(batch)[j]]]]
  <2>1. IsFiniteSet(1..Cardinality(PrefillIndices(batch)))
    BY PrefillFinite, FS_Interval
  <2>2. f \in Surjection(1..Cardinality(PrefillIndices(batch)), W)
    BY <1>2 DEF Surjection
  <2>3. IsFiniteSet(W)
    <3> HIDE DEF f, W
    <3> QED BY <2>1, <2>2, FS_Surjection
  <2> HIDE DEF W
  <2> QED BY <2>3, FS_Singleton, FS_Union
<1>4. W \in SUBSET Nat /\ n \in W /\ n \in Nat \ {0}
  BY <1>1, <1>2
<1> HIDE DEF W
<1>5. width \in Nat /\ width >= n
  <2>1. {0} \cup W \in SUBSET Nat /\ {0} \cup W # {}
    BY <1>4
  <2>2. width \in {0} \cup W /\ \A y \in {0} \cup W : width >= y
    BY <1>3, <2>1, MaxProperty DEF W
  <2> QED BY <1>4, <2>1, <2>2
<1> QED BY <1>4, <1>5

\* What embed_input_ids puts at the k-th position of a prefilling row.
LEMMA EmbedAt ==
  ASSUME Inv, LayoutInv, NEW batch \in Batches, NEW i \in PrefillIndices(batch),
         NEW k \in 1..CondLen
  PROVE  EmbedInputIds(InputIds(batch), EmbedMultimodal(batch), SpanStart(batch, i) + k)
           = <<"cond", voice[batch[i]], SpeechPrompt[voice[batch[i]]], k>>
<1> DEFINE P == PrefillIndices(batch)
           N == Cardinality(P)
           row(j) == PrefillRows(batch)[j]
           item(j) == PrepareConditioning(voice[row(j)], SpeechPrompt[voice[row(j)]])
           g == [j \in 1..N |-> item(j)]
           E == {item(j)[m] : j \in 1..N, m \in 1..CondLen}
           c == Rank(i, P)
<1>1. N \in Nat /\ CondLen \in Nat
  BY PrefillFinite, BatchAssumption
<1>2. Parts(E, N, g) /\ \A j \in 1..N : Len(g[j]) = CondLen
  <2>1. ASSUME NEW j \in 1..N PROVE item(j) \in Seq(E) /\ Len(item(j)) = CondLen
    <3>1. item(j) \in [1..CondLen -> E]
      <4>1. item(j) = [m \in 1..CondLen |-> item(j)[m]]
        BY DEF PrepareConditioning
      <4>2. \A m \in 1..CondLen : item(j)[m] \in E
        OBVIOUS
      <4> HIDE DEF item, E
      <4> QED BY <4>1, <4>2
    <3> HIDE DEF item, E
    <3> QED BY <1>1, <3>1, ListType
  <2> HIDE DEF E, item
  <2> QED BY <1>1, <2>1 DEF Parts
<1>3. EmbedMultimodal(batch) = Chunks(g, N)
  <2> DEFINE width == Max({0} \cup {SpeechPrompt[voice[r]] : r \in Range(PrefillRows(batch))})
             cut(n) == IF 0 < n /\ n < width THEN n ELSE width
  <2>1. Len(PrefillRows(batch)) = N
    BY <1>1 DEF PrefillRows
  <2>2. ASSUME NEW j \in 1..N
        PROVE  cut(SpeechPrompt[voice[row(j)]]) = SpeechPrompt[voice[row(j)]]
    BY CutOwn
  <2>3. EmbedMultimodal(batch) = FlattenSeq([j \in 1..Len(PrefillRows(batch)) |->
          PrepareConditioning(voice[row(j)], cut(SpeechPrompt[voice[row(j)]]))])
    BY DEF EmbedMultimodal
  <2> HIDE DEF width, cut
  <2>4. EmbedMultimodal(batch) = FlattenSeq([j \in 1..N |-> item(j)])
    <3> HIDE DEF N
    <3> QED BY <2>1, <2>2, <2>3
  <2>5. [j \in 1..N |-> g[j]] = [j \in 1..N |-> item(j)]
    OBVIOUS
  <2> HIDE DEF g, item, N
  <2> QED BY <2>4, <2>5 DEF Chunks
<1>4. c \in 1..N /\ Cardinality(Mask(batch, SpanStart(batch, i) + k)) = (c - 1) * CondLen + k
  BY MaskRank
<1>5. item(c) = PrepareConditioning(voice[batch[i]], SpeechPrompt[voice[batch[i]]])
  BY PrefillRowOf
<1>6. item(c)[k] = <<"cond", voice[batch[i]], SpeechPrompt[voice[batch[i]]], k>>
  BY <1>5 DEF PrepareConditioning
<1>7. g[c] = item(c)
  BY <1>4
<1> HIDE DEF item, g, E, c, N
<1>8. Len(Chunks(g, c - 1)) = (c - 1) * CondLen
  <2>1. c - 1 \in 0..N
    BY <1>1, <1>4
  <2> QED BY <1>1, <1>2, <2>1, ChunksEqual DEF Equal
<1>9. /\ Chunks(g, N)[Len(Chunks(g, c - 1)) + k] = g[c][k]
      /\ Len(Chunks(g, c - 1)) + k \in 1..Len(Chunks(g, N))
  <2>1. k \in 1..Len(g[c])
    BY <1>2, <1>4
  <2>2. Parts(E, N, g) /\ c \in 1..N
    BY <1>2, <1>4
  <2> QED BY <2>1, <2>2, ChunksAt
<1>10. EmbedInputIds(InputIds(batch), EmbedMultimodal(batch), SpanStart(batch, i) + k)
         = EmbedMultimodal(batch)[Cardinality(Mask(batch, SpanStart(batch, i) + k))]
  BY DEF EmbedInputIds, Mask
<1> QED BY <1>3, <1>4, <1>6, <1>7, <1>8, <1>9, <1>10

-----------------------------------------------------------------------------
(* The context of a row                                                    *)

\* a is a list of n.
Listed(a, n) == n \in Nat /\ a = [i \in 1..n |-> a[i]]

\* The elements of four lists joined.
LEMMA JoinFour ==
  ASSUME NEW a, NEW b, NEW c, NEW d, NEW la, NEW lb, NEW lc, NEW ld,
         Listed(a, la), Listed(b, lb), Listed(c, lc), Listed(d, ld)
  PROVE  ((a \o b) \o c) \o d =
           [k \in 1..(la + lb + lc + ld) |->
              IF k <= la THEN a[k] ELSE IF k <= la + lb THEN b[k - la]
              ELSE IF k <= la + lb + lc THEN c[k - la - lb] ELSE d[k - la - lb - lc]]
<1> DEFINE E == {a[i] : i \in 1..la} \cup {b[i] : i \in 1..lb}
                  \cup {c[i] : i \in 1..lc} \cup {d[i] : i \in 1..ld}
<1>0. la \in Nat /\ lb \in Nat /\ lc \in Nat /\ ld \in Nat
  BY DEF Listed
<1>1. /\ a \in Seq(E) /\ Len(a) = la /\ b \in Seq(E) /\ Len(b) = lb
      /\ c \in Seq(E) /\ Len(c) = lc /\ d \in Seq(E) /\ Len(d) = ld
  <2>1. a \in [1..la -> E] /\ b \in [1..lb -> E] /\ c \in [1..lc -> E] /\ d \in [1..ld -> E]
    BY DEF Listed
  <2> HIDE DEF E
  <2> QED BY <1>0, <2>1, ListType
<1> HIDE DEF E
<1>2. a \o b \in Seq(E) /\ Len(a \o b) = la + lb
  BY <1>1, ConcatType
<1>3. (a \o b) \o c \in Seq(E) /\ Len((a \o b) \o c) = la + lb + lc
  <2>1. /\ (a \o b) \o c \in Seq(E)
        /\ Len((a \o b) \o c) = Len(a \o b) + Len(c)
    BY <1>1, <1>2, ConcatType
  <2> QED BY <1>0, <1>1, <1>2, <2>1
<1> DEFINE s == ((a \o b) \o c) \o d
<1>4. s \in Seq(E) /\ Len(s) = la + lb + lc + ld
  <2>1. s \in Seq(E) /\ Len(s) = Len((a \o b) \o c) + Len(d)
    BY <1>1, <1>3, ConcatType
  <2> QED BY <1>1, <1>3, <2>1
<1>5. ASSUME NEW k \in 1..(la + lb + lc + ld)
      PROVE  s[k] = IF k <= la THEN a[k] ELSE IF k <= la + lb THEN b[k - la]
                    ELSE IF k <= la + lb + lc THEN c[k - la - lb] ELSE d[k - la - lb - lc]
  <2>1. CASE k <= la
    <3>1. k \in 1..Len(a) /\ k \in 1..Len(a \o b) /\ k \in 1..Len((a \o b) \o c)
      BY <1>0, <1>1, <1>2, <1>3, <2>1
    <3>2. (a \o b)[k] = a[k]
      BY <1>1, <3>1, ConcatLeft
    <3>3. ((a \o b) \o c)[k] = (a \o b)[k]
      BY <1>1, <1>2, <3>1, ConcatLeft
    <3>4. s[k] = ((a \o b) \o c)[k]
      BY <1>1, <1>3, <3>1, ConcatLeft
    <3> HIDE DEF s
    <3> QED BY <2>1, <3>2, <3>3, <3>4
  <2>2. CASE la < k /\ k <= la + lb
    <3> DEFINE j == k - la
    <3>1. /\ j \in 1..Len(b) /\ la + j = k
          /\ k \in 1..Len(a \o b) /\ k \in 1..Len((a \o b) \o c)
      BY <1>0, <1>1, <1>2, <1>3, <2>2
    <3> HIDE DEF j
    <3>2. (a \o b)[Len(a) + j] = b[j]
      <4>1. a \in Seq(E) /\ b \in Seq(E) /\ j \in 1..Len(b)
        BY <1>1, <3>1
      <4> QED BY <4>1, ConcatRight
    <3>3. ((a \o b) \o c)[k] = (a \o b)[k]
      BY <1>1, <1>2, <3>1, ConcatLeft
    <3>4. s[k] = ((a \o b) \o c)[k]
      BY <1>1, <1>3, <3>1, ConcatLeft
    <3>5. ~(k <= la)
      BY <1>0, <2>2
    <3> HIDE DEF s
    <3> QED BY <1>1, <2>2, <3>1, <3>2, <3>3, <3>4, <3>5 DEF j
  <2>3. CASE la + lb < k /\ k <= la + lb + lc
    <3> DEFINE j == k - la - lb
    <3>1. j \in 1..Len(c) /\ la + lb + j = k /\ k \in 1..Len((a \o b) \o c)
      <4>1. j \in 1..lc /\ la + lb + j = k /\ k \in 1..(la + lb + lc)
        BY <1>0, <2>3
      <4>2. lc = Len(c) /\ la + lb + lc = Len((a \o b) \o c)
        BY <1>1, <1>3
      <4> HIDE DEF j
      <4> QED BY <4>1, <4>2
    <3> HIDE DEF j
    <3>2. ((a \o b) \o c)[Len(a \o b) + j] = c[j]
      <4>1. a \o b \in Seq(E) /\ c \in Seq(E) /\ j \in 1..Len(c)
        BY <1>1, <1>2, <3>1
      <4> QED BY <4>1, ConcatRight
    <3>3. s[k] = ((a \o b) \o c)[k]
      <4>1. (a \o b) \o c \in Seq(E) /\ d \in Seq(E) /\ k \in 1..Len((a \o b) \o c)
        BY <1>1, <1>3, <3>1
      <4> QED BY <4>1, ConcatLeft
    <3>4. ~(k <= la) /\ ~(k <= la + lb)
      BY <1>0, <2>3
    <3> HIDE DEF s
    <3> QED BY <1>2, <2>3, <3>1, <3>2, <3>3, <3>4 DEF j
  <2>4. CASE la + lb + lc < k
    <3> DEFINE j == k - la - lb - lc
    <3>1. j \in 1..Len(d) /\ la + lb + lc + j = k
      <4>1. j \in 1..ld /\ la + lb + lc + j = k
        BY <1>0, <2>4
      <4>2. ld = Len(d)
        BY <1>1
      <4> HIDE DEF j
      <4> QED BY <4>1, <4>2
    <3> HIDE DEF j
    <3>2. s[Len((a \o b) \o c) + j] = d[j]
      <4>1. (a \o b) \o c \in Seq(E) /\ d \in Seq(E) /\ j \in 1..Len(d)
        BY <1>1, <1>3, <3>1
      <4> QED BY <4>1, ConcatRight
    <3>3. ~(k <= la) /\ ~(k <= la + lb) /\ ~(k <= la + lb + lc)
      BY <1>0, <2>4
    <3> HIDE DEF s
    <3> QED BY <1>3, <2>4, <3>1, <3>2, <3>3 DEF j
  <2> HIDE DEF s
  <2> QED BY <1>0, <2>1, <2>2, <2>3, <2>4
<1> HIDE DEF s
<1>6. s = [k \in 1..(la + lb + lc + ld) |-> s[k]]
  BY <1>4
<1> QED BY <1>5, <1>6 DEF s

\* The context of a running row is the canonical prefill of its request and
\* its own generated tokens.
LEMMA ContextIs ==
  ASSUME Inv, LayoutInv, NEW r \in Rows, life[r] = "running"
  PROVE  BuildPrefill(r) \o [i \in 1..(made[r] - 1) |-> DecodeStep(i - 1)]
           = Context(r, PromptLen(r) + made[r] - 1)
<1> DEFINE a == PrepareConditioning(voice[r], SpeechPrompt[voice[r]])
           b == [i \in 1..text[r] |-> TextEmbedding(<<"text", i>>, i - 1, Role(r))]
           c == [i \in 1..BosLen |-> BosEmbedding]
           d == [i \in 1..(made[r] - 1) |-> DecodeStep(i - 1)]
           n == made[r] - 1
<1>1. /\ CondLen \in Nat /\ text[r] \in Nat /\ BosLen \in Nat /\ n \in Nat
      /\ PromptLen(r) = CondLen + text[r] + BosLen
  BY Scheduled
<1>2. /\ a = [i \in 1..CondLen |-> a[i]] /\ b = [i \in 1..text[r] |-> b[i]]
      /\ c = [i \in 1..BosLen |-> c[i]] /\ d = [i \in 1..n |-> d[i]]
  BY DEF PrepareConditioning
<1>3. /\ \A i \in 1..CondLen : a[i] = <<"cond", voice[r], SpeechPrompt[voice[r]], i>>
      /\ \A i \in 1..text[r] : b[i] = TextEmbedding(<<"text", i>>, i - 1, Role(r))
      /\ \A i \in 1..BosLen : c[i] = BosEmbedding
      /\ \A i \in 1..n : d[i] = DecodeStep(i - 1)
  BY DEF PrepareConditioning
<1>4. BuildPrefill(r) \o [i \in 1..(made[r] - 1) |-> DecodeStep(i - 1)] = ((a \o b) \o c) \o d
  BY DEF BuildPrefill
<1>5. PromptLen(r) + made[r] - 1 = CondLen + text[r] + BosLen + n
  <2>1. made[r] \in Nat
    BY Scheduled
  <2> QED BY <1>1, <2>1
<1> HIDE DEF a, b, c, d, n
<1>8. Listed(a, CondLen) /\ Listed(b, text[r]) /\ Listed(c, BosLen) /\ Listed(d, n)
  BY <1>1, <1>2 DEF Listed
<1>6. ((a \o b) \o c) \o d =
        [k \in 1..(CondLen + text[r] + BosLen + n) |->
           IF k <= CondLen THEN a[k] ELSE IF k <= CondLen + text[r] THEN b[k - CondLen]
           ELSE IF k <= CondLen + text[r] + BosLen THEN c[k - CondLen - text[r]]
           ELSE d[k - CondLen - text[r] - BosLen]]
  BY <1>8, JoinFour
<1>7. ASSUME NEW k \in 1..(CondLen + text[r] + BosLen + n)
      PROVE  (IF k <= CondLen THEN a[k] ELSE IF k <= CondLen + text[r] THEN b[k - CondLen]
              ELSE IF k <= CondLen + text[r] + BosLen THEN c[k - CondLen - text[r]]
              ELSE d[k - CondLen - text[r] - BosLen]) = ContextAt(r, k)
  <2>1. CASE k <= CondLen
    <3>1. k \in 1..CondLen
      BY <1>1, <2>1
    <3> QED BY <1>3, <2>1, <3>1 DEF ContextAt
  <2>2. CASE CondLen < k /\ k <= CondLen + text[r]
    <3>1. k - CondLen \in 1..text[r] /\ ~(k <= CondLen)
      BY <1>1, <2>2
    <3> QED BY <1>3, <2>2, <3>1 DEF ContextAt
  <2>3. CASE CondLen + text[r] < k /\ k <= CondLen + text[r] + BosLen
    <3>1. k - CondLen - text[r] \in 1..BosLen /\ ~(k <= CondLen) /\ ~(k <= CondLen + text[r])
      BY <1>1, <2>3
    <3> QED BY <1>1, <1>3, <2>3, <3>1 DEF ContextAt
  <2>4. CASE CondLen + text[r] + BosLen < k
    <3>1. /\ k - CondLen - text[r] - BosLen \in 1..n
          /\ k - CondLen - text[r] - BosLen = k - PromptLen(r)
          /\ ~(k <= CondLen) /\ ~(k <= CondLen + text[r]) /\ ~(k <= PromptLen(r))
      BY <1>1, <2>4
    <3>2. d[k - PromptLen(r)] = DecodeStep(k - PromptLen(r) - 1)
      BY <1>3, <3>1
    <3> QED BY <1>1, <2>4, <3>1, <3>2 DEF ContextAt
  <2>5. \/ k <= CondLen
        \/ CondLen < k /\ k <= CondLen + text[r]
        \/ CondLen + text[r] < k /\ k <= CondLen + text[r] + BosLen
        \/ CondLen + text[r] + BosLen < k
    BY <1>1
  <2> QED BY <2>1, <2>2, <2>3, <2>4, <2>5
<1> QED BY <1>4, <1>5, <1>6, <1>7 DEF Context

\* Every row is given the embeddings of its own places in the layout.
LEMMA ForwardedRow ==
  ASSUME Inv, LayoutInv, NEW batch \in Batches, NEW i \in 1..Len(batch)
  PROVE  Forwarded(batch)[i] =
           [k \in 1..ScheduledTokens(batch[i]) |-> ContextAt(batch[i], Computed(batch[i]) + k)]
<1> DEFINE ids == InputIds(batch)
           positions == HostPositions(batch)
           start == SpanStart(batch, i)
           given(k) == IF IsCond(ids[start + k])
                       THEN EmbedInputIds(ids, EmbedMultimodal(batch), start + k) ELSE "none"
<1>1. PICK r \in Rows : r = batch[i]
  BY BatchType
<1>2. Forwarded(batch)[i] = [k \in 1..ScheduledTokens(r) |->
        PositionAndContent(r, positions[start + k], ids[start + k], given(k))]
  BY <1>1 DEF Forwarded
<1> HIDE DEF given, ids, positions, start
<1>3. /\ PromptLen(r) \in Nat /\ made[r] \in Nat /\ text[r] \in Nat
      /\ PromptLen(r) = CondLen + text[r] + BosLen /\ CondLen \in Nat /\ BosLen \in Nat
      /\ Computed(r) \in Nat /\ ScheduledTokens(r) = PromptLen(r) + made[r] - Computed(r)
  BY Scheduled DEF ScheduledTokens
<1>4. ASSUME NEW k \in 1..ScheduledTokens(r)
      PROVE  PositionAndContent(r, positions[start + k], ids[start + k], given(k))
               = ContextAt(r, Computed(r) + k)
  <2>1. PICK n \in 1..(PromptLen(r) + made[r]) : n = Computed(r) + k
    <3>1. PICK p, c, m : p = PromptLen(r) /\ c = Computed(r) /\ m = made[r]
      OBVIOUS
    <3>2. p \in Nat /\ c \in Nat /\ m \in Nat /\ k \in 1..(p + m - c)
      BY <1>3, <3>1
    <3>3. c + k \in 1..(p + m)
      BY <3>2
    <3> QED BY <3>1, <3>3
  <2>0. n \in Nat /\ n >= 1
    BY <1>3, <2>1
  <2>b. /\ (n - 1 < CondLen <=> n <= CondLen)
        /\ (n - 1 < CondLen + text[r] <=> n <= CondLen + text[r])
        /\ (n - 1 < PromptLen(r) <=> n <= PromptLen(r))
        /\ n <= CondLen => n <= CondLen + text[r]
        /\ n <= CondLen + text[r] => n <= PromptLen(r)
        /\ (CondLen < n <=> ~(n <= CondLen))
        /\ (CondLen + text[r] < n <=> ~(n <= CondLen + text[r]))
        /\ (PromptLen(r) < n <=> ~(n <= PromptLen(r)))
        /\ n - 1 - CondLen = n - CondLen - 1
        /\ n - 1 - PromptLen(r) + 1 = n - PromptLen(r)
        /\ n - PromptLen(r) - 1 + 1 = n - PromptLen(r)
    <3>1. PICK p, t, b : p = PromptLen(r) /\ t = text[r] /\ b = BosLen
      OBVIOUS
    <3>2. p \in Nat /\ t \in Nat /\ b \in Nat /\ p = CondLen + t + b /\ CondLen \in Nat
      BY <1>3, <3>1
    <3>3. PICK m \in Nat : m = n /\ m >= 1
      BY <2>0
    <3>4. /\ (m - 1 < CondLen <=> m <= CondLen)
          /\ (m - 1 < CondLen + t <=> m <= CondLen + t)
          /\ (m - 1 < p <=> m <= p)
          /\ m <= CondLen => m <= CondLen + t
          /\ m <= CondLen + t => m <= p
          /\ (CondLen < m <=> ~(m <= CondLen))
          /\ (CondLen + t < m <=> ~(m <= CondLen + t))
          /\ (p < m <=> ~(m <= p))
          /\ m - 1 - CondLen = m - CondLen - 1
          /\ m - 1 - p + 1 = m - p
          /\ m - p - 1 + 1 = m - p
      BY <3>2
    <3> QED BY <3>1, <3>3, <3>4
  <2>2. /\ positions[start + k] = n - 1
        /\ ids[start + k] = TokenIds(r)[n]
    <3>1. /\ positions[start + k] = Computed(r) + k - 1
          /\ ids[start + k] = TokenIds(r)[Computed(r) + k]
      BY <1>1, InputAt DEF positions, ids, start
    <3>2. Computed(r) + k - 1 = n - 1 /\ Computed(r) + k = n
      <4>1. PICK c, j : c = Computed(r) /\ j = k
        OBVIOUS
      <4>2. n = c + j /\ c \in Nat
        BY <1>3, <2>1, <4>1
      <4>5. j \in Int
        BY <4>1
      <4>3. c + j - 1 = n - 1
        BY <4>2, <4>5
      <4> QED BY <4>1, <4>2, <4>3
    <3>3. positions[start + k] = n - 1
      BY <3>1, <3>2, Zenon
    <3>4. ids[start + k] = TokenIds(r)[n]
      BY <3>1, <3>2
    <3> QED BY <3>3, <3>4
  <2>3. TokenIds(r)[n] = IF n <= CondLen THEN <<"cond", 0>>
                         ELSE IF n <= CondLen + text[r] THEN <<"text", n - CondLen>>
                         ELSE IF n <= PromptLen(r) THEN <<"bos", 0>>
                         ELSE <<"speech", n - PromptLen(r)>>
    BY Tokens
  <2>4. n - 1 < CondLen <=> n <= CondLen
    BY <2>b
  <2>5. CASE n <= CondLen
    <3>1. PositionAndContent(r, n - 1, ids[start + k], given(k)) = given(k)
      BY <2>4, <2>5 DEF PositionAndContent
    <3>2. IsCond(ids[start + k])
      BY <2>2, <2>3, <2>5 DEF IsCond
    <3>3. i \in PrefillIndices(batch)
      BY <1>1, <3>2, InMask DEF ids, start
    <3>4. Computed(r) = 0
      BY <1>1, <3>3, PrefillSpan
    <3>5. k = n /\ k \in 1..CondLen
      BY <1>3, <2>1, <2>5, <3>4
    <3>6. given(k) = <<"cond", voice[r], SpeechPrompt[voice[r]], k>>
      BY <1>1, <3>2, <3>3, <3>5, EmbedAt DEF given, ids, start
    <3>7. ContextAt(r, n) = <<"cond", voice[r], SpeechPrompt[voice[r]], n>>
      BY <2>5 DEF ContextAt
    <3> QED BY <2>1, <2>2, <3>1, <3>5, <3>6, <3>7
  <2>6. CASE CondLen < n /\ n <= CondLen + text[r]
    <3>1. /\ ~(n - 1 < CondLen) /\ n - 1 < CondLen + text[r] /\ ~(n <= CondLen)
          /\ n - 1 - CondLen = n - CondLen - 1
      BY <2>b, <2>6
    <3>2. PositionAndContent(r, n - 1, ids[start + k], given(k))
            = TextEmbedding(ids[start + k], n - CondLen - 1, Role(r))
      BY <3>1 DEF PositionAndContent
    <3>3. ContextAt(r, n) = TextEmbedding(<<"text", n - CondLen>>, n - CondLen - 1, Role(r))
      BY <2>6, <3>1 DEF ContextAt
    <3>4. ids[start + k] = <<"text", n - CondLen>>
      BY <2>2, <2>3, <2>6, <3>1
    <3> QED BY <2>1, <2>2, <3>2, <3>3, <3>4
  <2>7. CASE CondLen + text[r] < n /\ n <= PromptLen(r)
    <3>1. /\ ~(n - 1 < CondLen) /\ ~(n - 1 < CondLen + text[r]) /\ n - 1 < PromptLen(r)
          /\ ~(n <= CondLen) /\ ~(n <= CondLen + text[r])
      BY <2>b, <2>7
    <3>2. PositionAndContent(r, n - 1, ids[start + k], given(k)) = BosEmbedding
      BY <3>1 DEF PositionAndContent
    <3>3. ContextAt(r, n) = BosEmbedding
      BY <2>7, <3>1 DEF ContextAt
    <3> QED BY <2>1, <2>2, <3>2, <3>3
  <2>8. CASE PromptLen(r) < n
    <3>1. /\ ~(n - 1 < CondLen) /\ ~(n - 1 < CondLen + text[r]) /\ ~(n - 1 < PromptLen(r))
          /\ ~(n <= CondLen) /\ ~(n <= CondLen + text[r]) /\ ~(n <= PromptLen(r))
          /\ n - 1 - PromptLen(r) + 1 = n - PromptLen(r)
          /\ n - PromptLen(r) - 1 + 1 = n - PromptLen(r)
      BY <2>b, <2>8
    <3>2. PositionAndContent(r, n - 1, ids[start + k], given(k))
            = SpeechEmbedding(ids[start + k], n - PromptLen(r))
      BY <3>1 DEF PositionAndContent
    <3>3. ContextAt(r, n) = SpeechEmbedding(<<"speech", n - PromptLen(r)>>, n - PromptLen(r))
      BY <3>1 DEF ContextAt, DecodeStep
    <3>4. ids[start + k] = <<"speech", n - PromptLen(r)>>
      BY <2>2, <2>3, <3>1
    <3> QED BY <2>1, <2>2, <3>2, <3>3, <3>4
  <2>9. \/ n <= CondLen
        \/ CondLen < n /\ n <= CondLen + text[r]
        \/ CondLen + text[r] < n /\ n <= PromptLen(r)
        \/ PromptLen(r) < n
    BY <2>b
  <2> QED BY <2>5, <2>6, <2>7, <2>8, <2>9
<1> QED BY <1>1, <1>2, <1>4

\* A context continued.
LEMMA JoinContexts ==
  ASSUME NEW f, NEW n \in Nat, NEW m \in Nat, NEW g,
         f = [k \in 1..n |-> f[k]], g = [k \in 1..m |-> g[k]]
  PROVE  f \o g = [k \in 1..(n + m) |-> IF k <= n THEN f[k] ELSE g[k - n]]
<1>1. Len(f) = n /\ Len(g) = m
  OBVIOUS
<1> QED BY <1>1

\* A step gives a row of the batch the embeddings up to its last token.
LEMMA Extended ==
  ASSUME Inv, LayoutInv, NEW batch \in Batches, NEW i \in 1..Len(batch)
  PROVE  embeds[batch[i]] \o Forwarded(batch)[i]
           = Context(batch[i], PromptLen(batch[i]) + made[batch[i]])
<1>1. PICK r \in Rows : r = batch[i]
  BY BatchType
<1> DEFINE f == embeds[r]
           g == Forwarded(batch)[i]
           n == Computed(r)
           m == ScheduledTokens(r)
<1>2. /\ n \in Nat /\ m \in Nat /\ n + m = PromptLen(r) + made[r]
  BY Scheduled DEF ScheduledTokens
<1>3. g = [k \in 1..m |-> ContextAt(r, n + k)]
  BY <1>1, ForwardedRow
<1>4. f = [k \in 1..n |-> ContextAt(r, k)]
  <2>1. CASE life[r] = "running"
    BY <2>1, Scheduled DEF LayoutInv, Context
  <2>2. CASE life[r] # "running"
    <3>1. f = <<>> /\ n = 0
      BY <2>2, Scheduled DEF LayoutInv
    <3> HIDE DEF f, n
    <3> QED BY <3>1
  <2> QED BY <2>1, <2>2
<1> HIDE DEF f, g, n, m
<1>5. f \o g = [k \in 1..(n + m) |-> IF k <= n THEN f[k] ELSE g[k - n]]
  <2>1. f = [k \in 1..n |-> f[k]] /\ g = [k \in 1..m |-> g[k]]
    BY <1>3, <1>4
  <2> QED BY <1>2, <2>1, JoinContexts
<1>6. ASSUME NEW k \in 1..(n + m)
      PROVE  (IF k <= n THEN f[k] ELSE g[k - n]) = ContextAt(r, k)
  <2>1. CASE k <= n
    <3>1. k \in 1..n
      BY <1>2, <2>1
    <3> QED BY <1>4, <2>1, <3>1
  <2>2. CASE ~(k <= n)
    <3>1. k - n \in 1..m /\ n + (k - n) = k
      BY <1>2, <2>2
    <3> QED BY <1>3, <2>2, <3>1
  <2> QED BY <2>1, <2>2
<1>7. f \o g = [k \in 1..(n + m) |-> ContextAt(r, k)]
  BY <1>5, <1>6
<1> QED BY <1>1, <1>2, <1>7 DEF Context, f, g

-----------------------------------------------------------------------------
(* Every step keeps the layout                                            *)

\* A context depends on the voice and the text of its row only.
LEMMA SameContext ==
  ASSUME NEW r \in Rows, voice'[r] = voice[r], text'[r] = text[r]
  PROVE  Context(r, PromptLen(r) + made[r] - 1)' = Context(r, PromptLen(r) + made'[r] - 1)
  BY DEF Context, ContextAt, PromptLen, DecodeStep, BosEmbedding, TextEmbedding,
         SpeechEmbedding, Role

\* A row that nothing happens to keeps its context.
LEMMA RowStays ==
  ASSUME LayoutInv, NEW r \in Rows, life'[r] = life[r], voice'[r] = voice[r],
         text'[r] = text[r], made'[r] = made[r], embeds'[r] = embeds[r]
  PROVE  IF life'[r] = "running"
         THEN made'[r] >= 1 /\ embeds'[r] = Context(r, PromptLen(r) + made[r] - 1)'
         ELSE embeds'[r] = <<>>
<1>1. Context(r, PromptLen(r) + made[r] - 1)' = Context(r, PromptLen(r) + made[r] - 1)
  BY SameContext
<1>2. IF life[r] = "running"
      THEN made[r] >= 1 /\ embeds[r] = Context(r, PromptLen(r) + made[r] - 1)
      ELSE embeds[r] = <<>>
  BY DEF LayoutInv
<1> QED BY <1>1, <1>2

\* A step over a batch: its rows' contexts grow to their last tokens.
LEMMA StepLayout ==
  ASSUME Inv, LayoutInv, NEW batch \in Batches, NEW items \in SUBSET PrefillIndices(batch),
         Step(batch, items)
  PROVE  LayoutInv'
<1>0. DOMAIN embeds' = Rows
  BY DEF Step
<1> SUFFICES ASSUME NEW r \in Rows
      PROVE  IF life'[r] = "running"
             THEN made'[r] >= 1 /\ embeds'[r] = Context(r, PromptLen(r) + made[r] - 1)'
             ELSE embeds'[r] = <<>>
  BY <1>0 DEF LayoutInv
<1>1. /\ life'[r] = IF r \in Range(batch) THEN "running" ELSE life[r]
      /\ made'[r] = IF r \in Range(batch) THEN made[r] + 1 ELSE made[r]
      /\ voice'[r] = voice[r] /\ text'[r] = text[r]
  BY StepVoices
<1>2. embeds'[r] = IF r \in Range(batch) THEN embeds[r] \o Forwarded(batch)[PlaceOf(batch, r)]
                   ELSE embeds[r]
  BY DEF Step
<1>3. CASE r \in Range(batch)
  <2>1. PICK i \in 1..Len(batch) : i = PlaceOf(batch, r) /\ batch[i] = r
    BY <1>3, Place
  <2>2. embeds'[r] = Context(r, PromptLen(r) + made[r])
    BY <1>2, <1>3, <2>1, Extended
  <2>3. made[r] \in Nat /\ PromptLen(r) \in Nat
    BY Scheduled
  <2>4. made'[r] >= 1 /\ PromptLen(r) + made'[r] - 1 = PromptLen(r) + made[r]
    BY <1>1, <1>3, <2>3
  <2>5. Context(r, PromptLen(r) + made[r] - 1)' = Context(r, PromptLen(r) + made'[r] - 1)
    BY <1>1, SameContext
  <2> QED BY <1>1, <1>3, <2>2, <2>4, <2>5
<1>4. CASE r \notin Range(batch)
  BY <1>1, <1>2, <1>4, RowStays
<1> QED BY <1>3, <1>4

\* The other actions take a row's context away or leave it.
LEMMA NextLayout == Inv /\ LayoutInv /\ [Next]_vars => LayoutInv'
<1> SUFFICES ASSUME Inv, LayoutInv, [Next]_vars PROVE LayoutInv'
  OBVIOUS
<1>1. CASE \E batch \in Batches : \E items \in SUBSET PrefillIndices(batch) : Step(batch, items)
  BY <1>1, StepLayout
<1>2. ASSUME NEW q \in Rows, NEW request \in Requests, Submit(q, request[1], request[2])
      PROVE  LayoutInv'
  <2>0. DOMAIN embeds' = Rows
    BY <1>2 DEF Submit, LayoutInv
  <2> SUFFICES ASSUME NEW r \in Rows
        PROVE  IF life'[r] = "running"
               THEN made'[r] >= 1 /\ embeds'[r] = Context(r, PromptLen(r) + made[r] - 1)'
               ELSE embeds'[r] = <<>>
    BY <2>0 DEF LayoutInv
  <2>1. CASE r = q
    BY <1>2, <2>1 DEF Submit, LayoutInv, Inv, TypeOK
  <2>2. CASE r # q
    <3>1. /\ life'[r] = life[r] /\ voice'[r] = voice[r] /\ text'[r] = text[r]
          /\ made'[r] = made[r] /\ embeds'[r] = embeds[r]
      BY <1>2, <2>2 DEF Submit, Inv, TypeOK
    <3> QED BY <3>1, RowStays
  <2> QED BY <2>1, <2>2
<1>3. ASSUME NEW q \in Rows, Preempt(q) \/ End(q) PROVE LayoutInv'
  <2>0. DOMAIN embeds' = Rows
    BY <1>3 DEF Preempt, End, LayoutInv
  <2> SUFFICES ASSUME NEW r \in Rows
        PROVE  IF life'[r] = "running"
               THEN made'[r] >= 1 /\ embeds'[r] = Context(r, PromptLen(r) + made[r] - 1)'
               ELSE embeds'[r] = <<>>
    BY <2>0 DEF LayoutInv
  <2>1. DOMAIN life = Rows /\ DOMAIN embeds = Rows
    BY DEF Inv, TypeOK, LayoutInv
  <2>2. CASE r = q
    BY <1>3, <2>1, <2>2 DEF Preempt, End
  <2>3. CASE r # q
    <3>1. /\ life'[r] = life[r] /\ voice'[r] = voice[r] /\ text'[r] = text[r]
          /\ made'[r] = made[r] /\ embeds'[r] = embeds[r]
      BY <1>3, <2>1, <2>3 DEF Preempt, End
    <3> QED BY <3>1, RowStays
  <2> QED BY <2>2, <2>3
<1>4. CASE OnRequestsFinished(Ended)
  <2>0. DOMAIN embeds' = Rows
    BY <1>4 DEF OnRequestsFinished, Forgotten
  <2> SUFFICES ASSUME NEW r \in Rows
        PROVE  IF life'[r] = "running"
               THEN made'[r] >= 1 /\ embeds'[r] = Context(r, PromptLen(r) + made[r] - 1)'
               ELSE embeds'[r] = <<>>
    BY <2>0 DEF LayoutInv
  <2>1. CASE r \in Ended
    BY <1>4, <2>1 DEF OnRequestsFinished, Forgotten
  <2>2. CASE r \notin Ended
    <3>1. /\ life'[r] = life[r] /\ voice'[r] = voice[r] /\ text'[r] = text[r]
          /\ made'[r] = made[r] /\ embeds'[r] = embeds[r]
      BY <1>4, <2>2 DEF OnRequestsFinished, Forgotten
    <3> QED BY <3>1, RowStays
  <2> QED BY <2>1, <2>2
<1>5. CASE UNCHANGED vars
  <2>0. DOMAIN embeds' = Rows
    BY <1>5 DEF vars, LayoutInv
  <2> SUFFICES ASSUME NEW r \in Rows
        PROVE  IF life'[r] = "running"
               THEN made'[r] >= 1 /\ embeds'[r] = Context(r, PromptLen(r) + made[r] - 1)'
               ELSE embeds'[r] = <<>>
    BY <2>0 DEF LayoutInv
  <2> QED BY <1>5, RowStays DEF vars
<1> QED BY <1>1, <1>2, <1>3, <1>4, <1>5 DEF Next

\* The embeddings a row has are those of its whole context, at every moment.
THEOREM LayoutInvariant == Spec => [](Inv /\ LayoutInv)
<1>1. Init => Inv /\ LayoutInv
  <2>1. Init => LayoutInv
    BY DEF Init, LayoutInv
  <2> QED BY <2>1, InitInv
<1>2. (Inv /\ LayoutInv) /\ [Next]_vars => (Inv /\ LayoutInv)'
  BY NextInv, NextLayout
<1> QED BY <1>1, <1>2, PTL DEF Spec

\* Whatever batch a row is in, the model is given the canonical prefill of its
\* request and its own tokens (build_prefill_embeddings, decode_step_embedding).
THEOREM LayoutIsAsDefined == Spec => []LayoutAsDefined
<1>1. ASSUME Inv, LayoutInv, NEW r \in Rows, embeds[r] # <<>>
      PROVE  embeds[r] = BuildPrefill(r) \o [i \in 1..(made[r] - 1) |-> DecodeStep(i - 1)]
  <2>1. life[r] = "running" /\ embeds[r] = Context(r, PromptLen(r) + made[r] - 1)
    BY <1>1 DEF LayoutInv
  <2> QED BY <1>1, <2>1, ContextIs
<1>2. Inv /\ LayoutInv => LayoutAsDefined
  BY <1>1 DEF LayoutAsDefined
<1> QED BY <1>2, LayoutInvariant, PTL
=============================================================================

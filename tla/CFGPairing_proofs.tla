-------------------------- MODULE CFGPairing_proofs --------------------------
(***************************************************************************)
(* Guidance, for any number of pairs, of other callers and of rows of the  *)
(* batch: the processor follows the batch, a pair stays in lockstep or is  *)
(* on record, and what is on record is not served.                         *)
(***************************************************************************)
EXTENDS CFGPairing, FiniteSetTheorems, TLAPS

Types ==
  /\ batch \in [Slots -> Requests \cup {NoRow}]
  /\ DOMAIN rows = Slots
  /\ dirty \in BOOLEAN
  /\ output \in [Requests -> Seq(Draws)]
  /\ DOMAIN served = Pairs
  /\ broken \subseteq Pairs

\* A request is in one row at most.
OneRow == \A s, t \in Slots : batch[s] = batch[t] /\ batch[s] # NoRow => s = t

\* Unless a rebuild is due, the pairs are those of the rows.
PairsFresh == ~dirty => pairs = Rebuilt

\* What was handed on had ended.
ServedEnded == \A p \in Pairs : served[p] # "no" => Finished(Cond(p))

\* A guided request was given its own pair's tokens.
GuidedOwn == mixed \cap Guided = {}

Inv ==
  /\ Types /\ OneRow /\ RowsFollowBatch /\ PairsFresh /\ ServedEnded /\ GuidedOwn
  /\ Lockstep /\ NeverUnguided /\ BreakRecorded /\ BrokenNeverServed

-----------------------------------------------------------------------------
(* Lemmas                                                                  *)

LEMMA Roles ==
  /\ NoRow \notin Requests /\ Guided \subseteq Requests
  /\ \A p \in Pairs : /\ Cond(p) \in Guided /\ Uncond(p) \in Guided
                      /\ Cond(p)[1] = p /\ Uncond(p)[1] = p
  /\ \A p, q \in Pairs : /\ Cond(p) # Uncond(q)
                         /\ Cond(p) = Cond(q) => p = q
                         /\ Uncond(p) = Uncond(q) => p = q
  /\ \A q \in Guided : q[1] \in Pairs /\ (q = Cond(q[1]) \/ q = Uncond(q[1]))
  BY DEF NoRow, Requests, Guided, Cond, Uncond

\* A row of a dense batch is one of its first rows.
LEMMA InRange ==
  ASSUME Types, Dense(batch), NEW s \in Slots, batch[s] # NoRow
  PROVE  /\ s \in 0..(Cardinality(Occupied(batch)) - 1) /\ s < Cardinality(Occupied(batch))
         /\ Cardinality(Occupied(batch)) \in Nat
<1>1. IsFiniteSet(Slots)
  BY CFGAssumption, FS_Interval DEF Slots
<1>2. IsFiniteSet(Occupied(batch))
  BY <1>1, FS_Subset DEF Occupied
<1>3. s \in Nat
  BY DEF Slots
<1>4. 0..s \in SUBSET Occupied(batch)
  BY <1>3 DEF Dense, Occupied
<1>5. Cardinality(0..s) = s + 1
  BY <1>3, FS_Interval
<1>6. Cardinality(0..s) <= Cardinality(Occupied(batch)) /\ Cardinality(Occupied(batch)) \in Nat
  BY <1>2, <1>4, FS_Subset, FS_CardinalityType
<1> QED BY <1>3, <1>5, <1>6

\* The pairs apply works with are those of the batch.
LEMMA PairsOfBatch ==
  ASSUME Inv, Occupied(rows) # {}
  PROVE  PairsSeen = Rebuilt
  BY DEF Inv, Types, PairsFresh, PairsSeen

\* Each place of a pair holds the row it is taken for.
LEMMA PairPlaces ==
  ASSUME Inv, NEW cu \in Rebuilt
  PROVE  \E p \in Pairs : /\ cu[1] \in Slots /\ cu[2] \in Slots
                          /\ batch[cu[1]] = Cond(p) /\ batch[cu[2]] = Uncond(p)
<1>1. PICK p \in Pairs : rows[cu[1]] = Cond(p) /\ rows[cu[2]] = Uncond(p)
  BY DEF Rebuilt
<1>2. cu[1] \in Slots /\ cu[2] \in Slots
  BY DEF Rebuilt
<1>3. Cond(p) # NoRow /\ Uncond(p) # NoRow
  BY Roles
<1> QED BY <1>1, <1>2, <1>3 DEF Inv, RowsFollowBatch

\* A guided row whose companion is not in the batch is a lone row, and no pair
\* gives it a token.
LEMMA Abandoned ==
  ASSUME Inv, Dense(batch), NEW s \in Slots, batch[s] \in Guided, ~HasCompanion(batch[s])
  PROVE  LET n == Cardinality(Occupied(batch))
         IN  s \in Lone(n) /\ \A c \in Slots : <<c, s>> \notin Paired(n)
<1> DEFINE n == Cardinality(Occupied(batch))
<1>1. rows[s] = batch[s] /\ batch[s] # NoRow
  BY Roles DEF Inv, RowsFollowBatch
<1>2. s \in Occupied(rows)
  BY <1>1 DEF Occupied
<1>3. s < n
  BY <1>1, InRange DEF Inv
<1>4. PairsSeen = Rebuilt
  BY <1>2, PairsOfBatch
<1>5. ASSUME NEW cu \in Paired(n) PROVE s # cu[1] /\ s # cu[2]
  <2>1. cu \in Rebuilt
    BY <1>4 DEF Paired
  <2>2. PICK p \in Pairs : /\ cu[1] \in Slots /\ cu[2] \in Slots
                           /\ batch[cu[1]] = Cond(p) /\ batch[cu[2]] = Uncond(p)
    BY <2>1, PairPlaces
  <2>3. cu[1] \in SlotOf(Cond(p)) /\ cu[2] \in SlotOf(Uncond(p))
    BY <2>2 DEF SlotOf
  <2>4. batch[s][1] # p
    BY <2>3 DEF HasCompanion
  <2> QED BY <2>2, <2>4, Roles
<1>6. \A c \in Slots : <<c, s>> \notin Paired(n)
  <2> SUFFICES ASSUME NEW c \in Slots, <<c, s>> \in Paired(n) PROVE FALSE
    OBVIOUS
  <2>1. <<c, s>>[2] = s
    OBVIOUS
  <2> QED BY <1>5, <2>1
<1>7. s \in Lone(n)
  BY <1>2, <1>3, <1>5 DEF Lone
<1> QED BY <1>6, <1>7

-----------------------------------------------------------------------------
(* update_state                                                            *)

LEMMA UpdateInv ==
  ASSUME Inv, NEW gone \in SUBSET Occupied(batch), NEW m \in Moves,
         NEW into \in SUBSET Slots, NEW added \in [into -> Waiting],
         \A s, t \in into : added[s] = added[t] => s = t,
         UpdateState(gone, added, m)
  PROVE  Inv'
<1> DEFINE joined == [s \in Slots |-> IF s \in into THEN added[s]
                                     ELSE IF s \in gone THEN NoRow ELSE batch[s]]
           tracked == [s \in Slots |-> IF s \in into THEN Tracked(added[s])
                                      ELSE IF s \in gone THEN NoRow ELSE rows[s]]
<1>1. /\ batch' = EngineMoved(joined, m) /\ rows' = AfterMove(tracked, m) /\ dirty' = TRUE
      /\ UNCHANGED <<pairs, failed, output, served, broken, unguided, mixed>>
  BY DEF UpdateState
<1>2. m = NoMove \/ (m \in Slots \X Slots /\ m[1] # m[2])
  BY DEF Moves
<1>3. \A s \in into : added[s] \in Requests /\ \A t \in Slots : batch[t] # added[s]
  BY DEF Waiting
<1>4. joined \in [Slots -> Requests \cup {NoRow}]
  BY <1>3 DEF Inv, Types
<1>5. \A s, t \in Slots : joined[s] = joined[t] /\ joined[s] # NoRow => s = t
  BY <1>3 DEF Inv, OneRow
<1>6. \A s \in Slots : tracked[s] = IF joined[s] \in Guided THEN joined[s] ELSE NoRow
  <2>1. \A s \in Slots : rows[s] = IF batch[s] \in Guided THEN batch[s] ELSE NoRow
    BY DEF Inv, RowsFollowBatch
  <2>2. NoRow \notin Guided
    BY Roles
  <2> QED BY <2>1, <2>2 DEF Tracked
<1>7. DOMAIN joined = Slots /\ DOMAIN tracked = Slots
  OBVIOUS
<1> HIDE DEF joined, tracked
<1> DEFINE from(s) == IF m = NoMove THEN s
                      ELSE IF s = m[1] THEN m[2] ELSE IF s = m[2] THEN m[1] ELSE s
<1>8. \A s \in Slots : from(s) \in Slots
  BY <1>2
<1>9. \A s, t \in Slots : from(s) = from(t) => s = t
  BY <1>2
<1>10. \A s \in Slots : batch'[s] = joined[from(s)]
  BY <1>1, <1>2, <1>7 DEF EngineMoved
<1>11. \A s \in Slots : rows'[s] = tracked[from(s)]
  BY <1>1, <1>2, <1>7 DEF AfterMove
<1>12. batch' = [s \in Slots |-> joined[from(s)]]
  <2>1. CASE m = NoMove
    BY <1>1, <1>4, <2>1 DEF EngineMoved
  <2>2. CASE m # NoMove
    BY <1>1, <2>2 DEF EngineMoved
  <2> QED BY <2>1, <2>2
<1>13. DOMAIN rows' = Slots
  BY <1>1, <1>7 DEF AfterMove
<1> HIDE DEF from
<1>14. Types' /\ OneRow' /\ RowsFollowBatch'
  <2>1. batch' \in [Slots -> Requests \cup {NoRow}]
    BY <1>4, <1>8, <1>12
  <2>2. Types'
    BY <1>1, <1>13, <2>1 DEF Inv, Types
  <2>3. OneRow'
    BY <1>5, <1>8, <1>9, <1>10 DEF OneRow
  <2>4. RowsFollowBatch'
    BY <1>6, <1>8, <1>10, <1>11 DEF RowsFollowBatch
  <2> QED BY <2>2, <2>3, <2>4
<1>15. PairsFresh'
  BY <1>1 DEF PairsFresh
<1>16. /\ ServedEnded' /\ Lockstep' /\ NeverUnguided' /\ BreakRecorded' /\ BrokenNeverServed'
       /\ GuidedOwn'
  BY <1>1 DEF Inv, ServedEnded, Finished, Lockstep, NeverUnguided, BreakRecorded, BrokenNeverServed,
    GuidedOwn
<1> QED BY <1>14, <1>15, <1>16 DEF Inv

-----------------------------------------------------------------------------
(* apply and _sample                                                       *)

\* The row whose token the row in slot s is given.
Drawer(n, s) ==
  IF \E c \in Slots : <<c, s>> \in Paired(n)
  THEN CHOOSE c \in Slots : <<c, s>> \in Paired(n) ELSE s

\* Whom a pass mixes up: the definition of Step with its local names gone.
LEMMA StepMixed ==
  ASSUME Step
  PROVE  mixed' = mixed \cup
           {q \in Requests : \E s \in SlotOf(q) :
              batch[Drawer(Cardinality(Occupied(batch)), s)][1] # q[1]}
  BY DEF Step, Drawer

\* A guided row is given the token of its own pair's conditional row.
LEMMA OwnDrawer ==
  ASSUME Inv, NEW q \in Guided, NEW s \in SlotOf(q), NEW n
  PROVE  batch[Drawer(n, s)][1] = q[1]
<1>1. s \in Slots /\ batch[s] = q /\ rows[s] = q /\ q # NoRow
  BY Roles DEF SlotOf, Inv, RowsFollowBatch
<1>2. PairsSeen = Rebuilt
  BY <1>1, PairsOfBatch DEF Occupied
<1>3. CASE \E c \in Slots : <<c, s>> \in Paired(n)
  <2>1. PICK c \in Slots : <<c, s>> \in Paired(n) /\ Drawer(n, s) = c
    BY <1>3 DEF Drawer
  <2>2. <<c, s>> \in Rebuilt
    BY <1>2, <2>1 DEF Paired
  <2>3. PICK p \in Pairs : batch[c] = Cond(p) /\ batch[s] = Uncond(p)
    BY <2>2, PairPlaces
  <2> QED BY <1>1, <2>1, <2>3, Roles
<1>4. CASE ~\E c \in Slots : <<c, s>> \in Paired(n)
  BY <1>1, <1>4 DEF Drawer
<1> QED BY <1>3, <1>4

\* What one pass gives to each row: the definition of Step by row.
LEMMA StepRows ==
  ASSUME Inv, Step
  PROVE  LET n == Cardinality(Occupied(batch)) IN
         \E draw \in [0..(n - 1) -> Draws] :
           /\ \A s \in 0..(n - 1) : draw[s] \in MayDraw(s, n)
           /\ \A s \in Slots : batch[s] # NoRow =>
                output'[batch[s]] = Append(output[batch[s]], Sampled(draw, n, s))
           /\ \A q \in Requests : SlotOf(q) = {} => output'[q] = output[q]
           /\ output' = [q \in Requests |-> output'[q]]
           /\ unguided' = unguided \cup
                {q \in Guided : /\ SlotOf(q) # {} /\ ~HasCompanion(q)
                                /\ Last(output'[q]) # STOP}
<1> DEFINE n == Cardinality(Occupied(batch))
           sampled(draw) == [s \in 0..(n - 1) |-> Sampled(draw, n, s)]
<1>1. Dense(batch)
  BY DEF Step
<1>2. PICK draw \in [0..(n - 1) -> Draws] :
        /\ \A s \in 0..(n - 1) : draw[s] \in MayDraw(s, n)
        /\ output' = [q \in Requests |->
             IF SlotOf(q) = {} THEN output[q]
             ELSE Append(output[q], sampled(draw)[CHOOSE s \in SlotOf(q) : TRUE])]
        /\ unguided' = unguided \cup
             {q \in Guided : /\ SlotOf(q) # {} /\ ~HasCompanion(q)
                             /\ Last(output'[q]) # STOP}
  BY DEF Step
<1>3. ASSUME NEW s \in Slots, batch[s] # NoRow
      PROVE  output'[batch[s]] = Append(output[batch[s]], Sampled(draw, n, s))
  <2>1. batch[s] \in Requests /\ s \in SlotOf(batch[s])
    BY <1>3 DEF Inv, Types, SlotOf
  <2>2. \A t \in SlotOf(batch[s]) : t = s
    BY <1>3 DEF Inv, OneRow, SlotOf
  <2>3. (CHOOSE t \in SlotOf(batch[s]) : TRUE) = s
    BY <2>1, <2>2
  <2>4. s \in 0..(n - 1)
    BY <1>1, <1>3, InRange DEF Inv
  <2>5. sampled(draw)[s] = Sampled(draw, n, s)
    BY <2>4
  <2> HIDE DEF sampled
  <2> QED BY <1>2, <2>1, <2>3, <2>5
<1> HIDE DEF sampled
<1>4. \A q \in Requests : SlotOf(q) = {} => output'[q] = output[q]
  BY <1>2
<1>5. output' = [q \in Requests |-> output'[q]]
  BY <1>2
<1> QED BY <1>2, <1>3, <1>4, <1>5

\* Both rows of a pair are in the batch: the companion is given the token of
\* the conditional row.
LEMMA OneToken ==
  ASSUME Inv, Dense(batch), NEW p \in Pairs, NEW s \in Slots, NEW t \in Slots,
         batch[s] = Cond(p), batch[t] = Uncond(p), NEW draw
  PROVE  LET n == Cardinality(Occupied(batch))
         IN  Sampled(draw, n, s) = draw[s] /\ Sampled(draw, n, t) = draw[s]
<1> DEFINE n == Cardinality(Occupied(batch))
<1>1. s < n /\ t < n
  BY InRange, Roles DEF Inv
<1>2. rows[s] = Cond(p) /\ rows[t] = Uncond(p)
  BY Roles DEF Inv, RowsFollowBatch
<1>3. PairsSeen = Rebuilt
  BY <1>2, Roles, PairsOfBatch DEF Occupied
<1>4. <<s, t>> \in Paired(n)
  BY <1>1, <1>2, <1>3 DEF Paired, Rebuilt
<1>5. ASSUME NEW c \in Slots, NEW d \in Slots, <<c, d>> \in Paired(n)
      PROVE  \E q \in Pairs : batch[c] = Cond(q) /\ batch[d] = Uncond(q)
  <2>1. <<c, d>> \in Rebuilt
    BY <1>3, <1>5 DEF Paired
  <2> QED BY <2>1, PairPlaces
<1>6. \A c \in Slots : <<c, s>> \notin Paired(n)
  BY <1>5, Roles
<1>7. \A c \in Slots : <<c, t>> \in Paired(n) => c = s
  <2> SUFFICES ASSUME NEW c \in Slots, <<c, t>> \in Paired(n) PROVE c = s
    OBVIOUS
  <2>1. batch[c] = Cond(p)
    BY <1>5, Roles
  <2> QED BY <2>1, Roles DEF Inv, OneRow
<1>8. Sampled(draw, n, s) = draw[s]
  BY <1>6 DEF Sampled
<1>9. Sampled(draw, n, t) = draw[s]
  BY <1>4, <1>7 DEF Sampled
<1> QED BY <1>8, <1>9

LEMMA StepInv == ASSUME Inv, Step PROVE Inv'
<1> DEFINE n == Cardinality(Occupied(batch))
           alone == {p \in Pairs : (SlotOf(Cond(p)) = {}) # (SlotOf(Uncond(p)) = {})}
<1>1. /\ Dense(batch) /\ \A s \in 0..(n - 1) : ~Finished(batch[s])
      /\ pairs' = PairsSeen /\ dirty' = (IF Occupied(rows) = {} THEN dirty ELSE FALSE)
      /\ failed' = failed \cup Recorded(n) /\ broken' = broken \cup alone
      /\ UNCHANGED <<batch, rows, served>>
  BY DEF Step
<1>2. PICK draw \in [0..(n - 1) -> Draws] :
        /\ \A s \in 0..(n - 1) : draw[s] \in MayDraw(s, n)
        /\ \A s \in Slots : batch[s] # NoRow =>
             output'[batch[s]] = Append(output[batch[s]], Sampled(draw, n, s))
        /\ \A q \in Requests : SlotOf(q) = {} => output'[q] = output[q]
        /\ output' = [q \in Requests |-> output'[q]]
        /\ unguided' = unguided \cup
             {q \in Guided : /\ SlotOf(q) # {} /\ ~HasCompanion(q)
                             /\ Last(output'[q]) # STOP}
  BY StepRows
<1>3. OneRow' /\ RowsFollowBatch'
  BY <1>1 DEF Inv, OneRow, RowsFollowBatch
<1>4. PairsFresh'
  BY <1>1 DEF Inv, Types, PairsFresh, PairsSeen, Rebuilt
\* Who is in the batch has not finished.
<1>5. \A s \in Slots : batch[s] # NoRow => ~Finished(batch[s])
  BY <1>1, InRange DEF Inv
<1>6. Types'
  <2>1. ASSUME NEW s \in Slots, batch[s] # NoRow PROVE Sampled(draw, n, s) \in Draws
    <3>1. s \in 0..(n - 1) /\ n \in Nat
      BY <1>1, <2>1, InRange DEF Inv
    <3>2. CASE \E c \in Slots : <<c, s>> \in Paired(n)
      <4>1. PICK c \in Slots : <<c, s>> \in Paired(n) /\ Sampled(draw, n, s) = draw[c]
        BY <3>2 DEF Sampled
      <4>2. c < n
        BY <4>1 DEF Paired
      <4>3. c \in 0..(n - 1)
        BY <3>1, <4>2 DEF Slots
      <4> QED BY <4>1, <4>3
    <3>3. CASE ~\E c \in Slots : <<c, s>> \in Paired(n)
      BY <3>1, <3>3 DEF Sampled
    <3> QED BY <3>2, <3>3
  <2>2. ASSUME NEW q \in Requests PROVE output'[q] \in Seq(Draws)
    <3>1. output[q] \in Seq(Draws)
      BY DEF Inv, Types
    <3>2. CASE SlotOf(q) = {}
      BY <1>2, <3>1, <3>2
    <3>3. CASE SlotOf(q) # {}
      <4>1. PICK s \in Slots : batch[s] = q /\ batch[s] # NoRow
        BY <3>3, Roles DEF SlotOf
      <4>2. output'[q] = Append(output[q], Sampled(draw, n, s)) /\ Sampled(draw, n, s) \in Draws
        BY <1>2, <2>1, <4>1
      <4> QED BY <3>1, <4>2
    <3> QED BY <3>2, <3>3
  <2>3. output' \in [Requests -> Seq(Draws)]
    BY <1>2, <2>2
  <2>4. dirty' \in BOOLEAN
    BY <1>1 DEF Inv, Types
  <2> QED BY <1>1, <2>3, <2>4 DEF Inv, Types
\* A row left alone draws its end, and its pair is on record.
<1>7. ASSUME NEW q \in Guided, SlotOf(q) # {}, ~HasCompanion(q)
      PROVE  output'[q] = Append(output[q], STOP) /\ q[1] \in Recorded(n)
  <2>1. PICK s \in Slots : batch[s] = q /\ batch[s] # NoRow /\ rows[s] = q
    BY <1>7, Roles DEF SlotOf, Inv, RowsFollowBatch
  <2>2. s \in Lone(n) /\ \A c \in Slots : <<c, s>> \notin Paired(n)
    BY <1>1, <1>7, <2>1, Abandoned
  <2>3. s \in 0..(n - 1)
    BY <1>1, <2>1, InRange DEF Inv
  <2>4. draw[s] = STOP
    BY <1>2, <2>2, <2>3 DEF MayDraw
  <2>5. Sampled(draw, n, s) = STOP
    BY <2>2, <2>4 DEF Sampled
  <2>6. q[1] \in Recorded(n)
    BY <2>1, <2>2 DEF Recorded
  <2> QED BY <1>2, <2>1, <2>5, <2>6
<1>8. NeverUnguided'
  <2>1. ASSUME NEW q \in Guided, SlotOf(q) # {}, ~HasCompanion(q) PROVE Last(output'[q]) = STOP
    <3>1. output[q] \in Seq(Draws) /\ STOP \in Draws
      BY Roles, CFGAssumption DEF Inv, Types
    <3>2. Append(output[q], STOP)[Len(Append(output[q], STOP))] = STOP
      BY <3>1
    <3> QED BY <1>7, <2>1, <3>2 DEF Last
  <2> QED BY <1>2, <2>1 DEF Inv, NeverUnguided
<1>9. Lockstep'
  <2> SUFFICES ASSUME NEW p \in Pairs, p \notin broken'
               PROVE output'[Cond(p)] = output'[Uncond(p)]
    BY DEF Lockstep
  <2>1. p \notin broken /\ p \notin alone
    BY <1>1
  <2>2. output[Cond(p)] = output[Uncond(p)] /\ Cond(p) \in Requests /\ Uncond(p) \in Requests
    BY <2>1, Roles DEF Inv, Lockstep
  <2>3. CASE SlotOf(Cond(p)) = {} /\ SlotOf(Uncond(p)) = {}
    BY <1>2, <2>2, <2>3
  <2>4. CASE SlotOf(Cond(p)) # {} /\ SlotOf(Uncond(p)) # {}
    <3>1. PICK s \in Slots, t \in Slots : batch[s] = Cond(p) /\ batch[t] = Uncond(p)
      BY <2>4 DEF SlotOf
    <3>2. Sampled(draw, n, s) = draw[s] /\ Sampled(draw, n, t) = draw[s]
      BY <1>1, <3>1, OneToken
    <3>3. batch[s] # NoRow /\ batch[t] # NoRow
      BY <3>1, Roles
    <3>4. /\ output'[Cond(p)] = Append(output[Cond(p)], draw[s])
          /\ output'[Uncond(p)] = Append(output[Uncond(p)], draw[s])
      BY <1>2, <3>1, <3>2, <3>3
    <3> QED BY <2>2, <3>4
  <2> QED BY <2>1, <2>3, <2>4
\* A pair sampled apart in this pass.
<1>10. ASSUME NEW p \in alone
       PROVE  \E q \in {Cond(p), Uncond(p)} : SlotOf(q) # {} /\ ~HasCompanion(q) /\ q \in Guided
  <2>1. p \in Pairs /\ Cond(p)[1] = p /\ Uncond(p)[1] = p
    BY Roles
  <2> QED BY <2>1, Roles DEF HasCompanion
<1>11. BreakRecorded'
  <2>1. alone \subseteq Recorded(n)
    BY <1>7, <1>10, Roles
  <2> QED BY <1>1, <2>1 DEF Inv, BreakRecorded
<1>12. BrokenNeverServed'
  <2>1. ASSUME NEW p \in alone, p \notin broken PROVE served[p] = "no"
    <3>1. PICK q \in {Cond(p), Uncond(p)} : SlotOf(q) # {} /\ q \in Guided
      BY <1>10
    <3>2. ~Finished(q)
      BY <1>5, <3>1, Roles DEF SlotOf
    <3>3. output[Cond(p)] = output[Uncond(p)]
      BY <2>1 DEF Inv, Lockstep
    <3>4. ~Finished(Cond(p))
      BY <3>1, <3>2, <3>3 DEF Finished
    <3> QED BY <3>4 DEF Inv, ServedEnded
  <2> QED BY <1>1, <2>1 DEF Inv, BrokenNeverServed
<1>13. ServedEnded'
  <2> SUFFICES ASSUME NEW p \in Pairs, served'[p] # "no" PROVE Finished(Cond(p))'
    BY DEF ServedEnded
  <2>1. Finished(Cond(p))
    BY <1>1 DEF Inv, ServedEnded
  <2>2. SlotOf(Cond(p)) = {}
    BY <1>5, <2>1, Roles DEF SlotOf
  <2>3. output'[Cond(p)] = output[Cond(p)]
    BY <1>2, <2>2, Roles
  <2> QED BY <2>1, <2>3 DEF Finished
<1>14. GuidedOwn'
  BY StepMixed, OwnDrawer DEF Inv, GuidedOwn
<1> QED BY <1>3, <1>4, <1>6, <1>8, <1>9, <1>11, <1>12, <1>13, <1>14 DEF Inv

-----------------------------------------------------------------------------
(* Handing on                                                              *)

LEMMA ServeInv == ASSUME Inv, NEW p \in Pairs, Serve(p) PROVE Inv'
<1>1. /\ served[p] = "no" /\ Finished(Cond(p))
      /\ served' = [served EXCEPT ![p] = ServedAs(p)]
      /\ failed' = (IF p \in failed THEN failed \ {p} ELSE failed)
      /\ UNCHANGED <<batch, rows, pairs, dirty, output, broken, unguided, mixed>>
  BY DEF Serve, Refused
<1>2. Types' /\ OneRow' /\ RowsFollowBatch' /\ PairsFresh' /\ Lockstep' /\ NeverUnguided'
      /\ GuidedOwn'
  BY <1>1 DEF Inv, Types, OneRow, RowsFollowBatch, PairsFresh, Rebuilt, Lockstep, NeverUnguided,
    GuidedOwn
<1>3. \A q \in Pairs : served'[q] = IF q = p THEN ServedAs(p) ELSE served[q]
  BY <1>1 DEF Inv, Types
<1>4. ServedAs(p) # "no"
  BY DEF ServedAs
<1>5. ServedEnded'
  BY <1>1, <1>3 DEF Inv, ServedEnded, Finished
<1>6. broken \subseteq Pairs => BreakRecorded'
  BY <1>1, <1>3, <1>4 DEF Inv, BreakRecorded
<1>7. broken \subseteq Pairs => BrokenNeverServed'
  <2>1. p \in broken => ServedAs(p) = "error"
    BY <1>1 DEF Inv, BreakRecorded, ServedAs, Refused
  <2> QED BY <1>1, <1>3, <2>1 DEF Inv, BrokenNeverServed
<1>8. broken \subseteq Pairs
  BY DEF Inv, Types
<1> QED BY <1>2, <1>5, <1>6, <1>7, <1>8 DEF Inv

LEMMA InitInv == Init => Inv
<1> SUFFICES ASSUME Init PROVE Inv
  OBVIOUS
<1>1. Types
  BY DEF Init, Types
<1>2. OneRow /\ PairsFresh /\ ServedEnded
  BY DEF Init, OneRow, PairsFresh, ServedEnded
<1>3. RowsFollowBatch
  BY DEF Init, RowsFollowBatch
<1>4. Lockstep /\ NeverUnguided /\ BreakRecorded /\ BrokenNeverServed /\ GuidedOwn
  BY Roles DEF Init, Lockstep, NeverUnguided, BreakRecorded, BrokenNeverServed, GuidedOwn
<1> QED BY <1>1, <1>2, <1>3, <1>4 DEF Inv

LEMMA NextInv == Inv /\ [Next]_vars => Inv'
<1> SUFFICES ASSUME Inv, [Next]_vars PROVE Inv'
  OBVIOUS
<1>1. CASE \E gone \in SUBSET Occupied(batch), m \in Moves :
             \E into \in SUBSET Slots :
               \E added \in [into -> Waiting] :
                 /\ \A s, t \in into : added[s] = added[t] => s = t
                 /\ UpdateState(gone, added, m)
  BY <1>1, UpdateInv
<1>2. CASE Step
  BY <1>2, StepInv
<1>3. CASE \E p \in Pairs : Serve(p)
  BY <1>3, ServeInv
<1>4. CASE UNCHANGED vars
  <2>1. Types' /\ OneRow' /\ RowsFollowBatch' /\ PairsFresh'
    BY <1>4 DEF vars, Inv, Types, OneRow, RowsFollowBatch, PairsFresh, Rebuilt
  <2>2. /\ ServedEnded' /\ Lockstep' /\ NeverUnguided' /\ BreakRecorded' /\ BrokenNeverServed'
        /\ GuidedOwn'
    BY <1>4 DEF vars, Inv, ServedEnded, Finished, Lockstep, NeverUnguided, BreakRecorded,
                BrokenNeverServed, GuidedOwn
  <2> QED BY <2>1, <2>2 DEF Inv
<1> QED BY <1>1, <1>2, <1>3, <1>4 DEF Next

-----------------------------------------------------------------------------
(* Theorems                                                                *)

\* The inductive invariant of guidance: the five properties below need each
\* other, that no request is in two rows, and that pairs are never stale while
\* rows are followed.
THEOREM GuidanceInvariant == Spec => []Inv
  BY InitInv, NextInv, PTL DEF Spec

\* The processor and the engine agree on every guided row.
THEOREM Follows == Spec => []RowsFollowBatch
<1>1. Inv => RowsFollowBatch
  BY DEF Inv
<1> QED BY <1>1, GuidanceInvariant, PTL

\* The rows of a pair that was never sampled apart have one history.
THEOREM InLockstep == Spec => []Lockstep
<1>1. Inv => Lockstep
  BY DEF Inv
<1> QED BY <1>1, GuidanceInvariant, PTL

\* A row without its companion never draws a code.
THEOREM Guarded == Spec => []NeverUnguided
<1>1. Inv => NeverUnguided
  BY DEF Inv
<1> QED BY <1>1, GuidanceInvariant, PTL

\* A pair sampled apart is on record until its request is answered.
THEOREM Recording == Spec => []BreakRecorded
<1>1. Inv => BreakRecorded
  BY DEF Inv
<1> QED BY <1>1, GuidanceInvariant, PTL

\* The codes of a pair whose guidance broke are never handed on as audio.
THEOREM NeverServed == Spec => []BrokenNeverServed
<1>1. Inv => BrokenNeverServed
  BY DEF Inv
<1> QED BY <1>1, GuidanceInvariant, PTL

\* No guided request is ever given a token of another caller.
THEOREM GuidedServedOwn == Spec => []GuidedOwn
<1>1. Inv => GuidedOwn
  BY DEF Inv
<1> QED BY <1>1, GuidanceInvariant, PTL

-----------------------------------------------------------------------------
(* Callers without guidance                                                *)

\* At most one caller without guidance at a time.
OneCaller == \A x, y \in Plain : x = y

\* The first rows of a dense batch are taken.
LEMMA RowsBelow ==
  ASSUME Dense(batch), NEW s \in Slots, s < Cardinality(Occupied(batch))
  PROVE  batch[s] # NoRow
<1> SUFFICES ASSUME batch[s] = NoRow PROVE FALSE
  OBVIOUS
<1>1. s \in Nat
  BY DEF Slots
<1>2. Occupied(batch) \subseteq 0..(s - 1)
  <2> SUFFICES ASSUME NEW t \in Occupied(batch) PROVE t \in 0..(s - 1)
    OBVIOUS
  <2>1. t \in Nat
    BY DEF Occupied, Slots
  <2>2. s \notin 0..t
    BY DEF Dense, Occupied
  <2> QED BY <1>1, <2>1, <2>2
<1>3. IsFiniteSet(0..(s - 1)) /\ Cardinality(0..(s - 1)) = s
  BY <1>1, FS_Interval
<1>4. Cardinality(Occupied(batch)) <= Cardinality(0..(s - 1))
  BY <1>2, <1>3, FS_Subset
<1>5. Cardinality(Occupied(batch)) \in Nat
  BY <1>2, <1>3, FS_Subset, FS_CardinalityType
<1> QED BY <1>1, <1>3, <1>4, <1>5

\* A pass gives a lone caller without guidance its own token: a pair that is
\* stale holds nobody else in its rows.
LEMMA LoneCaller ==
  ASSUME OneCaller, Inv, Step, NEW x \in Plain, NEW s \in SlotOf(<<x, "none">>)
  PROVE  batch[Drawer(Cardinality(Occupied(batch)), s)][1] = x
<1> DEFINE n == Cardinality(Occupied(batch))
<1>1. s \in Slots /\ batch[s] = <<x, "none">>
  BY DEF SlotOf
<1>2. CASE ~\E c \in Slots : <<c, s>> \in Paired(n)
  BY <1>1, <1>2 DEF Drawer
<1>3. CASE \E c \in Slots : <<c, s>> \in Paired(n)
  <2>1. PICK c \in Slots : <<c, s>> \in Paired(n) /\ Drawer(n, s) = c
    BY <1>3 DEF Drawer
  <2>2. c < n
    BY <2>1 DEF Paired
  <2>3. batch[c] # NoRow
    BY <2>2, RowsBelow DEF Step
  <2>4. Occupied(rows) = {}
    <3> SUFFICES ASSUME Occupied(rows) # {} PROVE FALSE
      OBVIOUS
    <3>1. <<c, s>> \in Rebuilt
      BY <2>1, PairsOfBatch DEF Paired
    <3>2. PICK p \in Pairs : batch[s] = Uncond(p)
      BY <3>1, PairPlaces
    <3> QED BY <1>1, <3>2 DEF Uncond
  <2>5. batch[c] \notin Guided
    BY <2>3, <2>4 DEF Inv, RowsFollowBatch, Occupied
  <2>6. batch[c] \in Plain \X {"none"}
    BY <2>3, <2>5 DEF Inv, Types, Requests
  <2> QED BY <2>1, <2>6 DEF OneCaller
<1> QED BY <1>2, <1>3

LEMMA MixedKept == ASSUME OneCaller PROVE Inv /\ OwnTokens /\ [Next]_vars => OwnTokens'
<1> SUFFICES ASSUME Inv, mixed = {}, [Next]_vars PROVE mixed' = {}
  BY DEF OwnTokens
<1>1. CASE Step
  <2>1. ASSUME NEW q \in Requests, NEW s \in SlotOf(q)
        PROVE  batch[Drawer(Cardinality(Occupied(batch)), s)][1] = q[1]
    <3>1. CASE q \in Guided
      BY <3>1, OwnDrawer
    <3>2. CASE q \in Plain \X {"none"}
      <4>1. PICK x \in Plain : q = <<x, "none">>
        BY <3>2
      <4> QED BY <1>1, <4>1, LoneCaller
    <3> QED BY <3>1, <3>2 DEF Requests
  <2> QED BY <1>1, <2>1, StepMixed
<1>2. CASE ~Step
  BY <1>2 DEF Next, UpdateState, Serve, vars
<1> QED BY <1>1, <1>2

\* With one caller without guidance at a time, everyone is given the tokens of
\* its own request; two of them can take over the rows of a pair that left.
THEOREM CallersServedOwn == ASSUME OneCaller PROVE Spec => []OwnTokens
<1>1. Init => OwnTokens
  BY DEF Init, OwnTokens
<1>2. Inv /\ OwnTokens /\ [Next]_vars => OwnTokens'
  BY MixedKept
<1> QED BY <1>1, <1>2, GuidanceInvariant, PTL DEF Spec
=============================================================================

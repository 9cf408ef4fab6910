------------------------ MODULE AcousticStage_proofs ------------------------
(***************************************************************************)
(* What the acoustic stage executes, and what one stream emits of it.  The *)
(* scheduler never promises a slot it does not have, an execution holds    *)
(* one class and one geometry, work is never left for want of a choice and *)
(* sounding streams take turns.  A row of an execution sounds as it would  *)
(* alone, no group is longer than its bound, what is let through decodes,  *)
(* and the warmed graphs stay.  The sample ledger of streaming.py emits    *)
(* one unbroken run inside the final crop, and implements PCMLedger,       *)
(* whatever ranges it is fed.                                              *)
(***************************************************************************)
EXTENDS AcousticScheduler, AcousticBatch, PCMCommitter, FiniteSetTheorems,
        WellFoundedInduction, TLAPS

-----------------------------------------------------------------------------
(* Numbers, and places in lists                                            *)

\* A set of numbers has a least one.
LEMMA NatMin ==
  ASSUME NEW T \in SUBSET Nat, T # {}
  PROVE  \E x \in T : \A y \in T : x <= y
<1> DEFINE R == OpToRel(<, Nat)
<1>1. IsWellFoundedOn(R, Nat)
  BY NatLessThanWellFounded
<1>2. \A x, y \in Nat : <<y, x>> \in R <=> y < x
  BY DEF OpToRel
<1> HIDE DEF R
<1>3. PICK x \in T : \A y \in T : ~(<<y, x>> \in R)
  BY <1>1, WFMin
<1>4. ASSUME NEW y \in T PROVE x <= y
  <2>1. x \in Nat /\ y \in Nat
    OBVIOUS
  <2>2. ~(y < x)
    BY <1>2, <1>3, <2>1
  <2> QED BY <2>1, <2>2
<1> QED BY <1>3, <1>4

\* Induction, stated of a set of numbers.
LEMMA AllOfNat ==
  ASSUME NEW S \in SUBSET Nat, 0 \in S, \A n \in S : n + 1 \in S
  PROVE  S = Nat
<1> SUFFICES ASSUME Nat \ S # {} PROVE FALSE
  OBVIOUS
<1>1. PICK x \in Nat \ S : \A y \in Nat \ S : x <= y
  BY NatMin
<1>2. x # 0 /\ x - 1 \in Nat
  BY <1>1
<1>3. x - 1 \in S
  <2>1. ~(x <= x - 1)
    BY <1>1
  <2> QED BY <1>1, <1>2, <2>1
<1>4. (x - 1) + 1 = x
  BY <1>1
<1> QED BY <1>1, <1>3, <1>4

\* Lists of one length that agree at each place are the same.
LEMMA SameList ==
  ASSUME NEW S, NEW q \in Seq(S), NEW r \in Seq(S), Len(q) = Len(r),
         \A m \in 1..Len(q) : q[m] = r[m]
  PROVE  q = r
  OBVIOUS

\* Some of the places of a list are finitely many.
LEMMA PlacesFinite ==
  ASSUME NEW n \in Nat, NEW I \in SUBSET (1..n)
  PROVE  IsFiniteSet(I) /\ Cardinality(I) \in Nat
<1>1. IsFiniteSet(1..n)
  BY FS_Interval
<1>2. IsFiniteSet(I)
  BY <1>1, FS_Subset
<1> QED BY <1>2, FS_CardinalityType

\* Two places of a list have different ranks among those picked.
LEMMA RankDiffers ==
  ASSUME NEW n \in Nat, NEW I \in SUBSET (1..n), NEW i \in I, NEW j \in I, i < j
  PROVE  Rank(i, I) # Rank(j, I)
<1> DEFINE Below(k) == {m \in I : m <= k}
<1>1. IsFiniteSet(I)
  BY PlacesFinite
<1>2. IsFiniteSet(Below(j)) /\ Below(i) \in SUBSET Below(j)
  <2>1. Below(j) \in SUBSET I /\ Below(i) \in SUBSET Below(j)
    <3> SUFFICES ASSUME NEW m \in I, m <= i PROVE m <= j
      OBVIOUS
    <3>1. m \in Nat /\ i \in Nat /\ j \in Nat
      OBVIOUS
    <3> QED BY <3>1
  <2> QED BY <1>1, <2>1, FS_Subset
<1>3. j \in Below(j) /\ j \notin Below(i)
  OBVIOUS
<1>4. Cardinality(Below(i)) # Cardinality(Below(j))
  BY <1>2, <1>3, FS_Subset
<1> QED BY <1>4 DEF Rank

\* The ranks of the places picked are 1, 2, ... each once.
LEMMA Ranks ==
  ASSUME NEW n \in Nat, NEW I \in SUBSET (1..n)
  PROVE  /\ IsFiniteSet(I) /\ Cardinality(I) \in Nat
         /\ \A i \in I : Rank(i, I) \in 1..Cardinality(I)
         /\ \A i, j \in I : Rank(i, I) = Rank(j, I) => i = j
         /\ \A m \in 1..Cardinality(I) : \E i \in I : Rank(i, I) = m
<1> DEFINE k == Cardinality(I)
           rank == [i \in I |-> Rank(i, I)]
<1>1. IsFiniteSet(I) /\ k \in Nat
  BY PlacesFinite
<1>2. ASSUME NEW i \in I PROVE Rank(i, I) \in 1..k
  <2> DEFINE B == {j \in I : j <= i}
  <2>1. B \in SUBSET I /\ i \in B
    OBVIOUS
  <2>2. IsFiniteSet(B) /\ Cardinality(B) <= k /\ Cardinality(B) \in Nat
    BY <1>1, <2>1, FS_Subset, FS_CardinalityType
  <2>3. Cardinality(B) # 0
    BY <2>1, <2>2, FS_EmptySet
  <2> QED BY <1>1, <2>2, <2>3 DEF Rank
<1>3. ASSUME NEW i \in I, NEW j \in I, Rank(i, I) = Rank(j, I) PROVE i = j
  BY <1>3, RankDiffers
<1>4. IsFiniteSet(1..k) /\ Cardinality(1..k) = k
  BY <1>1, FS_Interval
<1>5. rank \in Injection(I, 1..k)
  BY <1>2, <1>3 DEF Injection, IsInjective
<1>6. rank \in Surjection(I, 1..k)
  BY <1>4, <1>5, FS_Injection
<1>7. \A m \in 1..k : \E i \in I : Rank(i, I) = m
  BY <1>6 DEF Surjection
<1> QED BY <1>1, <1>2, <1>3, <1>7

\* What is picked is a sequence of that many, and has each member at its rank.
LEMMA PickedAt ==
  ASSUME NEW T, NEW s \in Seq(T), NEW I \in SUBSET (1..Len(s)),
         NEW S, \A i \in I : s[i] \in S
  PROVE  /\ Picked(s, I) \in Seq(S) /\ Len(Picked(s, I)) = Cardinality(I)
         /\ DOMAIN Picked(s, I) = 1..Cardinality(I)
         /\ \A i \in I : Picked(s, I)[Rank(i, I)] = s[i]
<1> DEFINE k == Cardinality(I)
           nth(m) == CHOOSE i \in I : Rank(i, I) = m
           p == [m \in 1..k |-> s[nth(m)]]
<1>1. Picked(s, I) = p
  BY DEF Picked, Rank
<1>2. Len(s) \in Nat /\ \A i \in I : s[i] \in S
  OBVIOUS
<1>0. /\ k \in Nat
      /\ \A i \in I : Rank(i, I) \in 1..k
      /\ \A i, j \in I : Rank(i, I) = Rank(j, I) => i = j
      /\ \A m \in 1..k : \E i \in I : Rank(i, I) = m
  BY <1>2, Ranks
<1>3. \A m \in 1..k : nth(m) \in I /\ Rank(nth(m), I) = m
  BY <1>0
<1>4. ASSUME NEW i \in I PROVE Rank(i, I) \in 1..k /\ nth(Rank(i, I)) = i
  <2>1. Rank(i, I) \in 1..k
    BY <1>0
  <2>2. nth(Rank(i, I)) \in I /\ Rank(nth(Rank(i, I)), I) = Rank(i, I)
    BY <1>3, <2>1
  <2> HIDE DEF nth
  <2> QED BY <1>0, <2>1, <2>2
<1>5. p \in [1..k -> S] /\ p \in Seq(S) /\ Len(p) = k
  <2> HIDE DEF nth
  <2>1. p \in [1..k -> S]
    BY <1>2, <1>3
  <2> HIDE DEF p, k
  <2> QED BY <1>0, <2>1
<1>6. \A i \in I : p[Rank(i, I)] = s[i]
  <2> HIDE DEF nth
  <2> QED BY <1>4
<1>7. DOMAIN p = 1..k
  OBVIOUS
<1> HIDE DEF p
<1> QED BY <1>1, <1>5, <1>6, <1>7

LEMMA UpTo ==
  ASSUME NEW n \in Nat
  PROVE  IsFiniteSet(1..n) /\ Cardinality(1..n) = n
<1>1. IsFiniteSet(1..n) /\ Cardinality(1..n) = IF 1 > n THEN 0 ELSE n - 1 + 1
  BY FS_Interval
<1> QED BY <1>1

\* A set of places that is not empty has a first and a last one.
LEMMA FirstAndLast ==
  ASSUME NEW n \in Nat, NEW I \in SUBSET (1..n), I # {}
  PROVE  /\ \E i \in I : \A j \in I : i <= j
         /\ \E i \in I : \A j \in I : j <= i
<1> DEFINE T == {n - i : i \in I}
<1>1. I \in SUBSET Nat /\ \A i \in I : i \in 1..n
  OBVIOUS
<1>2. T \in SUBSET Nat /\ T # {}
  <2>1. \A i \in 1..n : n - i \in Nat
    OBVIOUS
  <2> QED BY <1>1, <2>1
<1>3. PICK x \in T : \A y \in T : x <= y
  BY <1>2, NatMin
<1>4. PICK i \in I : x = n - i
  OBVIOUS
<1>5. ASSUME NEW j \in I PROVE j <= i
  <2>1. n - i <= n - j
    BY <1>3, <1>4
  <2>2. i \in 1..n /\ j \in 1..n
    BY <1>1
  <2> QED BY <2>1, <2>2
<1> QED BY <1>1, <1>5, NatMin

Distinct(s) == \A i, j \in 1..Len(s) : s[i] = s[j] => i = j

\* The places of a list where a member of S is.
PlacesOf(s, S) == {i \in DOMAIN s : s[i] \in S}

\* Those keeps the members that are in S, each where it was among them.
LEMMA ThoseAre ==
  ASSUME NEW T, NEW s \in Seq(T), NEW S
  PROVE  /\ Those(s, S) \in Seq(T)
         /\ ToSet(Those(s, S)) = ToSet(s) \cap S
         /\ Len(Those(s, S)) = Cardinality(PlacesOf(s, S))
         /\ Len(Those(s, S)) \in 0..Len(s)
         /\ Distinct(s) => Distinct(Those(s, S))
<1> DEFINE I == PlacesOf(s, S)
           t == Picked(s, I)
<1>1. Those(s, S) = t
  BY DEF Those, PlacesOf
<1>2. /\ Len(s) \in Nat /\ DOMAIN s = 1..Len(s) /\ I \in SUBSET (1..Len(s))
      /\ \A i \in I : s[i] \in T \cap S
  BY DEF PlacesOf
<1> HIDE DEF I
<1>3. /\ t \in Seq(T \cap S) /\ Len(t) = Cardinality(I) /\ DOMAIN t = 1..Cardinality(I)
      /\ \A i \in I : t[Rank(i, I)] = s[i]
  BY <1>2, PickedAt
<1>4. /\ IsFiniteSet(I) /\ Cardinality(I) \in Nat
      /\ \A i \in I : Rank(i, I) \in 1..Cardinality(I)
      /\ \A i, j \in I : Rank(i, I) = Rank(j, I) => i = j
      /\ \A m \in 1..Cardinality(I) : \E i \in I : Rank(i, I) = m
  BY <1>2, Ranks
<1> HIDE DEF t
<1>5. t \in Seq(T)
  BY <1>3
<1>6. ToSet(t) = ToSet(s) \cap S
  <2>1. ASSUME NEW m \in DOMAIN t PROVE t[m] \in ToSet(s) \cap S
    <3>1. PICK i \in I : Rank(i, I) = m
      BY <1>3, <1>4, <2>1
    <3> QED BY <1>2, <1>3, <3>1 DEF ToSet
  <2>2. ASSUME NEW i \in DOMAIN s, s[i] \in S PROVE s[i] \in ToSet(t)
    <3>1. i \in I
      BY <2>2 DEF I, PlacesOf
    <3>2. Rank(i, I) \in DOMAIN t /\ t[Rank(i, I)] = s[i]
      BY <1>3, <1>4, <3>1
    <3> QED BY <3>2 DEF ToSet
  <2> QED BY <2>1, <2>2 DEF ToSet
<1>7. Cardinality(I) <= Len(s)
  <2>1. Len(s) \in Nat /\ I \in SUBSET (1..Len(s))
    BY <1>2
  <2>2. IsFiniteSet(1..Len(s)) /\ Cardinality(1..Len(s)) = Len(s)
    BY <2>1, UpTo
  <2>3. Cardinality(I) <= Cardinality(1..Len(s))
    BY <2>1, <2>2, FS_Subset
  <2> QED BY <2>2, <2>3
<1>8. ASSUME Distinct(s) PROVE Distinct(t)
  <2> SUFFICES ASSUME NEW m \in 1..Len(t), NEW k \in 1..Len(t), t[m] = t[k] PROVE m = k
    BY DEF Distinct
  <2>1. PICK i \in I, j \in I : Rank(i, I) = m /\ Rank(j, I) = k
    BY <1>3, <1>4
  <2>2. s[i] = s[j] /\ i \in 1..Len(s) /\ j \in 1..Len(s)
    BY <1>2, <1>3, <2>1
  <2>3. i = j
    BY <1>8, <2>2 DEF Distinct
  <2> QED BY <2>1, <2>3
<1>9. Len(t) = Cardinality(PlacesOf(s, S)) /\ Len(t) \in 0..Len(s)
  BY <1>2, <1>3, <1>4, <1>7 DEF I
<1> QED BY <1>1, <1>5, <1>6, <1>8, <1>9

\* Leaving out a member of the list makes it shorter.
LEMMA ThoseFewer ==
  ASSUME NEW T, NEW s \in Seq(T), NEW S, NEW x \in ToSet(s), x \notin S
  PROVE  Len(Those(s, S)) + 1 <= Len(s)
<1> DEFINE I == PlacesOf(s, S)
<1>1. Len(s) \in Nat /\ DOMAIN s = 1..Len(s) /\ I \in SUBSET (1..Len(s))
  BY DEF PlacesOf
<1>2. PICK i \in 1..Len(s) : s[i] = x
  BY <1>1 DEF ToSet
<1>3. i \notin I
  BY <1>2 DEF PlacesOf
<1>4. Len(Those(s, S)) = Cardinality(I)
  BY ThoseAre
<1> HIDE DEF I
<1>5. IsFiniteSet(I) /\ Cardinality(I) \in Nat
  BY <1>1, PlacesFinite
<1>6. /\ IsFiniteSet(1..Len(s)) /\ Cardinality(1..Len(s)) = Len(s)
  BY <1>1, UpTo
<1>7. Cardinality(I) <= Cardinality(1..Len(s)) /\ Cardinality(I) # Cardinality(1..Len(s))
  BY <1>1, <1>2, <1>3, <1>6, FS_Subset
<1> QED BY <1>1, <1>4, <1>5, <1>6, <1>7

LEMMA Appended ==
  ASSUME NEW T, NEW s \in Seq(T), NEW x \in T
  PROVE  /\ Append(s, x) \in Seq(T) /\ Len(Append(s, x)) = Len(s) + 1
         /\ ToSet(Append(s, x)) = ToSet(s) \cup {x}
         /\ Distinct(s) /\ x \notin ToSet(s) => Distinct(Append(s, x))
<1> DEFINE t == Append(s, x)
<1>1. /\ t \in Seq(T) /\ Len(s) \in Nat /\ Len(t) = Len(s) + 1
      /\ DOMAIN t = 1..Len(s) + 1 /\ DOMAIN s = 1..Len(s)
      /\ t[Len(s) + 1] = x /\ \A i \in 1..Len(s) : t[i] = s[i]
  OBVIOUS
<1> HIDE DEF t
<1>2. \A i \in 1..Len(s) + 1 : i \in 1..Len(s) \/ i = Len(s) + 1
  BY <1>1
<1>3. ToSet(t) = ToSet(s) \cup {x}
  <2>1. \A i \in DOMAIN t : t[i] \in ToSet(s) \cup {x}
    BY <1>1, <1>2 DEF ToSet
  <2>2. x \in ToSet(t)
    BY <1>1 DEF ToSet
  <2>3. \A i \in DOMAIN s : s[i] \in ToSet(t)
    BY <1>1 DEF ToSet
  <2> QED BY <2>1, <2>2, <2>3 DEF ToSet
<1>4. ASSUME Distinct(s), x \notin ToSet(s) PROVE Distinct(t)
  <2> SUFFICES ASSUME NEW i \in 1..Len(t), NEW j \in 1..Len(t), t[i] = t[j] PROVE i = j
    BY DEF Distinct
  <2>1. \A k \in 1..Len(s) : s[k] # x
    BY <1>1, <1>4 DEF ToSet
  <2> QED BY <1>1, <1>2, <1>4, <2>1 DEF Distinct
<1> QED BY <1>1, <1>3, <1>4 DEF t

LEMMA Joined ==
  ASSUME NEW T, NEW s \in Seq(T), NEW t \in Seq(T)
  PROVE  /\ s \o t \in Seq(T) /\ Len(s \o t) = Len(s) + Len(t)
         /\ ToSet(s \o t) = ToSet(s) \cup ToSet(t)
         /\ Distinct(s) /\ Distinct(t) /\ ToSet(s) \cap ToSet(t) = {} => Distinct(s \o t)
<1> DEFINE u == s \o t
<1>1. /\ u \in Seq(T) /\ Len(s) \in Nat /\ Len(t) \in Nat /\ Len(u) = Len(s) + Len(t)
      /\ DOMAIN u = 1..Len(s) + Len(t) /\ DOMAIN s = 1..Len(s) /\ DOMAIN t = 1..Len(t)
      /\ \A i \in 1..Len(s) : u[i] = s[i]
      /\ \A i \in 1..Len(t) : u[Len(s) + i] = t[i]
  OBVIOUS
<1> HIDE DEF u
<1>2. ASSUME NEW i \in 1..Len(s) + Len(t)
      PROVE  \/ i \in 1..Len(s)
             \/ i - Len(s) \in 1..Len(t) /\ Len(s) + (i - Len(s)) = i
  BY <1>1
<1>3. ToSet(u) = ToSet(s) \cup ToSet(t)
  <2>1. ASSUME NEW i \in DOMAIN u PROVE u[i] \in ToSet(s) \cup ToSet(t)
    <3>1. CASE i \in 1..Len(s)
      BY <1>1, <3>1 DEF ToSet
    <3>2. CASE i - Len(s) \in 1..Len(t) /\ Len(s) + (i - Len(s)) = i
      <4>1. u[i] = t[i - Len(s)]
        BY <1>1, <3>2
      <4> QED BY <1>1, <3>2, <4>1 DEF ToSet
    <3> QED BY <1>1, <1>2, <3>1, <3>2
  <2>2. \A i \in DOMAIN s : s[i] \in ToSet(u)
    <3>1. 1..Len(s) \in SUBSET (1..Len(s) + Len(t))
      BY <1>1
    <3> QED BY <1>1, <3>1 DEF ToSet
  <2>3. \A i \in DOMAIN t : t[i] \in ToSet(u)
    <3>1. \A i \in 1..Len(t) : Len(s) + i \in 1..Len(s) + Len(t)
      BY <1>1
    <3> QED BY <1>1, <3>1 DEF ToSet
  <2> QED BY <2>1, <2>2, <2>3 DEF ToSet
<1>4. ASSUME Distinct(s), Distinct(t), ToSet(s) \cap ToSet(t) = {} PROVE Distinct(u)
  <2> SUFFICES ASSUME NEW i \in 1..Len(u), NEW j \in 1..Len(u), u[i] = u[j] PROVE i = j
    BY DEF Distinct
  <2>1. \A k \in 1..Len(s), l \in 1..Len(t) : s[k] # t[l]
    BY <1>1, <1>4 DEF ToSet
  <2> DEFINE In(k) == k - Len(s) \in 1..Len(t) /\ Len(s) + (k - Len(s)) = k
  <2>2. \A k \in 1..Len(u) : (k \in 1..Len(s) /\ u[k] = s[k]) \/ (In(k) /\ u[k] = t[k - Len(s)])
    BY <1>1, <1>2
  <2>3. CASE i \in 1..Len(s) /\ j \in 1..Len(s) /\ u[i] = s[i] /\ u[j] = s[j]
    BY <1>4, <2>3 DEF Distinct
  <2>4. CASE In(i) /\ In(j) /\ u[i] = t[i - Len(s)] /\ u[j] = t[j - Len(s)]
    <3>1. i - Len(s) = j - Len(s)
      BY <1>4, <2>4 DEF Distinct
    <3> QED BY <2>4, <3>1
  <2>5. CASE i \in 1..Len(s) /\ In(j) /\ u[i] = s[i] /\ u[j] = t[j - Len(s)]
    BY <2>1, <2>5
  <2>6. CASE j \in 1..Len(s) /\ In(i) /\ u[j] = s[j] /\ u[i] = t[i - Len(s)]
    BY <2>1, <2>6
  <2> HIDE DEF In
  <2> QED BY <2>2, <2>3, <2>4, <2>5, <2>6
<1> QED BY <1>1, <1>3, <1>4 DEF u

-----------------------------------------------------------------------------
(* The scheduler's invariant                                               *)

\* Every request is in one place, once: in the queue, in the list, or parked.
Roster ==
  /\ waiting \in Seq(Streams) /\ Distinct(waiting)
  /\ running \in Seq(Streams) /\ Distinct(running)
  /\ parked \in SUBSET Streams
  /\ ToSet(waiting) \cap ToSet(running) = {}
  /\ ToSet(waiting) \cap parked = {}
  /\ ToSet(running) \cap parked = {}

Records ==
  /\ chunk \in [Streams -> Nat]
  /\ computed \in [Streams -> Nat]
  /\ ended \in SUBSET Streams
  /\ started \in SUBSET Streams
  /\ last \in [Streams -> -1..Cardinality(Streams)]
  /\ pause \in {"unpaused", "new", "all"}

SchedulerInv == Roster /\ Records /\ AdmissionBounded

LEMMA StreamsFinite ==
  /\ IsFiniteSet(Streams) /\ Cardinality(Streams) \in Nat
  /\ MaxRunning \in Nat \ {0} /\ FreshBatch \in Nat \ {0} /\ ContBatch \in Nat \ {0}
  BY SchedulerAssumption, FS_CardinalityType

\* Parked streams are counted, and each parking counts for one.
LEMMA ParkedCount ==
  ASSUME NEW P \in SUBSET Streams, NEW r \in Streams
  PROVE  /\ Cardinality(P) \in Nat
         /\ r \notin P => Cardinality(P \cup {r}) = Cardinality(P) + 1
         /\ r \in P => Cardinality(P \ {r}) = Cardinality(P) - 1
         /\ r \notin P => P \ {r} = P
<1>1. IsFiniteSet(P)
  BY StreamsFinite, FS_Subset
<1> QED BY <1>1, FS_CardinalityType, FS_AddElement, FS_RemoveElement

LEMMA ListMembers == ASSUME NEW s \in Seq(Streams) PROVE ToSet(s) \in SUBSET Streams
  BY DEF ToSet

LEMMA InitScheduler == Init => SchedulerInv
<1> SUFFICES ASSUME Init PROVE SchedulerInv
  OBVIOUS
<1>1. Roster
  BY DEF Init, Roster, Distinct, ToSet
<1>2. Records
  BY StreamsFinite DEF Init, Records
<1>3. AdmissionBounded
  <2>1. Len(running) = 0 /\ Cardinality(parked) = 0
    BY FS_EmptySet DEF Init
  <2> QED BY <2>1, StreamsFinite DEF AdmissionBounded, Occupied
<1> QED BY <1>1, <1>2, <1>3 DEF SchedulerInv

-----------------------------------------------------------------------------
(* Admission                                                               *)

\* The places of the queue the admission loop takes.
Taken(ids) == {j \in DOMAIN waiting : Reached(j, ids) /\ Candidate(waiting[j], ids)}

\* The candidates ahead of a place.
Before(i, ids) == {j \in 1..i - 1 : Candidate(waiting[j], ids)}

LEMMA BeforeFinite ==
  ASSUME NEW ids, NEW i \in Nat
  PROVE  IsFiniteSet(Before(i, ids)) /\ Cardinality(Before(i, ids)) \in Nat
<1>1. IsFiniteSet(1..i - 1) /\ Before(i, ids) \in SUBSET (1..i - 1)
  BY FS_Interval DEF Before
<1> QED BY <1>1, FS_Subset, FS_CardinalityType

LEMMA OccupiedNat == ASSUME SchedulerInv PROVE Occupied \in Nat /\ Occupied <= MaxRunning
<1>1. running \in Seq(Streams) /\ parked \in SUBSET Streams
  BY DEF SchedulerInv, Roster
<1>2. Len(running) \in Nat /\ Cardinality(parked) \in Nat
  BY <1>1, StreamsFinite, FS_Subset, FS_CardinalityType
<1>3. Occupied <= MaxRunning
  BY DEF SchedulerInv, AdmissionBounded
<1> QED BY <1>2, <1>3 DEF Occupied

\* The loop takes no more than the slots that are free: those taken before the
\* last one leave a slot for it.
LEMMA TakenFit ==
  ASSUME SchedulerInv, NEW ids
  PROVE  /\ IsFiniteSet(Taken(ids)) /\ Cardinality(Taken(ids)) \in Nat
         /\ Occupied + Cardinality(Taken(ids)) <= MaxRunning
<1>1. /\ waiting \in Seq(Streams) /\ Len(waiting) \in Nat /\ DOMAIN waiting = 1..Len(waiting)
  BY DEF SchedulerInv, Roster
<1>2. Taken(ids) \in SUBSET (1..Len(waiting))
  BY <1>1 DEF Taken
<1>3. IsFiniteSet(Taken(ids)) /\ Cardinality(Taken(ids)) \in Nat
  BY <1>1, <1>2, PlacesFinite
<1>4. CASE Taken(ids) = {}
  <2>1. Cardinality(Taken(ids)) = 0
    BY <1>4, FS_EmptySet
  <2> QED BY <1>3, <2>1, OccupiedNat, StreamsFinite
<1>5. CASE Taken(ids) # {}
  <2>1. PICK i \in Taken(ids) : \A j \in Taken(ids) : j <= i
    BY <1>1, <1>2, <1>5, FirstAndLast
  <2>2. i \in 1..Len(waiting) /\ Occupied + Cardinality(Before(i, ids)) < MaxRunning
    BY <1>2, <2>1 DEF Taken, Reached, Before
  <2>3. Taken(ids) \ {i} \in SUBSET Before(i, ids)
    <3> SUFFICES ASSUME NEW j \in Taken(ids), j # i PROVE j \in Before(i, ids)
      OBVIOUS
    <3>1. j \in 1..Len(waiting) /\ j <= i /\ Candidate(waiting[j], ids)
      BY <1>2, <2>1 DEF Taken
    <3>2. j \in 1..i - 1
      BY <1>1, <2>2, <3>1
    <3> QED BY <3>1, <3>2 DEF Before
  <2>4. /\ IsFiniteSet(Before(i, ids)) /\ Cardinality(Before(i, ids)) \in Nat
    BY <2>2, BeforeFinite
  <2>5. Cardinality(Taken(ids) \ {i}) = Cardinality(Taken(ids)) - 1
    BY <1>3, <2>1, FS_RemoveElement
  <2>6. Cardinality(Taken(ids) \ {i}) <= Cardinality(Before(i, ids))
    BY <2>3, <2>4, FS_Subset
  <2>7. PICK o \in Nat, n \in Nat, b \in Nat, m \in Nat :
          /\ o = Occupied /\ n = Cardinality(Taken(ids)) /\ b = Cardinality(Before(i, ids))
          /\ m = MaxRunning
    BY <1>3, <2>4, OccupiedNat, StreamsFinite
  <2>8. n - 1 <= b /\ o + b < m
    BY <2>2, <2>5, <2>6, <2>7
  <2>9. o + n <= m
    BY <2>8
  <2> QED BY <1>3, <2>7, <2>9
<1> QED BY <1>4, <1>5

\* A stream waits in one place, so those taken are where they were.
LEMMA TakenPlaces ==
  ASSUME SchedulerInv, NEW ids
  PROVE  /\ PlacesOf(waiting, Admitted(ids)) = Taken(ids)
         /\ Admitted(ids) \in SUBSET ToSet(waiting)
<1>1. /\ waiting \in Seq(Streams) /\ DOMAIN waiting = 1..Len(waiting) /\ Distinct(waiting)
  BY DEF SchedulerInv, Roster
<1>2. Taken(ids) \in SUBSET DOMAIN waiting /\ Admitted(ids) = {waiting[i] : i \in Taken(ids)}
  BY DEF Taken, Admitted
<1>3. Admitted(ids) \in SUBSET ToSet(waiting)
  BY <1>2 DEF ToSet
<1>4. ASSUME NEW i \in DOMAIN waiting, waiting[i] \in Admitted(ids) PROVE i \in Taken(ids)
  <2>1. PICK j \in Taken(ids) : waiting[i] = waiting[j]
    BY <1>2, <1>4
  <2>2. i = j
    BY <1>1, <1>2, <2>1 DEF Distinct
  <2> QED BY <2>1, <2>2
<1> QED BY <1>2, <1>3, <1>4 DEF PlacesOf

-----------------------------------------------------------------------------
(* The steps keep the invariant                                            *)

\* The ranks the last steps are kept as never pass the number of streams.
LEMMA RankedType ==
  ASSUME Records, NEW now
  PROVE  Ranked(now) \in [Streams -> -1..Cardinality(Streams)]
<1> DEFINE N == Cardinality(Streams)
           step == [r \in Streams |-> IF r \in now THEN N
                                      ELSE IF r \in Active THEN last[r] ELSE -1]
           steps == {step[r] : r \in Streams}
           rank == [k \in -1..N |-> IF k = -1 THEN -1 ELSE Cardinality(steps \cap 0..k - 1)]
<1>1. N \in Nat /\ last \in [Streams -> -1..N]
  BY StreamsFinite DEF Records
<1>2. step \in [Streams -> -1..N]
  BY <1>1
<1>3. ASSUME NEW k \in 0..N PROVE Cardinality(steps \cap 0..k - 1) \in 0..N
  <2> HIDE DEF N, step
  <2>1. IsFiniteSet(0..k - 1) /\ Cardinality(0..k - 1) = IF 0 > k - 1 THEN 0 ELSE (k - 1) - 0 + 1
    BY <1>1, FS_Interval
  <2>2. Cardinality(0..k - 1) = k
    BY <1>1, <2>1
  <2> DEFINE B == steps \cap 0..k - 1
  <2>3. B \in SUBSET (0..k - 1)
    OBVIOUS
  <2> HIDE DEF B
  <2>4. Cardinality(B) \in Nat /\ Cardinality(B) <= Cardinality(0..k - 1)
    BY <2>1, <2>3, FS_Subset, FS_CardinalityType
  <2>5. Cardinality(B) \in 0..N
    BY <1>1, <2>2, <2>4
  <2> QED BY <2>5 DEF B
<1> HIDE DEF steps
<1>4. rank \in [-1..N -> -1..N]
  <2> HIDE DEF N
  <2>1. ASSUME NEW k \in -1..N
        PROVE  (IF k = -1 THEN -1 ELSE Cardinality(steps \cap 0..k - 1)) \in -1..N
    <3>1. k = -1 \/ k \in 0..N
      BY <1>1
    <3>2. -1 \in -1..N /\ \A x \in 0..N : x \in -1..N
      BY <1>1
    <3> QED BY <1>3, <3>1, <3>2
  <2> QED BY <2>1
<1>5. Ranked(now) = [r \in Streams |-> rank[step[r]]]
  BY DEF Ranked, steps
<1> HIDE DEF N, step, rank
<1> QED BY <1>2, <1>4, <1>5 DEF N

\* A schedule moves those admitted behind the running streams and lets the
\* finished ones go.
Moves(ids) ==
  /\ waiting' = Those(waiting, Streams \ (Admitted(ids) \cup Closing(ids)))
  /\ running' = Those(running \o Those(waiting, Admitted(ids)), Streams \ Closing(ids))
  /\ parked' = parked

LEMMA ScheduleMoves ==
  ASSUME SchedulerInv, Schedule
  PROVE  (\E ids : Moves(ids)) /\ Records'
<1>1. PICK sel : \E closing, now :
        /\ closing = Closing(sel.ids) /\ now = GoRunning(sel.ids) \cup Admitted(sel.ids)
        /\ waiting' = Those(waiting, Streams \ (Admitted(sel.ids) \cup closing))
        /\ running' = Those(running \o Those(waiting, Admitted(sel.ids)), Streams \ closing)
        /\ parked' = parked /\ pause' = pause
        /\ computed' = [r \in Streams |-> IF r \in now THEN chunk[r]
                                          ELSE IF r \in closing THEN 0 ELSE computed[r]]
        /\ chunk' = [r \in Streams |-> IF r \in closing THEN 0 ELSE chunk[r]]
        /\ ended' = ended \ closing
        /\ started' = (started \cap Active) \cup Starters(now)
        /\ last' = Ranked(now)
  BY DEF Schedule
<1>2. Moves(sel.ids)
  BY <1>1 DEF Moves
<1>3. PICK closing, now :
        /\ now = GoRunning(sel.ids) \cup Admitted(sel.ids)
        /\ pause' = pause
        /\ computed' = [r \in Streams |-> IF r \in now THEN chunk[r]
                                          ELSE IF r \in closing THEN 0 ELSE computed[r]]
        /\ chunk' = [r \in Streams |-> IF r \in closing THEN 0 ELSE chunk[r]]
        /\ ended' = ended \ closing
        /\ started' = (started \cap Active) \cup Starters(now)
        /\ last' = Ranked(now)
  BY <1>1
<1>4. Records /\ waiting \in Seq(Streams) /\ running \in Seq(Streams)
  BY DEF SchedulerInv, Roster
<1>5. now \in SUBSET Streams
  <2>1. Admitted(sel.ids) \in SUBSET Streams
    BY <1>4, TakenPlaces, ListMembers
  <2>2. GoRunning(sel.ids) \in SUBSET ToSet(running)
    BY DEF GoRunning
  <2>3. GoRunning(sel.ids) \in SUBSET Streams
    BY <1>4, <2>2, ListMembers
  <2> QED BY <1>3, <2>1, <2>3
<1>6. Starters(now) \in SUBSET Streams
  BY <1>5 DEF Starters
<1>7. chunk' \in [Streams -> Nat] /\ computed' \in [Streams -> Nat]
  BY <1>3, <1>4 DEF Records
<1>8. last' \in [Streams -> -1..Cardinality(Streams)]
  BY <1>3, <1>4, RankedType
<1>9. Records'
  BY <1>3, <1>4, <1>6, <1>7, <1>8 DEF Records
<1> QED BY <1>2, <1>9

LEMMA ScheduleInv == ASSUME SchedulerInv, Schedule PROVE SchedulerInv'
<1>1. PICK ids : Moves(ids)
  BY ScheduleMoves
<1> DEFINE A == Admitted(ids)
           C == Closing(ids)
           joining == Those(waiting, A)
           all == running \o joining
<1>2. /\ waiting \in Seq(Streams) /\ Distinct(waiting)
      /\ running \in Seq(Streams) /\ Distinct(running)
      /\ parked \in SUBSET Streams
      /\ ToSet(waiting) \cap ToSet(running) = {}
      /\ ToSet(waiting) \cap parked = {}
      /\ ToSet(running) \cap parked = {}
  BY DEF SchedulerInv, Roster
<1>3. /\ waiting' = Those(waiting, Streams \ (A \cup C))
      /\ running' = Those(all, Streams \ C) /\ parked' = parked
  BY <1>1 DEF Moves
<1>4. A \in SUBSET ToSet(waiting) /\ PlacesOf(waiting, A) = Taken(ids)
  BY TakenPlaces
<1> HIDE DEF A, C
<1>5. /\ joining \in Seq(Streams) /\ ToSet(joining) = ToSet(waiting) \cap A
      /\ Len(joining) = Cardinality(Taken(ids)) /\ Distinct(joining)
  BY <1>2, <1>4, ThoseAre
<1> HIDE DEF joining
<1>6. /\ all \in Seq(Streams) /\ Len(all) = Len(running) + Len(joining)
      /\ ToSet(all) = ToSet(running) \cup ToSet(joining) /\ Distinct(all)
  <2>1. ToSet(running) \cap ToSet(joining) = {}
    BY <1>2, <1>5
  <2> QED BY <1>2, <1>5, <2>1, Joined
<1> HIDE DEF all
<1>7. /\ running' \in Seq(Streams) /\ Distinct(running')
      /\ ToSet(running') = ToSet(all) \cap (Streams \ C)
      /\ Len(running') \in 0..Len(all)
  <2>1. PICK t : t = Those(all, Streams \ C)
    OBVIOUS
  <2>2. /\ t \in Seq(Streams) /\ Distinct(t)
        /\ ToSet(t) = ToSet(all) \cap (Streams \ C) /\ Len(t) \in 0..Len(all)
    BY <1>6, <2>1, ThoseAre
  <2>3. running' = t
    BY <1>3, <2>1
  <2> QED BY <2>2, <2>3
<1>8. /\ waiting' \in Seq(Streams) /\ Distinct(waiting')
      /\ ToSet(waiting') = ToSet(waiting) \cap (Streams \ (A \cup C))
  <2>1. PICK t : t = Those(waiting, Streams \ (A \cup C))
    OBVIOUS
  <2>2. /\ t \in Seq(Streams) /\ Distinct(t)
        /\ ToSet(t) = ToSet(waiting) \cap (Streams \ (A \cup C))
    BY <1>2, <2>1, ThoseAre
  <2>3. waiting' = t
    BY <1>3, <2>1
  <2> QED BY <2>2, <2>3
<1>9. Roster'
  <2>1. /\ ToSet(waiting') \cap ToSet(running') = {}
        /\ ToSet(waiting') \cap parked' = {}
        /\ ToSet(running') \cap parked' = {}
    BY <1>2, <1>3, <1>4, <1>5, <1>6, <1>7, <1>8
  <2> QED BY <1>2, <1>3, <1>7, <1>8, <2>1 DEF Roster
<1>10. AdmissionBounded'
  <2>1. Occupied = Len(running) + Cardinality(parked)
        /\ Occupied' = Len(running') + Cardinality(parked')
    BY DEF Occupied
  <2>2. PICK l \in Nat, n \in Nat, p \in Nat, m \in Nat, l2 \in Nat :
          /\ l = Len(running) /\ n = Cardinality(Taken(ids)) /\ p = Cardinality(parked)
          /\ m = MaxRunning /\ l2 = Len(running')
    <3>1. Len(running) \in Nat /\ Cardinality(parked) \in Nat /\ Cardinality(Taken(ids)) \in Nat
      BY <1>2, TakenFit, StreamsFinite, FS_Subset, FS_CardinalityType
    <3>2. Len(running') \in Nat /\ MaxRunning \in Nat
      BY <1>7, StreamsFinite
    <3> QED BY <3>1, <3>2
  <2>3. l + p + n <= m
    BY <2>1, <2>2, TakenFit
  <2>4. l2 <= l + n
    BY <1>5, <1>6, <1>7, <2>2
  <2>5. l2 + p <= m
    BY <2>3, <2>4
  <2> QED BY <1>3, <2>1, <2>2, <2>5 DEF AdmissionBounded
<1>11. Records'
  BY ScheduleMoves
<1> QED BY <1>9, <1>10, <1>11 DEF SchedulerInv

\* A step that keeps the lists, and takes no slot more, keeps the invariant.
LEMMA Placed ==
  ASSUME SchedulerInv, Records',
         NEW wait \in Seq(Streams), NEW run \in Seq(Streams), NEW park \in SUBSET Streams,
         waiting' = wait, running' = run, parked' = park,
         Distinct(wait), Distinct(run),
         ToSet(wait) \cap ToSet(run) = {}, ToSet(wait) \cap park = {}, ToSet(run) \cap park = {},
         Len(run) + Cardinality(park) <= Len(running) + Cardinality(parked)
  PROVE  SchedulerInv'
<1>1. Roster'
  <2>1. /\ waiting' \in Seq(Streams) /\ Distinct(waiting')
        /\ running' \in Seq(Streams) /\ Distinct(running')
        /\ parked' \in SUBSET Streams
        /\ ToSet(waiting') \cap ToSet(running') = {}
        /\ ToSet(waiting') \cap parked' = {}
        /\ ToSet(running') \cap parked' = {}
    OBVIOUS
  <2> QED BY <2>1 DEF Roster
<1>2. AdmissionBounded'
  <2>1. Len(running) + Cardinality(parked) <= MaxRunning
    BY DEF SchedulerInv, AdmissionBounded, Occupied
  <2>2. /\ Len(run) \in Nat /\ Len(running) \in Nat
        /\ Cardinality(park) \in Nat /\ Cardinality(parked) \in Nat /\ MaxRunning \in Nat
    BY StreamsFinite, FS_Subset, FS_CardinalityType DEF SchedulerInv, Roster
  <2>3. Len(run) + Cardinality(park) <= MaxRunning
    BY <2>1, <2>2
  <2>4. Occupied' = Len(run) + Cardinality(park)
    BY DEF Occupied
  <2> QED BY <2>3, <2>4 DEF AdmissionBounded
<1> QED BY <1>1, <1>2 DEF SchedulerInv

LEMMA Lists ==
  ASSUME SchedulerInv
  PROVE  /\ waiting \in Seq(Streams) /\ Distinct(waiting)
         /\ running \in Seq(Streams) /\ Distinct(running)
         /\ parked \in SUBSET Streams /\ Records
         /\ ToSet(waiting) \cap ToSet(running) = {}
         /\ ToSet(waiting) \cap parked = {}
         /\ ToSet(running) \cap parked = {}
         /\ Len(running) \in Nat /\ Cardinality(parked) \in Nat
  BY StreamsFinite, FS_Subset, FS_CardinalityType DEF SchedulerInv, Roster

LEMMA SubmitScheduler ==
  ASSUME SchedulerInv, NEW r \in Streams, Submit(r)
  PROVE  SchedulerInv'
<1>1. Records'
  BY Lists DEF Submit, Records
<1>2. /\ r \notin ToSet(waiting) /\ r \notin ToSet(running) /\ r \notin parked
      /\ waiting' = Append(waiting, r) /\ running' = running /\ parked' = parked
  BY DEF Submit, Active
<1>3. PICK wait \in Seq(Streams) :
        /\ wait = Append(waiting, r) /\ Distinct(wait) /\ ToSet(wait) = ToSet(waiting) \cup {r}
  BY <1>2, Lists, Appended
<1>4. ToSet(wait) \cap ToSet(running) = {} /\ ToSet(wait) \cap parked = {}
  BY <1>2, <1>3, Lists
<1>5. Len(running) + Cardinality(parked) <= Len(running) + Cardinality(parked)
  BY Lists
<1> QED BY <1>1, <1>2, <1>3, <1>4, <1>5, Lists, Placed

LEMMA ParkInv ==
  ASSUME SchedulerInv, NEW r \in Streams, Park(r)
  PROVE  SchedulerInv'
<1>1. Records'
  BY Lists DEF Park, Records
<1>2. /\ r \in ToSet(running) /\ r \notin parked
      /\ waiting' = waiting /\ running' = Those(running, Streams \ {r})
      /\ parked' = parked \cup {r}
  BY Lists DEF Park
<1>3. PICK run \in Seq(Streams) :
        /\ run = Those(running, Streams \ {r}) /\ Distinct(run)
        /\ ToSet(run) = ToSet(running) \cap (Streams \ {r})
        /\ Len(run) + 1 <= Len(running)
  BY <1>2, Lists, ThoseAre, ThoseFewer
<1>4. Cardinality(parked \cup {r}) = Cardinality(parked) + 1
  BY <1>2, Lists, ParkedCount
<1>5. /\ ToSet(waiting) \cap ToSet(run) = {} /\ ToSet(waiting) \cap (parked \cup {r}) = {}
      /\ ToSet(run) \cap (parked \cup {r}) = {}
  BY <1>2, <1>3, Lists
<1>6. Len(run) + Cardinality(parked \cup {r}) <= Len(running) + Cardinality(parked)
  BY <1>3, <1>4, Lists
<1>7. parked \cup {r} \in SUBSET Streams
  BY Lists
<1> QED BY <1>1, <1>2, <1>3, <1>5, <1>6, <1>7, Lists, Placed

\* A parked stream comes back: to the list, into the slot it kept, or to the
\* end of the queue, without it.
LEMMA Returned ==
  ASSUME SchedulerInv, Records', NEW r \in parked, parked' = parked \ {r},
         \/ running' = Append(running, r) /\ waiting' = waiting
         \/ waiting' = Append(waiting, r) /\ running' = running
  PROVE  SchedulerInv'
<1>1. /\ r \in Streams /\ r \notin ToSet(waiting) /\ r \notin ToSet(running)
      /\ Cardinality(parked \ {r}) = Cardinality(parked) - 1
      /\ parked \ {r} \in SUBSET Streams
  BY Lists, ParkedCount
<1>2. CASE running' = Append(running, r) /\ waiting' = waiting
  <2>1. PICK run \in Seq(Streams) :
          /\ run = Append(running, r) /\ Distinct(run) /\ ToSet(run) = ToSet(running) \cup {r}
          /\ Len(run) = Len(running) + 1
    BY <1>1, Lists, Appended
  <2>2. /\ ToSet(waiting) \cap ToSet(run) = {} /\ ToSet(waiting) \cap (parked \ {r}) = {}
        /\ ToSet(run) \cap (parked \ {r}) = {}
    BY <1>1, <2>1, Lists
  <2>3. Len(run) + Cardinality(parked \ {r}) <= Len(running) + Cardinality(parked)
    BY <1>1, <2>1, Lists
  <2> QED BY <1>1, <1>2, <2>1, <2>2, <2>3, Lists, Placed
<1>3. CASE waiting' = Append(waiting, r) /\ running' = running
  <2>0. waiting \in Seq(Streams) /\ Distinct(waiting) /\ r \in Streams /\ r \notin ToSet(waiting)
    BY <1>1, Lists
  <2>1. PICK wait \in Seq(Streams) :
          /\ wait = Append(waiting, r) /\ Distinct(wait) /\ ToSet(wait) = ToSet(waiting) \cup {r}
    <3>1. /\ Append(waiting, r) \in Seq(Streams) /\ Distinct(Append(waiting, r))
          /\ ToSet(Append(waiting, r)) = ToSet(waiting) \cup {r}
      BY <2>0, Appended
    <3> QED BY <3>1
  <2>2. /\ ToSet(wait) \cap ToSet(running) = {} /\ ToSet(wait) \cap (parked \ {r}) = {}
        /\ ToSet(running) \cap (parked \ {r}) = {}
    BY <1>1, <2>1, Lists
  <2>3. Len(running) + Cardinality(parked \ {r}) <= Len(running) + Cardinality(parked)
    BY <1>1, Lists
  <2> QED BY <1>1, <1>3, <2>1, <2>2, <2>3, Lists, Placed
<1> QED BY <1>2, <1>3

LEMMA Unmoved ==
  ASSUME SchedulerInv, Records', waiting' = waiting, running' = running, parked' = parked
  PROVE  SchedulerInv'
<1>1. Len(running) + Cardinality(parked) <= Len(running) + Cardinality(parked)
  BY Lists
<1> QED BY <1>1, Lists, Placed

LEMMA ChunkInv ==
  ASSUME SchedulerInv, NEW r \in Streams, NEW n \in ChunkSizes, NEW final \in BOOLEAN,
         Chunk(r, n, final)
  PROVE  SchedulerInv'
<1>1. Records'
  <2>1. n \in Nat
    BY SchedulerAssumption
  <2>2. chunk' \in [Streams -> Nat] /\ computed' \in [Streams -> Nat]
    BY <2>1, Lists DEF Chunk, Records
  <2>3. ended' \in SUBSET Streams
    BY Lists DEF Chunk, Records
  <2> QED BY <2>2, <2>3, Lists DEF Chunk, Records
<1>2. CASE r \in parked
  BY <1>1, <1>2, Returned DEF Chunk
<1>3. CASE r \notin parked
  <2>1. parked' = parked /\ waiting' = waiting /\ running' = running
    BY <1>3 DEF Chunk
  <2> QED BY <1>1, <2>1, Unmoved
<1> QED BY <1>2, <1>3

LEMMA LastChunkInv ==
  ASSUME SchedulerInv, NEW r \in Streams, LastChunk(r)
  PROVE  SchedulerInv'
<1>1. Records'
  BY Lists DEF LastChunk, Records
<1>2. CASE r \in parked
  BY <1>1, <1>2, Returned DEF LastChunk
<1>3. CASE r \notin parked
  <2>1. parked' = parked /\ waiting' = waiting /\ running' = running
    BY <1>3 DEF LastChunk
  <2> QED BY <1>1, <2>1, Unmoved
<1> QED BY <1>2, <1>3

LEMMA CancelInv ==
  ASSUME SchedulerInv, NEW r \in Streams, Cancel(r)
  PROVE  SchedulerInv'
<1>1. Records'
  BY Lists DEF Cancel, Records
<1>2. PICK wait \in Seq(Streams) :
        /\ wait = Those(waiting, Streams \ {r}) /\ Distinct(wait)
        /\ ToSet(wait) = ToSet(waiting) \cap (Streams \ {r})
  BY Lists, ThoseAre
<1>3. PICK run \in Seq(Streams) :
        /\ run = Those(running, Streams \ {r}) /\ Distinct(run)
        /\ ToSet(run) = ToSet(running) \cap (Streams \ {r})
        /\ Len(run) \in 0..Len(running)
  BY Lists, ThoseAre
<1>4. PICK park \in SUBSET Streams : park = parked \ {r}
  BY Lists
<1>5. Cardinality(park) <= Cardinality(parked) /\ Cardinality(park) \in Nat
  <2>1. IsFiniteSet(parked) /\ park \in SUBSET parked
    BY <1>4, Lists, StreamsFinite, FS_Subset
  <2> QED BY <2>1, FS_Subset, FS_CardinalityType
<1>6. waiting' = wait /\ running' = run /\ parked' = park
  BY <1>2, <1>3, <1>4 DEF Cancel
<1>7. ToSet(wait) \cap ToSet(run) = {} /\ ToSet(wait) \cap park = {} /\ ToSet(run) \cap park = {}
  BY <1>2, <1>3, <1>4, Lists
<1>8. Len(run) + Cardinality(park) <= Len(running) + Cardinality(parked)
  BY <1>3, <1>5, Lists
<1> QED BY <1>1, <1>2, <1>3, <1>6, <1>7, <1>8, Placed

LEMMA NextScheduler == SchedulerInv /\ [Next]_vars => SchedulerInv'
<1> SUFFICES ASSUME SchedulerInv, [Next]_vars PROVE SchedulerInv'
  OBVIOUS
<1>1. CASE Schedule
  BY <1>1, ScheduleInv
<1>2. ASSUME NEW r \in Streams, Submit(r) \/ Park(r) \/ LastChunk(r) \/ Cancel(r)
      PROVE  SchedulerInv'
  BY <1>2, SubmitScheduler, ParkInv, LastChunkInv, CancelInv
<1>3. ASSUME NEW r \in Streams, NEW n \in ChunkSizes, NEW final \in BOOLEAN, Chunk(r, n, final)
      PROVE  SchedulerInv'
  BY <1>3, ChunkInv
<1>4. ASSUME NEW to \in Pauses, Pause(to) PROVE SchedulerInv'
  <2>1. Records'
    BY <1>4, SchedulerAssumption, Lists DEF Pause, Records
  <2> QED BY <1>4, <2>1, Unmoved DEF Pause
<1>5. CASE UNCHANGED vars
  <2>1. Records'
    BY <1>5, Lists DEF vars, Records
  <2> QED BY <1>5, <2>1, Unmoved DEF vars
<1> QED BY <1>1, <1>2, <1>3, <1>4, <1>5 DEF Next

\* Every request the acoustic stage has is in one place, once, its records are
\* of their types, and the slots suffice.
THEOREM SchedulerInvariant == Spec => []SchedulerInv
<1> QED BY InitScheduler, NextScheduler, PTL DEF Spec

\* Running and parked streams together never outnumber the model runner's
\* slots, whatever order chunks, parkings and admissions come in.
THEOREM SlotsSuffice == Spec => []AdmissionBounded
<1>1. SchedulerInv => AdmissionBounded
  BY DEF SchedulerInv
<1> QED BY <1>1, SchedulerInvariant, PTL

-----------------------------------------------------------------------------
(* The order of the ready streams                                          *)

Listed == ToSet(running) \cup ToSet(waiting)

LEMMA ListedFinite ==
  ASSUME SchedulerInv
  PROVE  /\ Listed \in SUBSET Streams
         /\ \A S \in SUBSET Listed : IsFiniteSet(S) /\ Cardinality(S) \in Nat
<1>1. Listed \in SUBSET Streams
  BY Lists, ListMembers DEF Listed
<1>2. IsFiniteSet(Listed)
  BY <1>1, StreamsFinite, FS_Subset
<1>3. ASSUME NEW S \in SUBSET Listed PROVE IsFiniteSet(S) /\ Cardinality(S) \in Nat
  BY <1>2, FS_Subset, FS_CardinalityType
<1> QED BY <1>1, <1>3

\* No two streams have the same place.
LEMMA Placing ==
  ASSUME SchedulerInv, NEW q \in Listed, NEW r \in Listed
  PROVE  Place(q) \in Nat /\ (Place(q) = Place(r) => q = r)
<1> DEFINE listed == running \o waiting
           at(p) == CHOOSE i \in DOMAIN listed : listed[i] = p
<1>1. listed \in Seq(Streams) /\ ToSet(listed) = Listed
  BY Lists, Joined DEF Listed
<1> HIDE DEF listed
<1>2. DOMAIN listed \in SUBSET Nat
  BY <1>1
<1>3. \A p \in Listed : at(p) \in DOMAIN listed /\ listed[at(p)] = p
  <2> SUFFICES ASSUME NEW p \in Listed PROVE \E i \in DOMAIN listed : listed[i] = p
    OBVIOUS
  <2> QED BY <1>1 DEF ToSet
<1>4. \A p : Place(p) = at(p)
  BY DEF Place, listed
<1> HIDE DEF at
<1> QED BY <1>2, <1>3, <1>4

LEMMA AheadOrder ==
  ASSUME SchedulerInv, NEW p \in Listed, NEW q \in Listed, NEW r \in Listed
  PROVE  /\ ~Ahead(r, r)
         /\ Ahead(p, q) /\ Ahead(q, r) => Ahead(p, r)
         /\ q # r => Ahead(q, r) \/ Ahead(r, q)
<1>1. /\ Place(p) \in Nat /\ Place(q) \in Nat /\ Place(r) \in Nat
      /\ Place(q) = Place(r) => q = r
  BY Placing
<1>2. last[p] \in Int /\ last[q] \in Int /\ last[r] \in Int
  <2>1. last \in [Streams -> -1..Cardinality(Streams)] /\ Cardinality(Streams) \in Nat
    BY Lists, StreamsFinite DEF Records
  <2>2. p \in Streams /\ q \in Streams /\ r \in Streams
    BY ListedFinite
  <2> QED BY <2>1, <2>2
<1> QED BY <1>1, <1>2 DEF Ahead

AheadOf(set, r) == {q \in set : Ahead(q, r)}

Behind(set, r) == {q \in set : Ahead(r, q)}

\* Of some ready streams one is ahead of all others.
LEMMA FirstExists ==
  ASSUME SchedulerInv, NEW set \in SUBSET Listed, set # {}
  PROVE  \E r \in set : \A q \in set : ~Ahead(q, r)
<1> DEFINE T == {Cardinality(AheadOf(set, r)) : r \in set}
<1>1. \A r \in set : /\ AheadOf(set, r) \in SUBSET Listed /\ IsFiniteSet(AheadOf(set, r))
                     /\ Cardinality(AheadOf(set, r)) \in Nat
  BY ListedFinite DEF AheadOf
<1>2. T \in SUBSET Nat /\ T # {}
  BY <1>1
<1>3. PICK n \in T : \A m \in T : n <= m
  BY <1>2, NatMin
<1>4. PICK r \in set : n = Cardinality(AheadOf(set, r))
  OBVIOUS
<1>5. ASSUME NEW q \in set, Ahead(q, r) PROVE FALSE
  <2>1. AheadOf(set, q) \in SUBSET AheadOf(set, r)
    BY <1>5, AheadOrder DEF AheadOf
  <2>2. q \in AheadOf(set, r) /\ q \notin AheadOf(set, q)
    BY <1>5, AheadOrder DEF AheadOf
  <2>3. /\ Cardinality(AheadOf(set, q)) <= Cardinality(AheadOf(set, r))
        /\ Cardinality(AheadOf(set, q)) # Cardinality(AheadOf(set, r))
    BY <1>1, <2>1, <2>2, FS_Subset
  <2>4. Cardinality(AheadOf(set, r)) <= Cardinality(AheadOf(set, q))
    BY <1>3, <1>4
  <2> QED BY <1>1, <2>3, <2>4
<1> QED BY <1>5

\* And one behind all others.
LEMMA LastExists ==
  ASSUME SchedulerInv, NEW set \in SUBSET Listed, set # {}
  PROVE  \E r \in set : \A q \in set : q # r => Ahead(q, r)
<1> DEFINE T == {Cardinality(Behind(set, r)) : r \in set}
<1>1. \A r \in set : /\ Behind(set, r) \in SUBSET Listed /\ IsFiniteSet(Behind(set, r))
                     /\ Cardinality(Behind(set, r)) \in Nat
  BY ListedFinite DEF Behind
<1>2. T \in SUBSET Nat /\ T # {}
  BY <1>1
<1>3. PICK n \in T : \A m \in T : n <= m
  BY <1>2, NatMin
<1>4. PICK r \in set : n = Cardinality(Behind(set, r))
  OBVIOUS
<1>5. ASSUME NEW q \in set, Ahead(r, q) PROVE FALSE
  <2>1. Behind(set, q) \in SUBSET Behind(set, r)
    BY <1>5, AheadOrder DEF Behind
  <2>2. q \in Behind(set, r) /\ q \notin Behind(set, q)
    BY <1>5, AheadOrder DEF Behind
  <2>3. /\ Cardinality(Behind(set, q)) <= Cardinality(Behind(set, r))
        /\ Cardinality(Behind(set, q)) # Cardinality(Behind(set, r))
    BY <1>1, <2>1, <2>2, FS_Subset
  <2>4. Cardinality(Behind(set, r)) <= Cardinality(Behind(set, q))
    BY <1>3, <1>4
  <2> QED BY <1>1, <2>3, <2>4
<1> QED BY <1>5, AheadOrder

\* The first n of some streams are at most n, and hold the one ahead of all.
LEMMA FirstFew ==
  ASSUME SchedulerInv, NEW set \in SUBSET Listed, NEW n \in Nat \ {0}
  PROVE  /\ FirstOf(set, n) \in SUBSET set
         /\ Cardinality(FirstOf(set, n)) <= n
         /\ \A r \in set : (\A q \in set : ~Ahead(q, r)) => r \in FirstOf(set, n)
<1> DEFINE F == FirstOf(set, n)
<1>1. F \in SUBSET set /\ \A r \in F : Cardinality(AheadOf(set, r)) < n
  BY DEF FirstOf, AheadOf
<1>2. ASSUME NEW r \in set, \A q \in set : ~Ahead(q, r) PROVE r \in F
  <2>1. {q \in set : Ahead(q, r)} = {}
    BY <1>2
  <2>2. Cardinality({q \in set : Ahead(q, r)}) = 0
    BY <2>1, FS_EmptySet
  <2> QED BY <2>2 DEF FirstOf
<1> HIDE DEF F
<1>3. F \in SUBSET Listed /\ IsFiniteSet(F) /\ Cardinality(F) \in Nat
  BY <1>1, ListedFinite
<1>4. Cardinality(F) <= n
  <2>1. CASE F = {}
    BY <2>1, FS_EmptySet
  <2>2. CASE F # {}
    <3>1. PICK r \in F : \A q \in F : q # r => Ahead(q, r)
      BY <1>3, <2>2, LastExists
    <3>2. F \ {r} \in SUBSET AheadOf(set, r) /\ AheadOf(set, r) \in SUBSET Listed
      BY <1>1, <3>1 DEF AheadOf
    <3>3. IsFiniteSet(AheadOf(set, r)) /\ Cardinality(AheadOf(set, r)) \in Nat
      BY <3>2, ListedFinite
    <3>4. Cardinality(F \ {r}) <= Cardinality(AheadOf(set, r))
      BY <3>2, <3>3, FS_Subset
    <3>5. Cardinality(F \ {r}) = Cardinality(F) - 1
      BY <1>3, <3>1, FS_RemoveElement
    <3>6. Cardinality(AheadOf(set, r)) < n
      BY <1>1, <3>1
    <3> QED BY <1>3, <3>3, <3>4, <3>5, <3>6
  <2> QED BY <2>1, <2>2
<1> QED BY <1>1, <1>2, <1>4 DEF F

-----------------------------------------------------------------------------
(* Selection                                                               *)

\* What is selected: new streams, or the oldest continuation and others of its
\* geometry.
NewOnes(ids) == ids \cap started = {} /\ Cardinality(ids) <= FreshBatch

TurnOf(ids) ==
  /\ ids \in SUBSET started /\ Cardinality(ids) <= ContBatch
  /\ \A q, r \in ids : chunk[q] = chunk[r]
  /\ \E q \in ids : \A r \in Ready \cap started : last[q] <= last[r]

Selected == Selection(Ready).ids

LEMMA ReadyListed == Ready \in SUBSET Listed
  BY DEF Ready, Listed

LEMMA Turns ==
  ASSUME SchedulerInv, Ready \cap started # {}
  PROVE  LET ids == Turn(Ready \cap started)
         IN  ids \in SUBSET Ready /\ ids # {} /\ TurnOf(ids)
<1> DEFINE C == Ready \cap started
           o == Oldest(C)
           G == SameGeometry(C)
           ids == FirstOf(G, ContBatch)
<1>1. Turn(C) = ids
  BY DEF Turn
<1>2. C \in SUBSET Listed /\ C # {}
  BY ReadyListed
<1>3. \E r \in C : \A q \in C : ~Ahead(q, r)
  <2> HIDE DEF C
  <2> QED BY <1>2, FirstExists
<1>4. o \in C /\ \A q \in C : ~Ahead(q, o)
  <2> HIDE DEF C
  <2> QED BY <1>3 DEF Oldest
<1>5. G = {r \in C : chunk[r] = chunk[o] /\ computed[r] = computed[o]}
  BY DEF SameGeometry
<1> HIDE DEF C, o, G
<1>6. G \in SUBSET C /\ G \in SUBSET Listed /\ o \in G /\ \A q \in G : ~Ahead(q, o)
  BY <1>2, <1>4, <1>5
<1>7. ids \in SUBSET G /\ Cardinality(ids) <= ContBatch /\ o \in ids
  BY <1>6, StreamsFinite, FirstFew
<1> HIDE DEF ids
<1>8. \A q, r \in ids : chunk[q] = chunk[r]
  BY <1>5, <1>7
<1>9. ASSUME NEW r \in C PROVE last[o] <= last[r]
  <2>1. ~Ahead(r, o)
    BY <1>4, <1>9
  <2>2. last[r] \in Int /\ last[o] \in Int
    <3>1. last \in [Streams -> -1..Cardinality(Streams)] /\ Cardinality(Streams) \in Nat
      BY Lists, StreamsFinite DEF Records
    <3>2. r \in Streams /\ o \in Streams
      BY <1>2, <1>4, <1>9, ListedFinite
    <3> QED BY <3>1, <3>2
  <2> QED BY <2>1, <2>2 DEF Ahead
<1>10. TurnOf(ids)
  BY <1>6, <1>7, <1>8, <1>9 DEF TurnOf, C
<1> QED BY <1>1, <1>6, <1>7, <1>10 DEF C, ids

LEMMA SelectedAre ==
  ASSUME SchedulerInv
  PROVE  /\ Selected \in SUBSET Ready
         /\ Ready # {} => Selected # {}
         /\ NewOnes(Selected) \/ TurnOf(Selected)
<1> DEFINE N == Ready \ started
           C == Ready \cap started
<1>1. Selected = IF UseFresh(N, C) THEN FirstOf(N, FreshBatch)
                 ELSE IF C = {} THEN {} ELSE Turn(C)
  BY DEF Selected, Selection
<1>2. CASE UseFresh(N, C)
  <2>1. N # {} /\ N \in SUBSET Listed /\ N \cap started = {} /\ N \in SUBSET Ready
    BY <1>2, ReadyListed DEF UseFresh
  <2>2. Selected = FirstOf(N, FreshBatch)
    BY <1>1, <1>2
  <2> HIDE DEF N
  <2>3. PICK r \in N : \A q \in N : ~Ahead(q, r)
    BY <2>1, FirstExists
  <2>4. FirstOf(N, FreshBatch) \in SUBSET N /\ Cardinality(FirstOf(N, FreshBatch)) <= FreshBatch
        /\ r \in FirstOf(N, FreshBatch)
    BY <2>1, <2>3, StreamsFinite, FirstFew
  <2> QED BY <2>1, <2>2, <2>4 DEF NewOnes
<1>3. CASE ~UseFresh(N, C) /\ C = {}
  <2>1. Selected = {}
    BY <1>1, <1>3
  <2>2. Ready = {}
    BY <1>3 DEF UseFresh
  <2>3. NewOnes({})
    BY FS_EmptySet, StreamsFinite DEF NewOnes
  <2> QED BY <2>1, <2>2, <2>3
<1>4. CASE ~UseFresh(N, C) /\ C # {}
  <2>1. Selected = Turn(C)
    BY <1>1, <1>4
  <2> QED BY <1>4, <2>1, Turns
<1> QED BY <1>2, <1>3, <1>4

-----------------------------------------------------------------------------
(* What is executed                                                        *)

LEMMA BatchIs == Batch = GoRunning(Selected) \cup Admitted(Selected)
  BY DEF Batch, Selected

\* Nothing but what was selected goes.
LEMMA BatchSelected == Batch \in SUBSET Selected
<1>1. GoRunning(Selected) \in SUBSET Selected
  BY DEF GoRunning
<1>2. Admitted(Selected) \in SUBSET Selected
  BY DEF Admitted, Candidate
<1> QED BY <1>1, <1>2, BatchIs

\* While the engine is not paused a selected running stream goes.
LEMMA RunningGo ==
  ASSUME pause = "unpaused", NEW r \in ToSet(running), Required(r) > 0, r \in Selected
  PROVE  r \in Batch
<1>1. r \in GoRunning(Selected)
  BY DEF GoRunning
<1> QED BY <1>1, BatchIs

\* The first candidate of the queue is taken if there is a slot.
LEMMA FirstTaken ==
  ASSUME SchedulerInv, pause = "unpaused", Occupied < MaxRunning,
         NEW ids, NEW r \in ToSet(waiting), Candidate(r, ids)
  PROVE  Admitted(ids) # {}
<1> DEFINE I == {i \in DOMAIN waiting : Candidate(waiting[i], ids)}
<1>1. Len(waiting) \in Nat /\ DOMAIN waiting = 1..Len(waiting)
  BY Lists
<1>2. I \in SUBSET (1..Len(waiting)) /\ I # {}
  BY <1>1 DEF ToSet
<1>3. PICK i \in I : \A j \in I : i <= j
  BY <1>1, <1>2, FirstAndLast
<1>4. i \in 1..Len(waiting) /\ Candidate(waiting[i], ids)
  BY <1>1
<1>5. {j \in 1..i - 1 : Candidate(waiting[j], ids)} = {}
  <2> SUFFICES ASSUME NEW j \in 1..i - 1, Candidate(waiting[j], ids) PROVE FALSE
    OBVIOUS
  <2>1. j \in 1..Len(waiting) /\ ~(i <= j)
    BY <1>1, <1>4
  <2> QED BY <1>1, <1>3, <2>1
<1>6. Cardinality({j \in 1..i - 1 : Candidate(waiting[j], ids)}) = 0
  BY <1>5, FS_EmptySet
<1>7. Reached(i, ids)
  BY <1>6, OccupiedNat DEF Reached
<1>8. waiting[i] \in Admitted(ids)
  BY <1>1, <1>4, <1>7 DEF Admitted
<1> QED BY <1>8

\* When a candidate is refused, the last slot went to those ahead of it.
LEMMA RefusedFull ==
  ASSUME SchedulerInv, pause = "unpaused", NEW ids, NEW r \in ToSet(waiting),
         Candidate(r, ids), r \notin Admitted(ids)
  PROVE  Occupied + Cardinality(Taken(ids)) = MaxRunning
<1> DEFINE I == {i \in DOMAIN waiting : Candidate(waiting[i], ids) /\ ~Reached(i, ids)}
<1>1. Len(waiting) \in Nat /\ DOMAIN waiting = 1..Len(waiting)
  BY Lists
<1>2. I \in SUBSET (1..Len(waiting)) /\ I # {}
  <2>1. PICK i \in DOMAIN waiting : waiting[i] = r
    BY DEF ToSet
  <2>2. ~Reached(i, ids)
    BY <2>1 DEF Admitted
  <2> QED BY <1>1, <2>1, <2>2
<1>3. PICK i \in I : \A j \in I : i <= j
  BY <1>1, <1>2, FirstAndLast
<1>4. i \in 1..Len(waiting) /\ ~Reached(i, ids)
  BY <1>1
<1>5. ~(Occupied + Cardinality(Before(i, ids)) < MaxRunning)
  BY <1>4 DEF Reached, Before
<1>6. Before(i, ids) \in SUBSET Taken(ids)
  <2> SUFFICES ASSUME NEW j \in 1..i - 1, Candidate(waiting[j], ids) PROVE j \in Taken(ids)
    BY DEF Before
  <2>1. j \in DOMAIN waiting /\ ~(i <= j)
    BY <1>1, <1>4
  <2>2. Reached(j, ids)
    BY <1>3, <2>1
  <2> QED BY <2>1, <2>2 DEF Taken
<1>7. Cardinality(Before(i, ids)) \in Nat
  BY <1>4, BeforeFinite
<1>8. /\ IsFiniteSet(Taken(ids)) /\ Cardinality(Taken(ids)) \in Nat
      /\ Occupied + Cardinality(Taken(ids)) <= MaxRunning
  BY TakenFit
<1>9. Cardinality(Before(i, ids)) <= Cardinality(Taken(ids))
  BY <1>6, <1>8, FS_Subset
<1> QED BY <1>5, <1>7, <1>8, <1>9, OccupiedNat, StreamsFinite

\* Those admitted are as many as the places taken.
LEMMA AdmittedCount ==
  ASSUME SchedulerInv, NEW ids
  PROVE  Cardinality(Admitted(ids)) = Cardinality(Taken(ids))
<1> DEFINE f == [i \in Taken(ids) |-> waiting[i]]
<1>1. /\ DOMAIN waiting = 1..Len(waiting) /\ Distinct(waiting)
      /\ Taken(ids) \in SUBSET DOMAIN waiting
      /\ Admitted(ids) = {waiting[i] : i \in Taken(ids)}
  BY Lists DEF Taken, Admitted
<1>2. f \in Bijection(Taken(ids), Admitted(ids))
  <2>1. f \in [Taken(ids) -> Admitted(ids)] /\ \A x \in Admitted(ids) : \E i \in Taken(ids) : f[i] = x
    BY <1>1
  <2>2. \A i, j \in Taken(ids) : f[i] = f[j] => i = j
    BY <1>1 DEF Distinct
  <2> HIDE DEF f
  <2> QED BY <2>1, <2>2 DEF Bijection, Injection, Surjection, IsInjective
<1> HIDE DEF f
<1>3. ExistsBijection(Taken(ids), Admitted(ids))
  BY <1>2 DEF ExistsBijection
<1>4. IsFiniteSet(Taken(ids))
  BY TakenFit
<1> QED BY <1>3, <1>4, FS_Bijection

LEMMA Homogeneous == SchedulerInv => BatchesHomogeneous
<1> SUFFICES ASSUME SchedulerInv PROVE BatchesHomogeneous
  OBVIOUS
<1>1. /\ Batch \in SUBSET Selected /\ Selected \in SUBSET Listed
  BY BatchSelected, SelectedAre, ReadyListed
<1>2. Cardinality(Batch) <= Cardinality(Selected)
      /\ Cardinality(Batch) \in Nat /\ Cardinality(Selected) \in Nat
  BY <1>1, ListedFinite, FS_Subset
<1>3. CASE NewOnes(Selected)
  <2>1. Batch \cap started = {} /\ Cardinality(Batch) <= FreshBatch
    BY <1>1, <1>2, <1>3, StreamsFinite DEF NewOnes
  <2> QED BY <2>1 DEF BatchesHomogeneous
<1>4. CASE TurnOf(Selected)
  <2>1. /\ Batch \subseteq started /\ Cardinality(Batch) <= ContBatch
        /\ \A q, r \in Batch : chunk[q] = chunk[r]
    BY <1>1, <1>2, <1>4, StreamsFinite DEF TurnOf
  <2> QED BY <2>1 DEF BatchesHomogeneous
<1> QED BY <1>3, <1>4, SelectedAre

LEMMA Conserving == SchedulerInv => WorkConserving
<1> SUFFICES ASSUME SchedulerInv, pause = "unpaused",
                    \/ \E r \in ToSet(running) : Required(r) > 0
                    \/ Occupied < MaxRunning /\ \E r \in ToSet(waiting) : chunk[r] > 0
             PROVE  Batch # {}
  BY DEF WorkConserving
<1>1. Ready # {}
  BY DEF Ready
<1>2. PICK r \in Selected : r \in Ready
  BY <1>1, SelectedAre
<1>3. CASE r \in ToSet(running) /\ Required(r) > 0
  BY <1>2, <1>3, RunningGo
<1>4. CASE r \in ToSet(waiting) /\ Occupied < MaxRunning /\ chunk[r] > 0
  <2>1. Candidate(r, Selected)
    BY <1>2, <1>4 DEF Candidate
  <2>2. Admitted(Selected) # {}
    BY <1>4, <2>1, FirstTaken
  <2> QED BY <2>2, BatchIs
<1> QED BY <1>2, <1>3, <1>4 DEF Ready

LEMMA Oldness == SchedulerInv => OldestTurn
<1> DEFINE after == Occupied + Cardinality(Batch \ ToSet(running))
<1> SUFFICES ASSUME SchedulerInv, pause = "unpaused", Batch \cap started # {}
             PROVE  \E q \in Ready \cap started :
                      /\ \A r \in Ready \cap started : last[q] <= last[r]
                      /\ q \in Batch \/ (q \in ToSet(waiting) /\ after = MaxRunning)
  BY DEF OldestTurn
<1>1. TurnOf(Selected)
  BY BatchSelected, SelectedAre DEF NewOnes
<1>2. PICK q \in Selected : \A r \in Ready \cap started : last[q] <= last[r]
  BY <1>1 DEF TurnOf
<1>3. q \in Ready \cap started
  BY <1>1, <1>2, SelectedAre DEF TurnOf
<1>4. CASE q \in ToSet(running) /\ Required(q) > 0
  BY <1>2, <1>3, <1>4, RunningGo
<1>5. CASE q \in ToSet(waiting) /\ chunk[q] > 0 /\ q \notin Batch
  <2>1. Candidate(q, Selected) /\ q \notin Admitted(Selected)
    BY <1>2, <1>5, BatchIs DEF Candidate
  <2>2. Occupied + Cardinality(Taken(Selected)) = MaxRunning
    BY <1>5, <2>1, RefusedFull
  <2>3. Batch \ ToSet(running) = Admitted(Selected)
    <3>1. GoRunning(Selected) \in SUBSET ToSet(running)
      BY DEF GoRunning
    <3>2. Admitted(Selected) \in SUBSET ToSet(waiting)
      BY TakenPlaces
    <3>3. ToSet(waiting) \cap ToSet(running) = {}
      BY Lists
    <3> QED BY <3>1, <3>2, <3>3, BatchIs
  <2>4. after = MaxRunning
    BY <2>2, <2>3, AdmittedCount
  <2> HIDE DEF after
  <2> QED BY <1>2, <1>3, <1>5, <2>4
<1> HIDE DEF after
<1> QED BY <1>2, <1>3, <1>4, <1>5 DEF Ready

\* One execution renders either new streams or continuations of one geometry,
\* no more of them than the class allows: a first chunk never waits for an
\* unrelated long decode inside its own batch.
THEOREM ExecutionsHomogeneous == Spec => []BatchesHomogeneous
<1> QED BY Homogeneous, SchedulerInvariant, PTL

\* While the engine is not paused, an execution is empty only when no stream
\* that holds or could take a slot has a code to render.
THEOREM WorkConserved == Spec => []WorkConserving
<1> QED BY Conserving, SchedulerInvariant, PTL

\* Sounding streams take turns: an execution of continuations holds the oldest
\* that is ready, unless that one waits and the last slot went to another.
THEOREM TurnsOldestFirst == Spec => []OldestTurn
<1> QED BY Oldness, SchedulerInvariant, PTL

-----------------------------------------------------------------------------
(* The sample ledger of one stream                                         *)

USE DEF SamplesPerCodecToken

Segment == [from : Nat, to : Nat]

Chained(segs) ==
  \A i \in 1..Len(segs) : segs[i].from = IF i = 1 THEN 0 ELSE segs[i - 1].to

\* The counters are the history's own end, and the crop is never passed.
CommitterInv ==
  /\ nextSample \in [Requests -> Nat]
  /\ sampleLimit \in [Requests -> Nat \cup {NoLimit}]
  /\ emitted \in [Requests -> Seq(Segment)]
  /\ \A r \in Requests :
       /\ nextSample[r] = EndOf(emitted[r])
       /\ Chained(emitted[r])
       /\ sampleLimit[r] # NoLimit => nextSample[r] <= sampleLimit[r]

\* A segment that starts at the end keeps the run unbroken.
LEMMA AppendChained ==
  ASSUME NEW segs \in Seq(Segment), Chained(segs),
         NEW seg \in Segment, seg.from = EndOf(segs)
  PROVE  /\ Append(segs, seg) \in Seq(Segment)
         /\ Chained(Append(segs, seg))
         /\ EndOf(Append(segs, seg)) = seg.to
<1> DEFINE longer == Append(segs, seg)
<1>1. /\ longer \in Seq(Segment)
      /\ Len(longer) = Len(segs) + 1
      /\ \A i \in 1..Len(segs) : longer[i] = segs[i]
      /\ longer[Len(segs) + 1] = seg
      /\ Len(segs) \in Nat
  OBVIOUS
<1>2. EndOf(longer) = seg.to
  <2>1. longer # <<>>
    BY <1>1
  <2>2. QED
    BY <1>1, <2>1 DEF EndOf
<1>3. ASSUME NEW i \in 1..Len(longer)
      PROVE  longer[i].from = IF i = 1 THEN 0 ELSE longer[i - 1].to
  <2>1. CASE i \in 1..Len(segs)
    BY <1>1, <2>1 DEF Chained
  <2>2. CASE i = Len(segs) + 1
    BY <1>1, <2>2 DEF EndOf
  <2>3. QED
    BY <1>1, <2>1, <2>2
<1>4. QED
  BY <1>1, <1>2, <1>3 DEF Chained

LEMMA CropNatural ==
  ASSUME NEW n \in Nat
  PROVE  FinalSampleLimit(n) \in Nat
  BY DEF FinalSampleLimit, MaxOf

LEMMA PositionsNatural ==
  ASSUME Grain \in Nat \ {0}, MaxCodes \in Nat
  PROVE  Positions \subseteq Nat
<1>1. (MaxCodes * SamplesPerCodecToken) \div Grain \in Int
  OBVIOUS
<1>2. ASSUME NEW i \in 0..((MaxCodes * SamplesPerCodecToken) \div Grain)
      PROVE  Grain * i \in Nat
  BY <1>1
<1>3. QED
  BY <1>2 DEF Positions

LEMMA CommitterStarts == CommitterInit => CommitterInv
  BY DEF CommitterInit, CommitterInv, EndOf, Chained, NoLimit

-----------------------------------------------------------------------------
(* The two operations                                                      *)

\* What a commit that emits anything does: a segment from the end, within the
\* crop.
LEMMA CommitEmits ==
  ASSUME CommitterInv, NEW r \in Requests, NEW start \in Nat, NEW n \in Nat,
         Commit(r, start, n)
  PROVE  \/ UNCHANGED <<nextSample, sampleLimit, emitted>>
         \/ \E new \in Nat \ {0} :
              /\ nextSample' = [nextSample EXCEPT ![r] = @ + new]
              /\ emitted' = [emitted EXCEPT ![r] =
                   Append(@, [from |-> nextSample[r], to |-> nextSample[r] + new])]
              /\ sampleLimit' = sampleLimit
              /\ sampleLimit[r] # NoLimit => nextSample[r] + new <= sampleLimit[r]
<1>1. CASE start > nextSample[r]
  BY <1>1 DEF Commit, Refuse
<1>2. CASE start <= nextSample[r] /\ (start + n <= nextSample[r] \/ NewSamples(r, start, n) = 0)
  <2>1. ~(start > nextSample[r])
    BY <1>2 DEF CommitterInv
  <2>2. QED
    BY <1>2, <2>1 DEF Commit
<1>3. CASE /\ start <= nextSample[r]
           /\ ~(start + n <= nextSample[r]) /\ NewSamples(r, start, n) # 0
  <2> DEFINE new == NewSamples(r, start, n)
  <2>1. nextSample[r] \in Nat /\ sampleLimit[r] \in Nat \cup {NoLimit}
        /\ (sampleLimit[r] # NoLimit => nextSample[r] <= sampleLimit[r])
    BY DEF CommitterInv
  <2>2. /\ new \in Nat \ {0}
        /\ sampleLimit[r] # NoLimit => nextSample[r] + new <= sampleLimit[r]
    BY <1>3, <2>1 DEF NewSamples, MinOf, MaxOf, NoLimit
  <2>3. start + (nextSample[r] - start) = nextSample[r]
    BY <2>1
  <2>4. ~(start > nextSample[r])
    BY <1>3, <2>1
  <2> HIDE DEF new
  <2>5. /\ nextSample' = [nextSample EXCEPT ![r] = @ + new]
        /\ emitted' = [emitted EXCEPT ![r] =
             Append(@, [from |-> start + (nextSample[r] - start),
                        to |-> start + (nextSample[r] - start) + new])]
        /\ sampleLimit' = sampleLimit
    BY <1>3, <2>4 DEF Commit, new
  <2>6. QED
    BY <2>2, <2>3, <2>5
<1>4. nextSample[r] \in Nat
  BY DEF CommitterInv
<1>5. start > nextSample[r] \/ start <= nextSample[r]
  BY <1>4
<1>6. QED
  BY <1>1, <1>2, <1>3, <1>5

LEMMA CommitterStep ==
  ASSUME Grain \in Nat \ {0}, MaxCodes \in Nat, CommitterInv, [CommitterNext]_committerVars
  PROVE  CommitterInv'
<1>1. CASE UNCHANGED committerVars
  BY <1>1 DEF CommitterInv, committerVars
<1>2. ASSUME NEW r \in Requests, NEW n \in 0..MaxCodes, SetFinalLimit(r, n)
      PROVE  CommitterInv'
  <2>1. CASE Retracts(r, n)
    BY <1>2, <2>1 DEF SetFinalLimit, Refuse, CommitterInv
  <2>2. CASE ~Retracts(r, n)
    <3>1. FinalSampleLimit(n) \in Nat /\ nextSample[r] <= FinalSampleLimit(n)
      BY <2>2, CropNatural DEF Retracts, CommitterInv
    <3>2. QED
      BY <1>2, <2>2, <3>1 DEF SetFinalLimit, CommitterInv
  <2>3. QED
    BY <2>1, <2>2
<1>3. ASSUME NEW r \in Requests, NEW start \in Nat, NEW n \in Nat, Commit(r, start, n)
      PROVE  CommitterInv'
  <2>1. CASE UNCHANGED <<nextSample, sampleLimit, emitted>>
    BY <2>1 DEF CommitterInv
  <2>2. ASSUME NEW new \in Nat \ {0},
               nextSample' = [nextSample EXCEPT ![r] = @ + new],
               emitted' = [emitted EXCEPT ![r] =
                 Append(@, [from |-> nextSample[r], to |-> nextSample[r] + new])],
               sampleLimit' = sampleLimit,
               sampleLimit[r] # NoLimit => nextSample[r] + new <= sampleLimit[r]
        PROVE  CommitterInv'
    <3> DEFINE seg == [from |-> nextSample[r], to |-> nextSample[r] + new]
    <3>1. seg \in Segment /\ seg.from = EndOf(emitted[r])
      BY DEF CommitterInv, Segment
    <3>2. emitted[r] \in Seq(Segment) /\ Chained(emitted[r])
      BY DEF CommitterInv
    <3>3. /\ Append(emitted[r], seg) \in Seq(Segment)
          /\ Chained(Append(emitted[r], seg))
          /\ EndOf(Append(emitted[r], seg)) = nextSample[r] + new
      BY <3>1, <3>2, AppendChained
    <3>4. emitted' = [emitted EXCEPT ![r] = Append(emitted[r], seg)]
      BY <2>2
    <3> HIDE DEF seg
    <3>5. QED
      BY <2>2, <3>3, <3>4 DEF CommitterInv
  <2>3. QED
    BY <1>3, <2>1, <2>2, CommitEmits
<1>4. QED
  BY <1>1, <1>2, <1>3, PositionsNatural DEF CommitterNext

\* The inductive invariant of the ledger holds throughout.
THEOREM CommitterInvariant ==
  ASSUME Grain \in Nat \ {0}, MaxCodes \in Nat
  PROVE  CommitterSpec => []CommitterInv
<1>1. CommitterInit => CommitterInv
  BY CommitterStarts
<1>2. CommitterInv /\ [CommitterNext]_committerVars => CommitterInv'
  BY CommitterStep
<1>3. QED
  BY <1>1, <1>2, PTL DEF CommitterSpec

\* What commit() returned is one unbroken run of samples from 0, inside the
\* final crop, whatever was delivered twice, overlapping or too early.
THEOREM OneRun ==
  ASSUME Grain \in Nat \ {0}, MaxCodes \in Nat
  PROVE  CommitterSpec => []EmittedOnce
<1>1. CommitterInv => EmittedOnce
  BY DEF CommitterInv, EmittedOnce, Chained
<1>2. QED
  BY <1>1, CommitterInvariant, PTL

-----------------------------------------------------------------------------
(* Refinement                                                              *)

Heard == [r \in Requests |-> EndOf(emitted[r])]

LEMMA HeardIsCounted ==
  ASSUME CommitterInv, NEW r \in Requests
  PROVE  Heard[r] = nextSample[r] /\ Heard[r] \in Nat
  BY DEF Heard, CommitterInv

LEMMA LedgerStarts == CommitterInit => Ledger!Init
  BY DEF CommitterInit, Ledger!Init, Ledger!Open, EndOf, NoLimit

\* Every step is one of the ledger's, or none.
LEMMA LedgerStep ==
  ASSUME Grain \in Nat \ {0}, MaxCodes \in Nat, CommitterInv, CommitterInv', [CommitterNext]_committerVars
  PROVE  [Ledger!Next]_(Ledger!ledgerVars)
<1>1. CASE UNCHANGED <<sampleLimit, emitted>>
  BY <1>1 DEF Ledger!ledgerVars
<1>2. ASSUME NEW r \in Requests, sampleLimit[r] = NoLimit,
             NEW n \in 0..MaxCodes, SetFinalLimit(r, n), ~Retracts(r, n)
      PROVE  Ledger!Seal(r)
  <2>1. sampleLimit' = [sampleLimit EXCEPT ![r] = FinalSampleLimit(n)] /\ emitted' = emitted
    BY <1>2 DEF SetFinalLimit
  <2>2. FinalSampleLimit(n) \in Nat /\ nextSample[r] <= FinalSampleLimit(n)
    BY <1>2, CropNatural DEF Retracts, CommitterInv
  <2>3. Heard' = Heard /\ Heard'[r] = nextSample[r] /\ nextSample[r] \in Nat
    BY <2>1, HeardIsCounted DEF Heard, CommitterInv
  <2>4. sampleLimit'[r] = FinalSampleLimit(n)
    BY <2>1 DEF CommitterInv
  <2>5. Heard'[r] \in Heard[r]..sampleLimit'[r]
    BY <2>2, <2>3, <2>4
  <2>6. Heard' = [Heard EXCEPT ![r] = Heard'[r]]
    BY <2>3 DEF Heard
  <2>7. Ledger!FinalSampleLimit(n) = FinalSampleLimit(n)
    BY DEF Ledger!FinalSampleLimit, FinalSampleLimit, Ledger!MaxOf, MaxOf,
           Ledger!SamplesPerCodecToken
  <2>8. QED
    BY <1>2, <2>1, <2>5, <2>6, <2>7 DEF Ledger!Seal, Ledger!Open, NoLimit, Heard
<1>3. ASSUME NEW r \in Requests, NEW new \in Nat \ {0},
             nextSample' = [nextSample EXCEPT ![r] = @ + new],
             emitted' = [emitted EXCEPT ![r] =
               Append(@, [from |-> nextSample[r], to |-> nextSample[r] + new])],
             sampleLimit' = sampleLimit,
             sampleLimit[r] # NoLimit => nextSample[r] + new <= sampleLimit[r]
      PROVE  Ledger!Extend(r)
  <2>1. Heard[r] = nextSample[r] /\ nextSample[r] \in Nat
    BY HeardIsCounted
  <2>2. Heard'[r] = nextSample[r] + new
    <3>1. nextSample'[r] = nextSample[r] + new
      BY <1>3 DEF CommitterInv
    <3>2. QED
      BY <3>1 DEF Heard, CommitterInv
  <2>3. Heard' = [Heard EXCEPT ![r] = Heard'[r]]
    BY <1>3 DEF Heard, CommitterInv
  <2>4. Heard'[r] > Heard[r]
    BY <2>1, <2>2
  <2>5. sampleLimit[r] # NoLimit => Heard'[r] <= sampleLimit[r]
    BY <1>3, <2>2
  <2>6. QED
    BY <1>3, <2>3, <2>4, <2>5 DEF Ledger!Extend, Ledger!Open, NoLimit, Heard
<1>4. ASSUME NEW r \in Requests, sampleLimit[r] = NoLimit,
             NEW n \in 0..MaxCodes, SetFinalLimit(r, n)
      PROVE  [Ledger!Next]_(Ledger!ledgerVars)
  <2>1. CASE Retracts(r, n)
    BY <1>1, <1>4, <2>1 DEF SetFinalLimit, Refuse
  <2>2. CASE ~Retracts(r, n)
    BY <1>2, <1>4, <2>2 DEF Ledger!Next
  <2>3. QED
    BY <2>1, <2>2
<1>5. ASSUME NEW r \in Requests, NEW start \in Nat, NEW n \in Nat, Commit(r, start, n)
      PROVE  [Ledger!Next]_(Ledger!ledgerVars)
  <2>1. CASE UNCHANGED <<nextSample, sampleLimit, emitted>>
    BY <1>1, <2>1
  <2>2. CASE \E new \in Nat \ {0} :
              /\ nextSample' = [nextSample EXCEPT ![r] = @ + new]
              /\ emitted' = [emitted EXCEPT ![r] =
                   Append(@, [from |-> nextSample[r], to |-> nextSample[r] + new])]
              /\ sampleLimit' = sampleLimit
              /\ sampleLimit[r] # NoLimit => nextSample[r] + new <= sampleLimit[r]
    BY <1>3, <2>2 DEF Ledger!Next
  <2>3. QED
    BY <1>5, <2>1, <2>2, CommitEmits
<1>6. QED
  BY <1>1, <1>4, <1>5, PositionsNatural DEF CommitterNext, committerVars

\* The committer implements the ledger.
THEOREM CommitterImplements ==
  ASSUME Grain \in Nat \ {0}, MaxCodes \in Nat
  PROVE  CommitterSpec => ImplementsLedger
<1>1. CommitterInit => Ledger!Init
  BY LedgerStarts
<1>2. CommitterInv /\ CommitterInv' /\ [CommitterNext]_committerVars => [Ledger!Next]_(Ledger!ledgerVars)
  BY LedgerStep
<1>3. QED
  BY <1>1, <1>2, CommitterInvariant, PTL DEF CommitterSpec, ImplementsLedger, Ledger!LedgerSpec

-----------------------------------------------------------------------------
(* What an execution renders                                               *)

\* The cache holds the warm shapes, within its bound.
Kept(held) ==
  /\ WarmShapes \subseteq DOMAIN held
  /\ IsFiniteSet(DOMAIN held) /\ Cardinality(DOMAIN held) <= GraphCacheSize

\* The groups left: rows that can be decoded, of one key, each in one group.
GroupsInv ==
  /\ rows \in Seq(Rows)
  /\ \A g \in todo :
       /\ g # {} /\ g \subseteq Decodable(rows)
       /\ \A i, j \in g : BatchKey(rows[i]) = BatchKey(rows[j])
  /\ \A g, h \in todo : g = h \/ g \cap h = {}

BatchInv == GroupsInv /\ Kept(graphs)

\* No pass holds up more than max_batch_rows rows, however many are alike.
GroupsCapped == \A g \in todo : Cardinality(g) <= MaxBatchRows

\* Rows not yet decoded are silent, the others as they would be alone.
OutInv ==
  out = [i \in DOMAIN rows |-> IF i \in UNION todo THEN Silence ELSE Alone(rows[i])]

\* Deployed, the codes of a captured row are fewer than four of the largest
\* blocks (75 against 400).
LadderInside == GraphMaxCodes <= 4 * MaxBlock

\* A graph, captured or not, renders what it is given.
LEMMA RunGraphRenders ==
  ASSUME NEW held, NEW namespace, NEW shape, NEW args, NEW cacheable
  PROVE  RunGraph(held, namespace, shape, args, cacheable).output = args
<1> DEFINE key == <<namespace, Len(args), shape>>
           static == [k \in DOMAIN held \cup {key} |-> IF k = key THEN args ELSE held[k]]
<1>1. \/ RunGraph(held, namespace, shape, args, cacheable)
           = [output |-> static[key], graphs |-> static]
      \/ RunGraph(held, namespace, shape, args, cacheable) = [output |-> args, graphs |-> held]
  BY DEF RunGraph
<1>2. static[key] = args
  <2> HIDE DEF key
  <2> QED OBVIOUS
<1> HIDE DEF static
<1> QED BY <1>1, <1>2

\* It leaves the cache within its bound, with all that was in it.
LEMMA RunGraphKeeps ==
  ASSUME NEW held, Kept(held), NEW namespace, NEW shape, NEW args, NEW cacheable
  PROVE  Kept(RunGraph(held, namespace, shape, args, cacheable).graphs)
<1> DEFINE key == <<namespace, Len(args), shape>>
           D == DOMAIN held
           more == [k \in D \cup {key} |-> IF k = key THEN args ELSE held[k]]
<1>1. \/ /\ RunGraph(held, namespace, shape, args, cacheable).graphs = more
         /\ key \in D \/ Cardinality(D) < GraphCacheSize
      \/ RunGraph(held, namespace, shape, args, cacheable).graphs = held
  BY DEF RunGraph
<1>2. ASSUME key \in D \/ Cardinality(D) < GraphCacheSize PROVE Kept(more)
  <2>1. IsFiniteSet(D) /\ Cardinality(D) <= GraphCacheSize /\ WarmShapes \subseteq D
    BY DEF Kept
  <2>2. Cardinality(D) \in Nat /\ GraphCacheSize \in Nat
    BY <2>1, FS_CardinalityType, BatchAssumption
  <2>3. DOMAIN more = D \cup {key}
    OBVIOUS
  <2> HIDE DEF key, more, D
  <2>4. IsFiniteSet(D \cup {key})
        /\ Cardinality(D \cup {key}) = IF key \in D THEN Cardinality(D) ELSE Cardinality(D) + 1
    BY <2>1, FS_AddElement
  <2>5. Cardinality(D \cup {key}) <= GraphCacheSize
    BY <1>2, <2>1, <2>2, <2>4
  <2> QED BY <2>1, <2>3, <2>4, <2>5 DEF Kept
<1> HIDE DEF key, more, D
<1> QED BY <1>1, <1>2

\* Passes of the vocoder over the first rows, one after the other.
Passing(f, g, slices, held, n) ==
  f = [i \in 0..n |->
         IF i = 0 THEN [output |-> <<>>, graphs |-> held]
         ELSE [output |-> f[i - 1].output
                            \o VocoderPass(f[i - 1].graphs, g[i], <<slices[i]>>).output,
               graphs |-> VocoderPass(f[i - 1].graphs, g[i], <<slices[i]>>).graphs]]

\* There are such passes.
LEMMA PassingExists ==
  ASSUME NEW g, NEW slices, NEW held, NEW n \in Nat
  PROVE  \E f : Passing(f, g, slices, held, n)
<1> DEFINE S == {m \in Nat : \E f : Passing(f, g, slices, held, m)}
           next(f, i) == [output |-> f[i - 1].output
                            \o VocoderPass(f[i - 1].graphs, g[i], <<slices[i]>>).output,
                          graphs |-> VocoderPass(f[i - 1].graphs, g[i], <<slices[i]>>).graphs]
           first == [output |-> <<>>, graphs |-> held]
<1>0. ASSUME NEW f, NEW m
      PROVE  Passing(f, g, slices, held, m)
               <=> f = [i \in 0..m |-> IF i = 0 THEN first ELSE next(f, i)]
  BY DEF Passing
<1>1. 0 \in S
  <2> DEFINE f == [i \in 0..0 |-> first]
  <2>1. f = [i \in 0..0 |-> IF i = 0 THEN first ELSE next(f, i)]
    <3> HIDE DEF first, next
    <3> QED OBVIOUS
  <2> HIDE DEF f, first, next
  <2> QED BY <1>0, <2>1
<1>2. ASSUME NEW m \in S PROVE m + 1 \in S
  <2>1. PICK f : Passing(f, g, slices, held, m)
    OBVIOUS
  <2>2. f = [i \in 0..m |-> IF i = 0 THEN first ELSE next(f, i)]
    <3> HIDE DEF first, next
    <3> QED BY <1>0, <2>1
  <2> DEFINE h == [i \in 0..(m + 1) |-> IF i = m + 1 THEN next(f, i) ELSE f[i]]
  <2>3. m \in Nat /\ m + 1 \in Nat
    OBVIOUS
  <2>4. ASSUME NEW i \in 0..(m + 1) PROVE h[i] = IF i = 0 THEN first ELSE next(h, i)
    <3>1. CASE i = 0
      <4>1. i # m + 1 /\ i \in 0..m
        BY <2>3, <3>1
      <4>2. h[i] = f[i] /\ f[i] = first
        <5> HIDE DEF first, next
        <5> QED BY <2>2, <3>1, <4>1
      <4> QED BY <3>1, <4>2
    <3>2. CASE i # 0
      <4>1. i - 1 \in 0..m /\ i - 1 # m + 1 /\ i - 1 \in 0..(m + 1)
        BY <2>3, <3>2
      <4>2. h[i - 1] = f[i - 1]
        <5> HIDE DEF next
        <5> QED BY <4>1
      <4>3. next(h, i) = next(f, i)
        <5> HIDE DEF h
        <5> QED BY <4>2
      <4>4. h[i] = next(f, i)
        <5>1. CASE i = m + 1
          <6> HIDE DEF next
          <6> QED BY <5>1
        <5>2. CASE i # m + 1
          <6>1. i \in 0..m
            BY <2>3, <5>2
          <6>2. h[i] = f[i]
            <7> HIDE DEF next
            <7> QED BY <5>2
          <6>3. f[i] = next(f, i)
            <7> HIDE DEF next, first
            <7> QED BY <2>2, <3>2, <6>1
          <6> QED BY <6>2, <6>3
        <5> QED BY <5>1, <5>2
      <4> HIDE DEF h, next
      <4> QED BY <3>2, <4>3, <4>4
    <3> QED BY <3>1, <3>2
  <2>5. DOMAIN h = 0..(m + 1) /\ h = [i \in 0..(m + 1) |-> h[i]]
    <3> HIDE DEF next
    <3> QED OBVIOUS
  <2>6. h = [i \in 0..(m + 1) |-> IF i = 0 THEN first ELSE next(h, i)]
    <3> HIDE DEF h, first, next
    <3> QED BY <2>4, <2>5
  <2>7. Passing(h, g, slices, held, m + 1)
    <3> HIDE DEF h, first, next
    <3> QED BY <1>0, <2>6
  <2> HIDE DEF h
  <2> QED BY <2>3, <2>7
<1> HIDE DEF S
<1>3. S = Nat
  BY <1>1, <1>2, AllOfNat DEF S
<1> QED BY <1>3 DEF S

\* Vocoded row by row, each slice is rendered at its place.
LEMMA RowByRowRenders ==
  ASSUME NEW T, NEW g \in Seq(T), NEW slices, NEW held
  PROVE  /\ RowByRow(g, slices, held).output = [i \in 1..Len(g) |-> slices[i]]
         /\ Kept(held) => Kept(RowByRow(g, slices, held).graphs)
<1> DEFINE f == CHOOSE h : Passing(h, g, slices, held, Len(g))
<1>1. RowByRow(g, slices, held) = f[Len(g)]
  BY DEF RowByRow, Passing
<1>2. Len(g) \in Nat
  OBVIOUS
<1>3. Passing(f, g, slices, held, Len(g))
  BY <1>2, PassingExists
<1> HIDE DEF f
<1>4. f[0] = [output |-> <<>>, graphs |-> held]
  BY <1>2, <1>3 DEF Passing
<1>5. ASSUME NEW i \in 1..Len(g)
      PROVE  /\ f[i].output = f[i - 1].output \o <<slices[i]>>
             /\ f[i].graphs = VocoderPass(f[i - 1].graphs, g[i], <<slices[i]>>).graphs
  <2>1. i \in 0..Len(g) /\ i # 0
    BY <1>2
  <2> DEFINE pass == VocoderPass(f[i - 1].graphs, g[i], <<slices[i]>>)
             joined == f[i - 1].output \o pass.output
  <2>2. f[i] = [output |-> joined, graphs |-> pass.graphs]
    BY <1>3, <2>1 DEF Passing
  <2>3. pass.output = <<slices[i]>>
    BY RunGraphRenders DEF VocoderPass
  <2>4. joined = f[i - 1].output \o <<slices[i]>>
    <3> HIDE DEF pass
    <3> QED BY ONLY <2>3
  <2> HIDE DEF joined
  <2>5. f[i].output = joined /\ f[i].graphs = pass.graphs
    <3> HIDE DEF pass
    <3> QED BY <2>2
  <2> QED BY <2>4, <2>5
<1> DEFINE upTo(i) == [m \in 1..i |-> slices[m]]
           S == {i \in Nat : i <= Len(g) =>
                   /\ f[i].output = upTo(i)
                   /\ Kept(held) => Kept(f[i].graphs)}
<1>6. 0 \in S
  <2>1. upTo(0) = <<>>
    OBVIOUS
  <2> HIDE DEF upTo
  <2> QED BY <1>4, <2>1
<1>7. ASSUME NEW i \in S PROVE i + 1 \in S
  <2>1. i \in Nat /\ i + 1 \in Nat
    OBVIOUS
  <2> SUFFICES ASSUME i + 1 <= Len(g)
               PROVE  /\ f[i + 1].output = upTo(i + 1)
                      /\ Kept(held) => Kept(f[i + 1].graphs)
    BY <2>1
  <2>2. i <= Len(g) /\ i + 1 \in 1..Len(g) /\ (i + 1) - 1 = i
    BY <1>2, <2>1
  <2>3. f[i].output = upTo(i) /\ (Kept(held) => Kept(f[i].graphs))
    BY <2>2
  <2>4. /\ f[i + 1].output = upTo(i) \o <<slices[i + 1]>>
        /\ f[i + 1].graphs = VocoderPass(f[i].graphs, g[i + 1], <<slices[i + 1]>>).graphs
    <3> HIDE DEF upTo, S
    <3>1. /\ f[i + 1].output = f[(i + 1) - 1].output \o <<slices[i + 1]>>
          /\ f[i + 1].graphs
               = VocoderPass(f[(i + 1) - 1].graphs, g[i + 1], <<slices[i + 1]>>).graphs
      BY <1>5, <2>2
    <3> QED BY <2>2, <2>3, <3>1
  <2>5. upTo(i) \o <<slices[i + 1]>> = upTo(i + 1)
    <3> DEFINE U == {slices[m] : m \in 1..(i + 1)}
    <3>1. upTo(i) \in Seq(U) /\ Len(upTo(i)) = i
      BY <2>1
    <3>2. <<slices[i + 1]>> \in Seq(U) /\ Len(<<slices[i + 1]>>) = 1
      BY <2>1
    <3>3. upTo(i + 1) \in Seq(U) /\ Len(upTo(i + 1)) = i + 1
      BY <2>1
    <3> DEFINE u == upTo(i) \o <<slices[i + 1]>>
    <3>4. u \in Seq(U) /\ Len(u) = i + 1
      <4> HIDE DEF U, upTo
      <4> QED BY <2>1, <3>1, <3>2
    <3>5. ASSUME NEW m \in 1..(i + 1) PROVE u[m] = upTo(i + 1)[m]
      <4>1. upTo(i + 1)[m] = slices[m] /\ (m <= i => upTo(i)[m] = slices[m])
        BY <2>1
      <4> HIDE DEF U, upTo
      <4>2. u[m] = IF m <= i THEN upTo(i)[m] ELSE <<slices[i + 1]>>[m - i]
        BY <2>1, <3>1, <3>2
      <4>3. m <= i \/ m = i + 1
        BY <2>1
      <4> HIDE DEF u
      <4> QED BY <2>1, <4>1, <4>2, <4>3
    <3> HIDE DEF U, u, upTo
    <3>6. Len(u) = Len(upTo(i + 1)) /\ \A m \in 1..Len(u) : u[m] = upTo(i + 1)[m]
      BY <3>3, <3>4, <3>5
    <3>7. u = upTo(i + 1)
      BY <3>3, <3>4, <3>6, SameList
    <3> QED BY <3>7 DEF u
  <2>6. Kept(held) => Kept(f[i + 1].graphs)
    <3> SUFFICES ASSUME Kept(held) PROVE Kept(f[i + 1].graphs)
      OBVIOUS
    <3>1. Kept(f[i].graphs)
      BY <2>3
    <3>2. Kept(VocoderPass(f[i].graphs, g[i + 1], <<slices[i + 1]>>).graphs)
      BY <3>1, RunGraphKeeps DEF VocoderPass
    <3> QED BY <2>4, <3>2
  <2> HIDE DEF upTo
  <2> QED BY <2>4, <2>5, <2>6
<1> HIDE DEF S
<1>8. S = Nat
  BY <1>6, <1>7, AllOfNat DEF S
<1>9. Len(g) \in S /\ Len(g) <= Len(g)
  BY <1>2, <1>8
<1>10. f[Len(g)].output = upTo(Len(g)) /\ (Kept(held) => Kept(f[Len(g)].graphs))
  <2> HIDE DEF upTo
  <2> QED BY <1>9 DEF S
<1> QED BY <1>1, <1>10

\* Either way of vocoding renders every row's slice at its place.
LEMMA VocoderRenders ==
  ASSUME NEW T, NEW g \in Seq(T), NEW flow
  PROVE  /\ RunVocoder(g, flow).output = Slices(g, flow)
         /\ Kept(flow.graphs) => Kept(RunVocoder(g, flow).graphs)
<1>1. DOMAIN g = 1..Len(g)
  OBVIOUS
<1> DEFINE s == Slices(g, flow)
<1>2. s = [i \in 1..Len(g) |-> s[i]]
  BY <1>1 DEF Slices
<1> HIDE DEF s
<1>3. CASE BatchVocoder /\ Len(g) > 1 /\ Uniform(g)
  <2>1. RunVocoder(g, flow) = VocoderPass(flow.graphs, g[1], s)
    BY <1>3 DEF RunVocoder, s
  <2>2. VocoderPass(flow.graphs, g[1], s).output = s
    BY RunGraphRenders DEF VocoderPass
  <2>3. Kept(flow.graphs) => Kept(VocoderPass(flow.graphs, g[1], s).graphs)
    BY RunGraphKeeps DEF VocoderPass
  <2> QED BY <2>1, <2>2, <2>3 DEF s
<1>4. CASE ~(BatchVocoder /\ Len(g) > 1 /\ Uniform(g))
  <2>1. RunVocoder(g, flow) = RowByRow(g, s, flow.graphs)
    BY <1>4 DEF RunVocoder, s
  <2>2. /\ RowByRow(g, s, flow.graphs).output = [i \in 1..Len(g) |-> s[i]]
        /\ Kept(flow.graphs) => Kept(RowByRow(g, s, flow.graphs).graphs)
    BY RowByRowRenders
  <2> QED BY <1>2, <2>1, <2>2 DEF s
<1> QED BY <1>3, <1>4

\* What a row's inputs are.
LEMMA RowTypes ==
  ASSUME NEW r \in Rows
  PROVE  /\ r.count \in Nat /\ r.offset \in Nat
         /\ r.final \in BOOLEAN /\ r.streaming \in BOOLEAN
         /\ r.voice \in Voices /\ Prompt(r) \in Nat
         /\ EmitCodes(r) \in Int /\ MelLen(r) \in Int
<1>1. r \in RowType
  BY BatchAssumption
<1>2. /\ r.count \in Nat /\ r.offset \in Nat /\ r.voice \in Voices
  BY <1>1 DEF RowType
<1>3. r.final \in BOOLEAN /\ r.streaming \in BOOLEAN
  BY <1>1, Zenon DEF RowType
<1>4. Reference[r.voice].tokens \in Nat /\ Reference[r.voice].declared \in Nat
  BY <1>2, BatchAssumption
<1>5. Prompt(r) \in Nat
  BY <1>4 DEF Prompt, Conditioning, ReferenceFromPayload
<1>6. Lookahead \in Nat /\ TokenMelRatio \in Nat
  BY BatchAssumption
<1>7. EmitCodes(r) \in Int
  BY <1>2, <1>6 DEF EmitCodes
<1>8. MelLen(r) \in Int
  BY <1>5, <1>6, <1>7 DEF MelLen
<1> QED BY <1>2, <1>3, <1>5, <1>7, <1>8

\* The noise of a row that has something to render, by the definition of the bank:
\* a code's noise is at its place in the utterance.
LEMMA NoiseIs ==
  ASSUME NEW r \in Rows, EmitCodes(r) \in Nat
  PROVE  FlowNoise(r)
           = [draw |-> IF r.streaming THEN 0 ELSE MelLen(r),
              at |-> [k \in 1..MelLen(r) |->
                        IF k <= Prompt(r) * TokenMelRatio THEN k
                        ELSE k + r.offset * TokenMelRatio]]
<1>0. PICK n \in Nat, p \in Nat, shift \in Nat :
        n = MelLen(r) /\ p = Prompt(r) * TokenMelRatio /\ p <= n
        /\ shift = r.offset * TokenMelRatio
  <2>1. PICK prompt \in Nat, emit \in Nat, ratio \in Nat, offset \in Nat :
          /\ prompt = Prompt(r) /\ emit = EmitCodes(r) /\ ratio = TokenMelRatio
          /\ offset = r.offset
    BY RowTypes, BatchAssumption
  <2>2. MelLen(r) = prompt * ratio + emit * ratio
    BY <2>1 DEF MelLen
  <2>3. prompt * ratio \in Nat /\ emit * ratio \in Nat /\ offset * ratio \in Nat
    OBVIOUS
  <2>4. MelLen(r) \in Nat /\ prompt * ratio <= MelLen(r)
    BY <2>2, <2>3
  <2> QED BY <2>1, <2>3, <2>4
<1> DEFINE plain == [k \in 1..n |-> k]
           at == [k \in 1..n |-> IF k <= p THEN k ELSE k + shift]
           from == p + shift
           a == [k \in 1..p |-> k]
           b == [k \in 1..(n - p) |-> from + k]
           windowed == a \o b
<1>1. FlowNoise(r) = IF ~r.streaming THEN [draw |-> n, at |-> plain]
                     ELSE IF r.offset = 0 THEN [draw |-> 0, at |-> plain]
                     ELSE [draw |-> 0, at |-> windowed]
  BY <1>0 DEF FlowNoise
<1>2. shift = 0 => plain = at
  OBVIOUS
<1>3. r.offset = 0 => shift = 0
  BY <1>0, BatchAssumption
<1>4. ~r.streaming => r.offset = 0
  <2>1. r.offset \in Nat /\ (r.offset > 0 => r.streaming)
    BY RowTypes, BatchAssumption, Zenon
  <2>2. r.offset = 0 \/ r.offset > 0
    BY <2>1
  <2> QED BY <2>1, <2>2, Zenon
<1>5. windowed = at
  <2>1. n - p \in Nat /\ from \in Nat
    BY <1>0
  <2>2. a \in Seq(Nat) /\ Len(a) = p
    OBVIOUS
  <2>3. b \in Seq(Nat) /\ Len(b) = n - p
    BY <2>1
  <2>4. at \in Seq(Nat) /\ Len(at) = n
    OBVIOUS
  <2>5. windowed \in Seq(Nat) /\ Len(windowed) = n
    <3>1. p + (n - p) = n
      OBVIOUS
    <3> HIDE DEF a, b
    <3> QED BY <2>2, <2>3, <3>1
  <2>6. ASSUME NEW k \in 1..n PROVE windowed[k] = at[k]
    <3>1. a[k] = k \/ k > p
      OBVIOUS
    <3>2. k > p => b[k - p] = k + shift
      BY <2>1
    <3>3. windowed[k] = IF k <= p THEN a[k] ELSE b[k - p]
      <4>1. p + (n - p) = n
        OBVIOUS
      <4> HIDE DEF a, b
      <4>2. k \in 1..(Len(a) + Len(b))
        BY <2>2, <2>3, <4>1
      <4> QED BY <2>2, <2>3, <4>2
    <3>4. at[k] = IF k <= p THEN k ELSE k + shift
      OBVIOUS
    <3> HIDE DEF a, b, at, windowed
    <3> QED BY <3>1, <3>2, <3>3, <3>4
  <2> HIDE DEF at, windowed
  <2>7. Len(windowed) = Len(at) /\ \A k \in 1..Len(windowed) : windowed[k] = at[k]
    BY <2>4, <2>5, <2>6
  <2> QED BY <2>4, <2>5, <2>7, SameList
<1>6. FlowNoise(r) = [draw |-> IF r.streaming THEN 0 ELSE n, at |-> at]
  <2> HIDE DEF plain, at, windowed
  <2> QED BY <1>1, <1>2, <1>3, <1>4, <1>5, Zenon
<1> QED BY <1>0, <1>6

\* Rows of one key have one geometry, when lengths are part of the key.
LEMMA OneGeometry ==
  ASSUME ~Ragged, NEW r \in Rows, NEW t \in Rows, BatchKey(r) = BatchKey(t)
  PROVE  /\ Prompt(r) = Prompt(t) /\ r.count = t.count
         /\ EmitCodes(r) = EmitCodes(t) /\ MelLen(r) = MelLen(t)
         /\ r.final = t.final
<1> DEFINE pair(x) == <<x.count, Prompt(x)>>
<1>1. BatchKey(r) = [final |-> r.final, streaming |-> r.streaming, offset |-> r.offset,
                     length |-> pair(r)]
  BY DEF BatchKey
<1>2. BatchKey(t) = [final |-> t.final, streaming |-> t.streaming, offset |-> t.offset,
                     length |-> pair(t)]
  BY DEF BatchKey
<1>0. ASSUME NEW a, NEW b, NEW c, NEW d, NEW k,
             k = [final |-> a, streaming |-> b, offset |-> c, length |-> d]
      PROVE  k.final = a /\ k.length = d
  BY <1>0
<1>3. /\ BatchKey(r).length = pair(r) /\ BatchKey(t).length = pair(t)
      /\ BatchKey(r).final = r.final /\ BatchKey(t).final = t.final
  <2> HIDE DEF pair
  <2>1. BatchKey(r).final = r.final /\ BatchKey(r).length = pair(r)
    BY <1>0, <1>1
  <2>2. BatchKey(t).final = t.final /\ BatchKey(t).length = pair(t)
    BY <1>0, <1>2
  <2> QED BY <2>1, <2>2, Zenon
<1>4. pair(r) = pair(t)
  <2> HIDE DEF pair
  <2> QED BY <1>3
<1>5. r.count = t.count /\ Prompt(r) = Prompt(t)
  BY <1>4
<1>6. r.final = t.final
  BY <1>3, Zenon
<1>7. EmitCodes(r) = EmitCodes(t)
  BY <1>5, <1>6, Zenon DEF EmitCodes
<1>8. MelLen(r) = MelLen(t)
  BY <1>5, <1>7 DEF MelLen
<1> QED BY <1>5, <1>6, <1>7, <1>8

LEMMA MaxOfOne == ASSUME NEW x \in Int PROVE Max({x}) = x
  BY DEF Max

LEMMA TooShortOne ==
  ASSUME NEW r \in Rows
  PROVE  TooShort(<<r>>) <=> ~r.final /\ EmitCodes(r) < MinEmit
<1> DEFINE g == <<r>>
<1>1. DOMAIN g = {1} /\ g[1] = r
  OBVIOUS
<1> HIDE DEF g
<1>2. TooShort(g) <=> ~g[1].final /\ \E i \in {1} : EmitCodes(g[i]) < MinEmit
  BY <1>1, Zenon DEF TooShort
<1>3. (\E i \in {1} : EmitCodes(g[i]) < MinEmit) <=> EmitCodes(r) < MinEmit
  BY <1>1, Zenon
<1>4. TooShort(g) <=> ~r.final /\ EmitCodes(r) < MinEmit
  BY <1>1, <1>2, <1>3, Zenon
<1> QED BY <1>4 DEF g

\* A group of one key is too short when any of its rows is, alone.
LEMMA ShortAlike ==
  ASSUME ~Ragged, NEW g \in Seq(Rows), NEW k \in DOMAIN g,
         \A i, j \in DOMAIN g : BatchKey(g[i]) = BatchKey(g[j])
  PROVE  TooShort(g) <=> TooShort(<<g[k]>>)
<1>1. /\ 1 \in DOMAIN g /\ \A i \in DOMAIN g : g[i] \in Rows
  OBVIOUS
<1>2. ASSUME NEW i \in DOMAIN g
      PROVE  g[i].final = g[k].final /\ EmitCodes(g[i]) = EmitCodes(g[k])
  <2>1. BatchKey(g[i]) = BatchKey(g[k]) /\ g[i] \in Rows /\ g[k] \in Rows
    BY <1>1
  <2> QED BY <2>1, OneGeometry, Zenon
<1>3. g[1].final = g[k].final
  BY <1>1, <1>2, Zenon
<1>4. (\E i \in DOMAIN g : EmitCodes(g[i]) < MinEmit) <=> EmitCodes(g[k]) < MinEmit
  BY <1>2, Zenon
<1>5. TooShort(<<g[k]>>) <=> ~g[k].final /\ EmitCodes(g[k]) < MinEmit
  BY <1>1, TooShortOne
<1> QED BY <1>3, <1>4, <1>5, Zenon DEF TooShort

\* In a group of one key nothing is padded: a row's inputs are its own.
LEMMA PackedAlike ==
  ASSUME ~Ragged, NEW g \in Seq(Rows), NEW k \in DOMAIN g, EmitCodes(g[k]) \in Nat,
         \A i, j \in DOMAIN g : BatchKey(g[i]) = BatchKey(g[j])
  PROVE  Packed(g)[k]
           = [tokens |-> <<g[k].voice, Prompt(g[k]), g[k].id, g[k].offset, g[k].count>>,
              noise |-> <<Generator(g[k], "flow"), FlowNoise(g[k])>>,
              width |-> Prompt(g[k]) + g[k].count, pad |-> 0,
              mel |-> MelLen(g[k]), melPad |-> 0]
<1> DEFINE r == g[k]
           widths == {Prompt(g[i]) + g[i].count : i \in DOMAIN g}
           mels == {MelLen(g[i]) : i \in DOMAIN g}
           tokens == <<r.voice, Prompt(r), r.id, r.offset, r.count>>
           noise == <<Generator(r, "flow"), FlowNoise(r)>>
<1>1. r \in Rows /\ \A i \in DOMAIN g : g[i] \in Rows
  OBVIOUS
<1>2. ASSUME NEW i \in DOMAIN g
      PROVE  Prompt(g[i]) + g[i].count = Prompt(r) + r.count /\ MelLen(g[i]) = MelLen(r)
  <2>1. BatchKey(g[i]) = BatchKey(r) /\ g[i] \in Rows
    BY <1>1
  <2>2. Prompt(g[i]) = Prompt(r) /\ g[i].count = r.count /\ MelLen(g[i]) = MelLen(r)
    BY <1>1, <2>1, OneGeometry, Zenon
  <2> QED BY <2>2
<1>3. widths = {Prompt(r) + r.count} /\ mels = {MelLen(r)}
  BY <1>2
<1>4. PICK prompt \in Nat, count \in Nat, mel \in Int :
        prompt = Prompt(r) /\ count = r.count /\ mel = MelLen(r)
  BY <1>1, RowTypes
<1>5. Max(widths) = prompt + count /\ Max(mels) = mel
  <2>1. prompt + count \in Int
    OBVIOUS
  <2> HIDE DEF widths, mels
  <2>2. widths = {prompt + count} /\ mels = {mel}
    BY <1>3, <1>4
  <2> QED BY <2>1, <2>2, MaxOfOne
<1>6. Packed(g)[k]
        = [tokens |-> tokens, noise |-> noise, width |-> Max(widths),
           pad |-> Max(widths) - Prompt(r) - r.count,
           mel |-> Max(mels), melPad |-> Max(mels) - MelLen(r)]
  BY DEF Packed
<1>7. Max(widths) - Prompt(r) - r.count = 0 /\ Max(mels) - MelLen(r) = 0
  <2> HIDE DEF widths, mels, r
  <2> QED BY <1>4, <1>5
<1>8. Max(widths) = Prompt(r) + r.count /\ Max(mels) = MelLen(r)
  <2> HIDE DEF widths, mels, r
  <2> QED BY <1>4, <1>5
<1> DEFINE wide == Max(widths)
           long == Max(mels)
<1>9. Packed(g)[k]
        = [tokens |-> tokens, noise |-> noise, width |-> Prompt(r) + r.count,
           pad |-> 0, mel |-> MelLen(r), melPad |-> 0]
  <2> HIDE DEF widths, mels, r, tokens, noise
  <2> QED BY <1>6, <1>7, <1>8, Zenon
<1> QED BY <1>9, Zenon

\* Whoever a row is decoded with, it is rendered as it would be alone.
LEMMA RowAlone ==
  ASSUME ~Ragged, NEW g \in Seq(Rows), NEW k \in DOMAIN g,
         \A i, j \in DOMAIN g : BatchKey(g[i]) = BatchKey(g[j]),
         g[k].count # 0, Conditioning(g[k]).accepted, ~TooShort(g)
  PROVE  Audio(g[k], RunVocoder(g, RunAcousticCore(g)).output[k]) = Alone(g[k])
<1> DEFINE r == g[k]
           flow == RunAcousticCore(g)
           mine == [tokens |-> <<r.voice, Prompt(r), r.id, r.offset, r.count>>,
                    noise |-> <<Generator(r, "flow"), FlowNoise(r)>>,
                    width |-> Prompt(r) + r.count, pad |-> 0, mel |-> MelLen(r), melPad |-> 0]
           wav == [mel |-> mine, from |-> Prompt(r), codes |-> EmitCodes(r),
                   noise |-> Generator(r, "vocoder")]
<1>1. r \in Rows
  OBVIOUS
<1>2. ~TooShort(<<r>>)
  BY ShortAlike
<1>3. EmitCodes(r) \in Nat
  <2>1. r.count \in Nat /\ r.final \in BOOLEAN /\ EmitCodes(r) \in Int /\ MinEmit \in Nat
    BY <1>1, RowTypes, BatchAssumption
  <2>2. CASE r.final
    <3>1. EmitCodes(r) = r.count - 0
      BY <2>2, Zenon DEF EmitCodes
    <3> QED BY <2>1, <3>1
  <2>3. CASE ~r.final
    <3>1. ~(EmitCodes(r) < MinEmit)
      BY <1>1, <1>2, <2>3, TooShortOne, Zenon
    <3> QED BY <2>1, <3>1
  <2> QED BY <2>2, <2>3
<1>4. Packed(g)[k] = mine
  BY <1>3, PackedAlike
<1>5. flow.output = Packed(g)
  BY RunGraphRenders DEF RunAcousticCore
<1>6. RunVocoder(g, flow).output = Slices(g, flow)
  BY VocoderRenders
<1>7. Slices(g, flow)[k] = [mel |-> flow.output[k], from |-> Prompt(r), codes |-> EmitCodes(r),
                            noise |-> Generator(r, "vocoder")]
  <2> HIDE DEF flow
  <2> QED BY DEF Slices
<1>8. RunVocoder(g, flow).output[k] = wav
  <2> HIDE DEF flow, mine, r
  <2> QED BY <1>4, <1>5, <1>6, <1>7, Zenon
<1>9. Alone(r) = Audio(r, wav)
  <2> DEFINE bank == [draw |-> IF r.streaming THEN 0 ELSE MelLen(r),
                      at |-> [i \in 1..MelLen(r) |->
                               IF i <= Prompt(r) * TokenMelRatio THEN i
                               ELSE i + r.offset * TokenMelRatio]]
  <2>1. FlowNoise(r) = bank
    BY <1>1, <1>3, NoiseIs
  <2> HIDE DEF bank
  <2>2. ~(r.count = 0 \/ ~Conditioning(r).accepted \/ TooShort(<<r>>))
    BY <1>2, Zenon
  <2>3. Alone(r) = Audio(r,
          [mel |-> [tokens |-> <<r.voice, Prompt(r), r.id, r.offset, r.count>>,
                    noise |-> <<Generator(r, "flow"), bank>>,
                    width |-> Prompt(r) + r.count, pad |-> 0, mel |-> MelLen(r), melPad |-> 0],
           from |-> Prompt(r), codes |-> EmitCodes(r), noise |-> Generator(r, "vocoder")])
    <3> HIDE DEF r
    <3> QED BY <2>2, Zenon DEF Alone, bank
  <2> QED BY <2>1, <2>3, Zenon
<1> HIDE DEF wav, flow
<1> QED BY <1>8, <1>9 DEF flow

\* What is accepted of a reference brings all the frames of its prompt.
LEMMA AcceptedFrames ==
  ASSUME NEW r \in Rows, Conditioning(r).accepted
  PROVE  Conditioning(r).frames = Prompt(r) * TokenMelRatio
<1>1. r.voice \in Voices
  BY RowTypes
<1> DEFINE ref == Reference[r.voice]
           n == IF ref.declared > 0 /\ ref.declared <= ref.tokens THEN ref.declared ELSE ref.tokens
<1>2. ref.tokens \in Nat /\ ref.declared \in Nat /\ ref.frames \in Nat /\ TokenMelRatio \in Nat
  BY <1>1, BatchAssumption
<1>3. n \in Nat
  BY <1>2
<1> HIDE DEF ref, n
<1> DEFINE enough == ref.complete /\ ref.frames >= n * TokenMelRatio
<1>4. Conditioning(r) = [accepted |-> enough, prompt |-> n,
                         frames |-> MinOf(ref.frames, n * TokenMelRatio)]
  BY Zenon DEF Conditioning, ReferenceFromPayload, ref, n
<1>0. ASSUME NEW a, NEW b, NEW c, NEW k, k = [accepted |-> a, prompt |-> b, frames |-> c]
      PROVE  k.accepted = a /\ k.prompt = b /\ k.frames = c
  BY <1>0
<1>5. /\ Conditioning(r).accepted = enough /\ Conditioning(r).prompt = n
      /\ Conditioning(r).frames = MinOf(ref.frames, n * TokenMelRatio)
  <2> HIDE DEF enough
  <2> QED BY <1>0, <1>4
<1>6. enough /\ Prompt(r) = n
  BY <1>5, Zenon DEF Prompt
<1>7. PICK k \in Nat : k = n * TokenMelRatio
  BY <1>2, <1>3
<1> QED BY <1>2, <1>5, <1>6, <1>7 DEF MinOf

-----------------------------------------------------------------------------
(* The ladder of the warm-up                                               *)

\* What a function makes of finitely many is finitely many.
LEMMA ImageFinite ==
  ASSUME NEW S, IsFiniteSet(S), NEW f
  PROVE  IsFiniteSet({f[x] : x \in S})
<1> DEFINE T == {f[x] : x \in S}
           g == [x \in S |-> f[x]]
<1>1. g \in Surjection(S, T)
  BY DEF Surjection
<1> HIDE DEF g, T
<1>2. IsFiniteSet(T)
  BY <1>1, FS_Surjection
<1> QED BY <1>2 DEF T

\* The shapes warmed are finitely many.
LEMMA WarmFinite == IsFiniteSet(WarmShapes)
<1> DEFINE R == WarmRungs
           P == Prewarm
           N == 1..GraphRows
           D == N \X (P \X R)
           f == [x \in D |-> <<"encoder_flow", x[1], <<x[2][1] + x[2][2],
                             (x[2][1] + x[2][2] - Lookahead) * TokenMelRatio>>>>]
<1>1. IsFiniteSet(R)
  <2> DEFINE c == [k \in 1..12 |-> Cumulated[k].cum]
  <2>1. IsFiniteSet(1..12)
    <3>1. 12 \in Nat
      OBVIOUS
    <3> QED BY <3>1, UpTo
  <2>2. IsFiniteSet({c[k] : k \in 1..12})
    <3> HIDE DEF c
    <3> QED BY <2>1, ImageFinite
  <2>3. R \subseteq {c[k] : k \in 1..12}
    BY DEF WarmRungs, WarmLimit
  <2> QED BY <2>2, <2>3, FS_Subset
<1>2. IsFiniteSet(P) /\ IsFiniteSet(N)
  BY BatchAssumption, FS_Interval
<1> HIDE DEF R, P, N
<1>3. IsFiniteSet(P \X R)
  BY <1>1, <1>2, FS_Product
<1>4. IsFiniteSet(D)
  BY <1>2, <1>3, FS_Product
<1>5. IsFiniteSet({f[x] : x \in D})
  <2> HIDE DEF f, D
  <2> QED BY <1>4, ImageFinite
<1>6. WarmShapes \subseteq {f[x] : x \in D}
  <2> SUFFICES ASSUME NEW w \in WarmShapes PROVE \E x \in D : w = f[x]
    OBVIOUS
  <2>1. PICK n \in N, p \in P, c \in R :
          w = <<"encoder_flow", n, <<p + c, (p + c - Lookahead) * TokenMelRatio>>>>
    BY DEF WarmShapes, N, P, R
  <2>2. <<n, <<p, c>>>> \in D
    OBVIOUS
  <2>3. f[<<n, <<p, c>>>>]
          = <<"encoder_flow", n, <<p + c, (p + c - Lookahead) * TokenMelRatio>>>>
    BY <2>2
  <2> HIDE DEF f, D
  <2> QED BY <2>1, <2>2, <2>3
<1> HIDE DEF f, D
<1> QED BY <1>5, <1>6, FS_Subset

-----------------------------------------------------------------------------
(* The groups of an execution                                              *)

\* Every job is in one group, and a group has one key.
LEMMA GroupsAre ==
  ASSUME NEW batch, NEW jobs
  PROVE  /\ UNION GroupBatches(batch, jobs) = jobs
         /\ \A g \in GroupBatches(batch, jobs) :
              /\ g # {} /\ g \subseteq jobs
              /\ \A i, j \in g : BatchKey(batch[i]) = BatchKey(batch[j])
         /\ \A g, h \in GroupBatches(batch, jobs) : g = h \/ g \cap h = {}
<1> DEFINE alike(i) == {j \in jobs : BatchKey(batch[j]) = BatchKey(batch[i])}
           slice(i) == (Rank(i, alike(i)) - 1) \div MaxBatchRows
           group(i) == {j \in alike(i) : slice(j) = slice(i)}
           G == {group(i) : i \in jobs}
<1>1. GroupBatches(batch, jobs) = G
  BY DEF GroupBatches
<1>2. \A i, j : j \in group(i) <=> j \in jobs /\ BatchKey(batch[j]) = BatchKey(batch[i])
                                      /\ slice(j) = slice(i)
  <2> HIDE DEF slice
  <2> QED OBVIOUS
<1> HIDE DEF group, slice
<1>3. \A i \in jobs : i \in group(i) /\ group(i) \subseteq jobs
  BY <1>2
<1>4. UNION G = jobs
  BY <1>3
<1>5. ASSUME NEW g \in G
      PROVE  /\ g # {} /\ g \subseteq jobs
             /\ \A i, j \in g : BatchKey(batch[i]) = BatchKey(batch[j])
  <2>1. PICK i \in jobs : g = group(i)
    OBVIOUS
  <2>2. g # {} /\ g \subseteq jobs
    BY <1>3, <2>1
  <2>3. ASSUME NEW k \in g, NEW m \in g PROVE BatchKey(batch[k]) = BatchKey(batch[m])
    BY <1>2, <2>1, Zenon
  <2> QED BY <2>2, <2>3
<1>6. ASSUME NEW g \in G, NEW h \in G, g \cap h # {} PROVE g = h
  <2>1. PICK i \in jobs : g = group(i)
    OBVIOUS
  <2>2. PICK j \in jobs : h = group(j)
    OBVIOUS
  <2>3. PICK k : k \in group(i) /\ k \in group(j)
    BY <1>6, <2>1, <2>2
  <2>4. BatchKey(batch[i]) = BatchKey(batch[j]) /\ slice(i) = slice(j)
    BY <1>2, <2>3, Zenon
  <2>5. \A m : m \in group(i) <=> m \in group(j)
    BY <1>2, <2>4, Zenon
  <2> QED BY <2>1, <2>2, <2>5
<1> HIDE DEF G
<1> QED BY <1>1, <1>4, <1>5, <1>6

\* The rows of a group, as decode_batch is given them.
LEMMA GroupRows ==
  ASSUME GroupsInv, NEW g \in todo
  PROVE  /\ Group(g) \in Seq(Rows) /\ Len(Group(g)) \in Nat
         /\ \A i \in g : /\ i \in DOMAIN rows /\ Rank(i, g) \in DOMAIN Group(g)
                         /\ Group(g)[Rank(i, g)] = rows[i]
         /\ \A k \in DOMAIN Group(g) : \E i \in g : Group(g)[k] = rows[i]
<1>1. rows \in Seq(Rows) /\ g \subseteq Decodable(rows)
  BY DEF GroupsInv
<1>2. Len(rows) \in Nat /\ DOMAIN rows = 1..Len(rows)
  BY <1>1
<1>3. g \in SUBSET (1..Len(rows))
  BY <1>1, <1>2 DEF Decodable
<1>4. \A i \in g : rows[i] \in Rows
  BY <1>1, <1>2, <1>3
<1>5. /\ Picked(rows, g) \in Seq(Rows)
      /\ DOMAIN Picked(rows, g) = 1..Cardinality(g)
      /\ \A i \in g : Picked(rows, g)[Rank(i, g)] = rows[i]
  BY <1>1, <1>3, <1>4, PickedAt
<1>6. /\ \A i \in g : Rank(i, g) \in 1..Cardinality(g)
      /\ \A m \in 1..Cardinality(g) : \E i \in g : Rank(i, g) = m
  BY <1>2, <1>3, Ranks
<1>7. \A k \in 1..Cardinality(g) : \E i \in g : Picked(rows, g)[k] = rows[i]
  BY <1>5, <1>6
<1>8. Len(Picked(rows, g)) \in Nat
  BY <1>5
<1> QED BY <1>2, <1>3, <1>5, <1>6, <1>7, <1>8 DEF Group

\* They are of one key, and can be decoded.
LEMMA GroupAlike ==
  ASSUME GroupsInv, NEW g \in todo
  PROVE  /\ \A i, j \in DOMAIN Group(g) : BatchKey(Group(g)[i]) = BatchKey(Group(g)[j])
         /\ \A k \in DOMAIN Group(g) :
              Group(g)[k].count > 0 /\ Conditioning(Group(g)[k]).accepted
<1>1. /\ \A i, j \in g : BatchKey(rows[i]) = BatchKey(rows[j])
      /\ g \subseteq Decodable(rows)
  BY DEF GroupsInv
<1>2. \A i \in g : rows[i].count > 0 /\ Conditioning(rows[i]).accepted
  BY <1>1, Zenon DEF Decodable
<1>3. \A k \in DOMAIN Group(g) : \E i \in g : Group(g)[k] = rows[i]
  BY GroupRows
<1> QED BY <1>1, <1>2, <1>3, Zenon

LEMMA InitBatch == BatchInit => BatchInv
<1> SUFFICES ASSUME BatchInit PROVE BatchInv
  OBVIOUS
<1>1. GroupsInv
  BY DEF BatchInit, GroupsInv
<1>2. Kept(graphs)
  <2>1. DOMAIN graphs = WarmShapes
    BY DEF BatchInit
  <2>2. IsFiniteSet(WarmShapes)
    BY WarmFinite
  <2> QED BY <2>1, <2>2, WarmAssumption DEF Kept
<1> QED BY <1>1, <1>2 DEF BatchInv

\* Some groups fewer are still the groups of the execution.
LEMMA GroupsLeft ==
  ASSUME GroupsInv, rows' = rows, todo' \subseteq todo
  PROVE  GroupsInv'
  BY DEF GroupsInv

LEMMA ForwardInv == ASSUME BatchInv, NEW batch \in Batches, Forward(batch) PROVE BatchInv'
<1>1. batch \in Seq(Rows)
  <2>1. PICK n \in 1..MaxRows : batch \in [1..n -> Rows]
    BY DEF Batches
  <2>2. n \in Nat
    BY BatchAssumption
  <2> QED BY <2>1, <2>2
<1>2. /\ rows' = batch /\ todo' = GroupBatches(batch, Decodable(batch)) /\ graphs' = graphs
  BY DEF Forward
<1> DEFINE jobs == Decodable(batch)
           G == GroupBatches(batch, jobs)
<1>3. /\ \A g \in G :
              /\ g # {} /\ g \subseteq jobs
              /\ \A i, j \in g : BatchKey(batch[i]) = BatchKey(batch[j])
      /\ \A g, h \in G : g = h \/ g \cap h = {}
  <2> HIDE DEF jobs
  <2> QED BY GroupsAre
<1> HIDE DEF G
<1>4. GroupsInv'
  BY <1>1, <1>2, <1>3 DEF GroupsInv, Decodable, Conditioning, G
<1> QED BY <1>2, <1>4 DEF BatchInv, Kept

LEMMA DecodeInv ==
  ASSUME BatchInv, NEW g \in todo, DecodeSilent(g) \/ DecodeBatch(g)
  PROVE  BatchInv'
<1>1. rows' = rows /\ todo' = todo \ {g}
  BY DEF DecodeSilent, DecodeBatch
<1>2. GroupsInv'
  BY <1>1, GroupsLeft DEF BatchInv
<1>3. CASE DecodeSilent(g)
  BY <1>2, <1>3 DEF DecodeSilent, BatchInv, Kept
<1>4. CASE DecodeBatch(g)
  <2>1. graphs' = RunVocoder(Group(g), RunAcousticCore(Group(g))).graphs
    BY <1>4 DEF DecodeBatch
  <2>2. Kept(RunAcousticCore(Group(g)).graphs)
    BY RunGraphKeeps DEF RunAcousticCore, BatchInv
  <2>3. Group(g) \in Seq(Rows)
    BY GroupRows DEF BatchInv
  <2>4. Kept(RunVocoder(Group(g), RunAcousticCore(Group(g))).graphs)
    BY <2>2, <2>3, VocoderRenders
  <2> QED BY <1>2, <2>1, <2>4 DEF BatchInv, Kept
<1> QED BY <1>3, <1>4

\* An execution that raised leaves no rows, and the graphs as they were.
LEMMA RaisesInv == ASSUME BatchInv, NEW g \in todo, DecodeRaises(g) PROVE BatchInv'
<1>1. rows' = <<>> /\ todo' = {} /\ graphs' = graphs
  BY DEF DecodeRaises
<1>2. <<>> \in Seq(Rows)
  OBVIOUS
<1> QED BY <1>1, <1>2 DEF BatchInv, GroupsInv, Kept

LEMMA NextBatch == BatchInv /\ [BatchNext]_batchVars => BatchInv'
<1> SUFFICES ASSUME BatchInv, [BatchNext]_batchVars PROVE BatchInv'
  OBVIOUS
<1>1. CASE \E batch \in Batches : Forward(batch)
  BY <1>1, ForwardInv
<1>2. CASE \E g \in todo : DecodeSilent(g) \/ DecodeBatch(g)
  BY <1>2, DecodeInv
<1>3. CASE Return
  BY <1>3 DEF Return, BatchInv, GroupsInv, Kept
<1>4. CASE UNCHANGED batchVars
  BY <1>4 DEF batchVars, BatchInv, GroupsInv, Kept
<1>5. CASE \E g \in todo : DecodeRaises(g)
  BY <1>5, RaisesInv
<1> QED BY <1>1, <1>2, <1>3, <1>4, <1>5 DEF BatchNext

\* Groups are of one key and share no row, and the cache keeps its bound and
\* the shapes it was warmed for (group_batches, _run_graph).
THEOREM BatchInvariant == BatchSpec => []BatchInv
  BY InitBatch, NextBatch, PTL DEF BatchSpec

\* Of what the forward pass lets through (_reference_from_payload, batch_key) only
\* a final of fewer codes than the vocoder is said to bear can raise.
THEOREM OnlyShortFinalsRaise == BatchSpec => []AcceptedDecodes
<1>1. BatchInv => AcceptedDecodes
  <2> SUFFICES ASSUME BatchInv, NEW g \in todo, Raises(Group(g))
               PROVE  \E i \in g : rows[i].final /\ rows[i].count < MinEmit
    BY DEF AcceptedDecodes
  <2>1. GroupsInv
    BY DEF BatchInv
  <2>2. \A i, j \in DOMAIN Group(g) : BatchKey(Group(g)[i]) = BatchKey(Group(g)[j])
    BY <2>1, GroupAlike
  <2>3. ASSUME NEW k \in DOMAIN Group(g)
        PROVE  ~(Conditioning(Group(g)[k]).frames < Prompt(Group(g)[k]) * TokenMelRatio)
    <3> DEFINE r == Group(g)[k]
    <3>1. r \in Rows /\ Conditioning(r).accepted
      BY <2>1, GroupRows, GroupAlike
    <3> HIDE DEF r
    <3>2. Conditioning(r).frames = Prompt(r) * TokenMelRatio
      BY <3>1, AcceptedFrames
    <3>3. Prompt(r) * TokenMelRatio \in Nat
      BY <3>1, RowTypes, BatchAssumption
    <3> QED BY <3>2, <3>3 DEF r
  <2>4. ShortFinal(Group(g))
    BY <2>2, <2>3, Zenon DEF Raises, Refuses
  <2>5. PICK k \in DOMAIN Group(g) : Group(g)[1].final /\ EmitCodes(Group(g)[k]) < MinEmit
    BY <2>4 DEF ShortFinal
  <2>6. Group(g) \in Seq(Rows)
    BY <2>1, GroupRows
  <2>7. 1 \in DOMAIN Group(g)
    BY <2>6
  <2>8. Group(g)[k].final
    BY <2>2, <2>5, <2>7 DEF BatchKey
  <2>9. Group(g)[k].count < MinEmit
    <3>1. Group(g)[k] \in Rows
      BY <2>6
    <3> QED BY <2>5, <2>8, <3>1, RowTypes DEF EmitCodes
  <2>10. \E i \in g : rows[i] = Group(g)[k]
    BY <2>1, GroupRows
  <2> QED BY <2>8, <2>9, <2>10
<1> QED BY <1>1, BatchInvariant, PTL

\* Of the places I, at most n have ranks in one run of n.
LEMMA SliceFew ==
  ASSUME NEW m \in Nat, NEW I \in SUBSET (1..m), NEW n \in Nat \ {0}, NEW c,
         NEW J \in SUBSET I, \A j \in J : (Rank(j, I) - 1) \div n = c
  PROVE  Cardinality(J) <= n
<1> DEFINE f == [j \in J |-> (Rank(j, I) - 1) - n * c + 1]
<1>1. J \in SUBSET (1..m) /\ n \in Nat
  OBVIOUS
<1>2. IsFiniteSet(J) /\ Cardinality(J) \in Nat
  BY <1>1, PlacesFinite
<1>3. /\ \A i \in I : Rank(i, I) \in 1..Cardinality(I)
      /\ \A i, j \in I : Rank(i, I) = Rank(j, I) => i = j
      /\ Cardinality(I) \in Nat
  BY Ranks
<1>4. ASSUME NEW j \in J
      PROVE  Rank(j, I) \in Nat /\ c \in Int /\ n * c \in Int
             /\ (Rank(j, I) - 1) - n * c + 1 \in 1..n
  <2>1. PICK r \in Nat : r = Rank(j, I) /\ r >= 1
    BY <1>3
  <2>2. (r - 1) \div n = c /\ r - 1 \in Nat
    BY <2>1
  <2>3. c \in Int /\ r - 1 = n * c + ((r - 1) % n) /\ (r - 1) % n \in 0..(n - 1)
    BY <2>2
  <2>4. n * c \in Int
    BY <2>3
  <2> QED BY <2>1, <2>3, <2>4
<1>5. f \in [J -> 1..n]
  BY <1>4
<1>6. ASSUME NEW i \in J, NEW j \in J, f[i] = f[j] PROVE i = j
  <2>1. (Rank(i, I) - 1) - n * c + 1 = (Rank(j, I) - 1) - n * c + 1
    BY <1>6
  <2>2. Rank(i, I) = Rank(j, I)
    BY <1>4, <2>1
  <2> QED BY <1>3, <2>2
<1>7. f \in Injection(J, 1..n)
  <2> HIDE DEF f
  <2> QED BY <1>5, <1>6 DEF Injection, IsInjective
<1>8. IsFiniteSet(1..n) /\ Cardinality(1..n) = n
  BY UpTo
<1> HIDE DEF f
<1>9. Cardinality(J) <= Cardinality(1..n)
  BY <1>7, <1>8, FS_Injection
<1> QED BY <1>8, <1>9

\* Nor does a group hold more.
LEMMA GroupsFew ==
  ASSUME NEW n \in Nat, NEW batch, NEW jobs \in SUBSET (1..n),
         NEW g \in GroupBatches(batch, jobs)
  PROVE  Cardinality(g) <= MaxBatchRows
<1> DEFINE alike(i) == {j \in jobs : BatchKey(batch[j]) = BatchKey(batch[i])}
           slice(i) == (Rank(i, alike(i)) - 1) \div MaxBatchRows
           group(i) == {j \in alike(i) : slice(j) = slice(i)}
<1>1. PICK i \in jobs : g = group(i)
  BY DEF GroupBatches
<1>2. alike(i) \in SUBSET (1..n) /\ g \in SUBSET alike(i)
  BY <1>1
<1>3. ASSUME NEW j \in g PROVE (Rank(j, alike(i)) - 1) \div MaxBatchRows = slice(i)
  <2>1. j \in alike(i) /\ slice(j) = slice(i)
    <3> HIDE DEF slice, alike
    <3> QED BY <1>1
  <2>2. alike(j) = alike(i)
    <3>1. BatchKey(batch[j]) = BatchKey(batch[i])
      BY <2>1
    <3> QED BY <3>1
  <2>3. slice(j) = (Rank(j, alike(i)) - 1) \div MaxBatchRows
    BY <2>2
  <2> HIDE DEF slice, alike
  <2> QED BY <2>1, <2>3
<1>4. MaxBatchRows \in Nat \ {0}
  BY BatchAssumption
<1> HIDE DEF slice, alike, group
<1> QED BY <1>2, <1>3, <1>4, SliceFew

\* No group is longer than max_batch_rows, however many rows of an execution are
\* alike (group_batches).
THEOREM GroupsStayCapped == BatchSpec => []GroupsCapped
<1>1. BatchInit => GroupsCapped
  BY DEF BatchInit, GroupsCapped
<1>2. GroupsCapped /\ [BatchNext]_batchVars => GroupsCapped'
  <2> SUFFICES ASSUME GroupsCapped, [BatchNext]_batchVars PROVE GroupsCapped'
    OBVIOUS
  <2>1. ASSUME NEW batch \in Batches, Forward(batch) PROVE GroupsCapped'
    <3>1. PICK n \in Nat : DOMAIN batch = 1..n
      BY BatchAssumption DEF Batches
    <3>2. Decodable(batch) \in SUBSET (1..n)
      BY <3>1 DEF Decodable
    <3>3. todo' = GroupBatches(batch, Decodable(batch))
      BY <2>1 DEF Forward
    <3>4. \A g \in GroupBatches(batch, Decodable(batch)) : Cardinality(g) <= MaxBatchRows
      BY <3>2, GroupsFew
    <3> QED BY <3>3, <3>4 DEF GroupsCapped
  <2>2. ASSUME NEW g \in todo, DecodeSilent(g) \/ DecodeBatch(g) PROVE GroupsCapped'
    BY <2>2 DEF DecodeSilent, DecodeBatch, GroupsCapped
  <2>3. CASE Return \/ UNCHANGED batchVars
    BY <2>3 DEF Return, batchVars, GroupsCapped
  <2>4. ASSUME NEW g \in todo, DecodeRaises(g) PROVE GroupsCapped'
    BY <2>4 DEF DecodeRaises, GroupsCapped
  <2> QED BY <2>1, <2>2, <2>3, <2>4 DEF BatchNext
<1> QED BY <1>1, <1>2, PTL DEF BatchSpec

-----------------------------------------------------------------------------
(* A row sounds as it would alone                                          *)

\* Rows that cannot be decoded are silent, alone as in company.
LEMMA UndecodedAlone ==
  ASSUME NEW r \in Rows, ~(r.count > 0 /\ Conditioning(r).accepted)
  PROVE  Alone(r) = Silence
<1>1. r.count \in Nat
  BY RowTypes
<1>2. r.count > 0 \/ r.count = 0
  BY <1>1
<1>3. r.count = 0 \/ ~Conditioning(r).accepted
  BY <1>2, Zenon
<1> QED BY <1>3, Zenon DEF Alone

LEMMA ForwardAlone ==
  ASSUME NEW batch \in Batches, Forward(batch) PROVE OutInv'
<1>1. PICK n \in 1..MaxRows : batch \in [1..n -> Rows]
  BY DEF Batches
<1> DEFINE jobs == Decodable(batch)
           G == GroupBatches(batch, jobs)
<1>2. rows' = batch /\ out' = [i \in DOMAIN batch |-> Silence] /\ todo' = G
  BY DEF Forward
<1>3. UNION G = jobs
  <2> HIDE DEF jobs
  <2> QED BY GroupsAre
<1>4. ASSUME NEW i \in DOMAIN batch, i \notin jobs PROVE Alone(batch[i]) = Silence
  <2>1. batch[i] \in Rows
    BY <1>1
  <2>2. ~(batch[i].count > 0 /\ Conditioning(batch[i]).accepted)
    BY <1>4, Zenon DEF Decodable
  <2> QED BY <2>1, <2>2, UndecodedAlone
<1> HIDE DEF G, jobs
<1>5. \A i \in DOMAIN batch :
        Silence = IF i \in UNION G THEN Silence ELSE Alone(batch[i])
  BY <1>3, <1>4, Zenon
<1>6. out' = [i \in DOMAIN batch |-> IF i \in UNION G THEN Silence ELSE Alone(batch[i])]
  BY <1>2, <1>5
<1> QED BY <1>2, <1>6 DEF OutInv

\* What becomes of a row of the group decoded, and of the others.
LEMMA DecodeAlone ==
  ASSUME ~Ragged, BatchInv, OutInv, NEW g \in todo, DecodeSilent(g) \/ DecodeBatch(g)
  PROVE  OutInv'
<1>1. GroupsInv /\ rows' = rows /\ todo' = todo \ {g} /\ DOMAIN out = DOMAIN rows
  BY DEF DecodeSilent, DecodeBatch, BatchInv, OutInv
<1>2. ASSUME NEW i \in DOMAIN rows
      PROVE  /\ i \in UNION todo <=> i \in g \/ i \in UNION (todo \ {g})
             /\ i \in g => i \notin UNION (todo \ {g})
  <2>1. \A h \in todo : g = h \/ g \cap h = {}
    BY <1>1 DEF GroupsInv
  <2> QED BY <2>1
<1>3. ASSUME NEW i \in g
      PROVE  /\ i \in DOMAIN rows /\ Rank(i, g) \in DOMAIN Group(g)
             /\ Group(g)[Rank(i, g)] = rows[i]
  BY <1>1, GroupRows
<1>4. ASSUME NEW i \in g, TooShort(Group(g)) PROVE Alone(rows[i]) = Silence
  <2>1. TooShort(<<Group(g)[Rank(i, g)]>>)
    BY <1>1, <1>3, <1>4, ShortAlike, GroupRows, GroupAlike
  <2>2. TooShort(<<rows[i]>>)
    BY <1>3, <2>1, Zenon
  <2> QED BY <2>2, Zenon DEF Alone
<1> DEFINE run == RunVocoder(Group(g), RunAcousticCore(Group(g)))
<1>5. ASSUME NEW i \in g, ~TooShort(Group(g))
      PROVE  Audio(rows[i], run.output[Rank(i, g)]) = Alone(rows[i])
  <2> DEFINE k == Rank(i, g)
  <2>1. k \in DOMAIN Group(g) /\ Group(g)[k] = rows[i] /\ Group(g) \in Seq(Rows)
    BY <1>1, <1>3, GroupRows
  <2>2. Group(g)[k].count > 0 /\ Conditioning(Group(g)[k]).accepted
    BY <1>1, <2>1, GroupAlike
  <2>3. Group(g)[k].count # 0
    <3>1. Group(g)[k] \in Rows
      BY <2>1
    <3>2. Group(g)[k].count \in Nat
      BY <3>1, RowTypes
    <3> QED BY <2>2, <3>2
  <2>4. \A m, j \in DOMAIN Group(g) : BatchKey(Group(g)[m]) = BatchKey(Group(g)[j])
    BY <1>1, GroupAlike
  <2> HIDE DEF k
  <2>5. Audio(Group(g)[k], run.output[k]) = Alone(Group(g)[k])
    BY <1>5, <2>1, <2>2, <2>3, <2>4, RowAlone
  <2> HIDE DEF run
  <2>6. Audio(rows[i], run.output[k]) = Alone(rows[i])
    BY <2>1, <2>5, Zenon
  <2> QED BY <2>6 DEF k
<1>6. \A i \in DOMAIN rows :
        out[i] = IF i \in UNION todo THEN Silence ELSE Alone(rows[i])
  BY DEF OutInv
<1>7. CASE DecodeSilent(g)
  <2>1. out' = out /\ TooShort(Group(g))
    BY <1>7 DEF DecodeSilent
  <2>2. \A i \in DOMAIN rows :
          out[i] = IF i \in UNION (todo \ {g}) THEN Silence ELSE Alone(rows[i])
    BY <1>2, <1>4, <1>6, <2>1, Zenon
  <2>3. out = [i \in DOMAIN rows |-> out[i]]
    BY DEF OutInv
  <2>4. out = [i \in DOMAIN rows |->
                 IF i \in UNION (todo \ {g}) THEN Silence ELSE Alone(rows[i])]
    BY <2>2, <2>3
  <2> QED BY <1>1, <2>1, <2>4 DEF OutInv
<1>8. CASE DecodeBatch(g)
  <2> DEFINE results == [k \in DOMAIN Group(g) |-> Audio(Group(g)[k], run.output[k])]
  <2>1. out' = Scatter(g, results) /\ ~TooShort(Group(g))
    BY <1>8 DEF DecodeBatch
  <2>2. ASSUME NEW i \in g PROVE results[Rank(i, g)] = Alone(rows[i])
    <3>1. results[Rank(i, g)] = Audio(Group(g)[Rank(i, g)], run.output[Rank(i, g)])
      BY <1>3
    <3> HIDE DEF run, results
    <3> QED BY <1>3, <1>5, <2>1, <3>1, Zenon
  <2> HIDE DEF results
  <2>3. out' = [i \in DOMAIN rows |-> IF i \in g THEN results[Rank(i, g)] ELSE out[i]]
    BY <1>1, <2>1 DEF Scatter
  <2>4. \A i \in DOMAIN rows :
          (IF i \in g THEN results[Rank(i, g)] ELSE out[i])
            = IF i \in UNION (todo \ {g}) THEN Silence ELSE Alone(rows[i])
    BY <1>2, <1>6, <2>2, Zenon
  <2>5. out' = [i \in DOMAIN rows |->
                  IF i \in UNION (todo \ {g}) THEN Silence ELSE Alone(rows[i])]
    BY <2>3, <2>4
  <2> QED BY <1>1, <2>5 DEF OutInv
<1> QED BY <1>7, <1>8

LEMMA NextAlone == ASSUME ~Ragged PROVE BatchInv /\ OutInv /\ [BatchNext]_batchVars => OutInv'
<1> SUFFICES ASSUME BatchInv, OutInv, [BatchNext]_batchVars PROVE OutInv'
  OBVIOUS
<1>1. CASE \E batch \in Batches : Forward(batch)
  BY <1>1, ForwardAlone
<1>2. CASE \E g \in todo : DecodeSilent(g) \/ DecodeBatch(g)
  BY <1>2, DecodeAlone
<1>3. CASE Return
  BY <1>3 DEF Return, OutInv
<1>4. CASE UNCHANGED batchVars
  BY <1>4 DEF batchVars, OutInv
<1>5. CASE \E g \in todo : DecodeRaises(g)
  BY <1>5 DEF DecodeRaises, OutInv
<1> QED BY <1>1, <1>2, <1>3, <1>4, <1>5 DEF BatchNext

\* Unless batching is ragged, every row of an execution is given the audio it
\* would have been given alone, whoever it is decoded with, in whatever order
\* and by whichever graph (batch_key, decode_batch, _run_graph, decode).
THEOREM DecodedAsAlone == ASSUME ~Ragged PROVE BatchSpec => []AsAlone
<1>1. BatchInit => OutInv
  BY DEF BatchInit, OutInv
<1>2. BatchInv /\ OutInv /\ [BatchNext]_batchVars => OutInv'
  BY NextAlone
<1>3. OutInv => AsAlone
  BY DEF OutInv, AsAlone, Done
<1> QED BY <1>1, <1>2, <1>3, BatchInvariant, PTL DEF BatchSpec

-----------------------------------------------------------------------------
(* The rungs that are warm                                                 *)

\* The count of the warm-up, up to the n-th rung.
Counted(f, n) ==
  f = [k \in 0..n |->
         IF k = 0 THEN [cum |-> 0, block |-> FirstBlock]
         ELSE [cum |-> f[k - 1].cum + f[k - 1].block, block |-> NextBlock(f[k - 1].block)]]

LEMMA CountedExists == ASSUME NEW n \in Nat PROVE \E f : Counted(f, n)
<1> DEFINE S == {m \in Nat : \E f : Counted(f, m)}
           first == [cum |-> 0, block |-> FirstBlock]
           next(f, k) == [cum |-> f[k - 1].cum + f[k - 1].block,
                          block |-> NextBlock(f[k - 1].block)]
<1>0. ASSUME NEW f, NEW m
      PROVE  Counted(f, m) <=> f = [k \in 0..m |-> IF k = 0 THEN first ELSE next(f, k)]
  BY DEF Counted
<1>1. 0 \in S
  <2> DEFINE f == [k \in 0..0 |-> first]
  <2>1. f = [k \in 0..0 |-> IF k = 0 THEN first ELSE next(f, k)]
    <3> HIDE DEF first, next
    <3> QED OBVIOUS
  <2> HIDE DEF f, first, next
  <2> QED BY <1>0, <2>1
<1>2. ASSUME NEW m \in S PROVE m + 1 \in S
  <2>1. PICK f : Counted(f, m)
    OBVIOUS
  <2>2. f = [k \in 0..m |-> IF k = 0 THEN first ELSE next(f, k)]
    <3> HIDE DEF first, next
    <3> QED BY <1>0, <2>1
  <2> DEFINE h == [k \in 0..(m + 1) |-> IF k = m + 1 THEN next(f, k) ELSE f[k]]
  <2>3. m \in Nat /\ m + 1 \in Nat
    OBVIOUS
  <2>4. ASSUME NEW k \in 0..(m + 1) PROVE h[k] = IF k = 0 THEN first ELSE next(h, k)
    <3>1. CASE k = 0
      <4>1. k # m + 1 /\ k \in 0..m
        BY <2>3, <3>1
      <4>2. h[k] = f[k] /\ f[k] = first
        <5> HIDE DEF first, next
        <5> QED BY <2>2, <3>1, <4>1
      <4> QED BY <3>1, <4>2
    <3>2. CASE k # 0
      <4>1. k - 1 \in 0..m /\ k - 1 # m + 1 /\ k - 1 \in 0..(m + 1)
        BY <2>3, <3>2
      <4>2. h[k - 1] = f[k - 1]
        <5> HIDE DEF next
        <5> QED BY <4>1
      <4>3. next(h, k) = next(f, k)
        <5> HIDE DEF h
        <5> QED BY <4>2
      <4>4. h[k] = next(f, k)
        <5>1. CASE k = m + 1
          <6> HIDE DEF next
          <6> QED BY <5>1
        <5>2. CASE k # m + 1
          <6>1. k \in 0..m
            BY <2>3, <5>2
          <6>2. h[k] = f[k]
            <7> HIDE DEF next
            <7> QED BY <5>2
          <6>3. f[k] = next(f, k)
            <7> HIDE DEF next, first
            <7> QED BY <2>2, <3>2, <6>1
          <6> QED BY <6>2, <6>3
        <5> QED BY <5>1, <5>2
      <4> HIDE DEF h, next
      <4> QED BY <3>2, <4>3, <4>4
    <3> QED BY <3>1, <3>2
  <2>5. DOMAIN h = 0..(m + 1) /\ h = [k \in 0..(m + 1) |-> h[k]]
    <3> HIDE DEF next
    <3> QED OBVIOUS
  <2>6. h = [k \in 0..(m + 1) |-> IF k = 0 THEN first ELSE next(h, k)]
    <3> HIDE DEF h, first, next
    <3> QED BY <2>4, <2>5
  <2>7. Counted(h, m + 1)
    <3> HIDE DEF h, first, next
    <3> QED BY <1>0, <2>6
  <2> HIDE DEF h
  <2> QED BY <2>3, <2>7
<1> HIDE DEF S
<1>3. S = Nat
  BY <1>1, <1>2, AllOfNat DEF S
<1> QED BY <1>3 DEF S

LEMMA CumulatedAt ==
  /\ Cumulated[0] = [cum |-> 0, block |-> FirstBlock]
  /\ \A k \in 1..12 :
       Cumulated[k] = [cum |-> Cumulated[k - 1].cum + Cumulated[k - 1].block,
                       block |-> NextBlock(Cumulated[k - 1].block)]
<1>1. Cumulated = CHOOSE f : Counted(f, 12)
  BY DEF Cumulated, Counted, WarmLimit
<1>2. \E f : Counted(f, 12)
  <2>1. 12 \in Nat
    OBVIOUS
  <2> QED BY <2>1, CountedExists
<1>3. Counted(Cumulated, 12)
  BY <1>1, <1>2
<1> QED BY <1>3 DEF Counted

LEMMA BlockPositive ==
  ASSUME NEW b \in Nat \ {0}
  PROVE  NextBlock(b) \in Nat \ {0}
<1>1. b * GrowthPct >= b * 100 /\ b * GrowthPct \in Nat
  BY LadderAssumption
<1>2. (b * GrowthPct) \div 100 \in Nat /\ (b * GrowthPct) \div 100 >= 1
  BY <1>1
<1> QED BY <1>2, LadderAssumption DEF NextBlock, MinOf

\* The count grows at each rung.
LEMMA CumulatedGrows ==
  \A k \in 0..12 : Cumulated[k].cum \in Nat /\ Cumulated[k].block \in Nat \ {0}
<1> DEFINE S == {k \in Nat : k <= 12 =>
                   Cumulated[k].cum \in Nat /\ Cumulated[k].block \in Nat \ {0}}
<1>1. 0 \in S
  BY CumulatedAt, LadderAssumption
<1>2. ASSUME NEW k \in S PROVE k + 1 \in S
  <2> SUFFICES ASSUME k + 1 <= 12
               PROVE  Cumulated[k + 1].cum \in Nat /\ Cumulated[k + 1].block \in Nat \ {0}
    OBVIOUS
  <2>1. k \in Nat /\ k <= 12 /\ k + 1 \in 1..12 /\ (k + 1) - 1 = k
    OBVIOUS
  <2>2. Cumulated[k].cum \in Nat /\ Cumulated[k].block \in Nat \ {0}
    BY <2>1
  <2>3. NextBlock(Cumulated[k].block) \in Nat \ {0}
    BY <2>2, BlockPositive
  <2>4. Cumulated[k + 1] = [cum |-> Cumulated[k].cum + Cumulated[k].block,
                            block |-> NextBlock(Cumulated[k].block)]
    BY <2>1, CumulatedAt
  <2> HIDE DEF S
  <2> QED BY <2>2, <2>3, <2>4
<1> HIDE DEF S
<1>3. S = Nat
  BY <1>1, <1>2, AllOfNat DEF S
<1> QED BY <1>3 DEF S

LEMMA ScheduledAt ==
  /\ Scheduled[1] = [at |-> FirstBlock, block |-> FirstBlock]
  /\ \A k \in 2..12 :
       Scheduled[k] = [at |-> Scheduled[k - 1].at + NextBlock(Scheduled[k - 1].block),
                       block |-> NextBlock(Scheduled[k - 1].block)]
<1> DEFINE next(f, k) == [at |-> f[k - 1].at + NextBlock(f[k - 1].block),
                          block |-> NextBlock(f[k - 1].block)]
           first == [at |-> FirstBlock, block |-> FirstBlock]
           Is(f) == f = [k \in 1..12 |-> IF k = 1 THEN first ELSE next(f, k)]
           h == [k \in 1..12 |-> [at |-> Cumulated[k].cum, block |-> Cumulated[k - 1].block]]
<1>1. Scheduled = CHOOSE f : Is(f)
  BY DEF Scheduled, WarmLimit
<1>2. ASSUME NEW k \in 1..12 PROVE h[k] = IF k = 1 THEN first ELSE next(h, k)
  <2>1. h[k] = [at |-> Cumulated[k].cum, block |-> Cumulated[k - 1].block]
    OBVIOUS
  <2>2. /\ Cumulated[k].cum = Cumulated[k - 1].cum + Cumulated[k - 1].block
        /\ k - 1 \in 0..12
    BY CumulatedAt
  <2>3. CASE k = 1
    <3>1. Cumulated[k - 1].cum = 0 /\ Cumulated[k - 1].block = FirstBlock
      BY <2>3, CumulatedAt
    <3>2. Cumulated[k].cum = FirstBlock
      BY <2>2, <3>1, LadderAssumption
    <3> HIDE DEF h
    <3> QED BY <2>1, <2>3, <3>1, <3>2
  <2>4. CASE k # 1
    <3>1. k - 1 \in 1..12 /\ k # 1
      BY <2>4
    <3>2. h[k - 1] = [at |-> Cumulated[k - 1].cum, block |-> Cumulated[(k - 1) - 1].block]
      BY <3>1
    <3>3. Cumulated[k - 1].block = NextBlock(Cumulated[(k - 1) - 1].block)
      BY <3>1, CumulatedAt
    <3> HIDE DEF h
    <3>4. next(h, k) = [at |-> Cumulated[k - 1].cum + Cumulated[k - 1].block,
                        block |-> Cumulated[k - 1].block]
      BY <3>2, <3>3
    <3> HIDE DEF next
    <3> QED BY <2>1, <2>2, <3>1, <3>4
  <2> QED BY <2>3, <2>4
<1>3. h = [k \in 1..12 |-> h[k]]
  OBVIOUS
<1> HIDE DEF h
<1>4. Is(h)
  <2> HIDE DEF next, first
  <2> QED BY <1>2, <1>3
<1> HIDE DEF Is
<1>5. Is(Scheduled)
  BY <1>1, <1>4
<1> QED BY <1>5 DEF Is

\* Stage 1 decodes a stream where the warm-up counts.
LEMMA SchedulesAgree == \A k \in 1..12 : Scheduled[k].at = Cumulated[k].cum
<1> DEFINE S == {n \in Nat : n + 1 <= 12 =>
                   /\ Scheduled[n + 1].at = Cumulated[n + 1].cum
                   /\ Scheduled[n + 1].block = Cumulated[n].block}
<1>1. 0 \in S
  <2>1. Cumulated[1].cum = Cumulated[0].cum + Cumulated[0].block
    <3>1. 1 \in 1..12 /\ 1 - 1 = 0
      OBVIOUS
    <3> QED BY <3>1, CumulatedAt
  <2>2. Cumulated[0].cum = 0 /\ Cumulated[0].block = FirstBlock
    BY CumulatedAt
  <2>3. Cumulated[1].cum = FirstBlock
    BY <2>1, <2>2, LadderAssumption
  <2>4. Scheduled[1].at = FirstBlock /\ Scheduled[1].block = FirstBlock
    BY ScheduledAt
  <2>5. 0 + 1 = 1
    OBVIOUS
  <2> QED BY <2>2, <2>3, <2>4, <2>5
<1>2. ASSUME NEW n \in S PROVE n + 1 \in S
  <2> SUFFICES ASSUME (n + 1) + 1 <= 12
               PROVE  /\ Scheduled[(n + 1) + 1].at = Cumulated[(n + 1) + 1].cum
                      /\ Scheduled[(n + 1) + 1].block = Cumulated[n + 1].block
    OBVIOUS
  <2>1. PICK k \in 1..11 : k = n + 1 /\ k - 1 = n
    OBVIOUS
  <2>2. Scheduled[k].at = Cumulated[k].cum /\ Scheduled[k].block = Cumulated[k - 1].block
    BY <2>1
  <2>3. k + 1 \in 2..12 /\ k + 1 \in 1..12 /\ k \in 1..12 /\ (k + 1) - 1 = k
    OBVIOUS
  <2>4. Cumulated[k].block = NextBlock(Cumulated[k - 1].block)
    BY <2>3, CumulatedAt
  <2>5. Cumulated[k + 1].cum = Cumulated[k].cum + Cumulated[k].block
    BY <2>3, CumulatedAt
  <2>6. /\ Scheduled[k + 1].at = Scheduled[k].at + NextBlock(Scheduled[k].block)
        /\ Scheduled[k + 1].block = NextBlock(Scheduled[k].block)
    BY <2>3, ScheduledAt
  <2> HIDE DEF S
  <2> QED BY <2>1, <2>2, <2>4, <2>5, <2>6
<1> HIDE DEF S
<1>3. S = Nat
  BY <1>1, <1>2, AllOfNat DEF S
<1> SUFFICES ASSUME NEW k \in 1..12 PROVE Scheduled[k].at = Cumulated[k].cum
  OBVIOUS
<1>4. k - 1 \in S /\ (k - 1) + 1 = k /\ k <= 12
  BY <1>3
<1> QED BY <1>4 DEF S

\* Every rung at which a graph may be captured was warmed.
LEMMA RungsCovered == ASSUME LadderInside PROVE RungLengths \subseteq WarmRungs
<1> SUFFICES ASSUME NEW c \in RungLengths PROVE c \in WarmRungs
  OBVIOUS
<1>1. PICK k \in 1..12 : c = Scheduled[k].at /\ c <= GraphMaxCodes
  BY DEF RungLengths, WarmLimit
<1>2. c = Cumulated[k].cum
  BY <1>1, SchedulesAgree
<1>3. Cumulated[k].cum = Cumulated[k - 1].cum + Cumulated[k - 1].block
  BY CumulatedAt
<1>4. PICK cum \in Nat, block \in Nat \ {0} :
        cum = Cumulated[k - 1].cum /\ block = Cumulated[k - 1].block
  <2>1. k - 1 \in 0..12
    OBVIOUS
  <2> QED BY <2>1, CumulatedGrows
<1>5. c = cum + block
  BY <1>2, <1>3, <1>4
<1>6. cum < 4 * MaxBlock /\ c \in 0..GraphMaxCodes
  BY <1>1, <1>5, LadderAssumption, BatchAssumption DEF LadderInside
<1> QED BY <1>2, <1>4, <1>6 DEF WarmRungs, WarmLimit

\* Where the ladder is captured no further than it is warmed, the graph of every
\* rung of a prewarmed prompt is there from the start and stays, and the cache
\* keeps its bound (warm_acoustic_graphs, _run_graph).
THEOREM RungsStayWarm == ASSUME LadderInside PROVE BatchSpec => []RungsWarm
<1>1. BatchInv => RungsWarm
  <2> SUFFICES ASSUME BatchInv PROVE RungsWarm
    OBVIOUS
  <2>1. WarmShapes \subseteq DOMAIN graphs /\ Cardinality(DOMAIN graphs) <= GraphCacheSize
    BY DEF BatchInv, Kept
  <2>2. ASSUME NEW n \in 1..GraphRows, NEW prompt \in Prewarm, NEW c \in RungLengths
        PROVE  <<"encoder_flow", n, <<prompt + c, (prompt + c - Lookahead) * TokenMelRatio>>>>
                 \in DOMAIN graphs
    <3>1. c \in WarmRungs
      BY RungsCovered
    <3>2. <<"encoder_flow", n, <<prompt + c, (prompt + c - Lookahead) * TokenMelRatio>>>>
            \in WarmShapes
      BY <3>1 DEF WarmShapes
    <3> QED BY <2>1, <3>2
  <2> QED BY <2>1, <2>2 DEF RungsWarm
<1> QED BY <1>1, BatchInvariant, PTL
=============================================================================

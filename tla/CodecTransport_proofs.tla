------------------------ MODULE CodecTransport_proofs ------------------------
(***************************************************************************)
(* The transport for every number of rows, every ladder and every output:  *)
(* how a stream ends (EndInv), and what it publishes (DataInv).  The codes *)
(* of a list of tokens are those at the places Kept picks, so the lemmas   *)
(* on lists count places: what is picked from two lists put together is    *)
(* what is picked from each.                                               *)
(***************************************************************************)
EXTENDS CodecTransport, FiniteSetTheorems, TLAPS

\* The cursor of a conditional row as its callback has observed it, whether it
\* flushes, and the cursor after what it takes.
Seen(r) == MarkFinished(Observe(CursorOf(r), output[r]), Finished(r))
Flushing(r) == Terminal(Seen(r), Finished(r))
Took(r) == Taken(Seen(r), Flushing(r))
Final(r) == Flushing(r) /\ ~Seen(r).sent
Left(r) == Released([Took(r) EXCEPT !.sent = @ \/ Flushing(r)], Final(r))

Carried(r, voiced) ==
  [codes |-> SubSeq(Took(r).valid, Seen(r).next + 1, Took(r).next),
   seq |-> Took(r).seq, final |-> Final(r), ref |-> CarriesReference(Took(r), voiced)]

\* The callback of a conditional row, its steps named.
LEMMA CondStep ==
  ASSUME NEW r, CallbackCond(r)
  PROVE  /\ r \notin Uncond /\ ~TerminalSent(r)
         /\ IF Took(r).next > Seen(r).next \/ Final(r)
            THEN \E voiced \in BOOLEAN : Publish(r, Carried(r, voiced))
            ELSE UNCHANGED <<wire, published>>
         /\ cursor' = [cursor EXCEPT ![r] = Left(r)]
         /\ UNCHANGED <<output, status, epoch, refused>>
<1> DEFINE Does(seen, flushing, c, final, voiced) ==
             /\ IF c.next > seen.next \/ final
                THEN Publish(r, [codes |-> SubSeq(c.valid, seen.next + 1, c.next),
                                 seq |-> c.seq, final |-> final,
                                 ref |-> CarriesReference(c, voiced)])
                ELSE UNCHANGED <<wire, published>>
             /\ cursor' = [cursor EXCEPT ![r] =
                             Released([c EXCEPT !.sent = @ \/ flushing], final)]
<1>1. \E seen \in {Seen(r)} : \E flushing \in {Terminal(seen, Finished(r))} :
      \E c \in {Taken(seen, flushing)}, final \in {flushing /\ ~seen.sent}, voiced \in BOOLEAN :
        Does(seen, flushing, c, final, voiced)
  BY DEF CallbackCond, Seen
<1> HIDE DEF Does
<1>2. \E flushing \in {Flushing(r)} :
      \E c \in {Taken(Seen(r), flushing)}, final \in {flushing /\ ~Seen(r).sent}, voiced \in BOOLEAN :
        Does(Seen(r), flushing, c, final, voiced)
  BY <1>1 DEF Flushing
<1>3. PICK voiced \in BOOLEAN : Does(Seen(r), Flushing(r), Took(r), Final(r), voiced)
  BY <1>2 DEF Took, Final
<1>4. /\ IF Took(r).next > Seen(r).next \/ Final(r) THEN Publish(r, Carried(r, voiced))
         ELSE UNCHANGED <<wire, published>>
      /\ cursor' = [cursor EXCEPT ![r] = Left(r)]
  BY <1>3 DEF Does, Carried, Left
<1>5. r \notin Uncond /\ ~TerminalSent(r) /\ UNCHANGED <<output, status, epoch, refused>>
  BY DEF CallbackCond, Called, IsCompanion
<1> QED BY <1>4, <1>5

-----------------------------------------------------------------------------
(* How a stream ends                                                       *)

\* Payloads of no particular kind: what the codes are does not matter here.
IsSequence(s) == \E S : s \in Seq(S)

\* A stream is open, with no terminal payload, or it is over: the terminal one
\* is its last, and its cursor is gone.
WireInv(r) ==
  /\ IsSequence(wire[r])
  /\ \A i \in 1..Len(wire[r]) : wire[r][i].final => i = Len(wire[r]) /\ ~cursor[r].live
  /\ r \in Uncond => \A i \in 1..Len(wire[r]) : wire[r][i].final /\ wire[r][i].codes = <<>>

EndInv ==
  /\ DOMAIN wire = Rows /\ DOMAIN cursor = Rows
  /\ \A r \in Rows : WireInv(r)

\* What Append does to a sequence of anything.
LEMMA Appended ==
  ASSUME NEW s, IsSequence(s), NEW e
  PROVE  /\ IsSequence(Append(s, e))
         /\ Len(Append(s, e)) = Len(s) + 1 /\ Len(s) \in Nat
         /\ \A i \in 1..Len(s) : Append(s, e)[i] = s[i]
         /\ Append(s, e)[Len(s) + 1] = e
<1>1. PICK S : s \in Seq(S)
  BY DEF IsSequence
<1>2. s \in Seq(S \cup {e}) /\ e \in S \cup {e}
  BY <1>1
<1>3. Append(s, e) \in Seq(S \cup {e})
  BY <1>2
<1> QED BY <1>2, <1>3 DEF IsSequence

\* A payload on an open stream: when it is the terminal one it closes it.
LEMMA PublishInv ==
  ASSUME EndInv, NEW r \in Rows, ~TerminalSent(r), NEW payload, NEW c,
         Publish(r, payload), cursor' = [cursor EXCEPT ![r] = c],
         payload.final => ~c.live,
         r \in Uncond => payload.final /\ payload.codes = <<>>
  PROVE  EndInv'
<1>1. WireInv(r) /\ wire' = [wire EXCEPT ![r] = Append(@, payload)]
  BY DEF EndInv, Publish
<1>2. wire'[r] = Append(wire[r], payload) /\ cursor'[r] = c
  BY <1>1 DEF EndInv
<1>3. \A i \in 1..Len(wire[r]) : ~wire[r][i].final
  BY DEF TerminalSent
<1>4. /\ IsSequence(wire'[r]) /\ Len(wire'[r]) = Len(wire[r]) + 1 /\ Len(wire[r]) \in Nat
      /\ \A i \in 1..Len(wire[r]) : wire'[r][i] = wire[r][i]
      /\ wire'[r][Len(wire[r]) + 1] = payload
  BY <1>1, <1>2, Appended DEF WireInv
<1>5. \A i \in 1..Len(wire'[r]) : i \in 1..Len(wire[r]) \/ i = Len(wire[r]) + 1
  BY <1>4
<1>6. WireInv(r)'
  BY <1>1, <1>2, <1>3, <1>4, <1>5 DEF WireInv
<1>7. ASSUME NEW q \in Rows, q # r PROVE WireInv(q)'
  <2>1. wire'[q] = wire[q] /\ cursor'[q] = cursor[q] /\ WireInv(q)
    BY <1>1, <1>7 DEF EndInv
  <2> QED BY <2>1 DEF WireInv
<1>8. DOMAIN wire' = Rows /\ DOMAIN cursor' = Rows
  BY <1>1 DEF EndInv
<1> QED BY <1>6, <1>7, <1>8 DEF EndInv

\* Nothing published: the cursor of an open stream may become anything.
LEMMA SilentInv ==
  ASSUME EndInv, NEW r \in Rows, ~TerminalSent(r), NEW c,
         cursor' = [cursor EXCEPT ![r] = c], UNCHANGED wire
  PROVE  EndInv'
<1>1. DOMAIN wire' = Rows /\ DOMAIN cursor' = Rows
  BY DEF EndInv
<1>2. ASSUME NEW q \in Rows PROVE WireInv(q)'
  <2>1. WireInv(q) /\ (q # r => cursor'[q] = cursor[q])
    BY DEF EndInv
  <2>2. q = r => \A i \in 1..Len(wire[q]) : ~wire[q][i].final
    BY DEF TerminalSent
  <2> QED BY <2>1, <2>2 DEF WireInv
<1> QED BY <1>1, <1>2 DEF EndInv

LEMMA UncondInv == ASSUME EndInv, NEW r \in Rows, CallbackUncond(r) PROVE EndInv'
<1>1. ~TerminalSent(r)
  BY DEF CallbackUncond, Called
<1>2. CASE Finished(r) /\ ~CursorOf(r).sent
  <2> DEFINE payload == [codes |-> <<>>, seq |-> CursorOf(r).seq, final |-> TRUE, ref |-> FALSE]
             c == Released([CursorOf(r) EXCEPT !.sent = TRUE], TRUE)
  <2>1. Publish(r, payload) /\ cursor' = [cursor EXCEPT ![r] = c]
    BY <1>2 DEF CallbackUncond
  <2>2. ~c.live
    BY DEF Released, NoCursor
  <2>3. payload.final /\ payload.codes = <<>>
    OBVIOUS
  <2> HIDE DEF payload, c
  <2> QED BY <1>1, <2>1, <2>2, <2>3, PublishInv
<1>3. CASE ~(Finished(r) /\ ~CursorOf(r).sent)
  <2>1. cursor' = [cursor EXCEPT ![r] = CursorOf(r)] /\ UNCHANGED wire
    BY <1>3 DEF CallbackUncond
  <2> QED BY <1>1, <2>1, SilentInv
<1> QED BY <1>2, <1>3

LEMMA CondInv == ASSUME EndInv, NEW r \in Rows, CallbackCond(r) PROVE EndInv'
<1>1. /\ ~TerminalSent(r) /\ r \notin Uncond
      /\ cursor' = [cursor EXCEPT ![r] = Left(r)]
      /\ IF Took(r).next > Seen(r).next \/ Final(r)
         THEN \E voiced \in BOOLEAN : Publish(r, Carried(r, voiced))
         ELSE UNCHANGED <<wire, published>>
  BY CondStep
<1>2. \A voiced : Carried(r, voiced).final => ~Left(r).live
  BY DEF Carried, Left, Released, NoCursor
<1>3. CASE \E voiced \in BOOLEAN : Publish(r, Carried(r, voiced))
  BY <1>1, <1>2, <1>3, PublishInv
<1>4. CASE UNCHANGED <<wire, published>>
  BY <1>1, <1>4, SilentInv
<1> QED BY <1>1, <1>3, <1>4

LEMMA ResubmitInv == ASSUME EndInv, NEW r \in Rows, Resubmit(r) PROVE EndInv'
<1>1. wire' = [wire EXCEPT ![r] = <<>>] /\ UNCHANGED cursor
  BY DEF Resubmit
<1>2. DOMAIN wire' = Rows /\ DOMAIN cursor' = Rows
  BY <1>1 DEF EndInv
<1>3. ASSUME NEW q \in Rows PROVE WireInv(q)'
  <2>1. CASE q = r
    <3>1. wire'[q] = <<>> /\ <<>> \in Seq({}) /\ Len(<<>>) = 0
      BY <1>1, <2>1 DEF EndInv
    <3> QED BY <3>1 DEF WireInv, IsSequence
  <2>2. CASE q # r
    <3>1. wire'[q] = wire[q] /\ cursor'[q] = cursor[q] /\ WireInv(q)
      BY <1>1, <2>2 DEF EndInv
    <3> QED BY <3>1 DEF WireInv
  <2> QED BY <2>1, <2>2
<1> QED BY <1>2, <1>3 DEF EndInv

LEMMA InitEnd == Init => EndInv
<1> SUFFICES ASSUME Init PROVE EndInv
  OBVIOUS
<1>1. DOMAIN wire = Rows /\ DOMAIN cursor = Rows /\ \A r \in Rows : wire[r] = <<>>
  BY DEF Init
<1>2. IsSequence(<<>>) /\ Len(<<>>) = 0
  <2>1. <<>> \in Seq({}) /\ Len(<<>>) = 0
    OBVIOUS
  <2> QED BY <2>1 DEF IsSequence
<1>3. ASSUME NEW r \in Rows PROVE WireInv(r)
  BY <1>1, <1>2 DEF WireInv
<1> QED BY <1>1, <1>3 DEF EndInv

LEMMA NextEnd == EndInv /\ [Next]_vars => EndInv'
<1> SUFFICES ASSUME EndInv, [Next]_vars PROVE EndInv'
  OBVIOUS
<1>1. CASE \E r \in Rows : CallbackUncond(r)
  BY <1>1, UncondInv
<1>2. CASE \E r \in Rows : CallbackCond(r)
  BY <1>2, CondInv
<1>3. CASE \E r \in Rows : Resubmit(r)
  BY <1>3, ResubmitInv
<1>4. CASE UNCHANGED <<wire, cursor>>
  BY <1>4 DEF EndInv, WireInv
<1>5. CASE \E r \in Rows : \/ CallbackRefused(r) \/ Finish(r) \/ Abort(r)
                           \/ \E t \in Sampled(r) : Generate(r, t)
  <2>1. UNCHANGED <<wire, cursor>>
    BY <1>5 DEF CallbackRefused, Finish, Abort, Generate
  <2> QED BY <2>1, <1>4
<1>6. CASE UNCHANGED vars
  BY <1>4, <1>6 DEF vars
<1> QED BY <1>1, <1>2, <1>3, <1>5, <1>6 DEF Next, Callback

\* How every stream stands: open, or ended by its last payload.
THEOREM EndsInvariant == Spec => []EndInv
  BY InitEnd, NextEnd, PTL DEF Spec

-----------------------------------------------------------------------------
(* Lists                                                                   *)

\* What a list put together of two has at each place.
LEMMA Joined ==
  ASSUME NEW S, NEW q \in Seq(S), NEW r \in Seq(S)
  PROVE  /\ q \o r \in Seq(S) /\ Len(q) \in Nat /\ Len(r) \in Nat
         /\ Len(q \o r) = Len(q) + Len(r)
         /\ \A m \in 1..Len(q) : (q \o r)[m] = q[m]
         /\ \A m \in (Len(q) + 1)..(Len(q) + Len(r)) : (q \o r)[m] = r[m - Len(q)]
         /\ \A m \in 1..Len(r) : (q \o r)[Len(q) + m] = r[m]
  OBVIOUS

\* Lists of one length that agree at each place are the same.
LEMMA SameList ==
  ASSUME NEW S, NEW q \in Seq(S), NEW r \in Seq(S), Len(q) = Len(r),
         \A m \in 1..Len(q) : q[m] = r[m]
  PROVE  q = r
  OBVIOUS

\* Some of the places of a list are finitely many.
LEMMA PlacesFinite ==
  ASSUME NEW n \in Nat, NEW I \in SUBSET (1..n)
  PROVE  IsFiniteSet(I) /\ Cardinality(I) \in Nat
<1>1. IsFiniteSet(1..n)
  BY FS_Interval
<1>2. IsFiniteSet(I)
  BY <1>1, FS_Subset
<1> QED BY <1>2, FS_CardinalityType

\* How many members of I come up to i: the place of i among them.
Rank(i, I) == Cardinality({j \in I : j <= i})

\* Two places of a list have different ranks among those picked.
LEMMA RankDiffers ==
  ASSUME NEW n \in Nat, NEW I \in SUBSET (1..n), NEW i \in I, NEW j \in I, i < j
  PROVE  Rank(i, I) # Rank(j, I)
<1> DEFINE Below(k) == {m \in I : m <= k}
<1>1. IsFiniteSet(I)
  BY PlacesFinite
<1>2. IsFiniteSet(Below(j)) /\ Below(i) \in SUBSET Below(j)
  <2>1. Below(j) \in SUBSET I /\ Below(i) \in SUBSET Below(j)
    <3> SUFFICES ASSUME NEW m \in I, m <= i PROVE m <= j
      OBVIOUS
    <3>1. m \in Nat /\ i \in Nat /\ j \in Nat
      OBVIOUS
    <3> QED BY <3>1
  <2> QED BY <1>1, <2>1, FS_Subset
<1>3. j \in Below(j) /\ j \notin Below(i)
  OBVIOUS
<1>4. Cardinality(Below(i)) # Cardinality(Below(j))
  BY <1>2, <1>3, FS_Subset
<1> QED BY <1>4 DEF Rank

\* The ranks of the places picked are 1, 2, ... each once.
LEMMA Ranks ==
  ASSUME NEW n \in Nat, NEW I \in SUBSET (1..n)
  PROVE  /\ IsFiniteSet(I) /\ Cardinality(I) \in Nat
         /\ \A i \in I : Rank(i, I) \in 1..Cardinality(I)
         /\ \A i, j \in I : Rank(i, I) = Rank(j, I) => i = j
         /\ \A m \in 1..Cardinality(I) : \E i \in I : Rank(i, I) = m
<1> DEFINE k == Cardinality(I)
           rank == [i \in I |-> Rank(i, I)]
<1>1. IsFiniteSet(I) /\ k \in Nat
  BY PlacesFinite
<1>2. ASSUME NEW i \in I PROVE Rank(i, I) \in 1..k
  <2> DEFINE B == {j \in I : j <= i}
  <2>1. B \in SUBSET I /\ i \in B
    OBVIOUS
  <2>2. IsFiniteSet(B) /\ Cardinality(B) <= k /\ Cardinality(B) \in Nat
    BY <1>1, <2>1, FS_Subset, FS_CardinalityType
  <2>3. Cardinality(B) # 0
    BY <2>1, <2>2, FS_EmptySet
  <2> QED BY <1>1, <2>2, <2>3 DEF Rank
<1>3. ASSUME NEW i \in I, NEW j \in I, Rank(i, I) = Rank(j, I) PROVE i = j
  BY <1>3, RankDiffers
<1>4. IsFiniteSet(1..k) /\ Cardinality(1..k) = k
  BY <1>1, FS_Interval
<1>5. rank \in Injection(I, 1..k)
  BY <1>2, <1>3 DEF Injection, IsInjective
<1>6. rank \in Surjection(I, 1..k)
  BY <1>4, <1>5, FS_Injection
<1>7. \A m \in 1..k : \E i \in I : Rank(i, I) = m
  BY <1>6 DEF Surjection
<1> QED BY <1>1, <1>2, <1>3, <1>7

\* What is picked is a sequence of that many, and has each member at its rank.
LEMMA PickedAt ==
  ASSUME NEW T, NEW s \in Seq(T), NEW I \in SUBSET (1..Len(s)),
         NEW S, \A i \in I : s[i] \in S
  PROVE  /\ Picked(s, I) \in Seq(S) /\ Len(Picked(s, I)) = Cardinality(I)
         /\ DOMAIN Picked(s, I) = 1..Cardinality(I)
         /\ \A i \in I : Picked(s, I)[Rank(i, I)] = s[i]
<1> DEFINE k == Cardinality(I)
           nth(m) == CHOOSE i \in I : Rank(i, I) = m
           p == [m \in 1..k |-> s[nth(m)]]
<1>1. Picked(s, I) = p
  BY DEF Picked, Rank
<1>2. Len(s) \in Nat /\ \A i \in I : s[i] \in S
  OBVIOUS
<1>0. /\ k \in Nat
      /\ \A i \in I : Rank(i, I) \in 1..k
      /\ \A i, j \in I : Rank(i, I) = Rank(j, I) => i = j
      /\ \A m \in 1..k : \E i \in I : Rank(i, I) = m
  BY <1>2, Ranks
<1>3. \A m \in 1..k : nth(m) \in I /\ Rank(nth(m), I) = m
  BY <1>0
<1>4. ASSUME NEW i \in I PROVE Rank(i, I) \in 1..k /\ nth(Rank(i, I)) = i
  <2>1. Rank(i, I) \in 1..k
    BY <1>0
  <2>2. nth(Rank(i, I)) \in I /\ Rank(nth(Rank(i, I)), I) = Rank(i, I)
    BY <1>3, <2>1
  <2> HIDE DEF nth
  <2> QED BY <1>0, <2>1, <2>2
<1>5. p \in [1..k -> S] /\ p \in Seq(S) /\ Len(p) = k
  <2> HIDE DEF nth
  <2>1. p \in [1..k -> S]
    BY <1>2, <1>3
  <2> HIDE DEF p, k
  <2> QED BY <1>0, <2>1
<1>6. \A i \in I : p[Rank(i, I)] = s[i]
  <2> HIDE DEF nth
  <2> QED BY <1>4
<1>7. DOMAIN p = 1..k
  OBVIOUS
<1> HIDE DEF p
<1> QED BY <1>1, <1>5, <1>6, <1>7

\* Picking looks at nothing but the places picked.
LEMMA PickedSame ==
  ASSUME NEW s, NEW t, NEW I, \A i \in I : s[i] = t[i],
         NEW n \in Nat, I \in SUBSET (1..n)
  PROVE  Picked(s, I) = Picked(t, I)
<1> DEFINE nth(m) == CHOOSE i \in I : Rank(i, I) = m
<1>1. \A m \in 1..Cardinality(I) : nth(m) \in I
  BY Ranks
<1> HIDE DEF nth
<1>2. [m \in 1..Cardinality(I) |-> s[nth(m)]] = [m \in 1..Cardinality(I) |-> t[nth(m)]]
  BY <1>1
<1> QED BY <1>2 DEF Picked, Rank, nth

\* A set moved up keeps its size.
LEMMA Shifted ==
  ASSUME NEW n \in Nat, NEW T \in SUBSET Nat, IsFiniteSet(T)
  PROVE  /\ IsFiniteSet({n + t : t \in T})
         /\ Cardinality({n + t : t \in T}) = Cardinality(T)
<1> DEFINE U == {n + t : t \in T}
           f == [t \in T |-> n + t]
<1>1. f \in [T -> U] /\ \A u \in U : \E t \in T : f[t] = u
  OBVIOUS
<1>2. \A t, v \in T : f[t] = f[v] => t = v
  <2> SUFFICES ASSUME NEW t \in T, NEW v \in T, n + t = n + v PROVE t = v
    OBVIOUS
  <2>1. t \in Nat /\ v \in Nat
    OBVIOUS
  <2> QED BY <2>1
<1>3. f \in Bijection(T, U)
  BY <1>1, <1>2 DEF Bijection, Injection, Surjection, IsInjective
<1> HIDE DEF f, U
<1>4. ExistsBijection(T, U)
  BY <1>3 DEF ExistsBijection
<1>5. IsFiniteSet(U) /\ Cardinality(U) = Cardinality(T)
  BY <1>4, FS_Bijection
<1> QED BY <1>5 DEF U

\* K are the places I of a list of n and, behind it, the places J of one of m.
Behind(n, m, I, J, K) ==
  /\ I \in SUBSET (1..n) /\ J \in SUBSET (1..m) /\ K \in SUBSET (1..(n + m))
  /\ \A i \in 1..n : i \in K <=> i \in I
  /\ \A j \in 1..m : n + j \in K <=> j \in J

\* Picking from two lists put together is picking from each.
LEMMA PickedConcat ==
  ASSUME NEW S, NEW a \in Seq(S), NEW b \in Seq(S),
         NEW I, NEW J, NEW K, Behind(Len(a), Len(b), I, J, K)
  PROVE  Picked(a \o b, K) = Picked(a, I) \o Picked(b, J)
<1> DEFINE n == Len(a)
           ab == a \o b
           ci == Cardinality(I)
           cj == Cardinality(J)
<1>0. /\ I \in SUBSET (1..n) /\ J \in SUBSET (1..Len(b)) /\ K \in SUBSET (1..(n + Len(b)))
      /\ \A i \in 1..n : i \in K <=> i \in I
      /\ \A j \in 1..Len(b) : n + j \in K <=> j \in J
  BY DEF Behind
<1>1. /\ n \in Nat /\ Len(b) \in Nat /\ ab \in Seq(S) /\ Len(ab) = n + Len(b)
      /\ \A i \in 1..n : ab[i] = a[i]
      /\ \A j \in 1..Len(b) : ab[n + j] = b[j]
  OBVIOUS
<1>2. K \in SUBSET (1..Len(ab)) /\ K = I \cup {n + j : j \in J}
  <2>1. ASSUME NEW k \in K PROVE k \in I \cup {n + j : j \in J}
    <3>1. k \in 1..(n + Len(b))
      BY <1>0
    <3>2. CASE k \in 1..n
      BY <1>0, <3>2
    <3>3. CASE k \notin 1..n
      <4>1. k - n \in 1..Len(b) /\ n + (k - n) = k
        BY <1>0, <1>1, <3>1, <3>3
      <4>2. k - n \in J
        BY <1>0, <4>1
      <4> HIDE DEF n
      <4> QED BY <4>1, <4>2
    <3> QED BY <3>2, <3>3
  <2>2. ASSUME NEW i \in I PROVE i \in K
    BY <1>0, <1>1
  <2>3. ASSUME NEW j \in J PROVE n + j \in K
    BY <1>0, <1>1
  <2>4. Len(ab) = n + Len(b) /\ K \in SUBSET (1..(n + Len(b)))
    BY <1>0, <1>1
  <2> HIDE DEF n, ab
  <2>5. K = I \cup {n + j : j \in J}
    BY <2>1, <2>2, <2>3
  <2> QED BY <2>4, <2>5
<1>3. IsFiniteSet(I) /\ IsFiniteSet(J) /\ ci \in Nat /\ cj \in Nat
  BY <1>0, <1>1, Ranks
<1>4. ASSUME NEW B \in SUBSET J
      PROVE  /\ IsFiniteSet(B) /\ Cardinality(B) \in Nat
             /\ Cardinality(I \cup {n + j : j \in B}) = ci + Cardinality(B)
  <2>1. IsFiniteSet(B) /\ B \in SUBSET Nat /\ Cardinality(B) \in Nat
    <3>1. B \in SUBSET (1..Len(b))
      BY <1>0
    <3>2. IsFiniteSet(B) /\ Cardinality(B) \in Nat
      BY <1>0, <1>1, <3>1, PlacesFinite
    <3>3. B \in SUBSET Nat
      BY <3>1
    <3> QED BY <3>2, <3>3
  <2>2. IsFiniteSet({n + j : j \in B}) /\ Cardinality({n + j : j \in B}) = Cardinality(B)
    BY <1>0, <1>1, <2>1, Shifted
  <2>3. I \cap {n + j : j \in B} = {}
    <3> SUFFICES ASSUME NEW i \in I, NEW j \in B, i = n + j PROVE FALSE
      BY <1>0
    <3>1. i \in 1..n /\ j \in 1..Len(b)
      BY <1>0
    <3> QED BY <1>0, <1>1, <3>1
  <2>4. Cardinality(I \cup {n + j : j \in B})
          = ci + Cardinality({n + j : j \in B}) - Cardinality({})
    BY <1>3, <2>2, <2>3, FS_Union
  <2>5. Cardinality({}) = 0
    BY FS_EmptySet
  <2> HIDE DEF ci
  <2> QED BY <1>3, <2>1, <2>2, <2>4, <2>5
<1>5. Cardinality(K) = ci + cj
  <2>1. J \in SUBSET J
    BY <1>0
  <2> QED BY <1>2, <1>4, <2>1
<1>6. ASSUME NEW i \in I PROVE Rank(i, K) = Rank(i, I)
  <2>1. {k \in I \cup {n + j : j \in J} : k <= i} = {k \in I : k <= i}
    <3> SUFFICES ASSUME NEW j \in J PROVE ~(n + j <= i)
      BY <1>0
    <3>1. i \in 1..n /\ j \in 1..Len(b)
      BY <1>0
    <3> QED BY <1>0, <1>1, <3>1
  <2> QED BY <1>2, <2>1 DEF Rank
<1>7. ASSUME NEW j \in J PROVE Rank(n + j, K) = ci + Rank(j, J)
  <2> DEFINE B == {k \in J : k <= j}
  <2>1. {k \in I \cup {n + m : m \in J} : k <= n + j} = I \cup {n + k : k \in B}
    <3>1. ASSUME NEW i \in I PROVE i <= n + j
      <4>1. i \in 1..n /\ j \in 1..Len(b)
        BY <1>0
      <4> HIDE DEF n
      <4> QED BY <1>0, <1>1, <4>1
    <3>2. ASSUME NEW k \in J PROVE n + k <= n + j <=> k <= j
      <4>1. k \in 1..Len(b) /\ j \in 1..Len(b)
        BY <1>0
      <4> HIDE DEF n
      <4> QED BY <1>0, <1>1, <4>1
    <3> HIDE DEF n
    <3> QED BY <3>1, <3>2
  <2>2. B \in SUBSET J
    BY <1>0
  <2> QED BY <1>2, <1>4, <2>1, <2>2 DEF Rank
<1> DEFINE p == Picked(ab, K)
           q == Picked(a, I)
           r == Picked(b, J)
<1>8. /\ p \in Seq(S) /\ Len(p) = ci + cj /\ q \in Seq(S) /\ Len(q) = ci
      /\ r \in Seq(S) /\ Len(r) = cj
      /\ \A k \in K : p[Rank(k, K)] = ab[k]
      /\ \A i \in I : q[Rank(i, I)] = a[i]
      /\ \A j \in J : r[Rank(j, J)] = b[j]
  <2>1. /\ \A k \in K : ab[k] \in S
        /\ \A i \in I : a[i] \in S
        /\ \A j \in J : b[j] \in S
    <3> HIDE DEF ab
    <3> QED BY <1>0, <1>1, <1>2
  <2>2. /\ p \in Seq(S) /\ Len(p) = ci + cj
        /\ \A k \in K : p[Rank(k, K)] = ab[k]
    <3> HIDE DEF ab, ci, cj
    <3>1. /\ Picked(ab, K) \in Seq(S) /\ Len(Picked(ab, K)) = Cardinality(K)
          /\ \A k \in K : Picked(ab, K)[Rank(k, K)] = ab[k]
      BY <1>0, <1>1, <1>2, <2>1, PickedAt
    <3> QED BY <1>5, <3>1
  <2>3. /\ q \in Seq(S) /\ Len(q) = ci /\ \A i \in I : q[Rank(i, I)] = a[i]
    BY <1>0, <2>1, PickedAt
  <2>4. /\ r \in Seq(S) /\ Len(r) = cj /\ \A j \in J : r[Rank(j, J)] = b[j]
    BY <1>0, <2>1, PickedAt
  <2> HIDE DEF p, q, r
  <2> QED BY <2>2, <2>3, <2>4
<1> HIDE DEF p, q, r
<1>11. /\ q \o r \in Seq(S) /\ Len(q \o r) = ci + cj
       /\ \A m \in 1..ci : (q \o r)[m] = q[m]
       /\ \A m \in (ci + 1)..(ci + cj) : (q \o r)[m] = r[m - ci]
  <2>1. q \in Seq(S) /\ r \in Seq(S) /\ Len(q) = ci /\ Len(r) = cj
    BY <1>8
  <2>2. /\ q \o r \in Seq(S) /\ Len(q \o r) = Len(q) + Len(r)
        /\ \A m \in 1..Len(q) : (q \o r)[m] = q[m]
        /\ \A m \in (Len(q) + 1)..(Len(q) + Len(r)) : (q \o r)[m] = r[m - Len(q)]
    <3>1. q \in Seq(S) /\ r \in Seq(S)
      BY <2>1
    <3> QED BY <3>1, Joined
  <2> HIDE DEF ci, cj
  <2> QED BY <2>1, <2>2
<1>9. ASSUME NEW m \in 1..(ci + cj) PROVE p[m] = (q \o r)[m]
  <2>1. CASE m \in 1..ci
    <3>1. PICK i \in I : Rank(i, I) = m
      BY <1>0, <1>1, <2>1, Ranks
    <3>2. p[m] = ab[i] /\ q[m] = a[i] /\ ab[i] = a[i]
      BY <1>0, <1>1, <1>6, <1>8, <3>1
    <3>3. (q \o r)[m] = q[m]
      BY <1>0, <1>11, <2>1
    <3> QED BY <3>2, <3>3
  <2>2. CASE m \in (ci + 1)..(ci + cj)
    <3>1. m - ci \in 1..cj
      <4> HIDE DEF ci, cj
      <4> QED BY <1>3, <2>2
    <3>2. PICK j \in J : Rank(j, J) = m - ci
      BY <1>0, <1>1, <3>1, Ranks
    <3>3. p[m] = ab[n + j] /\ r[m - ci] = b[j] /\ ab[n + j] = b[j]
      <4>1. Rank(n + j, K) = m
        <5>1. Rank(n + j, K) = ci + (m - ci)
          BY <1>7, <3>2
        <5>2. ci \in Nat /\ m \in Int
          BY <1>3, <2>2
        <5> HIDE DEF ci, n
        <5> QED BY <5>1, <5>2
      <4>2. n + j \in K /\ j \in 1..Len(b)
        BY <1>0
      <4> QED BY <1>0, <1>1, <1>8, <3>2, <4>1, <4>2
    <3>4. (q \o r)[m] = r[m - ci]
      BY <1>0, <1>11, <2>2
    <3> QED BY <3>3, <3>4
  <2>3. m \in 1..ci \/ m \in (ci + 1)..(ci + cj)
    <3>1. ci \in Nat /\ cj \in Nat /\ m \in 1..(ci + cj)
      BY <1>3
    <3> HIDE DEF ci, cj
    <3> QED BY <3>1
  <2> QED BY <2>1, <2>2, <2>3
<1>10. p = q \o r
  <2>1. p \in Seq(S) /\ q \o r \in Seq(S) /\ Len(p) = Len(q \o r)
    BY <1>8, <1>11
  <2>2. \A m \in 1..Len(p) : p[m] = (q \o r)[m]
    BY <1>8, <1>9
  <2> QED BY <2>1, <2>2, SameList
<1> QED BY <1>0, <1>10 DEF p, q, r

-----------------------------------------------------------------------------
(* Codes of a list of tokens                                               *)

Tokens == Codes \cup Control

\* A token is a code or a control token, and never both.
LEMMA CodeOrControl == STOP \notin Codes /\ NONCODE \notin Codes
  BY TransportAssumption DEF Codes

Stopped(ts) == \E i \in DOMAIN ts : ts[i] = STOP

\* The codes of a list are codes, at places of the list.
LEMMA CodesType ==
  ASSUME NEW ts \in Seq(Tokens)
  PROVE  CodesOf(ts) \in Seq(Codes) /\ Kept(ts) \in SUBSET (1..Len(ts))
<1>1. Kept(ts) \in SUBSET (1..Len(ts)) /\ \A i \in Kept(ts) : ts[i] \in Codes
  BY DEF Kept, IsCode
<1> QED BY <1>1, PickedAt DEF CodesOf

\* The codes of a list without a STOP and of what follows it.
LEMMA CodesJoin ==
  ASSUME NEW a \in Seq(Tokens), NEW b \in Seq(Tokens), ~Stopped(a)
  PROVE  CodesOf(a \o b) = CodesOf(a) \o CodesOf(b)
<1> DEFINE n == Len(a)
           ab == a \o b
<1>1. /\ ab \in Seq(Tokens) /\ n \in Nat /\ Len(b) \in Nat /\ Len(ab) = n + Len(b)
      /\ \A i \in 1..n : ab[i] = a[i]
      /\ \A j \in 1..Len(b) : ab[n + j] = b[j]
  BY Joined
<1>2. DOMAIN a = 1..n /\ DOMAIN b = 1..Len(b) /\ DOMAIN ab = 1..(n + Len(b))
  BY <1>1
<1>3. \A i \in 1..n : a[i] # STOP
  BY <1>2 DEF Stopped
<1> HIDE DEF n, ab
<1>4. ASSUME NEW i \in 1..n PROVE i \in Kept(ab) <=> i \in Kept(a)
  <2>1. i \in DOMAIN ab /\ i \in DOMAIN a /\ ab[i] = a[i] /\ \A j \in 1..i : j \in 1..n
    BY <1>1, <1>2
  <2> QED BY <1>1, <2>1 DEF Kept
<1>5. ASSUME NEW j \in 1..Len(b) PROVE n + j \in Kept(ab) <=> j \in Kept(b)
  <2>1. n + j \in DOMAIN ab /\ j \in DOMAIN b /\ ab[n + j] = b[j]
    BY <1>1, <1>2
  <2>2. (\A k \in 1..(n + j) : ab[k] # STOP) <=> (\A k \in 1..j : b[k] # STOP)
    <3>1. ASSUME NEW k \in 1..j, \A m \in 1..(n + j) : ab[m] # STOP PROVE b[k] # STOP
      <4>1. k \in 1..Len(b) /\ n + k \in 1..(n + j)
        BY <1>1
      <4> QED BY <1>1, <3>1, <4>1
    <3>2. ASSUME NEW k \in 1..(n + j), \A m \in 1..j : b[m] # STOP PROVE ab[k] # STOP
      <4>1. CASE k \in 1..n
        BY <1>1, <1>3, <4>1
      <4>2. CASE k \notin 1..n
        <5>1. k - n \in 1..j /\ k - n \in 1..Len(b) /\ n + (k - n) = k
          BY <1>1, <4>2
        <5> QED BY <1>1, <3>2, <5>1
      <4> QED BY <4>1, <4>2
    <3> QED BY <3>1, <3>2
  <2> QED BY <2>1, <2>2 DEF Kept
<1>6. Kept(ab) \in SUBSET (1..(n + Len(b)))
  BY <1>2 DEF Kept
<1>7. Kept(a) \in SUBSET (1..n) /\ Kept(b) \in SUBSET (1..Len(b))
  BY CodesType DEF n
<1>8. Picked(ab, Kept(ab)) = Picked(a, Kept(a)) \o Picked(b, Kept(b))
  <2>1. /\ Kept(a) \in SUBSET (1..Len(a)) /\ Kept(b) \in SUBSET (1..Len(b))
        /\ Kept(ab) \in SUBSET (1..(Len(a) + Len(b)))
        /\ \A i \in 1..Len(a) : i \in Kept(ab) <=> i \in Kept(a)
        /\ \A j \in 1..Len(b) : Len(a) + j \in Kept(ab) <=> j \in Kept(b)
    BY <1>4, <1>5, <1>6, <1>7 DEF n
  <2>2. Picked(a \o b, Kept(ab)) = Picked(a, Kept(a)) \o Picked(b, Kept(b))
    <3>1. Behind(Len(a), Len(b), Kept(a), Kept(b), Kept(ab))
      BY <2>1 DEF Behind
    <3> QED BY <3>1, PickedConcat
  <2> QED BY <2>2 DEF ab
<1> QED BY <1>8 DEF CodesOf, ab

\* What follows a STOP adds no code.
LEMMA CodesStopped ==
  ASSUME NEW a \in Seq(Tokens), NEW t \in Tokens, Stopped(a)
  PROVE  CodesOf(Append(a, t)) = CodesOf(a)
<1> DEFINE n == Len(a)
           at == Append(a, t)
<1>1. /\ at \in Seq(Tokens) /\ n \in Nat /\ Len(at) = n + 1
      /\ DOMAIN a = 1..n /\ DOMAIN at = 1..(n + 1)
      /\ \A i \in 1..n : at[i] = a[i]
  OBVIOUS
<1>2. PICK s \in 1..n : a[s] = STOP
  BY <1>1 DEF Stopped
<1> HIDE DEF n, at
<1>3. n + 1 \notin Kept(at)
  <2>1. s \in 1..(n + 1) /\ at[s] = STOP
    BY <1>1, <1>2
  <2> QED BY <2>1 DEF Kept
<1>4. ASSUME NEW i \in 1..n PROVE i \in Kept(at) <=> i \in Kept(a)
  <2>1. i \in DOMAIN at /\ i \in DOMAIN a /\ at[i] = a[i] /\ \A j \in 1..i : j \in 1..n
    BY <1>1
  <2> QED BY <1>1, <2>1 DEF Kept
<1>5. Kept(at) = Kept(a)
  <2>1. Kept(a) \subseteq 1..n /\ Kept(at) \subseteq 1..(n + 1)
    BY <1>1 DEF Kept
  <2>2. \A i \in 1..(n + 1) : i \in 1..n \/ i = n + 1
    BY <1>1
  <2> QED BY <1>3, <1>4, <2>1, <2>2
<1>6. \A i \in Kept(a) : at[i] = a[i]
  BY <1>1 DEF Kept
<1>7. Kept(a) \in SUBSET (1..n)
  BY <1>1 DEF Kept
<1>8. Picked(at, Kept(a)) = Picked(a, Kept(a))
  BY <1>1, <1>6, <1>7, PickedSame
<1> QED BY <1>5, <1>8 DEF CodesOf, at

-----------------------------------------------------------------------------
(* Type correctness                                                        *)

\* A block never shrinks to nothing, and stays on the ladder.
LEMMA NextBlockPositive ==
  ASSUME NEW b \in BlockSizes, b # 0
  PROVE  NextBlock(b) \in BlockSizes /\ NextBlock(b) # 0
<1>1. b \in Nat /\ b >= 1
  BY LadderAssumption DEF BlockSizes, MaxOf
<1>2. b * GrowthPct >= b * 100 /\ b * GrowthPct \in Nat
  BY <1>1, LadderAssumption
<1>3. (b * GrowthPct) \div 100 \in Nat /\ (b * GrowthPct) \div 100 >= 1
  BY <1>1, <1>2
<1> QED BY <1>3, LadderAssumption DEF NextBlock, BlockSizes, MinOf, MaxOf

\* A cursor of the right shape, with no more codes gone than it has.
IsCursor(c) == c \in Cursors /\ c.next <= Len(c.valid)

LEMMA NewCursorType == IsCursor(NoCursor) /\ IsCursor(NewCursor)
<1>1. 0 \in BlockSizes
  BY LadderAssumption DEF BlockSizes, MaxOf
<1>2. <<>> \in Seq(Codes) /\ <<>> \in Seq(Codes \cup Control) /\ Len(<<>>) = 0
  OBVIOUS
<1>3. NoCursor \in Cursors /\ NoCursor.next = 0 /\ NoCursor.valid = <<>>
  BY <1>1, <1>2 DEF Cursors, NoCursor
<1>4. /\ NewCursor \in Cursors /\ NewCursor.next = NoCursor.next
      /\ NewCursor.valid = NoCursor.valid
  <2> HIDE DEF NoCursor
  <2> QED BY <1>3 DEF NewCursor, Cursors
<1> QED BY <1>2, <1>3, <1>4 DEF IsCursor

LEMMA CursorOfType == ASSUME TypeOK, NEW r \in Rows PROVE IsCursor(CursorOf(r))
  BY NewCursorType DEF TypeOK, CursorOf, IsCursor

\* What observe() makes of a cursor, field by field.
LEMMA Observed ==
  ASSUME NEW c, IsCursor(c), NEW ids \in Seq(Tokens)
  PROVE  LET new == SubSeq(ids, Len(c.accepted) + 1, Len(ids))
             o == Observe(c, ids)
         IN  /\ IsCursor(o) /\ new \in Seq(Tokens)
             /\ o.accepted = c.accepted \o new
             /\ o.valid = c.valid \o (IF c.reason = "none" THEN CodesOf(new) ELSE <<>>)
             /\ o.reason = IF c.reason = "none" /\ Stopped(new) THEN "eos" ELSE c.reason
             /\ o.live = c.live /\ o.next = c.next /\ o.seq = c.seq
             /\ o.block = c.block /\ o.sent = c.sent
<1> DEFINE new == SubSeq(ids, Len(c.accepted) + 1, Len(ids))
           kept == IF c.reason = "none" THEN CodesOf(new) ELSE <<>>
           o == Observe(c, ids)
           reason == IF c.reason = "none" /\ STOP \in Range(new) THEN "eos" ELSE c.reason
<1>1. c \in Cursors /\ c.accepted \in Seq(Tokens) /\ c.valid \in Seq(Codes) /\ Len(c.accepted) \in Nat
  BY DEF IsCursor, Cursors, Tokens
<1>2. new \in Seq(Tokens)
  BY <1>1
<1>3. STOP \in Range(new) <=> Stopped(new)
  <2> HIDE DEF new
  <2> QED BY DEF Range, Stopped
<1> HIDE DEF new
<1>4. kept \in Seq(Codes)
  BY <1>2, CodesType
<1>5. c.accepted \o new \in Seq(Tokens) /\ c.valid \o kept \in Seq(Codes)
      /\ c.next <= Len(c.valid \o kept)
  <2>1. c.next <= Len(c.valid) /\ c.next \in Nat
    BY DEF IsCursor, Cursors
  <2> HIDE DEF kept
  <2>2. Len(c.valid \o kept) = Len(c.valid) + Len(kept) /\ Len(kept) \in Nat /\ Len(c.valid) \in Nat
    BY <1>1, <1>4
  <2> QED BY <1>1, <1>2, <1>4, <2>1, <2>2
<1>6. o = [c EXCEPT !.accepted = c.accepted \o new, !.valid = c.valid \o kept, !.reason = reason]
  BY DEF Observe, new
<1>7. reason \in {"none", "eos", "length_limit"}
  BY <1>1 DEF Cursors
<1> HIDE DEF kept, reason, o
<1>8. o.accepted = c.accepted \o new /\ o.valid = c.valid \o kept /\ o.reason = reason
      /\ o.live = c.live /\ o.next = c.next /\ o.seq = c.seq
      /\ o.block = c.block /\ o.sent = c.sent
  BY <1>1, <1>6 DEF Cursors
<1>9. IsCursor(o)
  <2>1. o \in Cursors
    BY <1>1, <1>5, <1>6, <1>7 DEF Cursors, Tokens
  <2> QED BY <1>5, <1>8, <2>1 DEF IsCursor
<1> QED BY <1>2, <1>3, <1>8, <1>9 DEF o, new, kept, reason

LEMMA Marked ==
  ASSUME NEW c, IsCursor(c), NEW finished \in BOOLEAN
  PROVE  LET m == MarkFinished(c, finished)
         IN  /\ IsCursor(m)
             /\ m.reason = IF finished /\ c.reason = "none" THEN "length_limit" ELSE c.reason
             /\ m.accepted = c.accepted /\ m.valid = c.valid /\ m.live = c.live
             /\ m.next = c.next /\ m.seq = c.seq /\ m.block = c.block /\ m.sent = c.sent
  BY DEF MarkFinished, IsCursor, Cursors

\* What take_scheduled_chunk makes of a cursor, field by field.
LEMMA TakenFields ==
  ASSUME NEW c, IsCursor(c), NEW flushing \in BOOLEAN
  PROVE  LET n == TakeCount(c, flushing)
             block == IF c.block = 0 THEN FirstBlock ELSE c.block
             t == Taken(c, flushing)
         IN  /\ IsCursor(t) /\ n \in Nat
             /\ block \in BlockSizes /\ block \in Nat /\ block # 0
             /\ NextBlock(block) \in BlockSizes /\ NextBlock(block) # 0
             /\ flushing => n = Len(c.valid) - c.next
             /\ ~flushing => n = 0 \/ (n = block /\ c.next + n < Len(c.valid))
             /\ t.next = c.next + n /\ t.next <= Len(c.valid)
             /\ t.seq = IF n > 0 THEN c.seq + 1 ELSE c.seq
             /\ t.block = IF n > 0 /\ ~flushing THEN NextBlock(block) ELSE block
             /\ t.accepted = c.accepted /\ t.valid = c.valid /\ t.live = c.live
             /\ t.reason = c.reason /\ t.sent = c.sent
<1> DEFINE n == TakeCount(c, flushing)
           block == IF c.block = 0 THEN FirstBlock ELSE c.block
           t == Taken(c, flushing)
           next == c.next + n
           seq == IF n > 0 THEN c.seq + 1 ELSE c.seq
           after == IF n > 0 /\ ~flushing THEN NextBlock(block) ELSE block
<1>1. c \in Cursors /\ c.next \in Nat /\ Len(c.valid) \in Nat /\ c.next <= Len(c.valid)
      /\ c.seq \in Nat /\ c.block \in BlockSizes
  BY DEF IsCursor, Cursors
<1>2. block \in BlockSizes /\ block \in Nat /\ block # 0
  BY <1>1, LadderAssumption DEF BlockSizes, MaxOf
<1>3. NextBlock(block) \in BlockSizes /\ NextBlock(block) # 0
  BY <1>2, NextBlockPositive
<1>4. n = IF flushing THEN Len(c.valid) - c.next
          ELSE IF (Len(c.valid) - c.next) - 1 >= block THEN block ELSE 0
  BY DEF TakeCount
<1>5. t = [c EXCEPT !.next = next, !.seq = seq, !.block = after]
  BY DEF Taken
<1> HIDE DEF n, block, t
<1>6. /\ n \in Nat
      /\ flushing => n = Len(c.valid) - c.next
      /\ ~flushing => n = 0 \/ (n = block /\ next < Len(c.valid))
      /\ next <= Len(c.valid) /\ next \in Nat
  BY <1>1, <1>2, <1>4
<1>7. seq \in Nat /\ after \in BlockSizes
  BY <1>1, <1>2, <1>3, <1>6
<1> HIDE DEF next, seq, after
<1>8. t \in Cursors /\ t.next = next /\ t.seq = seq /\ t.block = after
      /\ t.accepted = c.accepted /\ t.valid = c.valid /\ t.live = c.live
      /\ t.reason = c.reason /\ t.sent = c.sent
  BY <1>1, <1>5, <1>6, <1>7 DEF Cursors
<1>9. IsCursor(t)
  BY <1>6, <1>8 DEF IsCursor
<1> QED BY <1>2, <1>3, <1>6, <1>8, <1>9 DEF n, block, t, next, seq, after

\* Whatever is observed and taken, the cursor stays a cursor, and what leaves
\* it is a payload.
LEMMA CondType ==
  ASSUME TypeOK, NEW r \in Rows
  PROVE  /\ IsCursor(Seen(r)) /\ IsCursor(Took(r)) /\ IsCursor(Left(r))
         /\ Flushing(r) \in BOOLEAN /\ Final(r) \in BOOLEAN
         /\ \A voiced \in BOOLEAN : Carried(r, voiced) \in Payloads
<1>1. IsCursor(CursorOf(r)) /\ output[r] \in Seq(Tokens) /\ Finished(r) \in BOOLEAN
  BY CursorOfType DEF TypeOK, Tokens, Finished
<1>2. IsCursor(Observe(CursorOf(r), output[r]))
  BY <1>1, Observed
<1>3. IsCursor(Seen(r))
  BY <1>1, <1>2, Marked DEF Seen
<1>4. Flushing(r) \in BOOLEAN /\ Final(r) \in BOOLEAN
  BY <1>1 DEF Flushing, Final, Terminal
<1>5. IsCursor(Took(r))
  BY <1>3, <1>4, TakenFields DEF Took
<1>6. ASSUME NEW voiced \in BOOLEAN PROVE Carried(r, voiced) \in Payloads
  <2>1. Took(r).valid \in Seq(Codes) /\ Took(r).next \in Nat /\ Took(r).seq \in Nat
        /\ Seen(r).next \in Nat /\ Took(r).next <= Len(Took(r).valid)
    BY <1>3, <1>5 DEF IsCursor, Cursors
  <2>2. SubSeq(Took(r).valid, Seen(r).next + 1, Took(r).next) \in Seq(Codes)
    BY <2>1
  <2>3. CarriesReference(Took(r), voiced) \in BOOLEAN
    BY DEF CarriesReference
  <2> QED BY <1>4, <2>1, <2>2, <2>3 DEF Carried, Payloads
<1>7. IsCursor(Left(r))
  <2>1. Took(r) \in Cursors /\ Took(r).sent \in BOOLEAN
    BY <1>5 DEF IsCursor, Cursors
  <2>2. ASSUME NEW c \in Cursors, NEW b \in BOOLEAN
        PROVE  /\ [c EXCEPT !.sent = b] \in Cursors
               /\ [c EXCEPT !.sent = b].next = c.next /\ [c EXCEPT !.sent = b].valid = c.valid
    BY DEF Cursors
  <2>3. IsCursor([Took(r) EXCEPT !.sent = Took(r).sent \/ Flushing(r)])
    <3>1. (Took(r).sent \/ Flushing(r)) \in BOOLEAN
      BY <1>4, <2>1
    <3> QED BY <1>5, <2>1, <2>2, <3>1 DEF IsCursor
  <2> QED BY <2>3, NewCursorType DEF Left, Released
<1> QED BY <1>3, <1>4, <1>5, <1>6, <1>7

\* A payload and a cursor of their types keep every variable in its type.
LEMMA PublishType ==
  ASSUME TypeOK, NEW r \in Rows, NEW payload \in Payloads, NEW c, IsCursor(c),
         Publish(r, payload), cursor' = [cursor EXCEPT ![r] = c],
         UNCHANGED <<output, status, epoch, refused>>
  PROVE  TypeOK'
<1>1. wire[r] \in Seq(Payloads) /\ published[r] \in Seq(Codes) /\ payload.codes \in Seq(Codes)
  BY DEF TypeOK, Payloads
<1>2. Append(wire[r], payload) \in Seq(Payloads) /\ published[r] \o payload.codes \in Seq(Codes)
  BY <1>1
<1>3. wire' \in [Rows -> Seq(Payloads)] /\ published' \in [Rows -> Seq(Codes)]
  BY <1>2 DEF TypeOK, Publish
<1>4. /\ cursor' \in [Rows -> Cursors]
      /\ \A q \in Rows : cursor'[q].next <= Len(cursor'[q].valid)
  BY DEF TypeOK, IsCursor
<1> QED BY <1>3, <1>4 DEF TypeOK

LEMMA SilentType ==
  ASSUME TypeOK, NEW r \in Rows, NEW c, IsCursor(c),
         UNCHANGED <<wire, published>>, cursor' = [cursor EXCEPT ![r] = c],
         UNCHANGED <<output, status, epoch, refused>>
  PROVE  TypeOK'
<1>1. /\ cursor' \in [Rows -> Cursors]
      /\ \A q \in Rows : cursor'[q].next <= Len(cursor'[q].valid)
  BY DEF TypeOK, IsCursor
<1> QED BY <1>1 DEF TypeOK

LEMMA CallbackType == ASSUME TypeOK, NEW r \in Rows, Callback(r) PROVE TypeOK'
<1>1. CASE CallbackUncond(r)
  <2>1. IsCursor(CursorOf(r)) /\ CursorOf(r).seq \in Nat
    BY CursorOfType DEF IsCursor, Cursors
  <2>2. CASE Finished(r) /\ ~CursorOf(r).sent
    <3> DEFINE payload == [codes |-> <<>>, seq |-> CursorOf(r).seq, final |-> TRUE, ref |-> FALSE]
    <3>1. /\ Publish(r, payload) /\ cursor' = [cursor EXCEPT ![r] = NoCursor]
          /\ UNCHANGED <<output, status, epoch, refused>>
      BY <1>1, <2>2 DEF CallbackUncond, Released
    <3>2. payload \in Payloads
      BY <2>1 DEF Payloads
    <3> HIDE DEF payload
    <3> QED BY <3>1, <3>2, NewCursorType, PublishType
  <2>3. CASE ~(Finished(r) /\ ~CursorOf(r).sent)
    <3>1. /\ UNCHANGED <<wire, published>> /\ cursor' = [cursor EXCEPT ![r] = CursorOf(r)]
          /\ UNCHANGED <<output, status, epoch, refused>>
      BY <1>1, <2>3 DEF CallbackUncond
    <3> QED BY <2>1, <3>1, SilentType
  <2> QED BY <2>2, <2>3
<1>2. CASE CallbackRefused(r)
  BY <1>2 DEF CallbackRefused, TypeOK
<1>3. CASE CallbackCond(r)
  <2>1. CASE Took(r).next > Seen(r).next \/ Final(r)
    BY <1>3, <2>1, CondStep, CondType, PublishType
  <2>2. CASE ~(Took(r).next > Seen(r).next \/ Final(r))
    BY <1>3, <2>2, CondStep, CondType, SilentType
  <2> QED BY <2>1, <2>2
<1> QED BY <1>1, <1>2, <1>3 DEF Callback

\* A token sampled is a token.
LEMMA SampledType ==
  ASSUME NEW r \in Rows, Len(output[r]) < MaxTokens, Len(output[r]) \in Nat,
         NEW t \in Sampled(r)
  PROVE  t \in Codes \cup Control
<1>1. Len(output[r]) + 1 \in 1..MaxTokens
  BY TransportAssumption
<1>2. CASE \E d \in Draws : t = <<d, Len(output[r]) + 1>>
  BY <1>1, <1>2 DEF Codes
<1> QED BY <1>2 DEF Sampled

LEMMA InitType == Init => TypeOK
<1>1. <<>> \in Seq(Codes) /\ <<>> \in Seq(Codes \cup Control) /\ <<>> \in Seq(Payloads)
  OBVIOUS
<1> QED BY <1>1, NewCursorType DEF Init, TypeOK, IsCursor

LEMMA StepType == TypeOK /\ [Next]_vars => TypeOK'
<1> SUFFICES ASSUME TypeOK, [Next]_vars PROVE TypeOK'
  OBVIOUS
<1>1. ASSUME NEW r \in Rows, NEW t \in Sampled(r), Generate(r, t) PROVE TypeOK'
  <2>1. output[r] \in Seq(Codes \cup Control) /\ Len(output[r]) < MaxTokens
    BY <1>1 DEF Generate, TypeOK
  <2>2. t \in Codes \cup Control
    BY <2>1, SampledType
  <2>3. output' \in [Rows -> Seq(Codes \cup Control)]
    BY <1>1, <2>1, <2>2 DEF Generate, TypeOK
  <2> QED BY <1>1, <2>3 DEF Generate, TypeOK
<1>2. ASSUME NEW r \in Rows, Finish(r) \/ Abort(r) PROVE TypeOK'
  BY <1>2 DEF Finish, Abort, TypeOK
<1>3. ASSUME NEW r \in Rows, Resubmit(r) PROVE TypeOK'
  <2>1. <<>> \in Seq(Codes) /\ <<>> \in Seq(Codes \cup Control) /\ <<>> \in Seq(Payloads)
    OBVIOUS
  <2> QED BY <1>3, <2>1 DEF Resubmit, TypeOK
<1>4. CASE UNCHANGED vars
  BY <1>4 DEF vars, TypeOK
<1> QED BY <1>1, <1>2, <1>3, <1>4, CallbackType DEF Next

\* Every cursor, payload and output keeps its type; no cursor lets more codes
\* go than it has.
THEOREM TypeCorrect == Spec => []TypeOK
  BY InitType, StepType, PTL DEF Spec

-----------------------------------------------------------------------------
(* What is published is the utterance                                      *)

\* The cursor of an open stream: it has accepted a beginning of the output with
\* no STOP in it, its codes are those of that beginning, all that is published
\* has left it and one code at least is held back, and its ladder is where the
\* last payload put it.
CursorInv(r) ==
  LET c == CursorOf(r)
  IN  /\ c.reason = "none" /\ ~c.sent
      /\ Len(c.accepted) <= Len(output[r])
      /\ c.accepted = SubSeq(output[r], 1, Len(c.accepted))
      /\ ~Stopped(c.accepted)
      /\ c.valid = CodesOf(c.accepted)
      /\ c.next > 0 => c.next < Len(c.valid)
      /\ published[r] = SubSeq(c.valid, 1, c.next)
      /\ c.seq = Len(wire[r])
      /\ IF Len(wire[r]) = 0 THEN c.block \in {0, FirstBlock}
         ELSE c.block = NextBlock(Size(r, Len(wire[r]))) /\ c.block # 0

\* A closed stream: the output has its end, and all of it is published.
ClosedInv(r) ==
  /\ status[r] # "running" \/ Stopped(output[r])
  /\ published[r] = Utterance(r)
  /\ Utterance(r) # <<>> => wire[r][Len(wire[r])].codes # <<>>

RungsInv(r) ==
  \A i \in 1..Len(wire[r]) : ~wire[r][i].final =>
    /\ Size(r, i) = IF i = 1 THEN FirstBlock ELSE NextBlock(Size(r, i - 1))
    /\ wire[r][i].seq = i

\* How a row that was submitted once stands.
RowInv(r) ==
  First(r) => RungsInv(r) /\ (IF TerminalSent(r) THEN ClosedInv(r) ELSE CursorInv(r))

DataInv == \A r \in Rows \ Uncond : RowInv(r)

\* A beginning of a list, and a beginning of that.
LEMMA Beginning ==
  ASSUME NEW S, NEW s \in Seq(S), NEW i \in 0..Len(s), NEW j \in 0..i
  PROVE  /\ SubSeq(s, 1, i) \in Seq(S) /\ Len(SubSeq(s, 1, i)) = i
         /\ SubSeq(SubSeq(s, 1, i), 1, j) = SubSeq(s, 1, j)
         /\ SubSeq(s, 1, j) \o SubSeq(s, j + 1, i) = SubSeq(s, 1, i)
         /\ SubSeq(s, j + 1, i) \in Seq(S) /\ Len(SubSeq(s, j + 1, i)) = i - j
         /\ SubSeq(s, 1, Len(s)) = s
<1>0. Len(s) \in Nat /\ i \in Nat /\ j \in Nat /\ i <= Len(s) /\ j <= i
  OBVIOUS
<1>1. /\ SubSeq(s, 1, i) \in Seq(S) /\ Len(SubSeq(s, 1, i)) = i
      /\ SubSeq(s, 1, j) \in Seq(S) /\ Len(SubSeq(s, 1, j)) = j
      /\ SubSeq(s, j + 1, i) \in Seq(S) /\ Len(SubSeq(s, j + 1, i)) = i - j
      /\ SubSeq(s, 1, Len(s)) \in Seq(S) /\ Len(SubSeq(s, 1, Len(s))) = Len(s)
  BY <1>0
<1>2. /\ \A m \in 1..i : SubSeq(s, 1, i)[m] = s[m]
      /\ \A m \in 1..j : SubSeq(s, 1, j)[m] = s[m]
      /\ \A m \in 1..Len(s) : SubSeq(s, 1, Len(s))[m] = s[m]
  BY <1>0
<1>3. \A m \in 1..(i - j) : SubSeq(s, j + 1, i)[m] = s[j + m]
  BY <1>0
<1>4. SubSeq(s, 1, Len(s)) = s
  BY <1>1, <1>2, SameList
<1>5. SubSeq(SubSeq(s, 1, i), 1, j) = SubSeq(s, 1, j)
  <2> DEFINE q == SubSeq(s, 1, i)
  <2>1. q \in Seq(S) /\ Len(q) = i /\ \A m \in 1..i : q[m] = s[m]
    BY <1>1, <1>2
  <2> HIDE DEF q
  <2>2. SubSeq(q, 1, j) \in Seq(S) /\ Len(SubSeq(q, 1, j)) = j /\ \A m \in 1..j : SubSeq(q, 1, j)[m] = q[m]
    BY <1>0, <2>1
  <2>3. \A m \in 1..j : m \in 1..i
    BY <1>0
  <2>4. \A m \in 1..Len(SubSeq(q, 1, j)) : SubSeq(q, 1, j)[m] = SubSeq(s, 1, j)[m]
    BY <1>2, <2>1, <2>2, <2>3
  <2>5. SubSeq(q, 1, j) = SubSeq(s, 1, j)
    BY <1>1, <2>2, <2>4, SameList
  <2> QED BY <2>5 DEF q
<1>6. SubSeq(s, 1, j) \o SubSeq(s, j + 1, i) = SubSeq(s, 1, i)
  <2> DEFINE a == SubSeq(s, 1, j)
             b == SubSeq(s, j + 1, i)
             c == SubSeq(s, 1, i)
  <2>1. /\ a \in Seq(S) /\ b \in Seq(S) /\ c \in Seq(S)
        /\ Len(a) = j /\ Len(b) = i - j /\ Len(c) = i
        /\ \A m \in 1..j : a[m] = s[m]
        /\ \A m \in 1..(i - j) : b[m] = s[j + m]
        /\ \A m \in 1..i : c[m] = s[m]
    BY <1>1, <1>2, <1>3
  <2> HIDE DEF a, b, c
  <2>2. /\ a \o b \in Seq(S) /\ Len(a \o b) = i
        /\ \A m \in 1..j : (a \o b)[m] = a[m]
        /\ \A m \in (j + 1)..i : (a \o b)[m] = b[m - j]
    <3>1. /\ a \o b \in Seq(S) /\ Len(a \o b) = Len(a) + Len(b)
          /\ \A m \in 1..Len(a) : (a \o b)[m] = a[m]
          /\ \A m \in (Len(a) + 1)..(Len(a) + Len(b)) : (a \o b)[m] = b[m - Len(a)]
      BY <2>1, Joined
    <3>2. Len(a) = j /\ Len(a) + Len(b) = i
      BY <1>0, <2>1
    <3> QED BY <3>1, <3>2
  <2>3. ASSUME NEW m \in 1..i PROVE (a \o b)[m] = c[m]
    <3>1. CASE m \in 1..j
      BY <2>1, <2>2, <3>1
    <3>2. CASE m \in (j + 1)..i
      <4>1. m - j \in 1..(i - j) /\ j + (m - j) = m
        BY <1>0, <3>2
      <4>2. (a \o b)[m] = b[m - j]
        BY <2>2, <3>2
      <4>3. b[m - j] = s[j + (m - j)]
        BY <2>1, <4>1
      <4>4. c[m] = s[m]
        BY <2>1
      <4> QED BY <4>1, <4>2, <4>3, <4>4
    <3>3. m \in 1..j \/ m \in (j + 1)..i
      BY <1>0
    <3> QED BY <3>1, <3>2, <3>3
  <2>4. a \o b = c
    BY <2>1, <2>2, <2>3, SameList
  <2> QED BY <2>4 DEF a, b, c
<1> QED BY <1>1, <1>4, <1>5, <1>6

\* What is published of a list of codes is also the beginning of a longer one.
LEMMA BeginningJoined ==
  ASSUME NEW S, NEW a \in Seq(S), NEW b \in Seq(S), NEW i \in 0..Len(a)
  PROVE  SubSeq(a \o b, 1, i) = SubSeq(a, 1, i)
<1>1. /\ a \o b \in Seq(S) /\ Len(a) \in Nat /\ Len(b) \in Nat
      /\ Len(a \o b) = Len(a) + Len(b)
      /\ \A m \in 1..Len(a) : (a \o b)[m] = a[m]
  BY Joined
<1> DEFINE ab == a \o b
<1> HIDE DEF ab
<1>2. /\ ab \in Seq(S) /\ i <= Len(ab) /\ i \in Nat /\ i <= Len(a)
      /\ \A m \in 1..i : ab[m] = a[m]
  BY <1>1 DEF ab
<1>3. /\ SubSeq(ab, 1, i) \in Seq(S) /\ Len(SubSeq(ab, 1, i)) = i
      /\ \A m \in 1..i : SubSeq(ab, 1, i)[m] = ab[m]
  BY <1>2
<1>4. /\ SubSeq(a, 1, i) \in Seq(S) /\ Len(SubSeq(a, 1, i)) = i
      /\ \A m \in 1..i : SubSeq(a, 1, i)[m] = a[m]
  BY <1>2
<1>5. SubSeq(ab, 1, i) = SubSeq(a, 1, i)
  BY <1>2, <1>3, <1>4, SameList
<1> QED BY <1>5 DEF ab

\* A callback on an open stream sees the whole output: the codes of the cursor
\* become those of the output, and it goes terminal with the first STOP.
LEMMA SeenOpen ==
  ASSUME TypeOK, NEW r \in Rows, CursorInv(r)
  PROVE  LET c == CursorOf(r)
             s == Seen(r)
         IN  /\ s.accepted = output[r]
             /\ s.valid = Utterance(r)
             /\ \E more \in Seq(Codes) : s.valid = c.valid \o more
             /\ s.reason = IF Stopped(output[r]) THEN "eos"
                           ELSE IF Finished(r) THEN "length_limit" ELSE "none"
             /\ s.next = c.next /\ s.seq = c.seq /\ s.block = c.block /\ ~s.sent
             /\ s.live = c.live
             /\ Flushing(r) <=> Finished(r) \/ Stopped(output[r])
<1> DEFINE c == CursorOf(r)
           out == output[r]
           a == c.accepted
           new == SubSeq(out, Len(a) + 1, Len(out))
           o == Observe(c, out)
           s == Seen(r)
<1>1. IsCursor(c) /\ out \in Seq(Tokens) /\ Finished(r) \in BOOLEAN /\ a \in Seq(Tokens)
  BY CursorOfType DEF TypeOK, Tokens, Finished, IsCursor, Cursors
<1>2. /\ c.reason = "none" /\ ~c.sent
      /\ Len(a) <= Len(out) /\ a = SubSeq(out, 1, Len(a)) /\ ~Stopped(a)
      /\ c.valid = CodesOf(a)
  BY DEF CursorInv
<1>3. /\ IsCursor(o) /\ new \in Seq(Tokens)
      /\ o.accepted = a \o new
      /\ o.valid = c.valid \o CodesOf(new)
      /\ o.reason = IF Stopped(new) THEN "eos" ELSE "none"
      /\ o.live = c.live /\ o.next = c.next /\ o.seq = c.seq
      /\ o.block = c.block /\ o.sent = c.sent
  BY <1>1, <1>2, Observed
<1>4. /\ IsCursor(s)
      /\ s.reason = IF Finished(r) /\ o.reason = "none" THEN "length_limit" ELSE o.reason
      /\ s.accepted = o.accepted /\ s.valid = o.valid /\ s.live = o.live
      /\ s.next = o.next /\ s.seq = o.seq /\ s.block = o.block /\ s.sent = o.sent
  BY <1>1, <1>3, Marked DEF Seen
<1>5. a \o new = out
  <2> HIDE DEF c, out
  <2>1. Len(out) \in 0..Len(out) /\ Len(a) \in 0..Len(out)
    BY <1>1, <1>2
  <2>2. SubSeq(out, 1, Len(a)) \o SubSeq(out, Len(a) + 1, Len(out)) = SubSeq(out, 1, Len(out))
        /\ SubSeq(out, 1, Len(out)) = out
    <3>1. out \in Seq(Tokens)
      BY <1>1
    <3>2. \A i \in 0..Len(out) : \A j \in 0..i :
            /\ SubSeq(out, 1, j) \o SubSeq(out, j + 1, i) = SubSeq(out, 1, i)
            /\ SubSeq(out, 1, Len(out)) = out
      BY <3>1, Beginning
    <3> QED BY <2>1, <3>2
  <2> QED BY <1>2, <2>2
<1> HIDE DEF new, o
<1>6. c.valid \o CodesOf(new) = CodesOf(out)
  <2>1. CodesOf(a \o new) = CodesOf(a) \o CodesOf(new)
    BY <1>1, <1>2, <1>3, CodesJoin
  <2> QED BY <1>2, <1>5, <2>1
<1>7. Stopped(out) <=> Stopped(new)
  <2> DEFINE n == Len(a)
  <2>1. /\ n \in Nat /\ Len(new) \in Nat /\ Len(a \o new) = n + Len(new)
        /\ \A i \in 1..n : (a \o new)[i] = a[i]
        /\ \A j \in 1..Len(new) : (a \o new)[n + j] = new[j]
        /\ a \o new \in Seq(Tokens)
    BY <1>1, <1>3, Joined
  <2>2. /\ DOMAIN a = 1..n /\ DOMAIN new = 1..Len(new) /\ DOMAIN out = 1..(n + Len(new))
        /\ \A i \in 1..n : out[i] # STOP
        /\ \A j \in 1..Len(new) : out[n + j] = new[j]
    <3>1. DOMAIN a = 1..n /\ DOMAIN new = 1..Len(new)
      BY <1>1, <1>3
    <3>2. DOMAIN out = 1..(n + Len(new))
      BY <1>1, <1>5, <2>1
    <3>3. \A i \in 1..n : a[i] # STOP
      BY <1>2, <3>1 DEF Stopped
    <3> HIDE DEF n, out
    <3> QED BY <1>5, <2>1, <3>1, <3>2, <3>3
  <2> HIDE DEF n, out
  <2>3. ASSUME NEW k \in 1..(n + Len(new)), out[k] = STOP PROVE Stopped(new)
    <3>1. k - n \in 1..Len(new) /\ n + (k - n) = k
      BY <2>1, <2>2, <2>3
    <3> QED BY <2>2, <2>3, <3>1 DEF Stopped
  <2>4. ASSUME NEW j \in 1..Len(new), new[j] = STOP PROVE Stopped(out)
    <3>1. n + j \in 1..(n + Len(new))
      BY <2>1
    <3> QED BY <2>2, <2>4, <3>1 DEF Stopped
  <2> QED BY <2>2, <2>3, <2>4 DEF Stopped
<1>8. s.valid = CodesOf(out) /\ \E more \in Seq(Codes) : s.valid = c.valid \o more
  BY <1>3, <1>4, <1>6, CodesType
<1>9. s.reason = IF Stopped(out) THEN "eos" ELSE IF Finished(r) THEN "length_limit" ELSE "none"
  BY <1>3, <1>4, <1>7
<1>10. Flushing(r) <=> Finished(r) \/ Stopped(out)
  BY <1>9 DEF Flushing, Terminal
<1> QED BY <1>2, <1>3, <1>4, <1>5, <1>8, <1>9, <1>10 DEF Utterance

\* A cursor in use is live, the one of an open stream stays the same.
LEMMA CursorLive == ASSUME NEW r PROVE CursorOf(r).live
  BY DEF CursorOf, NewCursor, NoCursor

\* What one more payload does to an open stream.
LEMMA PublishRow ==
  ASSUME TypeOK, NEW r \in Rows, NEW p \in Payloads, Publish(r, p),
         ~TerminalSent(r), RungsInv(r),
         ~p.final => /\ Len(p.codes) = IF Len(wire[r]) = 0 THEN FirstBlock
                                       ELSE NextBlock(Size(r, Len(wire[r])))
                     /\ p.seq = Len(wire[r]) + 1
  PROVE  /\ Len(wire[r]) \in Nat /\ Len(wire[r])' = Len(wire[r]) + 1
         /\ wire'[r][Len(wire[r]) + 1] = p
         /\ TerminalSent(r)' <=> p.final
         /\ RungsInv(r)'
         /\ published'[r] = published[r] \o p.codes
<1> DEFINE n == Len(wire[r])
<1>1. wire[r] \in Seq(Payloads) /\ wire'[r] = Append(wire[r], p)
      /\ published'[r] = published[r] \o p.codes
  BY DEF TypeOK, Publish
<1>2. /\ n \in Nat /\ Len(wire'[r]) = n + 1 /\ wire'[r][n + 1] = p
      /\ \A i \in 1..n : wire'[r][i] = wire[r][i]
  BY <1>1
<1>3. \A i \in 1..n : ~wire[r][i].final
  BY DEF TerminalSent
<1> HIDE DEF n
<1>4. TerminalSent(r)' <=> p.final
  <2>1. n + 1 \in 1..(n + 1) /\ \A i \in 1..(n + 1) : i \in 1..n \/ i = n + 1
    BY <1>2
  <2> QED BY <1>2, <1>3, <2>1 DEF TerminalSent
<1>5. RungsInv(r)'
  <2> SUFFICES ASSUME NEW i \in 1..(n + 1), ~wire'[r][i].final
               PROVE  /\ Len(wire'[r][i].codes) = IF i = 1 THEN FirstBlock
                                                  ELSE NextBlock(Len(wire'[r][i - 1].codes))
                      /\ wire'[r][i].seq = i
    BY <1>2 DEF RungsInv, Size
  <2>1. CASE i \in 1..n
    <3>1. i # 1 => i - 1 \in 1..n
      BY <1>2, <2>1
    <3>2. /\ Len(wire[r][i].codes) = IF i = 1 THEN FirstBlock
                                     ELSE NextBlock(Len(wire[r][i - 1].codes))
          /\ wire[r][i].seq = i
      BY <1>2, <1>3, <2>1 DEF RungsInv, Size, n
    <3> QED BY <1>2, <2>1, <3>1, <3>2
  <2>2. CASE i = n + 1
    <3>1. n # 0 => n \in 1..n /\ i - 1 = n /\ i # 1
      BY <1>2, <2>2
    <3>2. n = 0 => i = 1
      BY <2>2
    <3> QED BY <1>2, <2>2, <3>1, <3>2 DEF Size, n
  <2> QED BY <1>2, <2>1, <2>2
<1> QED BY <1>1, <1>2, <1>4, <1>5 DEF n

\* The callback of an open stream: all of the utterance there is, one rung of
\* it, or nothing new is published.
LEMMA CondRow ==
  ASSUME TypeOK, NEW r \in Rows, RowInv(r), CallbackCond(r)
  PROVE  RowInv(r)'
<1> SUFFICES ASSUME First(r)
             PROVE  RungsInv(r)' /\ (IF TerminalSent(r)' THEN ClosedInv(r)' ELSE CursorInv(r)')
  BY CondStep DEF RowInv, First
<1>0. PICK voiced \in BOOLEAN :
        IF Took(r).next > Seen(r).next \/ Final(r)
        THEN Publish(r, Carried(r, voiced)) ELSE UNCHANGED <<wire, published>>
  BY CondStep
<1> DEFINE c == CursorOf(r)
           s == Seen(r)
           t == Took(r)
           k == TakeCount(s, Flushing(r))
           block == IF s.block = 0 THEN FirstBlock ELSE s.block
           p == Carried(r, voiced)
           N == Len(wire[r])
<1>1. /\ ~TerminalSent(r) /\ UNCHANGED <<output, status, epoch, refused>>
      /\ IF t.next > s.next \/ Final(r) THEN Publish(r, p) ELSE UNCHANGED <<wire, published>>
      /\ cursor'[r] = Left(r)
  BY <1>0, CondStep DEF TypeOK
<1>2. RungsInv(r) /\ CursorInv(r)
  BY <1>1 DEF RowInv
<1>3. /\ s.accepted = output[r] /\ s.valid = Utterance(r)
      /\ \E more \in Seq(Codes) : s.valid = c.valid \o more
      /\ s.reason = IF Stopped(output[r]) THEN "eos"
                    ELSE IF Finished(r) THEN "length_limit" ELSE "none"
      /\ s.next = c.next /\ s.seq = c.seq /\ s.block = c.block /\ ~s.sent /\ s.live
      /\ Flushing(r) <=> Finished(r) \/ Stopped(output[r])
  BY <1>2, SeenOpen, CursorLive
<1>4. IsCursor(c) /\ IsCursor(s) /\ p \in Payloads /\ Flushing(r) \in BOOLEAN
  BY CursorOfType, CondType
<1>5. /\ k \in Nat /\ block \in Nat /\ block # 0 /\ NextBlock(block) # 0
      /\ Flushing(r) => k = Len(s.valid) - s.next
      /\ ~Flushing(r) => k = 0 \/ (k = block /\ s.next + k < Len(s.valid))
      /\ t.next = s.next + k /\ t.next <= Len(s.valid)
      /\ t.seq = IF k > 0 THEN s.seq + 1 ELSE s.seq
      /\ t.block = IF k > 0 /\ ~Flushing(r) THEN NextBlock(block) ELSE block
      /\ t.accepted = s.accepted /\ t.valid = s.valid /\ t.live = s.live
      /\ t.reason = s.reason /\ t.sent = s.sent
      /\ IsCursor(t)
  BY <1>4, TakenFields DEF Took
<1>6. /\ s.valid \in Seq(Codes) /\ c.valid \in Seq(Codes) /\ s.next \in Nat
      /\ Len(s.valid) \in Nat /\ Len(c.valid) \in Nat /\ c.next <= Len(c.valid) /\ s.seq \in Nat
  BY <1>4 DEF IsCursor, Cursors
<1>7. /\ Len(c.valid) <= Len(s.valid)
      /\ published[r] = SubSeq(s.valid, 1, s.next)
  <2>1. PICK more \in Seq(Codes) : s.valid = c.valid \o more
    BY <1>3
  <2>2. Len(s.valid) = Len(c.valid) + Len(more) /\ Len(more) \in Nat
    <3> HIDE DEF c, s
    <3> QED BY <1>6, <2>1, Joined
  <2>3. s.next \in 0..Len(c.valid)
    BY <1>3, <1>6
  <2>4. SubSeq(c.valid \o more, 1, s.next) = SubSeq(c.valid, 1, s.next)
    <3> HIDE DEF c, s
    <3> QED BY <1>6, <2>3, BeginningJoined
  <2>5. published[r] = SubSeq(c.valid, 1, c.next)
    BY <1>2 DEF CursorInv
  <2> QED BY <1>3, <1>6, <2>1, <2>2, <2>4, <2>5
<1>8. /\ c.next > 0 => c.next < Len(c.valid)
      /\ c.seq = N
      /\ IF N = 0 THEN c.block \in {0, FirstBlock} ELSE c.block = NextBlock(Size(r, N)) /\ c.block # 0
  BY <1>2 DEF CursorInv
<1>9. block = IF N = 0 THEN FirstBlock ELSE NextBlock(Size(r, N))
  BY <1>3, <1>8
<1>10. s.next > 0 => s.next < Len(s.valid)
  BY <1>3, <1>6, <1>7, <1>8
<1>11. /\ p.codes = SubSeq(s.valid, s.next + 1, t.next) /\ p.seq = t.seq
       /\ p.final = Final(r) /\ Final(r) = Flushing(r)
  <2>1. /\ p.codes = SubSeq(t.valid, s.next + 1, t.next) /\ p.seq = t.seq
        /\ p.final = Final(r)
    BY DEF Carried
  <2>2. ~s.sent /\ t.valid = s.valid /\ Flushing(r) \in BOOLEAN
    BY <1>3, <1>4, <1>5
  <2>3. Final(r) = Flushing(r)
    <3>1. Final(r) = (Flushing(r) /\ ~s.sent)
      BY DEF Final
    <3> HIDE DEF s
    <3> QED BY <2>2, <3>1, Zenon
  <2> HIDE DEF s, t, p
  <2> QED BY <2>1, <2>2, <2>3
<1>12. /\ Len(p.codes) = k
       /\ published[r] \o p.codes = SubSeq(s.valid, 1, t.next)
  <2>1. t.next \in 0..Len(s.valid) /\ s.next \in 0..t.next /\ t.next - s.next = k
    BY <1>5, <1>6
  <2>2. /\ SubSeq(s.valid, 1, s.next) \o SubSeq(s.valid, s.next + 1, t.next) = SubSeq(s.valid, 1, t.next)
        /\ Len(SubSeq(s.valid, s.next + 1, t.next)) = t.next - s.next
    <3> DEFINE v == s.valid
               i == t.next
               j == s.next
    <3>1. v \in Seq(Codes) /\ i \in 0..Len(v) /\ j \in 0..i
      BY <1>6, <2>1
    <3> HIDE DEF v, i, j
    <3>2. /\ SubSeq(v, 1, j) \o SubSeq(v, j + 1, i) = SubSeq(v, 1, i)
          /\ Len(SubSeq(v, j + 1, i)) = i - j
      BY <3>1, Beginning
    <3> QED BY <3>2 DEF v, i, j
  <2> QED BY <1>7, <1>11, <2>1, <2>2
<1> HIDE DEF c, s, t, k, block, p
<1>13. CASE Flushing(r)
  <2>1. Publish(r, p) /\ p.final
    BY <1>1, <1>11, <1>13
  <2>2. /\ N \in Nat /\ Len(wire[r])' = N + 1 /\ wire'[r][N + 1] = p
        /\ TerminalSent(r)' /\ RungsInv(r)'
        /\ published'[r] = published[r] \o p.codes
    BY <1>1, <1>2, <1>4, <2>1, PublishRow
  <2>3. t.next = Len(s.valid)
    BY <1>5, <1>6, <1>13
  <2>4. SubSeq(s.valid, 1, Len(s.valid)) = s.valid
    <3>1. Len(s.valid) \in 0..Len(s.valid) /\ 0 \in 0..Len(s.valid)
      BY <1>6
    <3> QED BY <1>6, <3>1, Beginning
  <2>5. published'[r] = Utterance(r)
    BY <1>3, <1>12, <2>2, <2>3, <2>4
  <2>6. status[r] # "running" \/ Stopped(output[r])
    BY <1>3, <1>13 DEF Finished
  <2>7. Utterance(r) # <<>> => p.codes # <<>>
    <3>1. ASSUME s.valid # <<>> PROVE k # 0
      <4>1. Len(s.valid) # 0
        BY <1>6, <3>1
      <4> QED BY <1>5, <1>6, <1>10, <1>13, <4>1
    <3>2. p.codes = <<>> => Len(p.codes) = 0
      OBVIOUS
    <3> QED BY <1>3, <1>12, <3>1, <3>2
  <2>8. ClosedInv(r)'
    <3>1. output' = output /\ status' = status
      BY <1>1
    <3> HIDE DEF N
    <3> QED BY <2>2, <2>5, <2>6, <2>7, <3>1 DEF ClosedInv, Utterance
  <2> QED BY <2>2, <2>8
<1>14. CASE ~Flushing(r)
  <2>1. ~Stopped(output[r]) /\ ~Finished(r) /\ s.reason = "none" /\ ~Final(r) /\ ~p.final
    BY <1>3, <1>11, <1>14
  <2>2. cursor'[r] = [t EXCEPT !.sent = t.sent \/ Flushing(r)]
    BY <1>1, <2>1 DEF Left, Released, t
  <2>3. /\ CursorOf(r)'.accepted = output[r] /\ CursorOf(r)'.valid = s.valid
        /\ CursorOf(r)'.next = t.next /\ CursorOf(r)'.seq = t.seq
        /\ CursorOf(r)'.block = t.block /\ CursorOf(r)'.reason = "none"
        /\ ~CursorOf(r)'.sent
    <3>1. t \in Cursors
      BY <1>5 DEF IsCursor
    <3>2. /\ cursor'[r].accepted = t.accepted /\ cursor'[r].valid = t.valid
          /\ cursor'[r].next = t.next /\ cursor'[r].seq = t.seq
          /\ cursor'[r].block = t.block /\ cursor'[r].reason = t.reason
          /\ cursor'[r].sent = (t.sent \/ Flushing(r)) /\ cursor'[r].live = t.live
      BY <2>2, <3>1 DEF Cursors
    <3>3. CursorOf(r)' = cursor'[r]
      BY <1>3, <1>5, <3>2 DEF CursorOf
    <3> QED BY <1>3, <1>5, <1>14, <2>1, <3>2, <3>3
  <2>4. /\ RungsInv(r)' /\ ~TerminalSent(r)'
        /\ published'[r] = SubSeq(s.valid, 1, t.next)
        /\ t.seq = Len(wire'[r])
        /\ IF Len(wire'[r]) = 0 THEN t.block \in {0, FirstBlock}
           ELSE t.block = NextBlock(Size(r, Len(wire[r])))' /\ t.block # 0
    <3>1. CASE k = 0
      <4>1. wire' = wire /\ published' = published /\ t.next = s.next
        BY <1>1, <1>5, <1>6, <2>1, <3>1
      <4>2. t.seq = N /\ t.block = block
        BY <1>3, <1>5, <1>8, <3>1
      <4>3. RungsInv(r)' /\ ~TerminalSent(r)'
        BY <1>1, <1>2, <4>1 DEF RungsInv, TerminalSent, Size
      <4> QED BY <1>5, <1>7, <1>9, <4>1, <4>2, <4>3 DEF Size
    <3>2. CASE k # 0
      <4>1. /\ t.next > s.next /\ k = block /\ t.seq = s.seq + 1
            /\ t.block = NextBlock(block) /\ t.block # 0
        BY <1>5, <1>6, <1>14, <3>2
      <4>2. Publish(r, p) /\ Len(p.codes) = block /\ p.seq = N + 1
        BY <1>1, <1>3, <1>8, <1>11, <1>12, <4>1
      <4>3. /\ N \in Nat /\ Len(wire[r])' = N + 1 /\ wire'[r][N + 1] = p
            /\ ~TerminalSent(r)' /\ RungsInv(r)'
            /\ published'[r] = published[r] \o p.codes
        BY <1>1, <1>2, <1>4, <1>9, <2>1, <4>2, PublishRow
      <4>4. Size(r, Len(wire[r]))' = block
        BY <4>2, <4>3 DEF Size
      <4> QED BY <1>3, <1>8, <1>12, <4>1, <4>3, <4>4
    <3> QED BY <3>1, <3>2
  <2>5. t.next > 0 => t.next < Len(s.valid)
    BY <1>5, <1>6, <1>10, <1>14
  <2>6. CursorInv(r)'
    <3>1. output'[r] = output[r] /\ output[r] \in Seq(Tokens) /\ Utterance(r) = CodesOf(output[r])
      BY <1>1 DEF TypeOK, Tokens, Utterance
    <3>2. Len(output[r]) <= Len(output[r]) /\ output[r] = SubSeq(output[r], 1, Len(output[r]))
      <4>1. Len(output[r]) \in 0..Len(output[r]) /\ 0 \in 0..Len(output[r]) /\ Len(output[r]) \in Nat
        BY <3>1
      <4>2. \A q \in Seq(Tokens) : \A i \in 0..Len(q) : SubSeq(q, 1, Len(q)) = q
        BY Beginning
      <4> QED BY <3>1, <4>1, <4>2
    <3> QED BY <1>3, <2>1, <2>3, <2>4, <2>5, <3>1, <3>2 DEF CursorInv
  <2> QED BY <2>4, <2>6
<1> QED BY <1>4, <1>13, <1>14

\* A row none of whose variables change stands as before.
LEMMA SameRow ==
  ASSUME NEW r, RowInv(r), epoch'[r] = epoch[r], output'[r] = output[r],
         cursor'[r] = cursor[r], wire'[r] = wire[r], published'[r] = published[r],
         status'[r] = status[r] \/ status'[r] # "running"
  PROVE  RowInv(r)'
<1>1. /\ First(r)' = First(r) /\ TerminalSent(r)' = TerminalSent(r)
      /\ CursorOf(r)' = CursorOf(r) /\ Utterance(r)' = Utterance(r)
      /\ \A i : Size(r, i)' = Size(r, i)
  BY DEF First, TerminalSent, CursorOf, Utterance, Size
<1>2. RungsInv(r)' = RungsInv(r)
  BY DEF RungsInv, Size
<1>3. CursorInv(r) => CursorInv(r)'
  BY <1>1 DEF CursorInv
<1>4. ClosedInv(r) => ClosedInv(r)'
  BY <1>1 DEF ClosedInv
<1> QED BY <1>1, <1>2, <1>3, <1>4 DEF RowInv

\* One token more: what the cursor has accepted is still a beginning of the
\* output, and what a closed stream has published is still its utterance.
LEMMA GenerateRow ==
  ASSUME TypeOK, NEW r \in Rows, RowInv(r), NEW t \in Sampled(r), Generate(r, t)
  PROVE  RowInv(r)'
<1> DEFINE out == output[r]
           a == CursorOf(r).accepted
<1>1. /\ out \in Seq(Tokens) /\ Len(out) \in Nat /\ Len(out) < MaxTokens
      /\ output'[r] = Append(out, t) /\ status[r] = "running"
      /\ UNCHANGED <<status, epoch, cursor, wire, published>>
  BY DEF Generate, TypeOK, Tokens
<1>2. t \in Tokens
  BY <1>1, SampledType DEF Tokens
<1>3. /\ First(r)' = First(r) /\ TerminalSent(r)' = TerminalSent(r)
      /\ CursorOf(r)' = CursorOf(r) /\ RungsInv(r)' = RungsInv(r)
  BY <1>1 DEF First, TerminalSent, CursorOf, RungsInv, Size
<1>4. ASSUME CursorInv(r) PROVE CursorInv(r)'
  <2>1. a \in Seq(Tokens) /\ Len(a) \in Nat /\ Len(a) <= Len(out) /\ a = SubSeq(out, 1, Len(a))
    BY <1>4, CursorOfType DEF CursorInv, IsCursor, Cursors, Tokens
  <2> DEFINE longer == Append(out, t)
  <2>2. /\ longer \in Seq(Tokens) /\ Len(longer) = Len(out) + 1
        /\ \A i \in 1..Len(out) : longer[i] = out[i]
    BY <1>1, <1>2
  <2> HIDE DEF longer, a, out
  <2>3. Len(a) <= Len(longer)
    BY <1>1, <2>1, <2>2
  <2>4. /\ SubSeq(longer, 1, Len(a)) \in Seq(Tokens) /\ Len(SubSeq(longer, 1, Len(a))) = Len(a)
        /\ \A i \in 1..Len(a) : SubSeq(longer, 1, Len(a))[i] = longer[i]
    BY <2>1, <2>2, <2>3
  <2>5. \A i \in 1..Len(a) : a[i] = out[i]
    BY <2>1
  <2>6. \A i \in 1..Len(a) : a[i] = SubSeq(longer, 1, Len(a))[i]
    BY <1>1, <2>1, <2>2, <2>4, <2>5
  <2>7. a = SubSeq(longer, 1, Len(a))
    BY <2>1, <2>4, <2>6, SameList
  <2>8. output'[r] = longer
    BY <1>1 DEF longer, out
  <2>9. \A i : Size(r, i)' = Size(r, i)
    BY <1>1 DEF Size
  <2> QED BY <1>1, <1>3, <1>4, <2>3, <2>7, <2>8, <2>9 DEF CursorInv, a
<1>5. ASSUME ClosedInv(r) PROVE ClosedInv(r)'
  <2>1. Stopped(out)
    BY <1>1, <1>5 DEF ClosedInv
  <2>2. CodesOf(Append(out, t)) = CodesOf(out)
    BY <1>1, <1>2, <2>1, CodesStopped
  <2>3. Stopped(Append(out, t))
    BY <1>1, <1>2, <2>1 DEF Stopped
  <2>4. Utterance(r)' = Utterance(r)
    BY <1>1, <2>2 DEF Utterance
  <2> QED BY <1>1, <1>5, <2>3, <2>4 DEF ClosedInv
<1> QED BY <1>3, <1>4, <1>5 DEF RowInv

LEMMA InitData == Init => DataInv
<1> SUFFICES ASSUME Init, NEW r \in Rows PROVE RowInv(r)
  BY DEF DataInv
<1>1. /\ output[r] = <<>> /\ cursor[r] = NoCursor /\ wire[r] = <<>> /\ published[r] = <<>>
  BY DEF Init
<1>2. RungsInv(r) /\ ~TerminalSent(r)
  BY <1>1 DEF RungsInv, TerminalSent
<1>3. <<>> \in Seq(Tokens) /\ Len(<<>>) = 0 /\ SubSeq(<<>>, 1, 0) = <<>> /\ ~Stopped(<<>>)
  BY DEF Stopped
<1>4. CodesOf(<<>>) = <<>>
  <2>1. CodesOf(<<>>) \in Seq(Codes)
    BY <1>3, CodesType
  <2>2. Kept(<<>>) = {}
    <3>1. DOMAIN <<>> = {}
      OBVIOUS
    <3> QED BY <3>1 DEF Kept
  <2>3. CodesOf(<<>>) = Picked(<<>>, {})
    BY <2>2 DEF CodesOf
  <2>4. DOMAIN Picked(<<>>, {}) = 1..0
    BY FS_EmptySet DEF Picked
  <2> QED BY <2>1, <2>3, <2>4
<1>5. /\ CursorOf(r).accepted = <<>> /\ CursorOf(r).valid = <<>> /\ CursorOf(r).next = 0
      /\ CursorOf(r).seq = 0 /\ CursorOf(r).block = 0 /\ CursorOf(r).reason = "none"
      /\ ~CursorOf(r).sent
  BY <1>1 DEF CursorOf, NewCursor, NoCursor
<1>6. CursorInv(r)
  BY <1>1, <1>3, <1>4, <1>5 DEF CursorInv
<1> QED BY <1>2, <1>6 DEF RowInv

LEMMA StepData == TypeOK /\ DataInv /\ [Next]_vars => DataInv'
<1> SUFFICES ASSUME TypeOK, DataInv, [Next]_vars, NEW r \in Rows \ Uncond PROVE RowInv(r)'
  BY DEF DataInv
<1>1. RowInv(r)
  BY DEF DataInv
<1>2. ASSUME NEW q \in Rows,
             \/ Callback(q) \/ \E t \in Sampled(q) : Generate(q, t)
             \/ Finish(q) \/ Abort(q) \/ Resubmit(q),
             q # r
      PROVE  RowInv(r)'
  <2>1. ASSUME Callback(q)
        PROVE  /\ UNCHANGED <<output, status, epoch>> /\ cursor'[r] = cursor[r]
               /\ wire'[r] = wire[r] /\ published'[r] = published[r]
    <3>1. CASE CallbackUncond(q)
      <4>1. /\ UNCHANGED <<output, status, epoch>>
            /\ \E c : cursor' = [cursor EXCEPT ![q] = c]
            /\ (\E p : Publish(q, p)) \/ UNCHANGED <<wire, published>>
        BY <3>1 DEF CallbackUncond
      <4>2. cursor'[r] = cursor[r]
        BY <1>2, <4>1 DEF TypeOK
      <4>3. wire'[r] = wire[r] /\ published'[r] = published[r]
        BY <1>2, <4>1 DEF Publish, TypeOK
      <4> QED BY <4>1, <4>2, <4>3
    <3>2. CASE CallbackRefused(q)
      BY <3>2 DEF CallbackRefused
    <3>3. CASE CallbackCond(q)
      <4>1. /\ UNCHANGED <<output, status, epoch>>
            /\ cursor' = [cursor EXCEPT ![q] = Left(q)]
            /\ (\E voiced \in BOOLEAN : Publish(q, Carried(q, voiced))) \/ UNCHANGED <<wire, published>>
        BY <3>3, CondStep
      <4>2. cursor'[r] = cursor[r]
        BY <1>2, <4>1 DEF TypeOK
      <4>3. wire'[r] = wire[r] /\ published'[r] = published[r]
        BY <1>2, <4>1 DEF Publish, TypeOK
      <4> QED BY <4>1, <4>2, <4>3
    <3> QED BY <2>1, <3>1, <3>2, <3>3 DEF Callback
  <2>2. CASE Callback(q)
    BY <1>1, <2>1, <2>2, SameRow
  <2>3. CASE ~Callback(q)
    <3>1. /\ epoch'[r] = epoch[r] /\ output'[r] = output[r] /\ cursor'[r] = cursor[r]
          /\ wire'[r] = wire[r] /\ published'[r] = published[r] /\ status'[r] = status[r]
      BY <1>2, <2>3 DEF Generate, Finish, Abort, Resubmit, TypeOK
    <3> QED BY <1>1, <3>1, SameRow
  <2> QED BY <2>2, <2>3
<1>3. CASE CallbackCond(r)
  BY <1>1, <1>3, CondRow
<1>4. CASE CallbackRefused(r)
  BY <1>1, <1>4, SameRow DEF CallbackRefused
<1>5. ASSUME NEW t \in Sampled(r), Generate(r, t) PROVE RowInv(r)'
  BY <1>1, <1>5, GenerateRow
<1>6. CASE Finish(r) \/ Abort(r)
  <2>1. /\ UNCHANGED <<output, epoch, cursor, wire, published>> /\ status'[r] # "running"
    BY <1>6 DEF Finish, Abort, TypeOK
  <2> QED BY <1>1, <2>1, SameRow
<1>7. CASE Resubmit(r)
  <2>1. epoch[r] \in Nat \ {0} /\ epoch'[r] = epoch[r] + 1
    BY <1>7 DEF Resubmit, TypeOK
  <2> QED BY <2>1 DEF RowInv, First
<1>8. CASE UNCHANGED vars
  BY <1>1, <1>8, SameRow DEF vars
<1>9. ~CallbackUncond(r)
  BY DEF CallbackUncond, IsCompanion
<1> QED BY <1>2, <1>3, <1>4, <1>5, <1>6, <1>7, <1>8, <1>9 DEF Next, Callback

\* How every stream of a first submission stands: its cursor has taken a
\* beginning of the output, and what left the cursor is what is published.
THEOREM DataInvariant == Spec => [](TypeOK /\ DataInv)
<1>1. Init => TypeOK /\ DataInv
  BY InitType, InitData
<1>2. TypeOK /\ DataInv /\ [Next]_vars => (TypeOK /\ DataInv)'
  BY StepType, StepData
<1> QED BY <1>1, <1>2, PTL DEF Spec

\* What is published of an utterance is a beginning of it, and when the stream
\* is closed all of it.
LEMMA DataOnce == TypeOK /\ DataInv => CodesOnce
<1> SUFFICES ASSUME TypeOK, DataInv, NEW r \in Rows \ Uncond, First(r)
             PROVE  /\ IsPrefix(published[r], Utterance(r))
                    /\ TerminalSent(r) => published[r] = Utterance(r)
  BY DEF CodesOnce
<1>0. output[r] \in Seq(Tokens)
  BY DEF TypeOK, Tokens
<1>1. CASE TerminalSent(r)
  <2>1. published[r] = Utterance(r) /\ Utterance(r) \in Seq(Codes)
    BY <1>0, <1>1, CodesType DEF DataInv, RowInv, ClosedInv, Utterance
  <2> QED BY <2>1 DEF IsPrefix
<1>2. CASE ~TerminalSent(r)
  <2> DEFINE c == CursorOf(r)
  <2>1. CursorInv(r)
    BY <1>2 DEF DataInv, RowInv
  <2>2. /\ \E more \in Seq(Codes) : Utterance(r) = c.valid \o more
        /\ published[r] = SubSeq(c.valid, 1, c.next)
    BY <2>1, SeenOpen DEF CursorInv
  <2>3. c.valid \in Seq(Codes) /\ c.next \in Nat /\ c.next <= Len(c.valid)
    BY CursorOfType DEF IsCursor, Cursors
  <2> HIDE DEF c
  <2>4. PICK more \in Seq(Codes) : Utterance(r) = c.valid \o more
    BY <2>2
  <2> DEFINE u == Utterance(r)
             w == published[r]
  <2>5. /\ u \in Seq(Codes) /\ Len(u) = Len(c.valid) + Len(more) /\ Len(more) \in Nat
        /\ \A i \in 1..Len(c.valid) : u[i] = c.valid[i]
    BY <2>3, <2>4, Joined
  <2>6. w \in Seq(Codes) /\ Len(w) = c.next /\ \A i \in 1..c.next : w[i] = c.valid[i]
    BY <2>2, <2>3
  <2>7. Len(w) <= Len(u) /\ \A i \in 1..Len(w) : w[i] = u[i]
    <3> HIDE DEF u, w
    <3> QED BY <2>3, <2>5, <2>6
  <2> QED BY <1>2, <2>3, <2>5, <2>6, <2>7 DEF IsPrefix
<1> QED BY <1>1, <1>2

\* Every code of an utterance is published once and in order, none after its
\* EOS, and the terminal payload leaves none behind: whatever the callbacks
\* find, for every ladder.
THEOREM PublishedOnce == Spec => []CodesOnce
  BY DataOnce, DataInvariant, PTL

\* The terminal payload of an utterance that has a code carries one, so no
\* token path drops it.
THEOREM FinalCarries == Spec => []FinalCarriesCode
<1>1. DataInv /\ EndInv => FinalCarriesCode
  <2> SUFFICES ASSUME DataInv, EndInv, NEW r \in Rows \ Uncond, First(r),
                      NEW i \in Finals(r), Utterance(r) # <<>>
               PROVE  wire[r][i].codes # <<>>
    BY DEF FinalCarriesCode
  <2>1. i = Len(wire[r]) /\ TerminalSent(r)
    BY DEF EndInv, WireInv, Finals, TerminalSent
  <2> QED BY <2>1 DEF DataInv, RowInv, ClosedInv
<1> QED BY <1>1, DataInvariant, EndsInvariant, PTL

\* Every payload before the terminal one is one rung of the ladder, the rungs
\* in order, and is numbered by its rung, however many tokens a callback finds.
THEOREM RungsAreExact == Spec => []RungsExact
<1>1. DataInv /\ EndInv => RungsExact
  <2> SUFFICES ASSUME DataInv, EndInv, NEW r \in Rows, First(r),
                      NEW i \in 1..Len(wire[r]) \ Finals(r)
               PROVE  /\ Size(r, i) = IF i = 1 THEN FirstBlock ELSE NextBlock(Size(r, i - 1))
                      /\ wire[r][i].seq = i
    BY DEF RungsExact
  <2>1. i \in 1..Len(wire[r]) /\ ~wire[r][i].final
    BY DEF Finals
  <2>2. r \notin Uncond
    BY <2>1 DEF EndInv, WireInv
  <2>3. RungsInv(r)
    BY <2>2 DEF DataInv, RowInv
  <2> QED BY <2>1, <2>3 DEF RungsInv
<1> QED BY <1>1, DataInvariant, EndsInvariant, PTL

-----------------------------------------------------------------------------
(* What the next stage may rely on                                         *)

\* Generation stops at its limit.
OutputBound == \A r \in Rows : Len(output[r]) <= MaxTokens

LEMMA InitBound == Init => OutputBound
<1>1. Len(<<>>) = 0
  OBVIOUS
<1> QED BY <1>1, TransportAssumption DEF Init, OutputBound

LEMMA StepBound == TypeOK /\ OutputBound /\ [Next]_vars => OutputBound'
<1> SUFFICES ASSUME TypeOK, OutputBound, [Next]_vars PROVE OutputBound'
  OBVIOUS
<1>1. CASE UNCHANGED output
  BY <1>1 DEF OutputBound
<1>2. ASSUME NEW r \in Rows, NEW t \in Sampled(r), Generate(r, t) PROVE OutputBound'
  <2>1. /\ output[r] \in Seq(Codes \cup Control) /\ Len(output[r]) < MaxTokens
        /\ output' = [output EXCEPT ![r] = Append(output[r], t)]
    BY <1>2 DEF Generate, TypeOK
  <2>2. t \in Codes \cup Control
    BY <2>1, SampledType
  <2>3. Len(Append(output[r], t)) = Len(output[r]) + 1 /\ Len(output[r]) \in Nat
    BY <2>1, <2>2
  <2> QED BY <2>1, <2>3, TransportAssumption DEF OutputBound, TypeOK
<1>3. ASSUME NEW r \in Rows, Resubmit(r) PROVE OutputBound'
  <2>1. Len(<<>>) = 0 /\ output' = [output EXCEPT ![r] = <<>>]
    BY <1>3 DEF Resubmit
  <2> QED BY <2>1, TransportAssumption DEF OutputBound, TypeOK
<1>4. ASSUME NEW r \in Rows, Callback(r) \/ Finish(r) \/ Abort(r) PROVE UNCHANGED output
  BY <1>4 DEF Callback, CallbackUncond, CallbackRefused, CallbackCond, Finish, Abort
<1> QED BY <1>1, <1>2, <1>3, <1>4 DEF Next, vars

\* No more codes are published than tokens generated.
LEMMA PublishedBound ==
  ASSUME TypeOK, DataInv, OutputBound, NEW r \in Rows \ Uncond, First(r)
  PROVE  Len(published[r]) <= MaxTokens
<1> DEFINE K == Kept(output[r])
<1>1. IsPrefix(published[r], Utterance(r))
  BY DataOnce DEF CodesOnce
<1>2. output[r] \in Seq(Tokens) /\ Len(output[r]) \in Nat /\ published[r] \in Seq(Codes)
  BY DEF TypeOK, Tokens
<1>3. Utterance(r) \in Seq(Codes) /\ K \in SUBSET (1..Len(output[r]))
  BY <1>2, CodesType DEF Utterance
<1>4. \A i \in K : output[r][i] \in Codes
  BY DEF Kept, IsCode
<1>5. Len(Utterance(r)) = Cardinality(K)
  BY <1>2, <1>3, <1>4, PickedAt DEF Utterance, CodesOf
<1>6. Cardinality(K) <= Len(output[r])
  <2>1. IsFiniteSet(1..Len(output[r])) /\ Cardinality(1..Len(output[r])) = Len(output[r])
    BY <1>2, FS_Interval
  <2> HIDE DEF K
  <2>2. Cardinality(K) <= Cardinality(1..Len(output[r]))
    BY <1>3, <2>1, FS_Subset
  <2> QED BY <2>1, <2>2
<1>7. Len(published[r]) <= Len(Utterance(r))
  BY <1>1 DEF IsPrefix
<1>8. Len(output[r]) <= MaxTokens /\ Len(published[r]) \in Nat /\ Cardinality(K) \in Nat
  <2>1. Len(output[r]) <= MaxTokens /\ Len(published[r]) \in Nat
    BY <1>2 DEF OutputBound
  <2> HIDE DEF K
  <2> QED BY <1>2, <1>3, <2>1, PlacesFinite
<1> HIDE DEF K
<1> QED BY <1>2, <1>5, <1>6, <1>7, <1>8, TransportAssumption

\* A callback publishes nothing, or one payload: numbered by its place when it
\* has a code, and carrying the reference only when it is number one.
LEMMA OnePayload ==
  ASSUME TypeOK, DataInv, NEW r \in Rows \ Uncond, First(r), Callback(r)
  PROVE  \/ UNCHANGED <<wire, published>>
         \/ /\ ~TerminalSent(r)
            /\ \E p \in Payloads :
                 /\ Publish(r, p)
                 /\ p.codes # <<>> => p.seq = Len(wire[r]) + 1
                 /\ p.ref => p.seq = 1
<1>1. CASE CallbackRefused(r)
  BY <1>1 DEF CallbackRefused
<1>2. ~CallbackUncond(r)
  BY DEF CallbackUncond, IsCompanion
<1>3. ASSUME NEW voiced \in BOOLEAN, CallbackCond(r), Publish(r, Carried(r, voiced))
      PROVE  /\ ~TerminalSent(r)
             /\ \E p \in Payloads :
                  /\ Publish(r, p)
                  /\ p.codes # <<>> => p.seq = Len(wire[r]) + 1
                  /\ p.ref => p.seq = 1
  <2> DEFINE p == Carried(r, voiced)
  <2>1. ~TerminalSent(r) /\ p \in Payloads /\ Publish(r, p)
    BY <1>3, CondStep, CondType
  <2>2. CursorInv(r)
    BY <2>1 DEF DataInv, RowInv
  <2>3. /\ p.codes = SubSeq(Took(r).valid, Seen(r).next + 1, Took(r).next)
        /\ p.seq = Took(r).seq /\ p.ref = (Took(r).seq = 1 /\ voiced)
    BY DEF Carried, CarriesReference
  <2>4. Seen(r).seq = Len(wire[r]) /\ IsCursor(Seen(r)) /\ Flushing(r) \in BOOLEAN
    <3>1. CursorOf(r).seq = Len(wire[r])
      BY <2>2 DEF CursorInv
    <3>2. Seen(r).seq = CursorOf(r).seq
      BY <2>2, SeenOpen
    <3> QED BY <3>1, <3>2, CondType
  <2>5. /\ Took(r).next = Seen(r).next + TakeCount(Seen(r), Flushing(r))
        /\ TakeCount(Seen(r), Flushing(r)) \in Nat
        /\ Took(r).seq = IF TakeCount(Seen(r), Flushing(r)) > 0
                         THEN Seen(r).seq + 1 ELSE Seen(r).seq
        /\ Took(r).valid = Seen(r).valid /\ Took(r).next <= Len(Seen(r).valid)
    BY <2>4, TakenFields DEF Took
  <2>6. Seen(r).valid \in Seq(Codes) /\ Seen(r).next \in Nat
    BY <2>4 DEF IsCursor, Cursors
  <2>7. ASSUME p.codes # <<>> PROVE p.seq = Len(wire[r]) + 1
    <3> HIDE DEF p
    <3>1. ASSUME Took(r).next = Seen(r).next PROVE FALSE
      <4>1. p.codes = SubSeq(Seen(r).valid, Seen(r).next + 1, Seen(r).next)
        BY <2>3, <2>5, <3>1
      <4>2. ASSUME NEW v \in Seq(Codes), NEW n \in Nat PROVE SubSeq(v, n + 1, n) = <<>>
        OBVIOUS
      <4> QED BY <2>6, <2>7, <4>1, <4>2
    <3> QED BY <2>3, <2>4, <2>5, <2>6, <3>1
  <2> HIDE DEF p
  <2> QED BY <2>1, <2>3, <2>7
<1>4. CASE CallbackCond(r) /\ UNCHANGED <<wire, published>>
  BY <1>4
<1>5. CallbackCond(r) => \/ \E voiced \in BOOLEAN : Publish(r, Carried(r, voiced))
                         \/ UNCHANGED <<wire, published>>
  BY CondStep
<1> QED BY <1>1, <1>2, <1>3, <1>4, <1>5 DEF Callback
=============================================================================

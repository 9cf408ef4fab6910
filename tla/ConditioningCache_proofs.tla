----------------------- MODULE ConditioningCache_proofs -----------------------
(***************************************************************************)
(* The cache of voices, for every set of clips, every capacity and every   *)
(* finite number of threads.  CacheInv relates the entries, their order,   *)
(* the leases and what the threads hold; the lemmas on orders say which    *)
(* entries _evict_locked drops, by counting the idle ones up to each.      *)
(***************************************************************************)
EXTENDS ConditioningCache, FiniteSetTheorems, TLAPS

-----------------------------------------------------------------------------
(* Orders                                                                  *)

\* old orders the keys ks, the least recently used first.
Orders(old, ks) ==
  /\ old \subseteq ks \X ks
  /\ \A k \in ks : <<k, k>> \notin old
  /\ \A i, j, k \in ks : <<i, j>> \in old /\ <<j, k>> \in old => <<i, k>> \in old
  /\ \A j, k \in ks : j = k \/ <<j, k>> \in old \/ <<k, j>> \in old

\* How many of D come up to k in the order: the place of k among them.
Place(k, D, old) == Cardinality({j \in D : j = k \/ <<j, k>> \in old})

\* What comes before has a smaller place.
LEMMA PlaceGrows ==
  ASSUME NEW ks, NEW old, Orders(old, ks), NEW D \in SUBSET ks, IsFiniteSet(D),
         NEW j \in D, NEW k \in D, <<j, k>> \in old
  PROVE  Place(j, D, old) <= Place(k, D, old) /\ Place(j, D, old) # Place(k, D, old)
<1> DEFINE UpTo(i) == {m \in D : m = i \/ <<m, i>> \in old}
<1>1. UpTo(j) \in SUBSET UpTo(k) /\ k \in UpTo(k) /\ k \notin UpTo(j)
  <2>1. ASSUME NEW m \in UpTo(j) PROVE m \in UpTo(k)
    BY DEF Orders
  <2>2. k \notin UpTo(j)
    BY DEF Orders
  <2> QED BY <2>1, <2>2
<1>2. UpTo(k) \in SUBSET D
  OBVIOUS
<1> HIDE DEF UpTo
<1>3. IsFiniteSet(UpTo(k))
  BY <1>2, FS_Subset
<1>4. /\ Cardinality(UpTo(j)) <= Cardinality(UpTo(k))
      /\ Cardinality(UpTo(j)) # Cardinality(UpTo(k))
  BY <1>1, <1>3, FS_Subset
<1> QED BY <1>4 DEF UpTo, Place

\* The places of D are 1, 2, ... each once.
LEMMA Places ==
  ASSUME NEW ks, NEW old, Orders(old, ks), NEW D \in SUBSET ks, IsFiniteSet(D)
  PROVE  /\ Cardinality(D) \in Nat
         /\ \A k \in D : Place(k, D, old) \in 1..Cardinality(D)
         /\ \A j, k \in D : Place(j, D, old) = Place(k, D, old) => j = k
         /\ \A m \in 1..Cardinality(D) : \E k \in D : Place(k, D, old) = m
<1> DEFINE n == Cardinality(D)
           place == [k \in D |-> Place(k, D, old)]
<1>1. n \in Nat
  BY FS_CardinalityType
<1>2. ASSUME NEW k \in D PROVE Place(k, D, old) \in 1..n
  <2> DEFINE B == {j \in D : j = k \/ <<j, k>> \in old}
  <2>1. B \in SUBSET D /\ k \in B
    OBVIOUS
  <2>2. IsFiniteSet(B) /\ Cardinality(B) <= n /\ Cardinality(B) \in Nat
    BY <2>1, FS_Subset, FS_CardinalityType
  <2>3. Cardinality(B) # 0
    BY <2>1, <2>2, FS_EmptySet
  <2> QED BY <1>1, <2>2, <2>3 DEF Place
<1>3. ASSUME NEW j \in D, NEW k \in D, Place(j, D, old) = Place(k, D, old) PROVE j = k
  <2>1. j \in ks /\ k \in ks
    OBVIOUS
  <2>2. j = k \/ <<j, k>> \in old \/ <<k, j>> \in old
    BY <2>1 DEF Orders
  <2> QED BY <1>3, <2>2, PlaceGrows
<1>4. IsFiniteSet(1..n) /\ Cardinality(1..n) = n
  BY <1>1, FS_Interval
<1>5. place \in Injection(D, 1..n)
  BY <1>2, <1>3 DEF Injection, IsInjective
<1>6. place \in Surjection(D, 1..n)
  BY <1>4, <1>5, FS_Injection
<1>7. \A m \in 1..n : \E k \in D : Place(k, D, old) = m
  BY <1>6 DEF Surjection
<1> QED BY <1>1, <1>2, <1>3, <1>7

\* As many have a place up to m as there are places up to m.
LEMMA FirstPlaces ==
  ASSUME NEW ks, NEW old, Orders(old, ks), NEW D \in SUBSET ks, IsFiniteSet(D),
         NEW m \in 0..Cardinality(D), NEW F, F = {k \in D : Place(k, D, old) <= m}
  PROVE  IsFiniteSet(F) /\ Cardinality(F) = m
<1> DEFINE place == [k \in F |-> Place(k, D, old)]
<1>1. /\ Cardinality(D) \in Nat /\ m \in Nat /\ m <= Cardinality(D)
      /\ \A k \in D : Place(k, D, old) \in 1..Cardinality(D)
      /\ \A j, k \in D : Place(j, D, old) = Place(k, D, old) => j = k
      /\ \A i \in 1..Cardinality(D) : \E k \in D : Place(k, D, old) = i
  BY Places
<1>2. IsFiniteSet(F)
  BY FS_Subset
<1>3. place \in Injection(F, 1..m)
  <2>1. \A k \in F : k \in D /\ Place(k, D, old) \in 1..m
    BY <1>1
  <2> QED BY <1>1, <2>1 DEF Injection, IsInjective
<1>4. place \in Surjection(F, 1..m)
  <2>1. ASSUME NEW i \in 1..m PROVE \E k \in F : place[k] = i
    <3>1. i \in 1..Cardinality(D) /\ i <= m
      BY <1>1
    <3>2. PICK k \in D : Place(k, D, old) = i
      BY <1>1, <3>1
    <3>3. k \in F
      BY <3>1, <3>2
    <3> QED BY <3>2, <3>3
  <2>2. place \in [F -> 1..m]
    BY <1>3 DEF Injection
  <2> QED BY <2>1, <2>2 DEF Surjection
<1>5. Cardinality(1..m) = m /\ IsFiniteSet(1..m)
  BY <1>1, FS_Interval
<1>6. Cardinality(F) = Cardinality(1..m)
  BY <1>3, <1>4, <1>5, FS_Injection
<1> QED BY <1>2, <1>5, <1>6

\* move_to_end keeps the order an order, of one key more when it is new.
LEMMA TouchedOrders ==
  ASSUME NEW ks, NEW old, Orders(old, ks), NEW k
  PROVE  /\ Orders(Touched(old, ks, k), ks \cup {k})
         /\ \A i, j \in ks \ {k} : <<i, j>> \in old <=> <<i, j>> \in Touched(old, ks, k)
<1> DEFINE new == Touched(old, ks, k)
           all == ks \cup {k}
<1>1. \A i, j : <<i, j>> \in new <=> \/ <<i, j>> \in old /\ k # i /\ k # j
                                     \/ i \in ks /\ i # k /\ j = k
  BY DEF Touched
<1>2. new \subseteq all \X all
  BY DEF Touched, Orders
<1>3. \A i, j : <<i, j>> \in old => i \in ks /\ j \in ks
  BY DEF Orders
<1> HIDE DEF new
<1>4. \A i \in all : <<i, i>> \notin new
  BY <1>1 DEF Orders
<1>5. \A i, j \in all : i = j \/ <<i, j>> \in new \/ <<j, i>> \in new
  BY <1>1 DEF Orders
<1>6. \A h, i, j \in all : <<h, i>> \in new /\ <<i, j>> \in new => <<h, j>> \in new
  BY <1>1, <1>3 DEF Orders
<1>7. \A i, j \in ks \ {k} : <<i, j>> \in old <=> <<i, j>> \in new
  BY <1>1
<1> QED BY <1>2, <1>4, <1>5, <1>6, <1>7 DEF Orders, new

-----------------------------------------------------------------------------
(* Eviction                                                                *)

\* What is left of an order is an order of what is left.
LEMMA LeftOrders ==
  ASSUME NEW ks, NEW old, Orders(old, ks), NEW out
  PROVE  Orders({p \in old : p[1] \notin out /\ p[2] \notin out}, ks \ out)
<1> DEFINE new == {p \in old : p[1] \notin out /\ p[2] \notin out}
<1>1. \A i, j : <<i, j>> \in new <=> <<i, j>> \in old /\ i \notin out /\ j \notin out
  OBVIOUS
<1>2. new \subseteq (ks \ out) \X (ks \ out)
  BY DEF Orders
<1> HIDE DEF new
<1> QED BY <1>1, <1>2 DEF Orders, new

\* Victims are idle, and when one goes every idle one used before it goes.
\* They are none when everything fits; otherwise what is left fits exactly, or
\* is leased.
LEMMA VictimsAre ==
  ASSUME NEW ks, NEW old, Orders(old, ks), IsFiniteSet(ks), NEW ls,
         NEW out, out = Victims(ks, old, ls)
  PROVE  /\ out \in SUBSET ks /\ \A k \in out : ls[k] = 0
         /\ \A k \in out, j \in ks : <<j, k>> \in old /\ ls[j] = 0 => j \in out
         /\ \/ out = {} /\ Cardinality(ks) <= Capacity
            \/ Cardinality(ks \ out) = Capacity
            \/ \A j \in ks \ out : ls[j] # 0
<1> DEFINE D == {k \in ks : ls[k] = 0}
           n == Cardinality(ks)
<1>1. D \in SUBSET ks /\ IsFiniteSet(D) /\ n \in Nat /\ Capacity \in Nat
  BY FS_Subset, FS_CardinalityType, CacheAssumption
<1>2. out = {k \in D : Place(k, D, old) + Capacity <= n}
  BY DEF Victims, Place
<1>3. /\ Cardinality(D) \in Nat
      /\ \A k \in D : Place(k, D, old) \in 1..Cardinality(D)
  BY <1>1, Places
<1> HIDE DEF n
<1>4. ASSUME NEW k \in out, NEW j \in D, <<j, k>> \in old PROVE j \in out
  <2>1. k \in D /\ Place(k, D, old) + Capacity <= n
    BY <1>2
  <2>2. Place(j, D, old) <= Place(k, D, old)
    BY <1>1, <1>4, <2>1, PlaceGrows
  <2>3. Place(j, D, old) \in Nat /\ Place(k, D, old) \in Nat
    BY <1>3, <2>1
  <2> QED BY <1>1, <1>2, <2>1, <2>2, <2>3
<1>5. CASE n <= Capacity
  <2>1. out = {}
    <3> SUFFICES ASSUME NEW k \in D, Place(k, D, old) + Capacity <= n PROVE FALSE
      BY <1>2
    <3>1. Place(k, D, old) \in Nat /\ Place(k, D, old) >= 1
      BY <1>3
    <3> QED BY <1>1, <1>5, <3>1
  <2> QED BY <1>2, <1>4, <1>5, <2>1 DEF n
<1>6. CASE n > Capacity /\ n - Capacity <= Cardinality(D)
  <2> DEFINE m == n - Capacity
  <2>1. m \in 0..Cardinality(D)
    BY <1>1, <1>3, <1>6
  <2>2. out = {k \in D : Place(k, D, old) <= m}
    <3>1. ASSUME NEW k \in D PROVE Place(k, D, old) + Capacity <= n <=> Place(k, D, old) <= m
      <4>1. Place(k, D, old) \in Nat
        BY <1>3
      <4> QED BY <1>1, <4>1
    <3> QED BY <1>2, <3>1
  <2> HIDE DEF m
  <2>3. IsFiniteSet(out) /\ Cardinality(out) = m
    BY <1>1, <2>1, <2>2, FirstPlaces
  <2>4. ks \cap out = out
    BY <1>2
  <2>5. Cardinality(ks \ out) = n - m
    BY <2>3, <2>4, FS_Difference DEF n
  <2>6. Cardinality(ks \ out) = Capacity
    BY <1>1, <2>5 DEF m
  <2> QED BY <1>2, <1>4, <2>6
<1>7. CASE n > Capacity /\ ~(n - Capacity <= Cardinality(D))
  <2>1. ASSUME NEW k \in D PROVE k \in out
    <3>1. Place(k, D, old) \in Nat /\ Place(k, D, old) <= Cardinality(D)
      BY <1>3
    <3>2. Place(k, D, old) + Capacity <= n
      BY <1>1, <1>3, <1>7, <3>1
    <3> QED BY <1>2, <3>2
  <2> QED BY <1>2, <1>4, <2>1
<1> QED BY <1>1, <1>5, <1>6, <1>7

-----------------------------------------------------------------------------
(* The invariant                                                           *)

\* A voice that encode made of a clip.
Genuine(e) == \E c \in Clips : e = Encoded(c)

\* The voice of a clip, as the models hear it.
VoiceOf(c, v) == Genuine(v) /\ v.voice = Resampled(c).samples

KeysOf(es) == {e.key : e \in es}

\* Entries as _entries may have them, in an order of their keys.
Table(es, old) ==
  /\ IsFiniteSet(es)
  /\ \A e \in es : Genuine(e)
  /\ \A e, f \in es : e.key = f.key => e = f
  /\ Orders(old, KeysOf(es))

UserInv(u) ==
  \/ user[u] = Idle
  \/ \E c \in Clips : user[u] = Encoding(c)
  \/ \E c \in Clips : \E v : VoiceOf(c, v) /\ user[u] \in {Holding(c, v), Leasing(c, v)}

Holders(k) == {u \in Users : user[u].does = "leases" /\ user[u].value.key = k}

CacheInv ==
  /\ Table(entries, older)
  /\ leases \in [Keys -> Nat]
  /\ DOMAIN user = Users
  /\ \A u \in Users : UserInv(u)
  /\ LeasedStays
  /\ LeasesCounted
  /\ OvershootLeased

-----------------------------------------------------------------------------
(* Voices                                                                  *)

\* What encode makes of a clip: an entry at the model's own rate, whose codes
\* all have their frames.
LEMMA EncodedVoice ==
  ASSUME NEW c \in Clips
  PROVE  /\ Encoded(c).key = <<Resampled(c).samples, NativeRate>>
         /\ Encoded(c).voice = Resampled(c).samples
         /\ Encoded(c).key \in Keys /\ KeyOf(c) \in Keys
         /\ Encoded(c).frames >= TokenMelRatio * Encoded(c).codes
         /\ KeyOf(c) = <<c.samples, c.rate>>
         /\ c.rate = NativeRate => Resampled(c).samples = c.samples
<1>1. c \in ClipType /\ TokenMelRatio \in Nat \ {0}
  BY CacheAssumption
<1>2. Resampled(c).rate = NativeRate
  BY <1>1 DEF Resampled, ClipType
<1>3. c.frames \in Nat /\ c.codes \in Nat
  BY <1>1 DEF ClipType
<1>4. c.frames >= TokenMelRatio * ReferenceCodes(c)
  <2> DEFINE f == c.frames
             n == c.codes
             r == TokenMelRatio
             q == f \div r
  <2>1. f \in Nat /\ n \in Nat /\ r \in Nat /\ r >= 1 /\ q \in Nat
    BY <1>1, <1>3
  <2>2. r * q <= f /\ f < r * (q + 1)
    BY <1>1, <1>3
  <2>3. CASE f # r * n /\ q < n
    BY <2>2, <2>3 DEF ReferenceCodes
  <2>4. CASE f = r * n
    BY <2>1, <2>4 DEF ReferenceCodes
  <2>5. CASE f # r * n /\ ~(q < n)
    <3> HIDE DEF f, n, r, q
    <3>1. n <= q
      BY <2>1, <2>5
    <3>2. r * n <= r * q /\ r * n \in Nat /\ r * q \in Nat
      BY <2>1, <3>1
    <3>3. r * n <= f
      BY <2>1, <2>2, <3>2
    <3>4. ReferenceCodes(c) = n
      BY <2>5 DEF ReferenceCodes, f, n, r, q
    <3> QED BY <2>1, <3>2, <3>3, <3>4 DEF f, n, r
  <2> QED BY <2>3, <2>4, <2>5
<1>5. Encoded(c).key \in Keys /\ KeyOf(c) \in Keys
  BY DEF Keys
<1> QED BY <1>2, <1>4, <1>5 DEF Encoded, KeyOf, Resampled

\* The entry of a key that is there, and it is the only one.
LEMMA Lookup ==
  ASSUME Table(entries, older), NEW k \in Cached
  PROVE  /\ EntryOf(k) \in entries /\ EntryOf(k).key = k /\ Genuine(EntryOf(k))
         /\ entries \cup {EntryOf(k)} = entries /\ k \in Keys
<1>1. \E e \in entries : e.key = k
  BY DEF Cached
<1>2. EntryOf(k) \in entries /\ EntryOf(k).key = k
  BY <1>1 DEF EntryOf
<1>3. Genuine(EntryOf(k))
  BY <1>2 DEF Table
<1>4. EntryOf(k).key \in Keys
  BY <1>3, EncodedVoice DEF Genuine
<1> QED BY <1>2, <1>3, <1>4

\* Who finds an entry under the key of a clip has the voice of that clip.
LEMMA HitVoice ==
  ASSUME Table(entries, older), NEW c \in Clips, KeyOf(c) \in Cached
  PROVE  VoiceOf(c, EntryOf(KeyOf(c)))
<1>1. EntryOf(KeyOf(c)).key = KeyOf(c) /\ Genuine(EntryOf(KeyOf(c)))
  BY Lookup
<1>2. PICK d \in Clips : EntryOf(KeyOf(c)) = Encoded(d)
  BY <1>1 DEF Genuine
<1>3. <<Resampled(d).samples, NativeRate>> = <<c.samples, c.rate>>
  BY <1>1, <1>2, EncodedVoice
<1>4. Resampled(d).samples = Resampled(c).samples
  BY <1>3, EncodedVoice
<1> QED BY <1>1, <1>2, <1>4, EncodedVoice DEF VoiceOf

\* So has who puts the voice of a clip in, whoever's entry he is given.
LEMMA OfferedVoice ==
  ASSUME Table(entries, older), NEW c \in Clips
  PROVE  /\ VoiceOf(c, Offered(c)) /\ Offered(c).key = Encoded(c).key
         /\ Offered(c).key \in Keys
         /\ Offered(c).key \in Cached => Offered(c) \in entries
<1>1. CASE Encoded(c).key \in Cached
  <2>1. /\ Offered(c) = EntryOf(Encoded(c).key)
        /\ Offered(c).key = Encoded(c).key /\ Genuine(Offered(c)) /\ Offered(c) \in entries
    BY <1>1, Lookup DEF Offered
  <2>2. PICK d \in Clips : Offered(c) = Encoded(d)
    BY <2>1 DEF Genuine
  <2>3. Resampled(d).samples = Resampled(c).samples
    BY <2>1, <2>2, EncodedVoice
  <2> QED BY <2>1, <2>2, <2>3, EncodedVoice DEF VoiceOf
<1>2. CASE Encoded(c).key \notin Cached
  <2>1. Offered(c) = Encoded(c)
    BY <1>2 DEF Offered
  <2> QED BY <1>2, <2>1, EncodedVoice DEF VoiceOf, Genuine
<1> QED BY <1>1, <1>2

-----------------------------------------------------------------------------
(* Tables                                                                  *)

\* As many keys as entries, so finitely many.
LEMMA KeysFinite == ASSUME NEW es, IsFiniteSet(es) PROVE IsFiniteSet(KeysOf(es))
<1> DEFINE f == [e \in es |-> e.key]
<1>1. f \in Surjection(es, KeysOf(es))
  BY DEF Surjection, KeysOf
<1> QED BY <1>1, FS_Surjection

\* move_to_end, of a voice that may be new: every other key stays in its order.
LEMMA TouchTable ==
  ASSUME Table(entries, older), NEW v, Genuine(v), v.key \in Cached => v \in entries
  PROVE  /\ Table(entries \cup {v}, Touched(older, Cached, v.key))
         /\ KeysOf(entries \cup {v}) = Cached \cup {v.key}
         /\ \A j, k \in Cached \ {v.key} : <<j, k>> \in older
                                           <=> <<j, k>> \in Touched(older, Cached, v.key)
<1>1. KeysOf(entries) = Cached /\ KeysOf(entries \cup {v}) = Cached \cup {v.key}
  BY DEF KeysOf, Cached
<1>2. Orders(older, Cached)
  BY <1>1 DEF Table
<1>3. IsFiniteSet(entries \cup {v})
  BY FS_AddElement DEF Table
<1>4. \A e \in entries \cup {v} : Genuine(e)
  BY DEF Table
<1>5. \A e, f \in entries \cup {v} : e.key = f.key => e = f
  <2>1. \A e \in entries : e.key \in Cached
    BY DEF Cached
  <2> QED BY <2>1 DEF Table
<1>6. /\ Orders(Touched(older, Cached, v.key), Cached \cup {v.key})
      /\ \A j, k \in Cached \ {v.key} : <<j, k>> \in older
                                        <=> <<j, k>> \in Touched(older, Cached, v.key)
  BY <1>2, TouchedOrders
<1> QED BY <1>1, <1>3, <1>4, <1>5, <1>6 DEF Table

\* What evicting does to a table.
LEMMA EvictTable ==
  ASSUME NEW es, NEW old, Table(es, old), NEW ls, ls \in [Keys -> Nat], Evict(es, old, ls)
  PROVE  /\ Table(entries, older)' /\ entries' \in SUBSET es
         /\ Cached' \in SUBSET KeysOf(es)
         /\ \A k \in KeysOf(es) \ Cached' : ls[k] = 0
         /\ \A k \in KeysOf(es) \ Cached', j \in KeysOf(es) :
              <<j, k>> \in old /\ ls[j] = 0 => j \notin Cached'
         /\ \/ KeysOf(es) = Cached' /\ Cardinality(Cached') <= Capacity
            \/ Cardinality(Cached') = Capacity
            \/ \A j \in Cached' : ls[j] > 0
<1> DEFINE ks == KeysOf(es)
           out == Victims(ks, old, ls)
<1>1. /\ entries' = {e \in es : e.key \notin out}
      /\ older' = {p \in old : p[1] \notin out /\ p[2] \notin out}
  BY DEF Evict, KeysOf
<1>2. Orders(old, ks) /\ IsFiniteSet(ks)
  BY KeysFinite DEF Table
<1>3. /\ out \in SUBSET ks /\ \A k \in out : ls[k] = 0
      /\ \A k \in out, j \in ks : <<j, k>> \in old /\ ls[j] = 0 => j \in out
      /\ \/ out = {} /\ Cardinality(ks) <= Capacity
         \/ Cardinality(ks \ out) = Capacity
         \/ \A j \in ks \ out : ls[j] # 0
  <2>1. out = Victims(ks, old, ls)
    OBVIOUS
  <2> HIDE DEF out, ks
  <2> QED BY <1>2, <2>1, VictimsAre
<1>4. Orders(older', ks \ out)
  BY <1>1, <1>2, LeftOrders
<1> HIDE DEF out
<1>5. Cached' = ks \ out /\ KeysOf(entries)' = ks \ out
  BY <1>1 DEF Cached, KeysOf
<1>6. \A k \in ks : ls[k] \in Nat
  <2>1. \A e \in es : e.key \in Keys
    BY EncodedVoice DEF Table, Genuine
  <2> QED BY <2>1 DEF KeysOf
<1>7. Table(entries, older)'
  <2>1. entries' \in SUBSET es
    BY <1>1
  <2>2. IsFiniteSet(entries')
    BY <2>1, FS_Subset DEF Table
  <2>3. /\ \A e \in entries' : Genuine(e)
        /\ \A e, f \in entries' : e.key = f.key => e = f
    BY <2>1 DEF Table
  <2>4. Orders(older', KeysOf(entries'))
    BY <1>4, <1>5 DEF KeysOf
  <2> QED BY <2>2, <2>3, <2>4 DEF Table, Genuine, Orders
<1>8. ks \ Cached' = out
  BY <1>3, <1>5
<1>9. \/ ks = Cached' /\ Cardinality(Cached') <= Capacity
      \/ Cardinality(Cached') = Capacity
      \/ \A j \in Cached' : ls[j] > 0
  <2>1. \A j \in ks \ out : ls[j] # 0 => ls[j] > 0
    BY <1>6
  <2> QED BY <1>3, <1>5, <2>1
<1> QED BY <1>1, <1>3, <1>5, <1>7, <1>8, <1>9

-----------------------------------------------------------------------------
(* Leases                                                                  *)

LEMMA HoldersFinite == ASSUME NEW k PROVE IsFiniteSet(Holders(k)) /\ Cardinality(Holders(k)) \in Nat
<1>1. Holders(k) \in SUBSET Users
  BY DEF Holders
<1>2. IsFiniteSet(Holders(k))
  BY <1>1, FS_Subset, CacheAssumption
<1> QED BY <1>2, FS_CardinalityType

\* A thread that neither had a lease nor takes one changes no count.
LEMMA NoLease ==
  ASSUME DOMAIN user = Users, NEW u \in Users, NEW x, user' = [user EXCEPT ![u] = x],
         user[u].does # "leases", x.does # "leases", NEW k
  PROVE  Holders(k)' = Holders(k)
  BY DEF Holders

\* A lease taken is one holder more, and no other key has one more.
LEMMA LeaseTaken ==
  ASSUME DOMAIN user = Users, NEW u \in Users, NEW x, user' = [user EXCEPT ![u] = x],
         user[u].does # "leases", x.does = "leases", NEW k
  PROVE  Cardinality(Holders(k))' = Cardinality(Holders(k)) + (IF k = x.value.key THEN 1 ELSE 0)
<1>1. /\ k = x.value.key => Holders(k)' = Holders(k) \cup {u}
      /\ k # x.value.key => Holders(k)' = Holders(k)
      /\ u \notin Holders(k)
  BY DEF Holders
<1>2. IsFiniteSet(Holders(k)) /\ Cardinality(Holders(k)) \in Nat
  BY HoldersFinite
<1>3. Cardinality(Holders(k) \cup {u}) = Cardinality(Holders(k)) + 1
  BY <1>1, <1>2, FS_AddElement
<1> QED BY <1>1, <1>2, <1>3

\* A lease given back is one holder less, and there was one.
LEMMA LeaseGivenBack ==
  ASSUME DOMAIN user = Users, NEW u \in Users, NEW x, user' = [user EXCEPT ![u] = x],
         user[u].does = "leases", x.does # "leases", NEW k
  PROVE  IF k = user[u].value.key
         THEN Cardinality(Holders(k))' = Cardinality(Holders(k)) - 1 /\ Cardinality(Holders(k)) > 0
         ELSE Cardinality(Holders(k))' = Cardinality(Holders(k))
<1>1. /\ k = user[u].value.key => Holders(k)' = Holders(k) \ {u} /\ u \in Holders(k)
      /\ k # user[u].value.key => Holders(k)' = Holders(k)
  <2>1. \A q \in Users : user'[q] = IF q = u THEN x ELSE user[q]
    OBVIOUS
  <2> QED BY <2>1 DEF Holders
<1>2. IsFiniteSet(Holders(k)) /\ Cardinality(Holders(k)) \in Nat
  BY HoldersFinite
<1>3. u \in Holders(k) => /\ Cardinality(Holders(k) \ {u}) = Cardinality(Holders(k)) - 1
                          /\ Cardinality(Holders(k)) # 0
  BY <1>2, FS_RemoveElement, FS_EmptySet
<1>4. CASE k = user[u].value.key
  <2>1. Cardinality(Holders(k))' = Cardinality(Holders(k) \ {u})
    BY <1>1, <1>4
  <2> QED BY <1>1, <1>2, <1>3, <1>4, <2>1
<1>5. CASE k # user[u].value.key
  <2>1. Cardinality(Holders(k))' = Cardinality(Holders(k))
    BY <1>1, <1>5
  <2> QED BY <1>5, <2>1
<1> QED BY <1>4, <1>5

-----------------------------------------------------------------------------
(* Every step preserves the invariant, and evicts the oldest               *)

\* What EvictsOldest asks of one step.
OldestFirst ==
  \A k \in Cached \ Cached' :
    /\ Cardinality(Cached') = Capacity \/ \A j \in Cached' : leases'[j] > 0
    /\ \A j \in Cached \cap Cached' : <<j, k>> \in older => leases'[j] > 0

\* The states of a thread are told apart by what it does.
LEMMA States ==
  ASSUME NEW c, NEW v
  PROVE  /\ Idle.does = "nothing" /\ Encoding(c).does = "encodes"
         /\ Holding(c, v).does = "holds" /\ Leasing(c, v).does = "leases"
         /\ Encoding(c).clip = c /\ Leasing(c, v).value = v
  BY DEF Idle, Encoding, Holding, Leasing

\* One thread goes on, the others stay as they are.
LEMMA UserStep ==
  ASSUME CacheInv, NEW u \in Users, NEW x, user' = [user EXCEPT ![u] = x],
         \/ x = Idle
         \/ \E c \in Clips : x = Encoding(c)
         \/ \E c \in Clips : \E v : VoiceOf(c, v) /\ x \in {Holding(c, v), Leasing(c, v)}
  PROVE  DOMAIN user' = Users /\ \A q \in Users : UserInv(q)'
<1>1. DOMAIN user' = Users /\ user'[u] = x /\ \A q \in Users : q # u => user'[q] = user[q]
  BY DEF CacheInv
<1>2. UserInv(u)'
  BY <1>1 DEF UserInv
<1>3. ASSUME NEW q \in Users, q # u PROVE UserInv(q)'
  BY <1>1, <1>3 DEF UserInv, CacheInv
<1> QED BY <1>1, <1>2, <1>3

\* The entries stay and no lease changes hands.
LEMMA QuietStep ==
  ASSUME CacheInv, NEW u \in Users, NEW x, user' = [user EXCEPT ![u] = x],
         \/ x = Idle
         \/ \E c \in Clips : x = Encoding(c)
         \/ \E c \in Clips : \E v : VoiceOf(c, v) /\ x = Holding(c, v),
         user[u].does # "leases",
         UNCHANGED <<entries, leases>>, Table(entries, older')
  PROVE  CacheInv' /\ OldestFirst
<1>1. DOMAIN user' = Users /\ \A q \in Users : UserInv(q)'
  BY UserStep
<1>2. x.does # "leases"
  BY States
<1>3. Cached' = Cached
  BY DEF Cached
<1>4. LeasedStays'
  <2> SUFFICES ASSUME NEW q \in Users, user'[q].does = "leases" PROVE user'[q].value.key \in Cached
    BY <1>3 DEF LeasedStays
  <2>1. user'[q] = user[q]
    BY <1>2 DEF CacheInv
  <2> QED BY <2>1 DEF CacheInv, LeasedStays
<1>5. LeasesCounted'
  <2>1. \A k \in Keys : Holders(k)' = Holders(k)
    BY <1>2, NoLease DEF CacheInv
  <2>2. \A k \in Keys : leases[k] = Cardinality(Holders(k))
    BY DEF CacheInv, LeasesCounted, Holders
  <2> QED BY <2>1, <2>2 DEF LeasesCounted, Holders
<1>6. OvershootLeased'
  BY <1>3 DEF CacheInv, OvershootLeased
<1>7. Table(entries, older)'
  BY DEF Table, Genuine, Orders
<1> QED BY <1>1, <1>3, <1>4, <1>5, <1>6, <1>7 DEF CacheInv, OldestFirst

LEMMA GetInv == ASSUME CacheInv, NEW u \in Users, NEW c \in Clips, Get(u, c) PROVE CacheInv' /\ OldestFirst
<1>1. /\ user[u].does # "leases" /\ UNCHANGED <<entries, leases>>
      /\ Table(entries, older)
  BY States DEF Get, CacheInv
<1>2. CASE KeyOf(c) \in Cached
  <2> DEFINE v == EntryOf(KeyOf(c))
  <2>1. /\ older' = Touched(older, Cached, KeyOf(c))
        /\ user' = [user EXCEPT ![u] = Holding(c, v)]
    BY <1>2 DEF Get
  <2>2. v.key = KeyOf(c) /\ v \in entries /\ Genuine(v) /\ entries \cup {v} = entries
    BY <1>1, <1>2, Lookup
  <2>3. VoiceOf(c, v)
    BY <1>1, <1>2, HitVoice
  <2> HIDE DEF v
  <2>4. Table(entries \cup {v}, Touched(older, Cached, v.key))
    BY <1>1, <2>2, TouchTable
  <2>5. Table(entries, older')
    BY <2>1, <2>2, <2>4
  <2> QED BY <1>1, <2>1, <2>3, <2>5, QuietStep
<1>3. CASE KeyOf(c) \notin Cached
  <2>1. older' = older /\ user' = [user EXCEPT ![u] = Encoding(c)]
    BY <1>3 DEF Get
  <2> QED BY <1>1, <2>1, QuietStep
<1> QED BY <1>2, <1>3

LEMMA IdleInv ==
  ASSUME CacheInv, NEW u \in Users, EncodeRaises(u) \/ Finish(u)
  PROVE  CacheInv' /\ OldestFirst
<1>1. /\ user[u].does # "leases" /\ UNCHANGED <<entries, older, leases>>
      /\ user' = [user EXCEPT ![u] = Idle]
  BY DEF EncodeRaises, Finish
<1>2. Table(entries, older')
  BY <1>1 DEF CacheInv
<1> QED BY <1>1, <1>2, QuietStep

\* The clip a thread encodes.
LEMMA Encodes ==
  ASSUME CacheInv, NEW u \in Users, user[u].does = "encodes"
  PROVE  user[u].clip \in Clips
<1>1. UserInv(u)
  BY DEF CacheInv
<1>2. PICK c \in Clips : user[u] = Encoding(c)
  BY <1>1, States DEF UserInv
<1> QED BY <1>2, States

\* Evicting once the leases are as they will be, from an order that has changed
\* for a leased key only: who has a lease keeps his voice, and the oldest goes.
LEMMA EvictStep ==
  ASSUME CacheInv, NEW es, NEW old, Table(es, old), Evict(es, old, leases'),
         leases' \in [Keys -> Nat], DOMAIN user' = Users,
         \A q \in Users : UserInv(q)',
         \A k \in Keys : leases'[k] = Cardinality(Holders(k))',
         Cached \subseteq KeysOf(es),
         \A j, k \in Cached : <<j, k>> \in older
                             => <<j, k>> \in old \/ leases'[j] > 0 \/ leases'[k] > 0,
         \A q \in Users : user'[q].does = "leases" => user'[q].value.key \in KeysOf(es)
  PROVE  CacheInv' /\ OldestFirst
<1>1. /\ Table(entries, older)' /\ entries' \in SUBSET es
      /\ Cached' \in SUBSET KeysOf(es)
      /\ \A k \in KeysOf(es) \ Cached' : leases'[k] = 0
      /\ \A k \in KeysOf(es) \ Cached', j \in KeysOf(es) :
           <<j, k>> \in old /\ leases'[j] = 0 => j \notin Cached'
      /\ \/ KeysOf(es) = Cached' /\ Cardinality(Cached') <= Capacity
         \/ Cardinality(Cached') = Capacity
         \/ \A j \in Cached' : leases'[j] > 0
  BY EvictTable
<1>2. ASSUME NEW k \in KeysOf(es) PROVE k \in Keys /\ leases'[k] \in Nat
  <2>1. \A e \in es : e.key \in Keys
    BY EncodedVoice DEF Table, Genuine
  <2> QED BY <2>1 DEF KeysOf
<1>3. LeasedStays'
  <2> SUFFICES ASSUME NEW q \in Users, user'[q].does = "leases",
                      NEW k, k = user'[q].value.key, k \notin Cached'
               PROVE  FALSE
    BY DEF LeasedStays
  <2>1. k \in KeysOf(es) /\ leases'[k] = 0 /\ k \in Keys
    BY <1>1, <1>2
  <2>2. q \in Holders(k)' /\ IsFiniteSet(Holders(k)')
    <3>1. Holders(k)' \in SUBSET Users
      BY DEF Holders
    <3> QED BY <3>1, FS_Subset, CacheAssumption DEF Holders
  <2>3. Cardinality(Holders(k)') # 0
    BY <2>2, FS_EmptySet
  <2> QED BY <2>1, <2>3
<1>4. LeasesCounted'
  BY DEF LeasesCounted, Holders
<1>5. OvershootLeased'
  <2>1. Cardinality(Cached') > Capacity => ~(Cardinality(Cached') <= Capacity) /\ Cardinality(Cached') # Capacity
    <3>1. IsFiniteSet(Cached') /\ Capacity \in Nat
      <4>1. IsFiniteSet(entries')
        BY <1>1 DEF Table
      <4>2. IsFiniteSet(KeysOf(entries'))
        BY <4>1, KeysFinite
      <4> QED BY <4>2, CacheAssumption DEF KeysOf, Cached
    <3>2. Cardinality(Cached') \in Nat
      BY <3>1, FS_CardinalityType
    <3> QED BY <3>1, <3>2
  <2> QED BY <1>1, <2>1 DEF OvershootLeased
<1>6. OldestFirst
  <2> SUFFICES ASSUME NEW k \in Cached, k \notin Cached'
               PROVE  /\ Cardinality(Cached') = Capacity \/ \A j \in Cached' : leases'[j] > 0
                      /\ \A j \in Cached \cap Cached' : <<j, k>> \in older => leases'[j] > 0
    BY DEF OldestFirst
  <2>1. k \in KeysOf(es) /\ leases'[k] = 0 /\ leases'[k] \in Nat
    BY <1>1, <1>2
  <2>2. Cardinality(Cached') = Capacity \/ \A j \in Cached' : leases'[j] > 0
    BY <1>1, <2>1
  <2>3. ASSUME NEW j \in Cached \cap Cached', <<j, k>> \in older PROVE leases'[j] > 0
    <3>1. j \in KeysOf(es) /\ leases'[j] \in Nat
      BY <1>2
    <3>2. leases'[j] > 0 \/ leases'[j] = 0
      BY <3>1
    <3>3. <<j, k>> \in old \/ leases'[j] > 0
      BY <2>1, <2>3
    <3> QED BY <1>1, <2>1, <3>1, <3>2, <3>3
  <2> QED BY <2>2, <2>3
<1> QED BY <1>1, <1>3, <1>4, <1>5, <1>6 DEF CacheInv

LEMMA PutInv == ASSUME CacheInv, NEW u \in Users, Put(u) PROVE CacheInv' /\ OldestFirst
<1> DEFINE c == user[u].clip
           v == Offered(c)
           used == Touched(older, Cached, v.key)
<1>1. /\ user[u].does = "encodes" /\ UNCHANGED leases
      /\ user' = [user EXCEPT ![u] = Holding(c, v)]
      /\ IF v.key \in Cached THEN older' = used /\ UNCHANGED entries
         ELSE Evict(entries \cup {v}, used, leases)
  BY DEF Put
<1>2. c \in Clips /\ Table(entries, older)
  BY <1>1, Encodes DEF CacheInv
<1>3. /\ VoiceOf(c, v) /\ v.key \in Keys /\ Genuine(v)
      /\ v.key \in Cached => v \in entries
  BY <1>2, OfferedVoice DEF VoiceOf
<1> HIDE DEF v
<1>4. /\ Table(entries \cup {v}, used)
      /\ KeysOf(entries \cup {v}) = Cached \cup {v.key}
      /\ \A j, k \in Cached \ {v.key} : <<j, k>> \in older <=> <<j, k>> \in used
  BY <1>2, <1>3, TouchTable
<1> HIDE DEF c, used
<1>5. CASE v.key \in Cached
  <2>1. entries \cup {v} = entries
    BY <1>3, <1>5
  <2>2. Table(entries, older')
    BY <1>1, <1>4, <1>5, <2>1
  <2> QED BY <1>1, <1>2, <1>3, <1>5, <2>2, QuietStep
<1>6. CASE v.key \notin Cached
  <2>1. DOMAIN user' = Users /\ \A q \in Users : UserInv(q)'
    BY <1>1, <1>2, <1>3, UserStep
  <2>2. \A k \in Keys : leases'[k] = Cardinality(Holders(k))'
    <3>1. Holding(c, v).does # "leases" /\ user[u].does # "leases" /\ DOMAIN user = Users
      BY <1>1, States DEF CacheInv
    <3> DEFINE x == Holding(c, v)
    <3>2. user' = [user EXCEPT ![u] = x] /\ x.does # "leases"
      BY <1>1, <3>1
    <3> HIDE DEF x
    <3>3. \A k \in Keys : Holders(k)' = Holders(k)
      BY <3>1, <3>2, NoLease
    <3> QED BY <1>1, <3>3 DEF CacheInv, LeasesCounted, Holders
  <2>3. ASSUME NEW q \in Users, user'[q].does = "leases"
        PROVE  user'[q].value.key \in KeysOf(entries \cup {v})
    <3>1. user'[q] = user[q]
      BY <1>1, <2>3, States DEF CacheInv
    <3> QED BY <1>4, <2>3, <3>1 DEF CacheInv, LeasedStays
  <2>4. \A j, k \in Cached : <<j, k>> \in older => <<j, k>> \in used
    BY <1>4, <1>6
  <2>5. Evict(entries \cup {v}, used, leases') /\ leases' \in [Keys -> Nat]
    BY <1>1, <1>6 DEF CacheInv
  <2>6. Cached \subseteq KeysOf(entries \cup {v})
    BY <1>4
  <2> QED BY <1>4, <2>1, <2>2, <2>3, <2>4, <2>5, <2>6, EvictStep
<1> QED BY <1>5, <1>6

\* A lease more on a key is counted.
LEMMA LeaseMore ==
  ASSUME CacheInv, NEW u \in Users, user[u].does # "leases", NEW c, NEW v, v.key \in Keys,
         user' = [user EXCEPT ![u] = Leasing(c, v)],
         leases' = [leases EXCEPT ![v.key] = @ + 1]
  PROVE  /\ leases' \in [Keys -> Nat] /\ leases'[v.key] > 0
         /\ \A k \in Keys : leases'[k] = Cardinality(Holders(k))' /\ leases'[k] >= leases[k]
<1>1. leases \in [Keys -> Nat] /\ \A k \in Keys : leases[k] = Cardinality(Holders(k))
  BY DEF CacheInv, LeasesCounted, Holders
<1>2. \A k \in Keys : leases'[k] = leases[k] + (IF k = v.key THEN 1 ELSE 0)
  BY <1>1
<1>3. \A k \in Keys :
        Cardinality(Holders(k))' = Cardinality(Holders(k)) + (IF k = v.key THEN 1 ELSE 0)
  <2>1. Leasing(c, v).does = "leases" /\ Leasing(c, v).value = v
    BY States
  <2> QED BY <2>1, LeaseTaken DEF CacheInv
<1> QED BY <1>1, <1>2, <1>3

LEMMA AcquireInv ==
  ASSUME CacheInv, NEW u \in Users, NEW c \in Clips, Acquire(u, c)
  PROVE  CacheInv' /\ OldestFirst
<1>1. user[u].does # "leases" /\ UNCHANGED entries /\ Table(entries, older)
  BY States DEF Acquire, CacheInv
<1>2. CASE KeyOf(c) \in Cached
  <2> DEFINE v == EntryOf(KeyOf(c))
  <2>1. /\ older' = Touched(older, Cached, KeyOf(c))
        /\ user' = [user EXCEPT ![u] = Leasing(c, v)]
        /\ leases' = [leases EXCEPT ![KeyOf(c)] = @ + 1]
    BY <1>2 DEF Acquire
  <2>2. /\ v.key = KeyOf(c) /\ v \in entries /\ Genuine(v) /\ entries \cup {v} = entries
        /\ v.key \in Keys
    BY <1>1, <1>2, Lookup
  <2>3. VoiceOf(c, v)
    BY <1>1, <1>2, HitVoice
  <2> HIDE DEF v
  <2>4. Table(entries, older)'
    <3>1. Table(entries \cup {v}, Touched(older, Cached, v.key))
      BY <1>1, <2>2, TouchTable
    <3>2. Table(entries', older')
      BY <1>1, <2>1, <2>2, <3>1
    <3> QED BY <3>2 DEF Table, Genuine, Orders
  <2>5. Cached' = Cached
    BY <1>1 DEF Cached
  <2>6. DOMAIN user' = Users /\ \A q \in Users : UserInv(q)'
    BY <2>1, <2>3, UserStep
  <2>7. /\ leases' \in [Keys -> Nat]
        /\ \A k \in Keys : leases'[k] = Cardinality(Holders(k))' /\ leases'[k] >= leases[k]
    BY <1>1, <2>1, <2>2, LeaseMore
  <2>8. LeasedStays'
    <3> SUFFICES ASSUME NEW q \in Users, user'[q].does = "leases" PROVE user'[q].value.key \in Cached
      BY <2>5 DEF LeasedStays
    <3>1. CASE q = u
      <4>1. user'[q].value = v
        BY <2>1, <3>1, States DEF CacheInv
      <4> QED BY <1>2, <2>2, <4>1
    <3>2. CASE q # u
      BY <2>1, <3>2 DEF CacheInv, LeasedStays
    <3> QED BY <3>1, <3>2
  <2>9. OvershootLeased'
    <3> SUFFICES ASSUME Cardinality(Cached) > Capacity, NEW k \in Cached PROVE leases'[k] > 0
      BY <2>5 DEF OvershootLeased
    <3>1. leases[k] > 0 /\ k \in Keys
      BY <1>1, Lookup DEF CacheInv, OvershootLeased
    <3> QED BY <2>7, <3>1 DEF CacheInv
  <2> QED BY <2>4, <2>5, <2>6, <2>7, <2>8, <2>9 DEF CacheInv, OldestFirst, LeasesCounted, Holders
<1>3. CASE KeyOf(c) \notin Cached
  <2>1. older' = older /\ leases' = leases /\ user' = [user EXCEPT ![u] = Encoding(c)]
    BY <1>3 DEF Acquire
  <2> QED BY <1>1, <2>1, QuietStep
<1> QED BY <1>2, <1>3

LEMMA AcquireOrPutInv ==
  ASSUME CacheInv, NEW u \in Users, AcquireOrPut(u)
  PROVE  CacheInv' /\ OldestFirst
<1> DEFINE c == user[u].clip
           v == Offered(c)
           used == Touched(older, Cached, v.key)
<1>1. /\ user[u].does = "encodes"
      /\ user' = [user EXCEPT ![u] = Leasing(c, v)]
      /\ leases' = [leases EXCEPT ![v.key] = @ + 1]
      /\ Evict(entries \cup {v}, used, leases')
  BY DEF AcquireOrPut
<1>2. c \in Clips /\ Table(entries, older)
  BY <1>1, Encodes DEF CacheInv
<1>3. /\ VoiceOf(c, v) /\ v.key \in Keys /\ Genuine(v)
      /\ v.key \in Cached => v \in entries
  BY <1>2, OfferedVoice DEF VoiceOf
<1> HIDE DEF v
<1>4. /\ Table(entries \cup {v}, used)
      /\ KeysOf(entries \cup {v}) = Cached \cup {v.key}
      /\ \A j, k \in Cached \ {v.key} : <<j, k>> \in older <=> <<j, k>> \in used
  BY <1>2, <1>3, TouchTable
<1> HIDE DEF c, used
<1>5. DOMAIN user' = Users /\ \A q \in Users : UserInv(q)'
  BY <1>1, <1>2, <1>3, UserStep
<1>6. /\ leases' \in [Keys -> Nat] /\ leases'[v.key] > 0
      /\ \A k \in Keys : leases'[k] = Cardinality(Holders(k))'
  BY <1>1, <1>3, LeaseMore
<1>7. ASSUME NEW q \in Users, user'[q].does = "leases"
      PROVE  user'[q].value.key \in KeysOf(entries \cup {v})
  <2>1. CASE q = u
    <3>1. user'[q].value = v
      BY <1>1, <2>1, States DEF CacheInv
    <3> QED BY <1>4, <3>1
  <2>2. CASE q # u
    <3>1. user'[q] = user[q]
      BY <1>1, <2>2 DEF CacheInv
    <3> QED BY <1>4, <1>7, <3>1 DEF CacheInv, LeasedStays
  <2> QED BY <2>1, <2>2
<1>8. \A j, k \in Cached : <<j, k>> \in older
                          => <<j, k>> \in used \/ leases'[j] > 0 \/ leases'[k] > 0
  BY <1>4, <1>6
<1>9. Cached \subseteq KeysOf(entries \cup {v})
  BY <1>4
<1> QED BY <1>1, <1>4, <1>5, <1>6, <1>7, <1>8, <1>9, EvictStep

LEMMA ReleaseInv == ASSUME CacheInv, NEW u \in Users, Release(u) PROVE CacheInv' /\ OldestFirst
<1> DEFINE k == user[u].value.key
<1>1. user[u].does = "leases" /\ k \in Cached /\ user' = [user EXCEPT ![u] = Idle]
  BY DEF Release, CacheInv, LeasedStays
<1>2. /\ leases' = [leases EXCEPT ![k] = IF @ > 0 THEN @ - 1 ELSE 0]
      /\ Evict(entries, older, leases')
  BY <1>1 DEF Release
<1>3. Table(entries, older) /\ KeysOf(entries) = Cached /\ k \in Keys
  BY <1>1, Lookup DEF CacheInv, KeysOf, Cached
<1>4. DOMAIN user' = Users /\ \A q \in Users : UserInv(q)'
  BY <1>1, UserStep
<1>5. leases \in [Keys -> Nat] /\ \A i \in Keys : leases[i] = Cardinality(Holders(i))
  BY DEF CacheInv, LeasesCounted, Holders
<1>6. \A i \in Keys :
        IF i = k
        THEN Cardinality(Holders(i))' = Cardinality(Holders(i)) - 1 /\ Cardinality(Holders(i)) > 0
        ELSE Cardinality(Holders(i))' = Cardinality(Holders(i))
  <2>1. DOMAIN user = Users /\ Idle.does # "leases"
    BY States DEF CacheInv
  <2> DEFINE x == Idle
  <2>2. user' = [user EXCEPT ![u] = x] /\ x.does # "leases"
    BY <1>1, <2>1
  <2> HIDE DEF x
  <2> QED BY <1>1, <2>1, <2>2, LeaseGivenBack
<1> HIDE DEF k
<1>7. leases' \in [Keys -> Nat] /\ \A i \in Keys : leases'[i] = Cardinality(Holders(i))'
  <2>1. leases[k] > 0 /\ leases[k] \in Nat
    BY <1>3, <1>5, <1>6
  <2> DEFINE less == leases[k] - 1
  <2>2. leases' = [leases EXCEPT ![k] = less] /\ less \in Nat
    <3>1. (IF leases[k] > 0 THEN leases[k] - 1 ELSE 0) = less /\ less \in Nat
      BY <2>1
    <3> HIDE DEF less
    <3> QED BY <1>2, <3>1
  <2> HIDE DEF less
  <2>3. \A i \in Keys : leases'[i] = IF i = k THEN less ELSE leases[i]
    BY <1>5, <2>2
  <2>4. leases' \in [Keys -> Nat]
    BY <1>5, <2>2
  <2> QED BY <1>5, <1>6, <2>3, <2>4 DEF less
<1>8. ASSUME NEW q \in Users, user'[q].does = "leases" PROVE user'[q].value.key \in KeysOf(entries)
  <2>1. user'[q] = user[q]
    BY <1>1, <1>8, States DEF CacheInv
  <2> QED BY <1>3, <1>8, <2>1 DEF CacheInv, LeasedStays
<1>9. Cached \subseteq KeysOf(entries)
  BY <1>3
<1> QED BY <1>2, <1>3, <1>4, <1>7, <1>8, <1>9, EvictStep

LEMMA InitCache == Init => CacheInv
<1> SUFFICES ASSUME Init PROVE CacheInv
  OBVIOUS
<1>1. entries = {} /\ older = {} /\ leases = [k \in Keys |-> 0] /\ user = [u \in Users |-> Idle]
  BY DEF Init
<1>2. Table(entries, older)
  BY <1>1, FS_EmptySet DEF Table, Orders, KeysOf
<1>3. /\ DOMAIN user = Users /\ leases \in [Keys -> Nat]
      /\ \A u \in Users : UserInv(u) /\ user[u].does # "leases"
  BY <1>1, States DEF UserInv
<1>4. LeasesCounted
  <2>1. \A k \in Keys : {u \in Users : user[u].does = "leases" /\ user[u].value.key = k} = {}
    BY <1>3
  <2> QED BY <1>1, <2>1, FS_EmptySet DEF LeasesCounted
<1>5. LeasedStays /\ OvershootLeased
  BY <1>1, <1>3 DEF LeasedStays, OvershootLeased, Cached
<1> QED BY <1>2, <1>3, <1>4, <1>5 DEF CacheInv

LEMMA StepCache == CacheInv /\ [Next]_vars => CacheInv' /\ OldestFirst
<1> SUFFICES ASSUME CacheInv, [Next]_vars PROVE CacheInv' /\ OldestFirst
  OBVIOUS
<1>1. CASE UNCHANGED vars
  <2>1. UNCHANGED <<entries, older, leases, user>>
    BY <1>1 DEF vars
  <2> QED BY <2>1 DEF CacheInv, OldestFirst, Table, Genuine, Orders, KeysOf, Cached, UserInv,
                      LeasedStays, LeasesCounted, OvershootLeased
<1> QED BY <1>1, GetInv, AcquireInv, IdleInv, PutInv, AcquireOrPutInv, ReleaseInv DEF Next

-----------------------------------------------------------------------------
(* Theorems                                                                *)

\* How the cache and its users stand: one entry for a key, each the voice of a
\* clip, in one order; everyone with the voice of its own clip; leases exact.
THEOREM CacheInvariant == Spec => []CacheInv
  BY InitCache, StepCache, PTL DEF Spec

\* Every request speaks with the voice of its own clip, whatever else the cache
\* was asked for in between, and the voice has the frames of all its codes.
THEOREM Own == Spec => []OwnVoice
<1>1. CacheInv => OwnVoice
  <2> SUFFICES ASSUME CacheInv, NEW u \in Users, InHand(u)
               PROVE  /\ user[u].value.voice = Resampled(user[u].clip).samples
                      /\ user[u].value.frames >= TokenMelRatio * user[u].value.codes
    BY DEF OwnVoice
  <2>1. UserInv(u)
    BY DEF CacheInv
  <2>2. PICK c, v : c \in Clips /\ VoiceOf(c, v) /\ user[u] \in {Holding(c, v), Leasing(c, v)}
    BY <2>1, States DEF UserInv, InHand
  <2>3. user[u].value = v /\ user[u].clip = c
    BY <2>2 DEF Holding, Leasing
  <2>4. PICK d \in Clips : v = Encoded(d)
    BY <2>2 DEF VoiceOf, Genuine
  <2> QED BY <2>2, <2>3, <2>4, EncodedVoice DEF VoiceOf
<1> QED BY <1>1, CacheInvariant, PTL

\* No eviction pulls a voice out from under a request that leases it.
THEOREM Stays == Spec => []LeasedStays
<1>1. CacheInv => LeasedStays
  BY DEF CacheInv
<1> QED BY <1>1, CacheInvariant, PTL

\* Leases are counted exactly: none leaks, none is given back twice.
THEOREM Counted == Spec => []LeasesCounted
<1>1. CacheInv => LeasesCounted
  BY DEF CacheInv
<1> QED BY <1>1, CacheInvariant, PTL

\* The cache is over its bound only while all it holds is leased.
THEOREM Overshoot == Spec => []OvershootLeased
<1>1. CacheInv => OvershootLeased
  BY DEF CacheInv
<1> QED BY <1>1, CacheInvariant, PTL

\* Nothing goes while there is room, and what goes is, of the idle entries, the
\* one used least recently.
THEOREM Oldest == Spec => EvictsOldest
<1>1. CacheInv /\ [Next]_vars
        => [\A k \in Cached \ Cached' :
              /\ Cardinality(Cached') = Capacity \/ \A j \in Cached' : leases'[j] > 0
              /\ \A j \in Cached \cap Cached' : <<j, k>> \in older => leases'[j] > 0]_vars
  BY StepCache DEF OldestFirst
<1> QED BY <1>1, CacheInvariant, PTL DEF Spec, EvictsOldest
=============================================================================

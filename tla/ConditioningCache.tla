-------------------------- MODULE ConditioningCache --------------------------
(***************************************************************************)
(* conditioning.py: how a reference clip becomes a voice, and the bounded  *)
(* LRU of encoded voices shared by the threads that prepare requests.      *)
(* Every method of the cache runs under one lock and is one action; what   *)
(* is not atomic is a request's own sequence of calls: it looks the key of *)
(* its clip up, encodes the clip outside the lock when there is no entry,  *)
(* and puts the voice in under its own key, while others do the same.      *)
(*                                                                         *)
(* A clip is named by its samples; what the encoder's models make of it,   *)
(* how long it is and how many codes and mel frames it yields, is given.   *)
(***************************************************************************)
EXTENDS Naturals, FiniteSets, Sequences

CONSTANTS
  Clips,         \* reference clips: see ClipType
  Users,         \* request threads
  Capacity,      \* conditioning_cache_size
  NativeRate,    \* S3GEN_SR
  MaxSeconds,    \* max_reference_seconds
  TokenMelRatio  \* MEL_FRAMES_PER_CODEC_TOKEN

ClipType ==
  [path : STRING, samples : STRING, rate : Nat, finite : BOOLEAN,
   seconds : Nat, codes : Nat, frames : Nat]

ASSUME CacheAssumption ==
  /\ Clips \subseteq ClipType
  /\ Capacity \in Nat \ {0} /\ NativeRate \in Nat /\ MaxSeconds \in Nat
  /\ TokenMelRatio \in Nat \ {0}
  /\ IsFiniteSet(Users)

VARIABLES
  entries,  \* _entries: the voices
  older,    \* their order, by key: <<j, k>> when j was used before k
  leases,   \* leases of each entry, 0 for a key that has none
  user      \* what each thread is doing

vars == <<entries, older, leases, user>>

-----------------------------------------------------------------------------
(* Clips and voices                                                        *)

\* Fault variant: the key of the file.
KeyOfPath(c) == <<c.path, c.rate>>

\* conditioning_cache_key of audio_content_hash: samples and rate.  Profile and
\* revisions are those of the process.
KeyOf(c) == <<c.samples, c.rate>>

\* The samples at the model's own rate.
Resampled(c) ==
  IF c.rate = NativeRate THEN c
  ELSE [c EXCEPT !.samples = @ \o "@24k", !.rate = NativeRate]

\* encode refuses what cannot be a reference.
Unusable(c) == ~c.finite \/ c.seconds > MaxSeconds \/ c.seconds < 1

\* Codes that have all of their mel frames.
ReferenceCodes(c) ==
  IF c.frames # TokenMelRatio * c.codes /\ c.frames \div TokenMelRatio < c.codes
  THEN c.frames \div TokenMelRatio ELSE c.codes

\* encode: the voice of a clip, made from its samples at the model's rate and
\* stored under the key of those.
Encoded(c) ==
  [key |-> KeyOf(Resampled(c)), voice |-> Resampled(c).samples,
   codes |-> ReferenceCodes(c), frames |-> c.frames]

Keys == {KeyOf(c) : c \in Clips} \cup {Encoded(c).key : c \in Clips}

Cached == {e.key : e \in entries}
EntryOf(k) == CHOOSE e \in entries : e.key = k

\* A thread is idle, encoding a clip it did not find, or has the voice of its
\* clip in hand, on a lease or not.
Idle == [does |-> "nothing"]
Encoding(c) == [does |-> "encodes", clip |-> c]
Holding(c, v) == [does |-> "holds", clip |-> c, value |-> v]
Leasing(c, v) == [does |-> "leases", clip |-> c, value |-> v]

Init ==
  /\ entries = {} /\ older = {}
  /\ leases = [k \in Keys |-> 0]
  /\ user = [u \in Users |-> Idle]

-----------------------------------------------------------------------------
(* What the methods do to the entries                                      *)

\* move_to_end, which also is how a new entry comes in: every other key of ks
\* now was used before k.
Touched(old, ks, k) == {p \in old : k \notin {p[1], p[2]}} \cup ((ks \ {k}) \X {k})

\* Fault variant: leases are not looked at.
VictimsAny(ks, old, ls) ==
  {k \in ks : Cardinality({j \in ks : j = k \/ <<j, k>> \in old}) + Capacity <= Cardinality(ks)}

\* Fault variant: the newest idle entries go first.
VictimsNewest(ks, old, ls) ==
  LET idle == {k \in ks : ls[k] = 0}
  IN  {k \in idle : Cardinality({j \in idle : j = k \/ <<k, j>> \in old}) + Capacity
                      <= Cardinality(ks)}

\* _evict_locked walks the entries from the oldest and drops those that nobody
\* leases until the rest fits: an idle one goes when the idle ones up to it are
\* no more than there are too many.
Victims(ks, old, ls) ==
  LET idle == {k \in ks : ls[k] = 0}
  IN  {k \in idle : Cardinality({j \in idle : j = k \/ <<j, k>> \in old}) + Capacity
                      <= Cardinality(ks)}

\* What _evict_locked leaves of entries es in the order old.
Evict(es, old, ls) ==
  LET out == Victims({e.key : e \in es}, old, ls)
  IN  /\ entries' = {e \in es : e.key \notin out}
      /\ older' = {p \in old : p[1] \notin out /\ p[2] \notin out}

-----------------------------------------------------------------------------
(* What a request thread does                                              *)

\* get: found and moved to the end, or a miss and the clip is encoded.
Get(u, c) ==
  /\ user[u] = Idle
  /\ LET k == KeyOf(c)
     IN  IF k \in Cached
         THEN /\ older' = Touched(older, Cached, k)
              /\ user' = [user EXCEPT ![u] = Holding(c, EntryOf(k))]
         ELSE user' = [user EXCEPT ![u] = Encoding(c)] /\ UNCHANGED older
  /\ UNCHANGED <<entries, leases>>

\* encode raises: the request ends, and nothing is kept of its clip.
EncodeRaises(u) ==
  /\ user[u].does = "encodes" /\ Unusable(user[u].clip)
  /\ user' = [user EXCEPT ![u] = Idle]
  /\ UNCHANGED <<entries, older, leases>>

\* What putting a clip's voice in gives back: the entry that is there already,
\* or the new one.
Offered(c) == LET v == Encoded(c) IN IF v.key \in Cached THEN EntryOf(v.key) ELSE v

\* put: the entry another thread put in meanwhile wins, otherwise the new one
\* comes in, without a lease, and may be the very one that is evicted.
Put(u) ==
  /\ user[u].does = "encodes" /\ ~Unusable(user[u].clip)
  /\ LET c == user[u].clip
         v == Offered(c)
         used == Touched(older, Cached, v.key)
     IN  /\ user' = [user EXCEPT ![u] = Holding(c, v)]
         /\ IF v.key \in Cached THEN older' = used /\ UNCHANGED entries
            ELSE Evict(entries \cup {v}, used, leases)
  /\ UNCHANGED leases

\* acquire: a lease on an entry that is there; a miss is encoded.
Acquire(u, c) ==
  /\ user[u] = Idle
  /\ LET k == KeyOf(c)
     IN  IF k \in Cached
         THEN /\ leases' = [leases EXCEPT ![k] = @ + 1]
              /\ older' = Touched(older, Cached, k)
              /\ user' = [user EXCEPT ![u] = Leasing(c, EntryOf(k))]
         ELSE user' = [user EXCEPT ![u] = Encoding(c)] /\ UNCHANGED <<older, leases>>
  /\ UNCHANGED entries

\* acquire_or_put: the entry, new or not, is leased before anything is evicted.
AcquireOrPut(u) ==
  /\ user[u].does = "encodes" /\ ~Unusable(user[u].clip)
  /\ LET c == user[u].clip
         v == Offered(c)
     IN  /\ user' = [user EXCEPT ![u] = Leasing(c, v)]
         /\ leases' = [leases EXCEPT ![v.key] = @ + 1]
         /\ Evict(entries \cup {v}, Touched(older, Cached, v.key), leases')

\* Fault variant: the lease is given back and nothing is evicted.
ReleaseKeeping(u) ==
  /\ user[u].does = "leases"
  /\ user' = [user EXCEPT ![u] = Idle]
  /\ leases' = [leases EXCEPT ![user[u].value.key] = IF @ > 0 THEN @ - 1 ELSE 0]
  /\ UNCHANGED <<entries, older>>

\* Fault variant: the first to release drops everybody's lease.
ReleaseAll(u) ==
  /\ user[u].does = "leases"
  /\ user' = [user EXCEPT ![u] = Idle]
  /\ leases' = [leases EXCEPT ![user[u].value.key] = 0]
  /\ Evict(entries, older, leases')

\* release: one lease less on an entry that is still there, and what no longer
\* fits is evicted.
Release(u) ==
  /\ user[u].does = "leases"
  /\ user' = [user EXCEPT ![u] = Idle]
  /\ LET k == user[u].value.key
     IN  IF k \in Cached
         THEN /\ leases' = [leases EXCEPT ![k] = IF @ > 0 THEN @ - 1 ELSE 0]
              /\ Evict(entries, older, leases')
         ELSE UNCHANGED <<entries, older, leases>>

\* A request without a lease is through with its voice.
Finish(u) ==
  /\ user[u].does = "holds"
  /\ user' = [user EXCEPT ![u] = Idle]
  /\ UNCHANGED <<entries, older, leases>>

Next ==
  \E u \in Users :
    \/ \E c \in Clips : Get(u, c) \/ Acquire(u, c)
    \/ EncodeRaises(u)
    \/ Put(u) \/ AcquireOrPut(u)
    \/ Release(u) \/ Finish(u)

Spec == Init /\ [][Next]_vars

-----------------------------------------------------------------------------
(* Properties                                                              *)

InHand(u) == user[u].does \in {"holds", "leases"}

\* A request speaks with the voice of its own clip as the models hear it: not of
\* another clip that was, or is now, in a file of that name, or has the same
\* samples at another rate ("a path-keyed cache happily survives the file being
\* replaced, which silently serves the wrong voice"); and the voice has the
\* frames of all its codes, without which stage 1 refuses it.
OwnVoice ==
  \A u \in Users : InHand(u) =>
    /\ user[u].value.voice = Resampled(user[u].clip).samples
    /\ user[u].value.frames >= TokenMelRatio * user[u].value.codes

\* "Leased entries are never evicted, so an eviction cannot pull the voice out
\* from under a request that is mid-synthesis", whoever else takes and gives
\* back leases on it.
LeasedStays ==
  \A u \in Users : user[u].does = "leases" => user[u].value.key \in Cached

\* An entry has as many leases as requests synthesise with it: none leaks, and
\* none is given back twice.
LeasesCounted ==
  \A k \in Keys :
    leases[k] = Cardinality({u \in Users : user[u].does = "leases" /\ user[u].value.key = k})

\* The cache overshoots its bound only by voices in use, and "it self-corrects
\* on release".
OvershootLeased ==
  Cardinality(Cached) > Capacity => \A k \in Cached : leases[k] > 0

\* Nothing is evicted while there is room, and nothing idle that was used less
\* recently is spared.
EvictsOldest ==
  [][\A k \in Cached \ Cached' :
       /\ Cardinality(Cached') = Capacity \/ \A j \in Cached' : leases'[j] > 0
       /\ \A j \in Cached \cap Cached' : <<j, k>> \in older => leases'[j] > 0]_vars
=============================================================================

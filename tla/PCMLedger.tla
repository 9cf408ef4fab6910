----------------------------- MODULE PCMLedger -----------------------------
(***************************************************************************)
(* What a streamed utterance promises its listener, and all it promises:   *)
(* the samples delivered are 0 .. delivered-1, each once and in order; the *)
(* length of the utterance is fixed once, never below what was already     *)
(* delivered, to the crop of some number of codes; and nothing is          *)
(* delivered past it.  The emitter of the acoustic stage and the           *)
(* PCMCommitter of streaming.py both implement it.                         *)
(***************************************************************************)
EXTENDS SampleGeometry

CONSTANTS Listeners, MaxCodes

Open == -1

VARIABLES
  delivered,   \* samples delivered so far
  limit        \* length of the utterance, Open until it is known

ledgerVars == <<delivered, limit>>

Init ==
  /\ delivered = [r \in Listeners |-> 0]
  /\ limit = [r \in Listeners |-> Open]

\* More samples, within the limit where there is one.
Extend(r) ==
  /\ delivered'[r] > delivered[r]
  /\ limit[r] # Open => delivered'[r] <= limit[r]
  /\ delivered' = [delivered EXCEPT ![r] = delivered'[r]]
  /\ UNCHANGED limit

\* The length becomes known: nothing delivered is taken back, and what is
\* missing may be delivered in the same step.
Seal(r) ==
  /\ limit[r] = Open
  /\ \E n \in 0..MaxCodes : limit' = [limit EXCEPT ![r] = FinalSampleLimit(n)]
  /\ delivered'[r] \in delivered[r]..limit'[r]
  /\ delivered' = [delivered EXCEPT ![r] = delivered'[r]]

Next == \E r \in Listeners : Extend(r) \/ Seal(r)

LedgerSpec == Init /\ [][Next]_ledgerVars
=============================================================================

---------------------------- MODULE PCMCommitter ----------------------------
(***************************************************************************)
(* streaming.PCMCommitter: the sample ledger of one stream, fed with       *)
(* absolute ranges of samples that may repeat or overlap what it has, be   *)
(* out of order, or run past the final crop.                               *)
(***************************************************************************)
EXTENDS SampleGeometry, Sequences

CONSTANTS
  Requests,
  Grain,      \* ranges start and end on multiples of Grain samples
  MaxCodes    \* bound: codes in an utterance

NoLimit == -1

VARIABLES
  nextSample,   \* next_sample_to_emit
  total,        \* total_committed
  sampleLimit,  \* sample_limit, NoLimit for None
  emitted,      \* history: the ranges commit() returned
  refused       \* history: the last call raised StreamStateError

committerVars == <<nextSample, total, sampleLimit, emitted, refused>>

Positions == {Grain * i : i \in 0..((MaxCodes * SamplesPerCodecToken) \div Grain)}

CommitterInit ==
  /\ nextSample = [r \in Requests |-> 0]
  /\ total = [r \in Requests |-> 0]
  /\ sampleLimit = [r \in Requests |-> NoLimit]
  /\ emitted = [r \in Requests |-> <<>>]
  /\ refused = [r \in Requests |-> FALSE]

Refuse(r) ==
  /\ refused' = [refused EXCEPT ![r] = TRUE]
  /\ UNCHANGED <<nextSample, total, sampleLimit, emitted>>

Retracts(r, n) == FinalSampleLimit(n) < nextSample[r]

SetFinalLimit(r, n) ==
  IF Retracts(r, n)
  THEN Refuse(r)
  ELSE /\ sampleLimit' = [sampleLimit EXCEPT ![r] = FinalSampleLimit(n)]
       /\ refused' = [refused EXCEPT ![r] = FALSE]
       /\ UNCHANGED <<nextSample, total, emitted>>

\* Samples of [start, start + n) that are new, less what the crop takes off.
NewSamples(r, start, n) ==
  LET new == start + n - nextSample[r]
  IN  IF sampleLimit[r] # NoLimit /\ start + n > sampleLimit[r]
      THEN MinOf(new, MaxOf(0, sampleLimit[r] - nextSample[r]))
      ELSE new

Commit(r, start, n) ==
  IF start > nextSample[r] THEN Refuse(r)
  ELSE /\ refused' = [refused EXCEPT ![r] = FALSE]
       /\ IF start + n <= nextSample[r] \/ NewSamples(r, start, n) = 0
          THEN UNCHANGED <<nextSample, total, emitted>>
          ELSE LET new == NewSamples(r, start, n)
                   skip == nextSample[r] - start
               IN  /\ nextSample' = [nextSample EXCEPT ![r] = @ + new]
                   /\ total' = [total EXCEPT ![r] = @ + new]
                   /\ emitted' = [emitted EXCEPT ![r] =
                        Append(@, [from |-> start + skip, to |-> start + skip + new])]
       /\ UNCHANGED sampleLimit

\* The caller sets the limit once, when the valid code count is known; commit
\* may be called with anything at any time.
CommitterNext ==
  \E r \in Requests :
    \/ /\ sampleLimit[r] = NoLimit
       /\ \E n \in 0..MaxCodes : SetFinalLimit(r, n)
    \/ \E start, n \in Positions :
         start + n <= MaxCodes * SamplesPerCodecToken /\ Commit(r, start, n)

CommitterSpec == CommitterInit /\ [][CommitterNext]_committerVars

-----------------------------------------------------------------------------
(* Properties                                                              *)

EndOf(segs) == IF segs = <<>> THEN 0 ELSE segs[Len(segs)].to

\* What commit() returned is one unbroken run of samples from 0, inside the
\* final crop, whatever was delivered twice, overlapping or too early.
EmittedOnce ==
  \A r \in Requests :
    /\ \A i \in 1..Len(emitted[r]) :
         emitted[r][i].from = IF i = 1 THEN 0 ELSE emitted[r][i - 1].to
    /\ sampleLimit[r] # NoLimit => EndOf(emitted[r]) <= sampleLimit[r]

Ledger == INSTANCE PCMLedger WITH
  Listeners <- Requests,
  delivered <- [r \in Requests |-> EndOf(emitted[r])],
  limit <- sampleLimit

\* The committer implements the ledger.
ImplementsLedger == Ledger!LedgerSpec
=============================================================================

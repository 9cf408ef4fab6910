------------------------ MODULE SpeechRequest_proofs ------------------------
(***************************************************************************)
(* What the adapter accepts is servable and what it serves is whole, for   *)
(* every set of requests, every limit and every number of concurrent       *)
(* requests.                                                               *)
(***************************************************************************)
EXTENDS SpeechRequest, TLAPS

Tokens == {"code", "other", "eos"}
Phases == {"idle", "refused", "prepared", "error", "running", "finished", "handed",
           "failed", "served", "silent"}
Reasons == {"none", "stop", "length", "abort"}

Types ==
  /\ phase \in [Ids -> Phases]
  /\ DOMAIN request = Ids /\ DOMAIN params = Ids
  /\ output \in [Ids -> Seq(Tokens)]
  /\ reason \in [Ids -> Reasons]
  /\ forced \in [Ids -> BOOLEAN]

\* What the adapter let through is what it was asked for and did not refuse.
Accepted(i) ==
  IF phase[i] \in {"idle", "refused"} THEN params[i] = <<>>
  ELSE /\ request[i] \in Requests[i] /\ ~Refused(request[i])
       /\ params[i] = Prepared(i, request[i])

\* A generation has a reason when it is over, and a stop is an end of speech.
Ended(i) ==
  /\ phase[i] \in {"idle", "refused", "prepared", "running"} => reason[i] = "none"
  /\ phase[i] \in {"finished", "handed", "served", "silent"} => reason[i] # "none"
  /\ reason[i] = "stop" => output[i] # <<>> /\ output[i][Len(output[i])] = "eos"

\* A generation forced to its end is on record until it is refused.
OnRecord(i) ==
  forced[i] => phase[i] = "failed" \/ (phase[i] = "finished" /\ i \in failures)

\* What is served passed the adapter's judgement.
Judged(i) == phase[i] \in {"served", "silent"} => ~Truncated(i)

\* What the processor refused had a clip it could not encode.
Erred(i) == phase[i] = "error" => request[i].reference = "unusable"

RequestInv(i) == Accepted(i) /\ Ended(i) /\ OnRecord(i) /\ Judged(i) /\ Erred(i)
Inv == Types /\ \A i \in Ids : RequestInv(i)

-----------------------------------------------------------------------------
(* Lemmas                                                                  *)

\* A request that was not refused has a weight and a penalty within bounds.
LEMMA InBounds ==
  ASSUME NEW i \in Ids, NEW q \in Requests[i], ~Refused(q)
  PROVE  /\ Given(q.weight, DefaultWeight) \in 0..WeightMax
         /\ Given(q.penalty, DefaultPenalty) \in PenaltyMin..PenaltyMax
         /\ Given(q.limit, MaxNew) \in 1..MaxNew
         /\ q.text \in Nat /\ q.text # 0 /\ TextIds(q.text) <= TextLimit
         /\ q.policy \in Policies /\ Served(q.language)
<1>1. q \in RequestType
  BY RequestAssumption
<1>2. Given(q.weight, DefaultWeight) \in 0..WeightMax
  BY RequestAssumption DEF Refused, ExtraRefused, Given
<1>3. Given(q.penalty, DefaultPenalty) \in PenaltyMin..PenaltyMax
  BY DEF Refused, ExtraRefused
<1>4. Given(q.limit, MaxNew) \in 1..MaxNew
  <2>1. q.limit # <<>> => q.limit[1] \in 1..MaxNew
    BY DEF Refused
  <2>2. MaxNew \in 1..MaxNew
    BY RequestAssumption
  <2> QED BY <2>1, <2>2 DEF Given
<1>5. q.text \in Nat /\ q.text # 0 /\ TextIds(q.text) <= TextLimit
  <2>1. q.text \in Nat
    BY <1>1 DEF RequestType
  <2>2. q.text # 0 /\ ~(TextIds(q.text) > TextLimit)
    BY DEF Refused, TextRefused
  <2>3. TextIds(q.text) \in Nat /\ TextLimit \in Nat
    BY <2>1, RequestAssumption DEF TextIds
  <2> QED BY <2>1, <2>2, <2>3
<1>6. q.policy \in Policies /\ Served(q.language)
  BY DEF Refused, ExtraRefused
<1> QED BY <1>2, <1>3, <1>4, <1>5, <1>6

\* The parameters of an accepted request pass validate_params.
LEMMA ParamsPass ==
  ASSUME NEW i \in Ids, NEW q \in Requests[i], ~Refused(q)
  PROVE  /\ ~ParamsRefused(Prepared(i, q))
         /\ Prepared(i, q).scale \in Int /\ Prepared(i, q).scale >= One
<1> DEFINE w == Given(q.weight, DefaultWeight)
<1>1. w \in Nat
  BY InBounds, RequestAssumption
<1>2. (w \div Ulp) * Ulp \in Nat
  <2>1. w \div Ulp \in Nat
    BY <1>1, RequestAssumption
  <2> QED BY <2>1, RequestAssumption
<1>3. Prepared(i, q).scale >= One
  BY <1>2, RequestAssumption DEF Prepared, CfgScale
<1>4. Prepared(i, q).penalty > 0
  <2>1. Prepared(i, q).penalty \in PenaltyMin..PenaltyMax
    BY InBounds DEF Prepared
  <2> QED BY <2>1, RequestAssumption
<1>5. Prepared(i, q).policy \in Policies
  BY InBounds DEF Prepared
<1>6. Prepared(i, q).scale \in Int
  BY <1>2, RequestAssumption DEF Prepared, CfgScale
<1>7. One \in Nat
  BY RequestAssumption
<1>8. Prepared(i, q).penalty \in Nat
  BY InBounds, RequestAssumption DEF Prepared
<1> HIDE DEF w
<1> QED BY <1>3, <1>4, <1>5, <1>6, <1>7, <1>8 DEF ParamsRefused

\* Nor does the processor refuse to build its prompt again, unless it cannot
\* encode the clip.
LEMMA ProcessorPasses ==
  ASSUME NEW i \in Ids, Accepted(i), phase[i] \notin {"idle", "refused"}
  PROVE  /\ ProcessorRefuses(i) => request[i].reference = "unusable"
         /\ ~ParamsRefused(params[i])
<1> DEFINE q == request[i]
<1>1. q \in Requests[i] /\ ~Refused(q) /\ params[i] = Prepared(i, q)
  BY DEF Accepted
<1>2. Served(q.language) /\ ~TextRefused(q.text)
  BY <1>1 DEF Refused
<1>3. params[i].language = Alias[q.language]
  BY <1>1 DEF Prepared
<1>4. Served(params[i].language)
  BY <1>2, <1>3, AliasAssumption DEF Served
<1>5. ~ParamsRefused(params[i])
  BY <1>1, ParamsPass
<1> QED BY <1>2, <1>4, <1>5 DEF ProcessorRefuses

-----------------------------------------------------------------------------
(* The inductive invariant                                                 *)

LEMMA InitInv == Init => Inv
  BY DEF Init, Inv, Types, Phases, Reasons, Tokens, RequestInv, Accepted, Ended, OnRecord, Judged, Erred

\* A step that touches one request leaves the others as they were.
LEMMA OthersKept ==
  ASSUME NEW i \in Ids, Inv, Types',
         \A j \in Ids \ {i} :
           /\ phase'[j] = phase[j] /\ request'[j] = request[j] /\ params'[j] = params[j]
           /\ output'[j] = output[j] /\ reason'[j] = reason[j] /\ forced'[j] = forced[j]
           /\ j \in failures => j \in failures',
         RequestInv(i)'
  PROVE  Inv'
<1> SUFFICES ASSUME NEW j \in Ids, j # i PROVE RequestInv(j)'
  BY DEF Inv
<1>1. RequestInv(j)
  BY DEF Inv
<1>2. Truncated(j)' <=> Truncated(j)
  BY DEF Truncated
<1> QED BY <1>1, <1>2 DEF RequestInv, Accepted, Ended, OnRecord, Judged, Erred

LEMMA SubmitInv == ASSUME Inv, NEW i \in Ids, Submit(i) PROVE Inv'
<1> USE DEF Submit
<1>1. Types'
  BY DEF Inv, Types, Phases
<1>2. RequestInv(i)
  BY DEF Inv
<1>3. RequestInv(i)'
  BY <1>2 DEF Inv, Types, RequestInv, Accepted, Ended, OnRecord, Judged, Erred
<1> QED BY <1>1, <1>3, OthersKept DEF Inv, Types

LEMMA AdmitInv == ASSUME Inv, NEW i \in Ids, Admit(i) PROVE Inv'
<1>1. RequestInv(i) /\ phase[i] = "prepared" /\ Types
  BY DEF Inv, Admit
<1>2. /\ ProcessorRefuses(i) => request[i].reference = "unusable"
      /\ ~ParamsRefused(params[i])
  BY <1>1, ProcessorPasses DEF RequestInv
<1>3. UNCHANGED <<request, params, output, reason, failures, forced>>
  BY DEF Admit
<1>4. \/ phase' = [phase EXCEPT ![i] = "running"]
      \/ /\ phase' = [phase EXCEPT ![i] = "error"]
         /\ request[i].reference = "unusable"
  BY <1>2 DEF Admit
<1>5. Types'
  BY <1>1, <1>3, <1>4 DEF Types, Phases
<1>6. RequestInv(i)'
  BY <1>1, <1>3, <1>4 DEF Types, RequestInv, Accepted, Ended, OnRecord, Judged, Erred
<1>7. \A j \in Ids \ {i} : phase'[j] = phase[j]
  BY <1>1, <1>4 DEF Types
<1> QED BY <1>3, <1>5, <1>6, <1>7, OthersKept

LEMMA StepInv == ASSUME Inv, NEW i \in Ids, Step(i) PROVE Inv'
<1>1. RequestInv(i) /\ phase[i] = "running" /\ Types
  BY DEF Inv, Step
<1>2. PICK token \in IF Lone(i) THEN {"eos"} ELSE Drawable(params[i]) :
        /\ output' = [output EXCEPT ![i] = Append(@, token)]
        /\ IF token = "eos" \/ Len(output[i]) + 1 = params[i].max_tokens
           THEN /\ phase' = [phase EXCEPT ![i] = "finished"]
                /\ reason' = [reason EXCEPT ![i] = IF token = "eos" THEN "stop" ELSE "length"]
           ELSE UNCHANGED <<phase, reason>>
  BY DEF Step
<1>3. token \in Tokens
  BY <1>2 DEF Drawable, Tokens
<1>4. output[i] \in Seq(Tokens)
  BY <1>1 DEF Types
<1>5. /\ Append(output[i], token) \in Seq(Tokens)
      /\ Append(output[i], token) # <<>>
      /\ Append(output[i], token)[Len(Append(output[i], token))] = token
  BY <1>3, <1>4
<1>6. /\ params[i].pair = i
      /\ failures' = IF Lone(i) THEN failures \cup {params[i].pair} ELSE failures
      /\ forced' = [forced EXCEPT ![i] = Lone(i)]
      /\ UNCHANGED <<request, params>>
  BY <1>1 DEF Step, RequestInv, Accepted, Prepared
<1>7. Lone(i) \in BOOLEAN
  BY DEF Lone
<1>8. output'[i] = Append(output[i], token) /\ forced'[i] = Lone(i)
  BY <1>1, <1>2, <1>6 DEF Types
<1>9. Types'
  BY <1>1, <1>2, <1>5, <1>6, <1>7 DEF Types, Phases, Reasons
<1>10. Accepted(i)'
  BY <1>1, <1>2, <1>6 DEF RequestInv, Accepted, Types
<1>11. Ended(i)'
  BY <1>1, <1>2, <1>5, <1>8 DEF RequestInv, Ended, Types
<1>12. OnRecord(i)'
  BY <1>1, <1>2, <1>6, <1>8 DEF OnRecord, Types
<1>13. Judged(i)' /\ Erred(i)'
  BY <1>1, <1>2 DEF Judged, Erred, Types
<1>14. \A j \in Ids \ {i} :
         /\ phase'[j] = phase[j] /\ request'[j] = request[j] /\ params'[j] = params[j]
         /\ output'[j] = output[j] /\ reason'[j] = reason[j] /\ forced'[j] = forced[j]
         /\ j \in failures => j \in failures'
  BY <1>1, <1>2, <1>6 DEF Types
<1> QED BY <1>9, <1>10, <1>11, <1>12, <1>13, <1>14, OthersKept DEF RequestInv

LEMMA AbortInv == ASSUME Inv, NEW i \in Ids, Abort(i) PROVE Inv'
<1>1. RequestInv(i) /\ Types
  BY DEF Inv
<1>2. Types'
  BY <1>1 DEF Types, Phases, Reasons, Abort
<1>3. RequestInv(i)'
  BY <1>1 DEF Types, Abort, RequestInv, Accepted, Ended, OnRecord, Judged, Erred
<1> QED BY <1>1, <1>2, <1>3, OthersKept DEF Types, Abort

LEMMA AnswerInv == ASSUME Inv, NEW i \in Ids, Answer(i) PROVE Inv'
<1>1. RequestInv(i) /\ Types /\ phase[i] = "handed"
  BY DEF Inv, Answer
<1>2. PICK end \in IF Truncated(i) THEN {"failed"} ELSE Rendered(i) :
        phase' = [phase EXCEPT ![i] = end]
  BY DEF Answer
<1>3. UNCHANGED <<request, params, output, reason, failures, forced>>
  BY DEF Answer
<1>4. end \in {"failed", "served", "silent"} /\ (Truncated(i) => end = "failed")
  BY <1>2 DEF Rendered
<1>5. Types'
  BY <1>1, <1>2, <1>3, <1>4 DEF Types, Phases
<1>6. Truncated(i)' <=> Truncated(i)
  BY <1>3 DEF Truncated
<1>7. phase'[i] = end
  BY <1>1, <1>2 DEF Types
<1>8. RequestInv(i)'
  BY <1>1, <1>3, <1>4, <1>6, <1>7
     DEF RequestInv, Accepted, Ended, OnRecord, Judged, Erred
<1>9. \A j \in Ids \ {i} : phase'[j] = phase[j]
  BY <1>1, <1>2 DEF Types
<1> QED BY <1>3, <1>5, <1>8, <1>9, OthersKept

\* Handing over touches many requests.  A record that is taken belongs to a
\* request of the list, which then fails with the rest of it.
LEMMA HandOverInv == ASSUME Inv, HandOver PROVE Inv'
<1>1. PICK list \in UNION {[1..n -> {i \in Ids : phase[i] = "finished"}] : n \in 1..Cardinality(Ids)} :
        /\ phase' = Passed(list)
        /\ failures' = failures \
             {params[list[n]].pair : n \in {n \in DOMAIN list : \A m \in 1..(n - 1) : ~Raises(list[m])}}
  BY DEF HandOver
<1>2. UNCHANGED <<request, params, output, reason, forced>>
  BY DEF HandOver
<1> DEFINE Member(i) == \E n \in DOMAIN list : list[n] = i
<1>3. \A n \in DOMAIN list : list[n] \in Ids /\ phase[list[n]] = "finished"
  BY <1>1
<1>4. \A i \in Ids : phase[i] = "finished" => params[i].pair = i
  <2> SUFFICES ASSUME NEW i \in Ids, phase[i] = "finished" PROVE params[i].pair = i
    OBVIOUS
  <2>1. Accepted(i)
    BY DEF Inv, RequestInv
  <2>2. params[i] = Prepared(i, request[i])
    BY <2>1 DEF Accepted
  <2> QED BY <2>2 DEF Prepared
<1>5. \A i \in Ids : i \in failures /\ ~Member(i) => i \in failures'
  BY <1>1, <1>3, <1>4
<1>6. \A i \in Ids : phase'[i] = IF Member(i)
                       THEN IF \E n \in DOMAIN list : Raises(list[n]) THEN "failed" ELSE "handed"
                       ELSE phase[i]
  BY <1>1 DEF Passed
<1>7. \A i \in Ids : forced[i] /\ Member(i) => phase'[i] = "failed"
  <2> SUFFICES ASSUME NEW i \in Ids, forced[i], Member(i) PROVE phase'[i] = "failed"
    OBVIOUS
  <2>1. phase[i] = "finished" /\ i \in failures
    BY <1>3 DEF Inv, RequestInv, OnRecord
  <2>2. Raises(i)
    BY <2>1, <1>4 DEF Raises
  <2> QED BY <2>2, <1>6
<1>8. Types'
  <2>1. phase' \in [Ids -> Phases]
    BY <1>1 DEF Passed, Inv, Types, Phases
  <2> QED BY <2>1, <1>2 DEF Inv, Types
<1>9. ASSUME NEW i \in Ids PROVE RequestInv(i)'
  <2>1. RequestInv(i)
    BY DEF Inv
  <2>2. Truncated(i)' <=> Truncated(i)
    BY <1>2 DEF Truncated
  <2>3. phase'[i] = phase[i] \/ (phase[i] = "finished" /\ phase'[i] \in {"failed", "handed"})
    BY <1>3, <1>6
  <2>4. Accepted(i)' /\ Ended(i)' /\ Judged(i)' /\ Erred(i)'
    BY <2>1, <2>2, <2>3, <1>2 DEF RequestInv, Accepted, Ended, Judged, Erred
  <2>5. OnRecord(i)'
    BY <2>1, <1>2, <1>5, <1>6, <1>7 DEF RequestInv, OnRecord
  <2> QED BY <2>4, <2>5 DEF RequestInv
<1> QED BY <1>8, <1>9 DEF Inv

LEMMA NextInv == Inv /\ [Next]_vars => Inv'
<1> SUFFICES ASSUME Inv, [Next]_vars PROVE Inv'
  OBVIOUS
<1>1. CASE \E i \in Ids : Submit(i)
  BY <1>1, SubmitInv
<1>2. CASE \E i \in Ids : Admit(i)
  BY <1>2, AdmitInv
<1>3. CASE \E i \in Ids : Step(i)
  BY <1>3, StepInv
<1>4. CASE \E i \in Ids : Abort(i)
  BY <1>4, AbortInv
<1>5. CASE \E i \in Ids : Answer(i)
  BY <1>5, AnswerInv
<1>6. CASE HandOver
  BY <1>6, HandOverInv
<1>7. CASE \/ \E i \in Ids : LoseRow(i) \/ LoseVoice(i)
           \/ UNCHANGED vars
  <2>1. UNCHANGED <<phase, request, params, output, reason, failures, forced>>
    BY <1>7 DEF LoseRow, LoseVoice, vars
  <2> QED BY <2>1 DEF Inv, Types, RequestInv, Accepted, Ended, OnRecord, Judged, Erred, Truncated
<1> QED BY <1>1, <1>2, <1>3, <1>4, <1>5, <1>6, <1>7 DEF Next

-----------------------------------------------------------------------------
(* Theorems                                                                *)

\* The inductive invariant of a request's life on the completed-clause path:
\* what the adapter made of it, what the processor refused, why its generation
\* ended, and who is on record.
THEOREM RequestsInvariant == Spec => []Inv
  BY InitInv, NextInv, PTL DEF Spec

\* What validate lets through is never refused by validate_params, and by the
\* processor only for a clip that cannot be encoded; it and all it may generate
\* have positions.
THEOREM Servable == Spec => []AcceptedServable
<1>1. Inv => AcceptedServable
  <2> SUFFICES ASSUME Inv, NEW i \in Ids
      PROVE /\ phase[i] = "error" => request[i].reference = "unusable"
            /\ params[i] # <<>> =>
                 /\ params[i].text_len = TextIds(request[i].text) /\ params[i].text_len <= TextLimit
                 /\ PrefillBos + params[i].max_tokens <= SpeechTable
                 /\ params[i].prompt_len + params[i].max_tokens <= MaxModelLen
                 /\ Expanded(params[i]) # {COND, UNCOND} =>
                      params[i].role = "none" \/ params[i].scale = One
    BY DEF AcceptedServable
  <2>1. phase[i] = "error" => request[i].reference = "unusable"
    BY DEF Inv, RequestInv, Erred
  <2>2. SUFFICES ASSUME params[i] # <<>>
        PROVE /\ params[i].text_len = TextIds(request[i].text) /\ params[i].text_len <= TextLimit
              /\ PrefillBos + params[i].max_tokens <= SpeechTable
              /\ params[i].prompt_len + params[i].max_tokens <= MaxModelLen
              /\ Expanded(params[i]) # {COND, UNCOND} =>
                   params[i].role = "none" \/ params[i].scale = One
    BY <2>1
  <2> DEFINE q == request[i]
             n == Given(q.limit, MaxNew)
  <2>3. q \in Requests[i] /\ ~Refused(q) /\ params[i] = Prepared(i, q)
    <3>1. Accepted(i)
      BY DEF Inv, RequestInv
    <3> QED BY <2>2, <3>1 DEF Accepted
  <2>4. /\ params[i].text_len = TextIds(q.text) /\ params[i].max_tokens = n
        /\ params[i].prompt_len = CondPrefix + TextIds(q.text) + PrefillBos
    BY <2>3 DEF Prepared, PromptLength
  <2>5. n \in 1..MaxNew /\ TextIds(q.text) \in Nat /\ TextIds(q.text) <= TextLimit
    BY <2>3, InBounds DEF TextIds
  <2>6. {MaxNew, TextLimit, CondPrefix, PrefillBos, SpeechTable, MaxModelLen} \subseteq Nat
    BY RequestAssumption
  <2>7. PrefillBos + n <= SpeechTable
    BY <2>5, <2>6, SizesAssumption
  <2>8. CondPrefix + TextIds(q.text) + PrefillBos + n <= MaxModelLen
    BY <2>5, <2>6, SizesAssumption
  <2>9. Expanded(params[i]) # {COND, UNCOND} =>
          params[i].role = "none" \/ params[i].scale = One
    <3>1. params[i].role \in {COND, "none"}
      BY <2>3 DEF Prepared
    <3>2. params[i].scale >= One /\ params[i].scale \in Int /\ One \in Int
      BY <2>3, ParamsPass, RequestAssumption
    <3> QED BY <3>1, <3>2 DEF Expanded
  <2> QED BY <2>4, <2>5, <2>7, <2>8, <2>9
<1> QED BY <1>1, RequestsInvariant, PTL

\* What is served is a whole utterance: its end was drawn and not forced, its
\* guidance was whole and it has the least its text allows.
THEOREM Whole == Spec => []ServedWhole
<1>1. Inv => ServedWhole
  <2> SUFFICES ASSUME Inv, NEW i \in Ids, phase[i] = "served"
      PROVE /\ output[i] # <<>> /\ output[i][Len(output[i])] = "eos" /\ ~forced[i]
            /\ params[i].text_len >= GuardMin =>
                 Len(output[i]) >= (params[i].text_len * GuardPct) \div 100
    BY DEF ServedWhole
  <2>1. reason[i] \in Reasons /\ output[i] \in Seq(Tokens)
    BY DEF Inv, Types
  <2>2. ~Truncated(i) /\ reason[i] # "none"
    BY DEF Inv, RequestInv, Judged, Ended
  <2>3. reason[i] = "stop"
    BY <2>1, <2>2 DEF Truncated, Reasons
  <2>4. output[i] # <<>> /\ output[i][Len(output[i])] = "eos" /\ ~forced[i]
    BY <2>3 DEF Inv, RequestInv, Ended, OnRecord
  <2>5. ASSUME params[i].text_len >= GuardMin
        PROVE  Len(output[i]) >= (params[i].text_len * GuardPct) \div 100
    <3>1. params[i].text_len \in Nat
      <4>1. Accepted(i)
        BY DEF Inv, RequestInv
      <4>2. request[i] \in Requests[i] /\ ~Refused(request[i])
        BY <4>1 DEF Accepted
      <4>3. params[i].text_len = TextIds(request[i].text)
        BY <4>1 DEF Accepted, Prepared
      <4> QED BY <4>2, <4>3, InBounds DEF TextIds
    <3>2. (params[i].text_len * GuardPct) \div 100 \in Int
      BY <3>1, RequestAssumption
    <3>3. ~(Len(output[i]) < (params[i].text_len * GuardPct) \div 100)
      BY <2>2, <2>5 DEF Truncated
    <3> QED BY <2>1, <3>2, <3>3
  <2> QED BY <2>4, <2>5
<1> QED BY <1>1, RequestsInvariant, PTL
=============================================================================

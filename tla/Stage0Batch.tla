----------------------------- MODULE Stage0Batch -----------------------------
(***************************************************************************)
(* A step of the stage-0 model over the engine's batch: which embedding    *)
(* each token of each row is given, and which reference voice each row's   *)
(* output carries to the acoustic stage.                                   *)
(*                                                                         *)
(* Both are worked out from flat arrays over the whole batch: positions,   *)
(* spans, a mask of conditioning positions, and lists of multimodal items  *)
(* that come without request ids.  The batch (its order, who is scheduled, *)
(* preempted and resumed, which items come) is external, the environment.  *)
(* A prompt is computed in one step, as in every deployment.               *)
(***************************************************************************)
EXTENDS SequencesExt

CONSTANTS
  Rows,         \* request ids
  Uncond,       \* ids of unconditional companions
  Voices,       \* reference voices
  SpeechPrompt, \* length of each voice's speech prompt
  CondLen,      \* COND_PREFIX_LEN
  BosLen,       \* NUM_PREFILL_BOS
  Requests,     \* voice and text length of the requests there may be
  MaxTokens     \* bound: tokens a row generates

ASSUME BatchAssumption ==
  /\ IsFiniteSet(Rows) /\ Uncond \subseteq Rows
  /\ SpeechPrompt \in [Voices -> Nat \ {0}]
  /\ CondLen \in Nat \ {0} /\ BosLen \in Nat \ {0}
  /\ Requests \subseteq Voices \X Nat
  /\ MaxTokens \in Nat \ {0}

ASSUME VoicesAssumption == "missing" \notin Voices

VARIABLES
  life,      \* the id in the engine: free, waiting, running, preempted, ended
  voice,     \* the voice its request came with
  text,      \* text_len of the request
  made,      \* tokens generated
  embeds,    \* embeddings computed for its positions, in order
  refByReq,  \* _ref_by_req, Missing where the id has no entry
  carried    \* the reference in the row's latest output

vars == <<life, voice, text, made, embeds, refByReq, carried>>

Missing == "missing"
Life == {"free", "waiting", "running", "preempted", "ended"}

Init ==
  /\ life = [r \in Rows |-> "free"]
  /\ voice = [r \in Rows |-> Missing]
  /\ text = [r \in Rows |-> 0]
  /\ made = [r \in Rows |-> 0]
  /\ embeds = [r \in Rows |-> <<>>]
  /\ refByReq = [r \in Rows |-> Missing]
  /\ carried = [r \in Rows |-> Missing]

-----------------------------------------------------------------------------
(* The prompt, and what the embedding of each of its positions should be   *)

Role(r) == IF r \in Uncond THEN "uncond" ELSE "cond"

\* _call_hf_processor: the text, terminated by the BOS tokens.
TextIds(t) == [i \in 1..t |-> <<"text", i>>] \o [i \in 1..BosLen |-> <<"bos", 0>>]

\* _get_prompt_updates: a fixed block of placeholders at the start.
PromptIds(t) == [i \in 1..CondLen |-> <<"cond", 0>>] \o TextIds(t)

PromptLen(r) == CondLen + text[r] + BosLen

\* The ids of the request's tokens: its prompt, then what it generated.
TokenIds(r) == PromptIds(text[r]) \o [i \in 1..made[r] |-> <<"speech", i>>]

\* prepare_conditioning: CondLen positions made from the voice and from as
\* much of its speech prompt as it is given (padding counts).
PrepareConditioning(v, n) == [i \in 1..CondLen |-> <<"cond", v, n, i>>]

\* Content zeroed for the companion; the position of the text stays.
TextEmbedding(id, pos, role) ==
  [content |-> IF role = "uncond" THEN "zero" ELSE id, table |-> "text", at |-> pos]
SpeechEmbedding(id, pos) == [content |-> id, table |-> "speech", at |-> pos]
BosEmbedding == SpeechEmbedding(<<"bos", 0>>, 0)

\* build_prefill_embeddings: the canonical prefill of one request.
BuildPrefill(r) ==
  PrepareConditioning(voice[r], SpeechPrompt[voice[r]])
    \o [i \in 1..text[r] |-> TextEmbedding(<<"text", i>>, i - 1, Role(r))]
    \o [i \in 1..BosLen |-> BosEmbedding]

\* decode_step_embedding: the i-th generated token when it is fed back.
DecodeStep(i) == SpeechEmbedding(<<"speech", i + 1>>, i + 1)

-----------------------------------------------------------------------------
(* One step of the batch                                                   *)

\* The runner's scheduling arrays, num_computed_tokens and num_scheduled_tokens.
Computed(r) == IF life[r] = "running" THEN PromptLen(r) + made[r] - 1 ELSE 0
ScheduledTokens(r) == PromptLen(r) + made[r] - Computed(r)

\* prepare_runner_inputs: the flat positions of the step.
HostPositions(batch) ==
  FlattenSeq([i \in 1..Len(batch) |->
    [k \in 1..ScheduledTokens(batch[i]) |-> Computed(batch[i]) + k - 1]])

\* The flat token ids of the step, and where row i's span of them starts.
InputIds(batch) ==
  FlattenSeq([i \in 1..Len(batch) |->
    [k \in 1..ScheduledTokens(batch[i]) |-> TokenIds(batch[i])[Computed(batch[i]) + k]]])
SpanStart(batch, i) == Len(HostPositions(SubSeq(batch, 1, i - 1)))

\* Rows of the batch with a conditioning position in this step.
PrefillIndices(batch) == {i \in 1..Len(batch) : Computed(batch[i]) < CondLen}

Rank(i, S) == Cardinality({j \in S : j <= i})

\* The rows the multimodal items are for, in the order of the batch.
PrefillRows(batch) ==
  [k \in 1..Cardinality(PrefillIndices(batch)) |->
    batch[CHOOSE i \in PrefillIndices(batch) : Rank(i, PrefillIndices(batch)) = k]]

\* Fault variant: the collated speech prompts are used with their padding.
EmbedMultimodalPadded(batch) ==
  LET prefilling == PrefillRows(batch)
      width == Max({0} \cup {SpeechPrompt[voice[r]] : r \in Range(prefilling)})
  IN  FlattenSeq([k \in 1..Len(prefilling) |->
        PrepareConditioning(voice[prefilling[k]], width)])

\* embed_multimodal: each item's prompt is cut back from the collated width
\* to its own length.
EmbedMultimodal(batch) ==
  LET prefilling == PrefillRows(batch)
      width == Max({0} \cup {SpeechPrompt[voice[r]] : r \in Range(prefilling)})
      cut(n) == IF 0 < n /\ n < width THEN n ELSE width
  IN  FlattenSeq([k \in 1..Len(prefilling) |->
        PrepareConditioning(voice[prefilling[k]], cut(SpeechPrompt[voice[prefilling[k]]]))])

\* is_multimodal, the runner's mask: the placeholder of a conditioning position.
IsCond(id) == id[1] = "cond"

\* embed_input_ids: the embeddings fill the masked places of the flat batch in
\* the order they come; place n takes the one of its rank in the mask.
EmbedInputIds(ids, embeddings, n) ==
  embeddings[Cardinality({m \in 1..n : IsCond(ids[m])})]

\* _apply_positions_and_content: the embedding of a token of row r at pos;
\* `cond` is what embed_input_ids put there.
PositionAndContent(r, pos, id, cond) ==
  IF pos < CondLen THEN cond
  ELSE IF pos < CondLen + text[r] THEN TextEmbedding(id, pos - CondLen, Role(r))
  ELSE IF pos < PromptLen(r) THEN BosEmbedding
  ELSE SpeechEmbedding(id, pos - PromptLen(r) + 1)

\* _forward_t3: the embeddings of each row of the batch, over its span.
Forwarded(batch) ==
  LET positions == HostPositions(batch)
      ids == InputIds(batch)
      embeddings == EmbedMultimodal(batch)
  IN  [i \in 1..Len(batch) |->
        LET start == SpanStart(batch, i)
        IN  [k \in 1..ScheduledTokens(batch[i]) |->
              PositionAndContent(batch[i], positions[start + k], ids[start + k],
                IF IsCond(ids[start + k])
                THEN EmbedInputIds(ids, embeddings, start + k) ELSE "none")]]

-----------------------------------------------------------------------------
(* _reference_payload                                                      *)

\* Fault variant: the items are handed out in their own order, whoever they
\* are for.
CapturedBlindly(batch, items) ==
  [i \in {i \in PrefillIndices(batch) : Rank(i, PrefillIndices(batch)) <= Cardinality(items)} |->
     voice[batch[CHOOSE j \in items : Rank(j, items) = Rank(i, PrefillIndices(batch))]]]

\* The references of the items, by the place of the row they are given to: the
\* k-th item to the k-th prefilling row, and to nobody if their counts differ.
Captured(batch, items) ==
  IF Cardinality(items) # Cardinality(PrefillIndices(batch)) THEN <<>>
  ELSE [i \in PrefillIndices(batch) |->
          voice[batch[CHOOSE j \in items : Rank(j, items) = Rank(i, PrefillIndices(batch))]]]

\* Fault variant: an entry lives for the step that captured it.
StoredForStep(batch, captured) ==
  [r \in Rows |->
     IF \E i \in DOMAIN captured : batch[i] = r
     THEN captured[CHOOSE i \in DOMAIN captured : batch[i] = r] ELSE Missing]

Stored(batch, captured) ==
  [r \in Rows |->
     IF \E i \in DOMAIN captured : batch[i] = r
     THEN captured[CHOOSE i \in DOMAIN captured : batch[i] = r] ELSE refByReq[r]]

\* The list of references of the step: one of every row, empty where the row
\* has none, and no list at all when no row has any.
Column(batch, stored) ==
  IF \A k \in 1..Len(batch) : stored[batch[k]] = Missing THEN <<>>
  ELSE [k \in 1..Len(batch) |-> stored[batch[k]]]

\* The engine's splitter (external): a row takes the element of its index, or
\* the first when the list is too short.
Element(column, i) ==
  IF column = <<>> THEN Missing ELSE IF i <= Len(column) THEN column[i] ELSE column[1]

-----------------------------------------------------------------------------
(* Actions                                                                 *)

\* A request comes under an id that is free.
Submit(r, v, t) ==
  /\ life[r] = "free"
  /\ life' = [life EXCEPT ![r] = "waiting"]
  /\ voice' = [voice EXCEPT ![r] = v]
  /\ text' = [text EXCEPT ![r] = t]
  /\ UNCHANGED <<made, embeds, refByReq, carried>>

\* Orders the engine may batch its requests in.
Batches ==
  {b \in UNION {[1..n -> Rows] : n \in 1..Cardinality(Rows)} :
     /\ \A i \in DOMAIN b : life[b[i]] \in {"waiting", "running", "preempted"}
     /\ \A i, j \in DOMAIN b : b[i] = b[j] => i = j
     /\ \A i \in DOMAIN b : made[b[i]] < MaxTokens}

\* The place of a row in the batch.
PlaceOf(batch, r) == CHOOSE i \in 1..Len(batch) : batch[i] = r

New(batch) == {i \in 1..Len(batch) : life[batch[i]] = "waiting"}

\* forward: the embeddings of the batch are computed and a token is sampled
\* for every row.  The items of the new rows come in batch order, those of a
\* row that is computed again after a preemption may or may not come.
Step(batch, items) ==
  /\ \A r \in Rows : life[r] # "ended"
  /\ New(batch) \subseteq items /\ items \subseteq PrefillIndices(batch)
  /\ \E stored \in {Stored(batch, Captured(batch, items))} :
     \E column \in {Column(batch, stored)} :
       /\ refByReq' = stored
       /\ carried' = [r \in Rows |->
            IF r \in Range(batch)
            THEN Element(column, PlaceOf(batch, r))
            ELSE carried[r]]
  /\ \E forwarded \in {Forwarded(batch)} :
       embeds' = [r \in Rows |->
         IF r \in Range(batch)
         THEN embeds[r] \o forwarded[PlaceOf(batch, r)]
         ELSE embeds[r]]
  /\ made' = [r \in Rows |-> IF r \in Range(batch) THEN made[r] + 1 ELSE made[r]]
  /\ life' = [r \in Rows |-> IF r \in Range(batch) THEN "running" ELSE life[r]]
  /\ UNCHANGED <<voice, text>>

\* The engine takes the row's memory; its tokens are computed again later.
Preempt(r) ==
  /\ life[r] = "running"
  /\ life' = [life EXCEPT ![r] = "preempted"]
  /\ embeds' = [embeds EXCEPT ![r] = <<>>]
  /\ UNCHANGED <<voice, text, made, refByReq, carried>>

\* The request ends or is cancelled, at any time.
End(r) ==
  /\ life[r] \in {"waiting", "running", "preempted"}
  /\ life' = [life EXCEPT ![r] = "ended"]
  /\ embeds' = [embeds EXCEPT ![r] = <<>>]
  /\ UNCHANGED <<voice, text, made, refByReq, carried>>

\* What the engine keeps of a request goes with it.
Forgotten(ids) ==
  /\ life' = [r \in Rows |-> IF r \in ids THEN "free" ELSE life[r]]
  /\ voice' = [r \in Rows |-> IF r \in ids THEN Missing ELSE voice[r]]
  /\ text' = [r \in Rows |-> IF r \in ids THEN 0 ELSE text[r]]
  /\ embeds' = [r \in Rows |-> IF r \in ids THEN <<>> ELSE embeds[r]]
  /\ made' = [r \in Rows |-> IF r \in ids THEN 0 ELSE made[r]]
  /\ carried' = [r \in Rows |-> IF r \in ids THEN Missing ELSE carried[r]]

\* on_requests_finished, before the next step.  The ids may be used again.
OnRequestsFinished(ids) ==
  /\ refByReq' = [r \in Rows |-> IF r \in ids THEN Missing ELSE refByReq[r]]
  /\ Forgotten(ids)

Ended == {r \in Rows : life[r] = "ended"}

Next ==
  \/ \E r \in Rows, request \in Requests : Submit(r, request[1], request[2])
  \/ \E batch \in Batches : \E items \in SUBSET PrefillIndices(batch) : Step(batch, items)
  \/ \E r \in Rows : Preempt(r) \/ End(r)
  \/ Ended # {} /\ OnRequestsFinished(Ended)

Spec == Init /\ [][Next]_vars

-----------------------------------------------------------------------------
(* Properties                                                              *)

TypeOK ==
  /\ life \in [Rows -> Life]
  /\ voice \in [Rows -> Voices \cup {Missing}]
  /\ \A r \in Rows : life[r] # "free" => voice[r] \in Voices
  /\ text \in [Rows -> Nat]
  /\ made \in [Rows -> 0..MaxTokens]
  /\ refByReq \in [Rows -> Voices \cup {Missing}]
  /\ carried \in [Rows -> Voices \cup {Missing}]

\* No row is ever given the voice of another, in whatever order the batch is,
\* whoever prefills with it, is preempted or used its id before: its output
\* carries its own request's voice or none (the promise of _reference_payload).
OwnVoice ==
  \A r \in Rows :
    /\ carried[r] \in {voice[r], Missing}
    /\ refByReq[r] # Missing => life[r] # "free" /\ refByReq[r] = voice[r]

\* The embeddings of every row, over the flat batch, are those of the canonical
\* prefill and of its own generated tokens: no neighbour, padding, preemption
\* or place in the batch changes them (the docstring of build_prefill_embeddings).
LayoutAsDefined ==
  \A r \in Rows : embeds[r] # <<>> =>
    embeds[r] = BuildPrefill(r) \o [i \in 1..(made[r] - 1) |-> DecodeStep(i - 1)]

Resumes(r) == life[r] = "preempted" /\ life'[r] = "running"
Starts(r) == life[r] = "waiting" /\ life'[r] = "running"

\* A row that starts while no other is computed again after a preemption has its
\* voice from the first output on, and a voice once carried is carried until the
\* request is over, through preemptions too: the acoustic stage gets no second
\* chance, the transport sends it with the first codes only.
VoiceStays ==
  [][\A r \in Rows :
       /\ Starts(r) /\ (\A q \in Rows : ~Resumes(q)) => carried'[r] = voice'[r]
       /\ carried[r] # Missing /\ life'[r] # "free" => carried'[r] = carried[r]]_vars
=============================================================================

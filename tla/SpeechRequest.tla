---------------------------- MODULE SpeechRequest ----------------------------
(***************************************************************************)
(* The life of a speech request on the completed-clause path: the serving  *)
(* adapter validates it and builds its prompt and sampling parameters, the *)
(* engine expands a guided one into two rows and checks the parameters of  *)
(* each, stage 0 generates, codec_token_only hands the codes of finished   *)
(* requests to stage 1, which renders or drops them, and the adapter       *)
(* judges what was generated.                                              *)
(*                                                                         *)
(* Text is the number of its token ids, audio the number of its codes;     *)
(* weights and scales are integers, with One for 1.0.                      *)
(***************************************************************************)
EXTENDS Integers, FiniteSets, Sequences

CONSTANTS
  Ids,          \* request ids
  Requests,     \* what each may ask for: see RequestType
  Alias,        \* _LANGUAGE_ALIASES: language names to codes
  Qualified,    \* qualified_languages
  TextLimit,    \* text_pos_table_size
  SpeechTable,  \* SPEECH_POS_TABLE_SIZE
  MaxModelLen,  \* max_model_len
  CondPrefix,   \* COND_PREFIX_LEN
  PrefillBos,   \* NUM_PREFILL_BOS
  MaxNew,       \* MAX_NEW_SPEECH_TOKENS
  One, Ulp,     \* 1.0, and the spacing of floats just above it
  WeightMax, PenaltyMin, PenaltyMax,  \* _EXTRA_PARAM_BOUNDS
  DefaultWeight, DefaultPenalty,
  GuardMin,     \* truncation_guard_min_text_tokens
  GuardPct,     \* min_codes_per_text_token, in percent
  MinEmit       \* ACOUSTIC_MIN_EMIT_CODES

COND == "cond"
UNCOND == "uncond"
Policies == {"reference", "hardened"}

\* A parameter that may be left out is a sequence of at most one value.  An
\* unusable clip is of the right format, but empty, not finite, under a second
\* or longer than max_reference_seconds.
RequestType ==
  [text : Nat, language : STRING,
   reference : {"clip", "voice", "none", "malformed", "unusable"},
   limit : Seq(Int), weight : Seq(Int), penalty : Seq(Int), policy : STRING,
   unsupported : BOOLEAN]

ASSUME RequestAssumption ==
  /\ \A i \in Ids : Requests[i] \subseteq RequestType
  /\ Qualified \subseteq {Alias[l] : l \in DOMAIN Alias}
  /\ {TextLimit, SpeechTable, MaxModelLen, CondPrefix, PrefillBos, MaxNew} \subseteq Nat \ {0}
  /\ {One, Ulp, GuardMin, GuardPct} \subseteq Nat \ {0}
  /\ {WeightMax, PenaltyMin, PenaltyMax} \subseteq Nat
  /\ DefaultWeight \in 0..WeightMax /\ DefaultPenalty \in PenaltyMin..PenaltyMax
  /\ PenaltyMin > 0

\* A language code names itself.
ASSUME AliasAssumption ==
  \A l \in DOMAIN Alias : Alias[l] \in DOMAIN Alias /\ Alias[Alias[l]] = Alias[l]

\* The tables and the context are large enough for the longest text and the
\* longest generation.
ASSUME SizesAssumption ==
  /\ PrefillBos + MaxNew <= SpeechTable
  /\ CondPrefix + TextLimit + PrefillBos + MaxNew <= MaxModelLen

VARIABLES
  phase,      \* where each request is
  request,    \* what was asked for
  params,     \* what the adapter made of it
  rows,       \* its rows in stage 0
  output,     \* tokens generated so far: "code", "other" or "eos"
  reason,     \* finish reason
  voiced,     \* the reference its output carries: "whole", "empty" or "absent"
  failures,   \* _failed_pairs
  forced      \* history: end of speech was forced, not drawn

vars == <<phase, request, params, rows, output, reason, voiced, failures, forced>>

Given(optional, default) == IF optional = <<>> THEN default ELSE optional[1]

Init ==
  /\ phase = [i \in Ids |-> "idle"]
  /\ request = [i \in Ids |-> <<>>] /\ params = [i \in Ids |-> <<>>]
  /\ rows = [i \in Ids |-> {}] /\ output = [i \in Ids |-> <<>>]
  /\ reason = [i \in Ids |-> "none"]
  /\ voiced = [i \in Ids |-> "whole"]
  /\ failures = {}
  /\ forced = [i \in Ids |-> FALSE]

-----------------------------------------------------------------------------
(* The adapter                                                             *)

\* normalize_language: a known name or code that this deployment serves.
Served(language) == language \in DOMAIN Alias /\ Alias[language] \in Qualified

\* build_text_token_ids: the ids between start and stop.
TextIds(text) == text + 2

\* It refuses blank text and text longer than the learned positions.
TextRefused(text) == text = 0 \/ TextIds(text) > TextLimit

PromptLength(ids) == CondPrefix + ids + PrefillBos

\* Fault variant: a penalty may be zero.
ExtraRefusedPenalty(q) ==
  \/ q.policy \notin Policies
  \/ Given(q.weight, 0) \notin 0..WeightMax
  \/ Given(q.penalty, DefaultPenalty) \notin 0..PenaltyMax

\* _validate_extra_params
ExtraRefused(q) ==
  \/ q.policy \notin Policies
  \/ Given(q.weight, 0) \notin 0..WeightMax
  \/ Given(q.penalty, DefaultPenalty) \notin PenaltyMin..PenaltyMax

\* validate.  A voice stands for the clip that was uploaded under its name; of a
\* clip only the format is looked at.
Refused(q) ==
  \/ q.reference \in {"none", "malformed"}
  \/ ~Served(q.language)
  \/ TextRefused(q.text)
  \/ PromptLength(TextIds(q.text)) < CondPrefix + 3
  \/ q.limit # <<>> /\ q.limit[1] \notin 1..MaxNew
  \/ q.unsupported
  \/ ExtraRefused(q)

\* cfg_scale_from_weight: the sum is rounded to a float.
CfgScale(weight) == One + (weight \div Ulp) * Ulp

\* build and apply_sampling_overrides.  Guidance is dropped at weight 0.
Prepared(i, q) ==
  LET weight == Given(q.weight, DefaultWeight)
  IN  [text_len |-> TextIds(q.text), prompt_len |-> PromptLength(TextIds(q.text)),
       language |-> Alias[q.language],
       max_tokens |-> Given(q.limit, MaxNew),
       penalty |-> Given(q.penalty, DefaultPenalty), policy |-> q.policy,
       role |-> IF weight > 0 THEN COND ELSE "none",
       pair |-> i, scale |-> CfgScale(weight)]

Submit(i) ==
  /\ phase[i] = "idle"
  /\ \E q \in Requests[i] :
       /\ request' = [request EXCEPT ![i] = q]
       /\ IF Refused(q)
          THEN phase' = [phase EXCEPT ![i] = "refused"] /\ UNCHANGED params
          ELSE /\ phase' = [phase EXCEPT ![i] = "prepared"]
               /\ params' = [params EXCEPT ![i] = Prepared(i, q)]
  /\ UNCHANGED <<rows, output, reason, voiced, failures, forced>>

-----------------------------------------------------------------------------
(* Stage 0                                                                 *)

\* expand_cfg_prompts: the rows of a request.
Expanded(p) == IF p.role = COND /\ p.scale > One THEN {COND, UNCOND} ELSE {COND}

\* ChatterboxCFGLogitsProcessor.validate_params, for each row.
ParamsRefused(p) ==
  /\ p.role # "none"
  /\ p.scale < One \/ p.policy \notin Policies \/ p.penalty <= 0

\* _call_hf_processor builds the prompt again and encodes the clip, and refuses
\* what it cannot: an unusable clip is never in the cache.
ProcessorRefuses(i) ==
  \/ ~Served(params[i].language)
  \/ TextRefused(request[i].text)
  \/ request[i].reference = "unusable"

Admit(i) ==
  /\ phase[i] = "prepared"
  /\ IF ProcessorRefuses(i) \/ ParamsRefused(params[i])
     THEN phase' = [phase EXCEPT ![i] = "error"] /\ UNCHANGED rows
     ELSE /\ phase' = [phase EXCEPT ![i] = "running"]
          /\ rows' = [rows EXCEPT ![i] = Expanded(params[i])]
  /\ UNCHANGED <<request, params, output, reason, voiced, failures, forced>>

\* A row of the pair is not in this step's batch any more.
LoseRow(i) ==
  /\ phase[i] = "running" /\ rows[i] = {COND, UNCOND}
  /\ \E lost \in rows[i] : rows' = [rows EXCEPT ![i] = @ \ {lost}]
  /\ UNCHANGED <<phase, request, params, output, reason, voiced, failures, forced>>

Lone(i) == params[i].role # "none" /\ rows[i] # {COND, UNCOND}

\* What may be drawn: hardened guidance draws codes and the end only.
Drawable(p) ==
  IF p.role # "none" /\ p.policy = "hardened" THEN {"code", "eos"}
  ELSE {"code", "other", "eos"}

\* One step: a lone row of a pair is forced to its end, and its pair recorded.
Step(i) ==
  /\ phase[i] = "running"
  /\ \E token \in IF Lone(i) THEN {"eos"} ELSE Drawable(params[i]) :
       /\ output' = [output EXCEPT ![i] = Append(@, token)]
       /\ IF token = "eos" \/ Len(output[i]) + 1 = params[i].max_tokens
          THEN /\ phase' = [phase EXCEPT ![i] = "finished"]
               /\ reason' = [reason EXCEPT ![i] = IF token = "eos" THEN "stop" ELSE "length"]
          ELSE UNCHANGED <<phase, reason>>
  /\ failures' = IF Lone(i) THEN failures \cup {params[i].pair} ELSE failures
  /\ forced' = [forced EXCEPT ![i] = Lone(i)]
  /\ UNCHANGED <<request, params, rows, voiced>>

Abort(i) ==
  /\ phase[i] = "running"
  /\ phase' = [phase EXCEPT ![i] = "finished"]
  /\ reason' = [reason EXCEPT ![i] = "abort"]
  /\ UNCHANGED <<request, params, rows, output, voiced, failures, forced>>

\* Stage 0 gave the request no reference item when it started.  Beside rows that
\* have one its output carries empty tensors, and none where no row has.
LoseVoice(i) ==
  /\ phase[i] = "running" /\ output[i] = <<>> /\ voiced[i] = "whole"
  /\ \E left \in {"empty", "absent"} : voiced' = [voiced EXCEPT ![i] = left]
  /\ UNCHANGED <<phase, request, params, rows, output, reason, failures, forced>>

-----------------------------------------------------------------------------
(* Handing over                                                            *)

\* codec_token_only raises when the pair's failure is on record, or when the
\* output has no reference; empty tensors pass for one.
Raises(i) == params[i].pair \in failures \/ voiced[i] = "absent"

\* Fault variant: outputs that cannot be handed over are left out.
PassedSkipping(list) ==
  [i \in Ids |-> IF (\E n \in DOMAIN list : list[n] = i) /\ ~Raises(i) THEN "handed" ELSE phase[i]]

\* What becomes of a list of outputs: all go on, or none when one raises.
Passed(list) ==
  LET to == IF \E n \in DOMAIN list : Raises(list[n]) THEN "failed" ELSE "handed"
  IN  [i \in Ids |-> IF \E n \in DOMAIN list : list[n] = i THEN to ELSE phase[i]]

\* codec_token_only on a list of outputs: it stops at the first that raises,
\* and the records it took until then are gone.
HandOver ==
  \E list \in UNION {[1..n -> {i \in Ids : phase[i] = "finished"}] : n \in 1..Cardinality(Ids)} :
    /\ \A m, n \in DOMAIN list : list[m] = list[n] => m = n
    /\ phase' = Passed(list)
    /\ failures' = failures \
         {params[list[n]].pair : n \in {n \in DOMAIN list : \A m \in 1..(n - 1) : ~Raises(list[m])}}
    /\ UNCHANGED <<request, params, rows, output, reason, voiced, forced>>

\* Fault variant: a generation that met its limit is as good as any.
TruncatedGuardOnly(i) ==
  \/ Len(output[i]) = 0
  \/ reason[i] = "abort"
  \/ /\ params[i].text_len >= GuardMin
     /\ Len(output[i]) < (params[i].text_len * GuardPct) \div 100

\* validate_generation refuses.
Truncated(i) ==
  \/ Len(output[i]) = 0
  \/ reason[i] \in {"length", "abort"}
  \/ /\ params[i].text_len >= GuardMin
     /\ Len(output[i]) < (params[i].text_len * GuardPct) \div 100

\* The codes that reach stage 1.
CodeCount(i) == Cardinality({n \in DOMAIN output[i] : output[i][n] = "code"})

\* What stage 1 makes of the request: no audio without a code or a voice to
\* decode it in, and perhaps an exception on fewer codes than the vocoder is
\* said to pad.
Rendered(i) ==
  IF CodeCount(i) = 0 \/ voiced[i] # "whole" THEN {"silent"}
  ELSE IF CodeCount(i) < MinEmit THEN {"served", "failed"}
  ELSE {"served"}

\* The answer: refused as truncated, or what stage 1 made of the request.
Answer(i) ==
  /\ phase[i] = "handed"
  /\ \E end \in IF Truncated(i) THEN {"failed"} ELSE Rendered(i) :
       phase' = [phase EXCEPT ![i] = end]
  /\ UNCHANGED <<request, params, rows, output, reason, voiced, failures, forced>>

Next ==
  \/ \E i \in Ids : \/ Submit(i) \/ Admit(i) \/ LoseRow(i) \/ LoseVoice(i)
                    \/ Step(i) \/ Abort(i) \/ Answer(i)
  \/ HandOver

\* The server and the engine go on; clients need not come, and nothing need
\* be lost or cancelled.
Fairness ==
  /\ \A i \in Ids : WF_vars(Admit(i)) /\ WF_vars(Step(i)) /\ WF_vars(Answer(i))
  /\ WF_vars(HandOver)

Spec == Init /\ [][Next]_vars /\ Fairness

-----------------------------------------------------------------------------
(* Properties                                                              *)

\* Of what validate lets through only a clip that cannot be encoded is refused
\* further down, where the refusal is an exception in the engine and not an
\* answer: the prompt the processor builds is the one the row was told of, it
\* and all it may generate have positions, and a row with a guidance role has
\* its companion, unless the weight is so small that the scale is rounded to one.
AcceptedServable ==
  \A i \in Ids :
    /\ phase[i] = "error" => request[i].reference = "unusable"
    /\ params[i] # <<>> =>
         /\ params[i].text_len = TextIds(request[i].text) /\ params[i].text_len <= TextLimit
         /\ PrefillBos + params[i].max_tokens <= SpeechTable
         /\ params[i].prompt_len + params[i].max_tokens <= MaxModelLen
         /\ Expanded(params[i]) # {COND, UNCOND} =>
              params[i].role = "none" \/ params[i].scale = One

\* What is served with audio is a whole utterance: the model drew its end
\* itself, with its guidance whole, and a long text has at least the least its
\* length allows.
ServedWhole ==
  \A i \in Ids : phase[i] = "served" =>
    /\ output[i] # <<>> /\ output[i][Len(output[i])] = "eos" /\ ~forced[i]
    /\ params[i].text_len >= GuardMin =>
         Len(output[i]) >= (params[i].text_len * GuardPct) \div 100

\* Every request that comes is answered: refused, failed, served or left silent.
Answered ==
  \A i \in Ids :
    phase[i] # "idle" ~> phase[i] \in {"refused", "error", "failed", "silent", "served"}
=============================================================================

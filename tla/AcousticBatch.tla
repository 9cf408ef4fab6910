---------------------------- MODULE AcousticBatch ----------------------------
(***************************************************************************)
(* One execution of the acoustic stage over the rows of a batch: which     *)
(* rows are decoded together, what each of them is rendered from, and the  *)
(* cache of captured graphs the executions share.                          *)
(*                                                                         *)
(* The network is a function of all it is given: what it renders for a row *)
(* is modelled by the row's inputs, the padding it sees and the noise it   *)
(* draws.  A captured graph computes the same from the static inputs it    *)
(* holds.  Rows come as the forward pass has laddered them.                *)
(***************************************************************************)
EXTENDS DecodeLadder, Places, SequencesExt

CONSTANTS
  Rows,            \* rows there may be: see RowType
  Reference,       \* the reference payload of each voice
  Seeds,           \* audio_seed of a row's payload, or NoSeed
  MaxBatchRows,    \* max_batch_rows
  BatchVocoder,    \* batch_vocoder
  Ragged,          \* ragged_batching
  Lookahead,       \* pre_lookahead_len
  MinEmit,         \* ACOUSTIC_MIN_EMIT_CODES
  TokenMelRatio,   \* S3GEN_TOKEN_MEL_RATIO
  GraphCacheSize,  \* graph_cache_size
  GraphMaxCodes,   \* graph_max_codes
  GraphRows,       \* rows of a captured flow, at most
  Prewarm,         \* prewarm_prompt_tokens
  MaxRows          \* bound: rows of one execution

Voices == DOMAIN Reference
NoSeed == "none"

\* What an execution is asked for: the codes at token_offset.. of a request.
RowType == [id : STRING, voice : Voices, count : Nat, offset : Nat,
            final : BOOLEAN, streaming : BOOLEAN, seed : Seeds]

\* A row starts past its utterance's beginning only in a stream's window, and
\* what is final is decoded whole.
ASSUME BatchAssumption ==
  /\ Rows \subseteq RowType
  /\ \A r \in Rows : r.offset > 0 => r.streaming /\ ~r.final
  /\ Reference \in [Voices -> [tokens : Nat, declared : Nat, frames : Nat, complete : BOOLEAN]]
  /\ MaxBatchRows \in Nat \ {0} /\ GraphCacheSize \in Nat \ {0}
  /\ Ragged \in BOOLEAN /\ BatchVocoder \in BOOLEAN
  /\ Lookahead \in Nat /\ MinEmit \in Nat /\ TokenMelRatio \in Nat \ {0}
  /\ GraphMaxCodes \in Nat /\ GraphRows \in Nat /\ MaxRows \in Nat
  /\ Prewarm \subseteq Nat \ {0} /\ IsFiniteSet(Prewarm)

VARIABLES
  rows,     \* the rows of the execution under way
  todo,     \* groups of its jobs still to decode
  out,      \* the audio of each row
  graphs    \* _flow_graphs: the static inputs of each captured shape

batchVars == <<rows, todo, out, graphs>>

Empty == <<>>
Silence == [sound |-> Empty, marked |-> FALSE]

-----------------------------------------------------------------------------
(* A row's own inputs                                                      *)

\* Fault variant: the mel frames are taken as they come.
ReferenceFromPayloadUnchecked(ref) ==
  [accepted |-> ref.complete,
   prompt |-> IF ref.declared > 0 /\ ref.declared <= ref.tokens THEN ref.declared ELSE ref.tokens,
   frames |-> ref.frames]

\* _reference_from_payload: one reference, cut to the length it declares, or
\* to its tokens when the declaration cannot be; refused when frames are missing.
ReferenceFromPayload(ref) ==
  LET n == IF ref.declared > 0 /\ ref.declared <= ref.tokens
           THEN ref.declared ELSE ref.tokens
  IN  [accepted |-> ref.complete /\ ref.frames >= n * TokenMelRatio,
       prompt |-> n, frames |-> MinOf(ref.frames, n * TokenMelRatio)]

Conditioning(r) == ReferenceFromPayload(Reference[r.voice])
Prompt(r) == Conditioning(r).prompt

\* derive_seed, request_generator: a stream of the seed and of what it is for.
\* A row that brings no seed has seed 0: the seed is never None, so the stream
\* is never that of the request's id.
Generator(r, purpose) == <<IF r.seed = NoSeed THEN "0" ELSE r.seed, purpose>>

EmitCodes(r) == r.count - (IF r.final THEN 0 ELSE Lookahead)
MelLen(r) == (Prompt(r) + EmitCodes(r)) * TokenMelRatio

\* _flow_noise: where in its stream the noise of each mel position comes from.
\* A stream reads a fixed bank, its codes at their absolute place in it.
FlowNoise(r) ==
  LET prompt == Prompt(r) * TokenMelRatio
      from == prompt + r.offset * TokenMelRatio
  IN  IF ~r.streaming THEN [draw |-> MelLen(r), at |-> [k \in 1..MelLen(r) |-> k]]
      ELSE IF r.offset = 0 THEN [draw |-> 0, at |-> [k \in 1..MelLen(r) |-> k]]
      ELSE [draw |-> 0,
            at |-> [k \in 1..prompt |-> k] \o [k \in 1..(MelLen(r) - prompt) |-> from + k]]

-----------------------------------------------------------------------------
(* Groups                                                                  *)

\* Fault variant: equal code counts are enough.
BatchKeyOfCodes(r) ==
  [final |-> r.final, streaming |-> r.streaming, offset |-> r.offset,
   length |-> IF Ragged THEN <<>> ELSE <<r.count>>]

\* batch_key: what must match for two rows to share a pass.
BatchKey(r) ==
  [final |-> r.final, streaming |-> r.streaming, offset |-> r.offset,
   length |-> IF Ragged THEN <<>> ELSE <<r.count, Prompt(r)>>]

\* group_batches: the jobs of one key, in their order, MaxBatchRows at a time.
GroupBatches(batch, jobs) ==
  LET alike(i) == {j \in jobs : BatchKey(batch[j]) = BatchKey(batch[i])}
      chunk(i) == (Rank(i, alike(i)) - 1) \div MaxBatchRows
  IN  {{j \in alike(i) : chunk(j) = chunk(i)} : i \in jobs}

-----------------------------------------------------------------------------
(* decode_batch                                                            *)

\* decode_batch raises on a group of unlike rows or a reference too short.
Refuses(g) ==
  \/ \E i, j \in DOMAIN g : BatchKey(g[i]) # BatchKey(g[j])
  \/ \E i \in DOMAIN g : Conditioning(g[i]).frames < Prompt(g[i]) * TokenMelRatio

\* A final of fewer codes than the vocoder is said to pad, which nothing holds
\* back: only a group that is not final is looked at for its length.
ShortFinal(g) == g[1].final /\ \E i \in DOMAIN g : EmitCodes(g[i]) < MinEmit

\* What may end the execution by an exception.
Raises(g) == Refuses(g) \/ ShortFinal(g)

\* A non-final group with a row too short to render stays silent.
TooShort(g) == ~g[1].final /\ \E i \in DOMAIN g : EmitCodes(g[i]) < MinEmit

\* The padded inputs of the group: each row its own prompt, codes, voice and
\* noise at its own place, and whatever padding follows.
Packed(g) ==
  LET width == Max({Prompt(g[i]) + g[i].count : i \in DOMAIN g})
      mel == Max({MelLen(g[i]) : i \in DOMAIN g})
  IN  [i \in DOMAIN g |->
        [tokens |-> <<g[i].voice, Prompt(g[i]), g[i].id, g[i].offset, g[i].count>>,
         noise |-> <<Generator(g[i], "flow"), FlowNoise(g[i])>>,
         width |-> width, pad |-> width - Prompt(g[i]) - g[i].count,
         mel |-> mel, melPad |-> mel - MelLen(g[i])]]

\* Only recurrent rungs of streams are captured.
Recurrent(g) ==
  /\ ~g[1].final /\ g[1].streaming
  /\ \A i \in DOMAIN g : g[i].count <= GraphMaxCodes

\* _run_graph: eagerly when the shape may not be captured or the cache is full,
\* else by its graph, whose static inputs are overwritten first.
RunGraph(held, namespace, shape, args, cacheable) ==
  LET key == <<namespace, Len(args), shape>>
      captured == key \in DOMAIN held \/ Cardinality(DOMAIN held) < GraphCacheSize
      static == [k \in DOMAIN held \cup {key} |-> IF k = key THEN args ELSE held[k]]
  IN  IF cacheable /\ captured THEN [output |-> static[key], graphs |-> static]
      ELSE [output |-> args, graphs |-> held]

\* _run_acoustic_core: token encoder and flow of the group.
RunAcousticCore(g) ==
  LET args == Packed(g)
  IN  RunGraph(graphs, "encoder_flow", <<args[1].width, args[1].mel>>, args,
               Recurrent(g) /\ Len(g) <= GraphRows)

\* Every row's slice of the mel, with the row's own noise.
Slices(g, flow) ==
  [i \in DOMAIN g |->
     [mel |-> flow.output[i], from |-> Prompt(g[i]), codes |-> EmitCodes(g[i]),
      noise |-> Generator(g[i], "vocoder")]]

\* _run_vocoder, the first row of a pass deciding whether it may be captured.
VocoderPass(held, r, slices) ==
  RunGraph(held, "vocoder", <<slices[1].codes>>, slices, Recurrent(<<r>>))

\* A pass for each row, one after the other.
RowByRow(g, slices, held) ==
  LET upTo[i \in 0..Len(g)] ==
        IF i = 0 THEN [output |-> <<>>, graphs |-> held]
        ELSE LET pass == VocoderPass(upTo[i - 1].graphs, g[i], <<slices[i]>>)
             IN  [output |-> upTo[i - 1].output \o pass.output, graphs |-> pass.graphs]
  IN  upTo[Len(g)]

\* The rows of one geometry, on which one pass of the vocoder relies.
Uniform(g) ==
  \A i \in DOMAIN g : Prompt(g[i]) = Prompt(g[1]) /\ EmitCodes(g[i]) = EmitCodes(g[1])

RunVocoder(g, flow) ==
  IF BatchVocoder /\ Len(g) > 1 /\ Uniform(g)
  THEN VocoderPass(flow.graphs, g[1], Slices(g, flow))
  ELSE RowByRow(g, Slices(g, flow), flow.graphs)

\* The audio of a row: faded in at the start of an utterance only, cropped at
\* its end, marked when it is final or streamed.
Audio(r, wav) ==
  [sound |-> <<wav, r.offset = 0, IF r.final THEN FinalSampleLimit(r.count) ELSE -1>>,
   marked |-> r.final \/ r.streaming]

-----------------------------------------------------------------------------
(* Actions                                                                 *)

\* The warm-up's own count of the ladder: the length reached, the next block.
\* It takes at most twelve rungs, until it has reached four of the largest blocks.
WarmLimit == 12
Cumulated[k \in 0..WarmLimit] ==
  IF k = 0 THEN [cum |-> 0, block |-> FirstBlock]
  ELSE [cum |-> Cumulated[k - 1].cum + Cumulated[k - 1].block,
        block |-> NextBlock(Cumulated[k - 1].block)]

WarmRungs ==
  {Cumulated[k].cum : k \in {k \in 1..WarmLimit : Cumulated[k - 1].cum < 4 * MaxBlock}}
    \cap 0..GraphMaxCodes

\* Fault variant: frames of the lookahead are warmed too.
WarmShapesFull ==
  {<<"encoder_flow", n, <<prompt + c, (prompt + c) * TokenMelRatio>>>> :
     n \in 1..GraphRows, prompt \in Prewarm, c \in WarmRungs}

\* warm_acoustic_graphs: each rung of the ladder up to graph_max_codes, for
\* each prewarmed prompt length and row count.
WarmShapes ==
  {<<"encoder_flow", n, <<prompt + c, (prompt + c - Lookahead) * TokenMelRatio>>>> :
     n \in 1..GraphRows, prompt \in Prewarm, c \in WarmRungs}

\* What the warm-up is for: it fits, and captures over zeros.
ASSUME WarmAssumption == Cardinality(WarmShapes) <= GraphCacheSize

BatchInit ==
  /\ rows = <<>> /\ todo = {} /\ out = <<>>
  /\ graphs = [key \in WarmShapes |-> Empty]

\* Rows that have something to decode and a voice to decode it in.
Decodable(batch) ==
  {i \in DOMAIN batch : batch[i].count > 0 /\ Conditioning(batch[i]).accepted}

\* _forward_s3gen hands the jobs of the execution to decode.
Forward(batch) ==
  /\ rows = <<>>
  /\ rows' = batch
  /\ out' = [i \in DOMAIN batch |-> Silence]
  /\ todo' = GroupBatches(batch, Decodable(batch))
  /\ UNCHANGED graphs

\* The order of the groups: keys as they come, those of one key by their rows.
Earlier(g, h) ==
  LET first(k) == Min({j \in Decodable(rows) :
                         \E i \in k : BatchKey(rows[j]) = BatchKey(rows[i])})
  IN  \/ first(g) < first(h)
      \/ first(g) = first(h) /\ Min(g) < Min(h)

\* decode: the groups in their order, each over its rows in theirs.
Foremost(g) == \A h \in todo \ {g} : Earlier(g, h)
Group(g) == Picked(rows, g)

\* The n-th result of a group is that of its n-th row.
Scatter(g, results) ==
  [i \in DOMAIN out |-> IF i \in g THEN results[Rank(i, g)] ELSE out[i]]

DecodeSilent(g) ==
  /\ Foremost(g) /\ ~Refuses(Group(g)) /\ TooShort(Group(g))
  /\ todo' = todo \ {g}
  /\ UNCHANGED <<rows, out, graphs>>

DecodeBatch(g) ==
  /\ Foremost(g) /\ ~Refuses(Group(g)) /\ ~TooShort(Group(g))
  /\ \E group \in {Group(g)} : \E run \in {RunVocoder(group, RunAcousticCore(group))} :
       /\ graphs' = run.graphs
       /\ out' = Scatter(g, [i \in DOMAIN group |-> Audio(group[i], run.output[i])])
  /\ todo' = todo \ {g}
  /\ UNCHANGED rows

\* The exception reaches the engine: no row of the execution is returned, and
\* no graph was captured or replayed, for no final is.
DecodeRaises(g) ==
  /\ Foremost(g) /\ Raises(Group(g))
  /\ rows' = <<>> /\ out' = <<>> /\ todo' = {}
  /\ UNCHANGED graphs

\* The results are returned to the engine.
Return ==
  /\ rows # <<>> /\ todo = {}
  /\ rows' = <<>> /\ out' = <<>>
  /\ UNCHANGED <<todo, graphs>>

Batches ==
  {b \in UNION {[1..n -> Rows] : n \in 1..MaxRows} :
     \A i, j \in DOMAIN b : b[i].id = b[j].id => i = j}

BatchNext ==
  \/ \E batch \in Batches : Forward(batch)
  \/ \E g \in todo : DecodeSilent(g) \/ DecodeBatch(g) \/ DecodeRaises(g)
  \/ Return

BatchSpec == BatchInit /\ [][BatchNext]_batchVars

-----------------------------------------------------------------------------
(* Properties                                                              *)

Done == rows # <<>> /\ todo = {}

\* What a row decoded on its own, eagerly and by the definition of each input,
\* is rendered from.
Alone(r) ==
  IF r.count = 0 \/ ~Conditioning(r).accepted \/ TooShort(<<r>>) THEN Silence
  ELSE Audio(r,
    [mel |-> [tokens |-> <<r.voice, Prompt(r), r.id, r.offset, r.count>>,
              noise |-> <<Generator(r, "flow"),
                [draw |-> IF r.streaming THEN 0 ELSE MelLen(r),
                 at |-> [k \in 1..MelLen(r) |->
                          IF k <= Prompt(r) * TokenMelRatio THEN k
                          ELSE k + r.offset * TokenMelRatio]]>>,
              width |-> Prompt(r) + r.count, pad |-> 0, mel |-> MelLen(r), melPad |-> 0],
     from |-> Prompt(r), codes |-> EmitCodes(r), noise |-> Generator(r, "vocoder")])

\* Every row of an execution is given the audio it would have been given alone:
\* whoever it is decoded with, in whatever order, by whichever captured graph
\* and whatever the graph was last used for (batch_key, decode_batch, _run_graph).
AsAlone ==
  Done => \A i \in DOMAIN rows : out[i] = Alone(rows[i])

\* Nothing the forward pass lets through ends the execution of every stream in
\* the batch, but an utterance shorter than the vocoder is said to bear: that
\* one is let through, by itself and with all that are decoded with it.
AcceptedDecodes ==
  \A g \in todo :
    Raises(Group(g)) => \E i \in g : rows[i].final /\ rows[i].count < MinEmit

\* _forward_s3gen: where a stream is decoded, by the schedule of its own, at as
\* many rungs as are ever warmed.
Scheduled[k \in 1..WarmLimit] ==
  IF k = 1 THEN [at |-> FirstBlock, block |-> FirstBlock]
  ELSE LET block == NextBlock(Scheduled[k - 1].block)
       IN  [at |-> Scheduled[k - 1].at + block, block |-> block]

\* Of those, the lengths that are recurrent and long enough to render.
RungLengths ==
  {c \in {Scheduled[k].at : k \in 1..WarmLimit} :
     c <= GraphMaxCodes /\ c - Lookahead >= MinEmit}

\* The graphs of a prewarmed prompt, for the first WarmLimit rungs of a stream, are
\* there from the start and stay, and the cache keeps its bound: no request waits for a capture that
\* warm_acoustic_graphs was there to make.
RungsWarm ==
  /\ Cardinality(DOMAIN graphs) <= GraphCacheSize
  /\ \A n \in 1..GraphRows, prompt \in Prewarm, c \in RungLengths :
       <<"encoder_flow", n, <<prompt + c, (prompt + c - Lookahead) * TokenMelRatio>>>>
         \in DOMAIN graphs
=============================================================================

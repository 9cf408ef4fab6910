# A verification of the Chatterbox MTL v3 port on vLLM-Omni

The program serves multilingual text to speech as a two-stage pipeline inside
vLLM-Omni. Stage 0 (T3) is an autoregressive model that generates codec tokens;
stage 1 (S3Gen) renders codec tokens into 24 kHz PCM, 960 samples a code. A
request may be rendered whole ("completed clause") or streamed: then codes flow
from stage 0 to stage 1 in growing blocks while they are generated, and PCM
flows to the client while it is rendered. Guided requests (CFG) are two rows of
the stage-0 batch, a conditional one and an unconditional companion.

These modules model the parts of that system that decide *which* codes,
samples, rows, voices and streams are handled *when*, and from *which inputs*.
The neural networks are not modelled.

## Inventory

Paths are under `src/vllm_omni/`; `models/` stands for
`model_executor/models/chatterbox_mtl_v3/`, `sip/` for
`model_executor/stage_input_processors/chatterbox_mtl_v3.py`, `adapter` for
`entrypoints/openai/tts_adapters/chatterbox_mtl_v3.py`.

| Component | State | Operations | Correct when |
|---|---|---|---|
| Serving adapter, CFG expansion, completed-clause path (`adapter`, `sip` expand_cfg_prompts and codec_token_only) | where each request is, its parameters, its rows, the failure set | validate, build, expand, generate, hand over, judge | of what is accepted only an unusable clip is refused further down, what is served with audio is whole and guided, everyone is answered |
| Prompt layout, reference routing (`models/chatterbox_mtl_v3.py`, `models/t3.py`) | reference by request id; embeddings of the flat batch | one forward pass of stage 0, on_requests_finished | no row is given another's voice or embedding |
| CFG pairing (`models/sampling.py`) | rows followed, pairs of slots, dirty flag, process-wide set of failed pairs | update_state, apply, the patched `_sample`, take_cfg_failure | a pair stays in lockstep or stops and is refused |
| Codec transport (`models/streaming.py` CodecCursor, `sip` codec_async_chunk) | one cursor per request id in a process-wide dict: accepted and valid codes, position, sequence number, block, terminal reason, sent flag | the callback: observe a cumulative output, take a scheduled block or flush, publish a payload, drop the cursor | each code leaves once and in order, the last payload carries a code, every finished row is closed |
| Acoustic scheduler (`core/sched/chatterbox_acoustic_scheduler.py`) | waiting and running queues, started streams, last service step, class of the last batch | schedule | slots are not oversubscribed, neither class starves, streams take turns |
| Acoustic stream (`models/chatterbox_mtl_v3.py` _forward_s3gen, `models/s3gen.py` decode_batch, _emit_stream_slice, _flow_noise) | per stream: code prefix, next decode point, block, last decode point, voice; committed samples and tail; noise bank | one payload; release on finish or cancellation | each sample is sent once, in order, up to the cropped length; nothing stays behind for the next request of the id |
| Acoustic batching, graph cache (`models/s3gen.py`) | rows of one execution, captured graphs with their static inputs | group, decode, replay or capture, warm up | a row sounds as it would alone; of what is let through only a final of too few codes can raise; warmed shapes stay |
| Conditioning cache, reference encoding (`models/conditioning.py`) | LRU of encoded voices with leases, under a lock | get, encode, put, acquire, acquire_or_put, release | a request has the voice of its own clip, a leased voice stays, leases are exact, the bound holds but for leased voices |
| Sample ledger (`models/streaming.py` PCMCommitter) | next sample, total, final limit | commit a range, set the limit | one unbroken run of samples inside the limit |
| Text front end | none | language policy, limits and prompt length are in `SpeechRequest`; normalisation and tokenisation are text processing | - |
| Networks, encoders, weights, configuration, port tools and tests | - | - | numerical, declarative or measurement; not modelled |

How they interact. The adapter validates a request and builds its prompt and
sampling parameters; the engine expands a guided one into two rows; stage 0
computes a flat batch of all rows, attaches to each the voice reference its prompt
brought, and the logits processor copies the conditional row's token into its
companion. From there a completed clause is handed over whole by `codec_token_only`,
while a stream is cut up by `codec_async_chunk`, which the engine calls back with
a row's cumulative output after any number of decode steps. The payload goes
through the connector to stage 1, another process, where the scheduler picks the
streams of one execution, `_forward_s3gen` appends each payload to its stream's
prefix, and `decode` renders the rows that may share a pass together. Both stages
compute the *decode ladder* (block sizes 5, 9, 16, ... by default) on their own and
must stay in step. A payload without codes has nothing to put on the token path, so
an end without a code would never be seen. Cancellation reaches the stages
separately and runs no code at stage 0.

What is hard: end of generation, cancellation and retry between any two
callbacks; a prefix decoded again on every rung, cut in three different origins
of coordinates; rows compacted and swapped under the sampler; references that come
as one list for a batch whose rows did not all bring one; rows of different
lengths, voices and offsets in one pass of a graph whose inputs were somebody
else's; voices evicted while others encode or use them; selection and admission
that rank the same streams by different rules; limits checked in one place and
relied on in three others. `PROJECT.json` lists each hazard at its line.

## Modules

| Module | Models | State and actions |
|---|---|---|
| `SpeechRequest` | the life of a request on the completed-clause path | `phase`, `params` what the adapter made of it, `rows` what stage 0 has of it, `failures` is `_failed_pairs`. Submit is validate and build, Admit the expansion and the processor's own checks, Step one token, HandOver `codec_token_only` on any list of outputs, Answer `validate_generation` and what stage 1 makes of the codes: audio, silence or an exception. LoseRow, LoseVoice, Abort are what may go wrong in between |
| `Stage0Batch` | prompt layout and reference routing | `embeds` the embeddings of each row's positions, `refByReq` is `_ref_by_req`, `carried` the reference in the latest output. Step is one forward pass over a batch in any order; Submit, Preempt, End are the engine; OnRequestsFinished |
| `CFGPairing` | guidance across batch updates | `batch` is the engine's view, `rows` the processor's; UpdateState is one batch_update, Step one forward pass with `apply` and `_sample`, Serve the end of a pair |
| `DecodeLadder` | the ladder both stages compute | `NextBlock`, its constants |
| `CodecTransport` | stage 0 of streaming | `cursor` is `_CURSORS`, `wire` the payloads of the present submission, `refused` the rows whose callback raised. `CallbackCond`, `CallbackUncond` and `CallbackRefused` are the paths of the one callback; Generate, Finish, Abort, Resubmit are the engine and the client |
| `AcousticScheduler` | selection and admission of stage 1 | Schedule is one call; arrivals, chunks, parking, pauses are the environment |
| `Places` | places in a list | the rank of a place among others, the members at some places |
| `SampleGeometry` | samples per code, `final_sample_limit` | operators |
| `AcousticStream` | stage 1 of streaming | `stream` is the five `_stream_*` dicts, `emitter` `_stream_state`, `bank` the cached noise. DropUnvoiced, KeepReference, Buffer, DecodeRung, DecodeFinal, DecodeRaises are the paths of one payload; Release is `on_requests_finished`, Reopen an id that is used again |
| `AcousticBatch` | one execution over its rows, and the graph cache | `todo` the groups still to decode, each the set of its rows' places, `out` what each row is rendered from, `graphs` is `_flow_graphs` with the static inputs of each shape. Forward groups the rows, DecodeSilent, DecodeBatch and DecodeRaises are the ways the foremost group goes, Return ends the execution |
| `ConditioningCache` | the voice cache, its keys, the encoder's refusals, its callers | `entries` the LRU order, `leases`, `user` what each thread is in the middle of; one action per method |
| `PCMLedger` | abstract: what a listener is promised | `Extend`, `Seal` |
| `PCMCommitter` | the ledger class of `streaming.py` | Commit, SetFinalLimit |
| `StreamPipeline` | both streaming stages and the connector | instances of the two modules over one state, `delivered` counts payloads handed on |
| `*_proofs` | - | theorems about the module they are named after; `AcousticStage_proofs` is about `AcousticScheduler`, `AcousticBatch` and `PCMCommitter` |
| `MC*` | - | instances for TLC: kinds of requests, rows, clips, and symmetry |

Abstractions. `AcousticStream` counts codes, and PCM is a sequence of segments
`[from, to)` of *absolute* samples computed from the slice bounds of the code
(clamped as Python clamps them), so a sample that is repeated or skipped
shows. `AcousticBatch` lets a network be a function of all it is given: what it
renders for a row *is* the row's tokens, prompt, padding and noise, and noise is a
generator with the place each mel frame draws from, so a wrong pad, neighbour,
voice or noise origin shows. In `Stage0Batch` a token id is a pair of its vocabulary and its value, and an
embedding is the content, table and position it is looked up by. `CFGPairing` leaves logits out: any row may draw any
token; the legal mask is in `SpeechRequest`, where a text is its number of ids and
weights are integers with a spacing `Ulp` just above 1.0, so a sum is rounded as a
float is. In `AcousticScheduler` the service step is kept as a rank, since only
its order is ever compared, the sorted list of ready streams is the set of them and
its order (`Ahead`), and the token budget is left out: 32768 tokens a step
against at most 32 streams of at most 1000 codes. The growth factor of the ladder is
a number of hundredths, so a block is rounded exactly and not in floating point.
The base scheduler, the chunk adapter, the connector, the engine's batch and its
splitter of outputs are not in the repository; they are modelled from what the code
reads of them.

Operators commented "Fault variant" sit before the operator they vary: each is
a plausible bug (a dropped guard, an off-by-one, a missing reset), and replacing
the operator by it makes the named property of the run fail. They show that
the properties are sensitive to the code and take no part in the specifications.

## Runs

| Run | Bounds | Distinct states | Checks |
|---|---|---|---|
| `request` | 2 requests, the first of 24 kinds, limits of a few tokens | 433 k | `AcceptedServable`, `ServedWhole`, liveness `Answered` |
| `stage0` | 3 rows, one a companion, 2 voices of unlike prompt length, 2 texts, 3 tokens, symmetry | 35 k | `OwnVoice`, `LayoutAsDefined`, `VoiceStays` |
| `cfg_sync` | one guided and one unguided caller, 3 slots, 2 tokens, symmetry | 19 k | rows followed, lockstep, never unguided, breaks recorded and refused, own tokens |
| `cfg_takeover` | one more unguided caller | finds a violation | own tokens |
| `transport` | a guided pair, 6 tokens, 1 control token, 2 submissions of each id | 237 k | codes once, rungs exact, last payload with a code, a finished row is closed |
| `transport_restart` | 1 row, 4 tokens of two code values, 2 submissions | finds a violation | a resubmitted id is served afresh |
| `scheduler` | 3 streams on 2 slots, fresh batch 1, continuation batch 2, two geometries, pause of everything | 111 k | slots, homogeneous batches, work conservation, turns, liveness |
| `scheduler_paused` | 2 streams, pause of new work | finds a violation | running streams are served |
| `acoustic` | 2 streams, 16 codes, payloads of 0 to 5, ids used again | 14.9 k | samples once and in order, whole at close, no window gap, stable noise |
| `batching` | executions of up to 3 rows of 11 kinds, groups of 2, room for 5 graphs | 105 k | a row is rendered as alone, only short finals raise, warm rungs stay |
| `cache` | 5 clips, 4 threads, room for 2, symmetry | 17 k | own voice, leases, bound, order of eviction |
| `pipeline` | 1 row, 11 tokens, 3 rungs and a flush | 20.7 k | the two ladders agree, the whole utterance is heard, implements `PCMLedger`, liveness |

Why the bounds are enough. `request` differs from a plain request in one field at
a time, with every value on either side of every limit, beside a second request that
shares the hand-over and the failure set with it. `stage0` has two voices whose prompts
are padded against each other, so a batch of all three rows has every mix of
prefilling, resuming and decoding rows, in every order. `cfg_sync` has a spare slot,
so a row can be moved, swapped and reused. `transport` goes through a growth of the
ladder, its cap and a flush of any remainder, with a control token (EOS, start or
invalid) at any place; a code is told apart by what was drawn and by its place in the
utterance, so one drawing is enough to see a code lost or repeated, and
`transport_restart` has two, so that a second submission can agree with or contradict
the cursor left by the first. In `scheduler` three streams on two slots
make admission compete with the running and the parked ones, and a class starves the
other only if two streams of it can come and go. `acoustic` takes the
smallest overlap margin that the code's constants have to satisfy
(`MarginAssumption`), a context window of three codes that opens at the third rung, a
first rung too short to render and a second that has just enough, and payloads
that may skip rungs; two streams show that they do not mix, and
a unit of the noise bank holds the longest utterance, as deployed. The theorems cover
every other value. The deployed numbers satisfy the assumptions: margin 96 against
lookahead 3, shortest render 2 and crossfade 480 (96 >= 5 and
96 * 960 >= 3 * 960 + 480). `batching` has rows that share everything but one
element of `batch_key`, three that share all of it, so that their group is cut, and a cache with room for one shape more than the warm
ones, so a shape is captured, replayed with other inputs, or run eagerly; one stream is longer than what may
be captured, and one row is a final of a single code. `cache` has more
voices than slots, threads enough to lease every slot and one more, a file
whose content was replaced, a clip at another rate, one that lacks frames and one
that is refused. `pipeline` reaches the rung at which the context window opens.
Each bound is a constant of the configuration.

Deadlock is checked except where the system ends: finished and cancelled
streams, rows that have generated all they may, answered requests.

### Fairness

- `SpeechRequest`: weak fairness of Admit, Step, HandOver and Answer: the server's and
  the engine's loops go on, and `max_tokens` ends every generation. Nothing is
  assumed of clients, cancellation, or the loss of rows and voices.
- `CodecTransport`: weak fairness of a row's callback (the engine core calls it
  for every step of a request) and of the end of its generation, which
  max_tokens forces. Nothing is assumed of cancellation or retry.
- `StreamPipeline`: the same, and of the connector's delivery of the next payload
  and of the discard of an empty one. `_forward_s3gen` runs for whatever was
  delivered.
- `AcousticScheduler`: weak fairness of `schedule` only: the engine core loops for
  as long as it has requests. Arrivals, chunks and cancellations are not fair.

### Environment assumptions

- The engine does not call `codec_async_chunk` again after it returned the
  terminal payload. If it does, the cursor is gone, a new one is made and the whole
  utterance is published again, although the docstring of the callback says that
  "a repeated callback returns `None`".
- Whether stage 0's output has a reference when the first payload is built is left
  open: a payload may come without one (`CarriesReference`). So is what a final of
  fewer codes than `ACOUSTIC_MIN_EMIT_CODES` does: it may be rendered or raise.
- An exception out of `decode` is the end of the streams of that execution; what the
  engine does with it is outside the repository.
- `RungsWarm` speaks of the prompts that were prewarmed. `warm_acoustic_graphs` does
  nothing unless graphs are on and prompt lengths are configured: then `Prewarm` is
  empty and the property claims nothing.
- An id is not reused at the scheduler, or at stage 0, before the next step forgot it.
- The connector keeps the payloads of a row in order and loses none.
- The reference items of the rows that start in a step come in the order of the
  batch; those of a row computed again after a preemption may be missing.
- Chunked prefill and prefix caching are off, as every deployment of the repository
  has them, so a prompt is computed in one step. The context is large enough
  (`SizesAssumption`; deployed 34 + 2050 + 2 + 1000 <= 4096, and 2 + 1000 <= 4100
  speech positions).
- `batching` has `Ragged = FALSE`, the default. Ragged batching is opt-in and the code
  itself says that it changes what a row sounds like: `AsAlone` is not claimed of it.

## Findings

1. `cfg_takeover`: `apply` returns before it looks at the dirty flag when it
   follows no row, so the pair slots of a caller that left stay in `_pairs`, and the
   patched `_sample` copies one unguided caller's token into another's row.
2. `scheduler_paused`: waiting streams are ranked whenever a slot is free, whatever
   the pause state, but admitted only when nothing is paused: with new work paused
   an old waiting continuation is selected for ever and a running one never.
3. `transport_restart`: no code of stage 0 runs on cancellation, so a resubmitted
   id meets the cursor of its earlier epoch; `request_epoch` is documented to tell
   them apart and never used.

Observations, modelled as the code has them and not counted as findings:

- Only `codec_token_only` asks whether a pair broke; the streaming callback does not,
  and the failure records of streamed pairs are never taken.
- `observe` returns before comparing prefixes when the new list has the length of the
  old one, so a rewritten output of the same length is accepted (`Contradicts`).
- Continuations are selected oldest first but admitted in queue order, so a filler
  ahead of the oldest in the queue may take the last slot from it (the exception in
  `OldestTurn`).
- A positive weight so small that 1 + weight rounds to 1.0 gives the row the
  conditional role but no companion: it is forced to its end and refused (the last
  conjunct of `AcceptedServable` names the exception, kind `weight = 1` of `request`).
- `validate_generation` counts the end token, so an utterance that is nothing but an
  end is served when its text is short.
- A row that starts in a step in which a preempted row is computed again without
  its item is given no voice for the rest of its life, since the counts of items and
  rows differ (the exception in `VoiceStays`).
- The processor looks a clip up under the hash of its own samples and rate and `encode`
  stores it under that of the resampled ones: a clip at another rate than 24 kHz is
  encoded anew every time (the keys of `ConditioningCache`).
- `validate` looks only at the format of a clip. The processor encodes it, and `encode`
  refuses one that is empty, not finite, too long or under a second: an accepted request
  may end in an exception (the exception in `AcceptedServable`, the clip `unusable`).
- The reference goes out with the first payload only. If stage 0's output has none when it
  is built, stage 1 refuses every code of the stream and the client hears nothing, while
  stage 0 goes on cutting rungs (`Voiceless`, the exception in `LaddersAgree` and `Heard`).
- On the completed-clause path a row without a voice beside rows with one carries empty
  tensors. `codec_token_only` takes them for a reference (only an output without any is
  refused), and stage 1 renders silence: the phase `silent` of `SpeechRequest`. An utterance
  with no codec token in it ends there too. What the server makes of empty audio is outside
  the repository.
- The guard of `decode_batch` against too few codes spares finals. `constants.py` 126-132
  and the test of the vocoder floor in `test_gate_e_streaming.py` say that one code makes
  the vocoder raise and takes the engine down, and an utterance of one code reaches it as a
  final; an earlier note in `progress.md` has such requests returning 0.04 s of audio. The
  models take either outcome: `DecodeRaises` of `AcousticStream` and `AcousticBatch`,
  `Rendered` of `SpeechRequest`, and the exceptions in `AcceptedDecodes` and `Heard`.
- A row that brings no audio seed uses seed 0: the branch of
  `derive_seed` that falls back on the request id is never taken (`Generator`).
- `PCMCommitter`, `take_chunk` and `take_prefix` have no caller but tests. The same goes
  for the cache's leases (`acquire`, `acquire_or_put`, `release`): the processor calls
  `get` and `put` only, so in production nothing is leased and eviction is plain LRU.

## Proofs

Eight modules hold theorems. Each proves them for every value of the constants that
its module's assumptions admit; the argument is an inductive invariant, taken
through `Next` action by action, and what the model's operators compute, as lemmas.

`AcousticStream_proofs`: `TypeCorrect`, `StreamsInvariant`, and as its consequences
`SamplesOnce`, `NoGap`, `WholeAtClose` and `BoundedLag`.
`ExactlyOnce` is not inductive: whether the next segment starts where the last one
ended depends on where the window starts, on how much the last decode held back and
on whether it rendered anything. `StreamInv` says that the schedule of an open stream
is ahead of its last decode (`ScheduleInv`), that what is committed is what was
sent, and that it lags the last decode by *exactly* the lookahead and a
crossfade as soon as a decode had codes enough to render (`EmitterInv`). The margin
assumption then gives `WindowReachesBack`: the window of the next rung starts no later
than the last committed sample, so the gap branch is dead and the slice begins where
the previous ended (`RungJoins`, `SentJoins`). The final decode starts at 0 and is
cut at `FinalSampleLimit`, which is never below what was committed
(`FinalLength`). That a released stream leaves no codes, tail or noise bank behind is a
part of the invariant: without it the next request of its id would not start at its own
first sample. The margin assumption is necessary: with a window that is not
widened the `acoustic` run finds the gap.
`NoiseDrawnOnce` adds a hypothesis on the sizes, `OneUnit`: the prompt and the codes of
an utterance fit in one unit of the noise bank (deployed 250 + 1000 against a unit
of 4096). Without it a bank is drawn again, longer, under a stream that has begun.
`StreamsImplementLedger`, for ids used once (`OneLife`): a step that sends a segment sends one that starts at the end
of what was heard, because `ExactlyOnce` holds after the step, and the step that closes
a stream seals it, because `CompleteAtClose` does. The one thing the streams'
invariant does not say, that an open stream has had no final decode, is an
invariant of its own (`OpenUndecoded`).

`AcousticStage_proofs` on the scheduler: `SchedulerInvariant`, `SlotsSuffice`,
`ExecutionsHomogeneous`, `WorkConserved`, `TurnsOldestFirst`. The invariant is that every
request is in one place, once (queue, list or parked), and that the slots suffice;
the second needs the first, because a stream that came back twice would be counted
twice. Admission is the step that matters: the places taken before the last one leave a
slot for it, so all of them fit (`TakenFit`). The other three are about the choice in
one state. `Ahead` is a strict total order of the ready streams (`AheadOrder`), so a
finite set of them has a first and a last (`FirstExists`, `LastExists`, by counting who is
ahead of whom), and the first n of them are at most n and hold the first (`FirstFew`).
Work is conserved because what is ranked can be admitted: the first candidate of the queue
finds the slot that ranking asked for (`FirstTaken`). The oldest continuation goes
unless a candidate is refused, and then the places taken fill the slots exactly
(`RefusedFull`).

`AcousticStage_proofs` on the ledger class: `CommitterInvariant`, `OneRun` and
`CommitterImplements` (for a positive grain and number of codes). The counters of the
committer are the end of its history, never past the crop.

`CodecTransport_proofs`: `EndsInvariant` relates the payloads on the wire to the life of
the cursor: an end on the wire is the last payload and its cursor is gone.
`DataInvariant`, and from it `PublishedOnce`, `FinalCarries` and `RungsAreExact`, is about
the codes themselves: a cursor has seen a beginning of the row's output, what it holds are
the codes of that beginning up to its EOS, less those taken, and `published`, the history
of what left it, is what the payloads on the wire carry one after the other. A filtered
list (`CodesOf`) is the list of the members at the places kept, the k-th of them at rank
k; that ranks are 1, 2, ... each once (`Ranks`) and that the places of a concatenation are
those of its parts, moved (`PickedConcat`), is counting and needs no induction over lists.

`StreamPipeline_proofs`: `PathInvariant`, and `WholeUtteranceIsHeard`, `LaddersStayInStep`
and `PathImplementsLedger`. Every step of the path is a step of each stage or leaves it
alone, so what is proved of the stages holds on the path (`ProducerInv`, and the
invariants of stage 1). `LinkInv` ties them: if the first payload had no reference stage 1
holds nothing; if it had, stage 1 holds exactly the codes of the payloads delivered, its
last decode is the last of them, and it waits for the rung stage 0 cuts next. `Tally` is
the running count of the codes of the payloads. Both stages compute the ladder from the
same numbers, so they agree after each payload if they agreed before it; that a code is
never behind an end on the wire comes from `EndsInvariant`, and that the last payload
closes the stream from `FinalCarriesCode`.

`CFGPairing_proofs`: `GuidanceInvariant`, and `Follows`, `InLockstep`, `Guarded`,
`Recording`, `NeverServed`. Lockstep cannot be shown on its own: two rows agree
because the sampler copies the token, which it does because the pairs are those of
the batch, unless they are marked stale, in which case they are rebuilt before the
copy; and a pair that lost a row agrees because it was stopped, which is on
record, so that it is never served. The invariant is the conjunction of all five.
`OwnTokens` is false in general (finding 1), and the proofs say exactly where:
`GuidedServedOwn`, a guided caller is given its own tokens whoever else is there, and
`CallersServedOwn`, everyone is if at most one caller is unguided (`OneCaller`).

`ConditioningCache_proofs`: `CacheInvariant`, and `Own`, `Stays`, `Counted`, `Overshoot`,
`Oldest`. The LRU is a set of entries and an order of their keys (`older`). The
invariant says that a key has one entry, that the order is a strict total one of exactly the keys
present, that every entry and every voice a thread holds is that of a clip, made
from its samples at the model's rate, and that the leases of a key are as many as the threads
that hold it. What `_evict_locked` drops is said by counting: an idle entry goes if its
place among the idle ones is within the excess (`VictimsAre`), so those that stay and
are idle are newer, and the bound is passed only when all that are left are leased.

`Stage0Batch_proofs`: `VoicesInvariant`, `Own`, `Stays`. The references of a step are
given out by rank among the prefilling rows, when there are as many items as rows. That
ranks are injective (`RankInjective` and what follows from it, an induction-free argument
on cardinalities) makes the k-th item that of the k-th row.
`LayoutInvariant` and `LayoutIsAsDefined` follow one forward pass over the flat batch. The
invariant is that a running row has the embeddings of all its positions but that of its
last token, and a row that was preempted none. The arrays of a step are the rows'
parts joined, and a flat index is a row and a place in its part
(`ChunksAt`, for token ids, positions and mask alike). The mask has one run of
conditioning places for every prefilling row, so counting it gives the item of the row
(`MaskCount`, `MaskRank`), cut to the row's own prompt length however the
items were padded (`CutOwn`). Then a prefilling row is given the canonical prefill of its request,
and a decoding row the embedding of its last token at its position (`ForwardedRow`).
The joins need induction over the number of rows, which is stated of a set of numbers: one that
has 0, and n + 1 with each n, has them all, since otherwise there is a least one missing
(`AllOfNat`).

`SpeechRequest_proofs`: `RequestsInvariant`, `Servable`, `Whole`. The invariant carries
what `validate` established through the stages, so that the processor finds nothing new
to refuse but a clip it cannot encode (`ProcessorPasses`), says what the last token is for
each finish reason, and that a pair whose end was forced is on record until it is
judged, whatever lists the hand-over is called with.

`AcousticStage_proofs` on an execution: `BatchInvariant`, `OnlyShortFinalsRaise`,
`GroupsStayCapped`, `DecodedAsAlone` and `RungsStayWarm`. A group is the set of its rows'
places, and which slice of its key it is follows from the ranks of its rows, so that the
groups share no row and cover every job (`GroupsAre`) and are never longer than
`max_batch_rows` (`SliceFew`: ranks are distinct, and a slice has that many) are facts
about counting. The invariant (`BatchInv`) is that the groups left are of one key, share
no row and hold only rows that were let through (`GroupsInv`), and that the graph cache holds
the warm shapes within its bound (`Kept`). `AcceptedDecodes` follows: the two tests
that raise are the two things that `batch_key` and `_reference_from_payload` established,
so what is left is a final of too few codes.
`AsAlone` speaks of the end of an execution and needs what holds on the way: a
row whose group is still to come is silent, every other has the audio it would have
alone (`OutInv`). The step is in three parts. A pass over a graph renders the arguments it is
given, whatever the graph held before (`RunGraphRenders`). The rows of a group have
one width, so nobody is padded. And the vocoder gives each row its own slice, in
one pass or one after the other, by induction over the passes (`AllOfNat`). The theorem
assumes that `Ragged` is off, its default: with it rows of unlike length share a pass and are
padded, as the code says itself. `BatchAssumption` has that only the window of a
non-final stream starts past its beginning, which is how `_forward_s3gen` makes its
requests (`window` stays 0 when `is_final`).
For `RungsWarm`, the warm-up and stage 1 count the same ladder in two ways, one by the
length reached and the block to come, one by the next decode and the last block; both are
recursive functions, and by induction over the rungs they agree. What is left is
whether the warm-up stops too soon: it stops once it has reached four of the
largest blocks, so the theorem assumes that the longest captured row is no longer
(`LadderInside`; deployed 75 against 400). It also stops after twelve rungs, and the
property says nothing of a stream's thirteenth, which on the deployed ladder is long
past what may be captured. That the shapes fit is `WarmAssumption`. Since the cache never
drops a graph, they stay.

Only model-checked: liveness (`TerminalReached`, `Heard`, `RunningServed`, `Answered`),
which the prover cannot do.

## Not modelled

- The networks, the vendored code, the transformer, audio loading and hashing, the
  watermark beyond a flag: numerical.
- Logits and penalties: their effect is "a row draws a token". Non-finite logits raise
  out of `apply` and end the step for every caller (listed as a hazard).
- A decode that raises for reasons of the network: the schedule of its whole batch is
  then a rung ahead of what was sent (listed as a hazard).
- Normalisation and tokenisation of text; discovery of voices and languages; sampling
  temperatures.
- The id schemes of the engine: the finished id and the payload's `req_id` are one.
- Token budget and block allocation of the scheduler: see the abstractions above.
- `codec_full_payload`, which keeps no state and forwards the reference; `take_chunk`
  and `take_prefix` of CodecCursor, which tests alone call.
- Loading of weights, the pipeline description and its configuration: declarations,
  whose numbers are constants here.
- The port's tools, tests and benchmarks.

## Plan

What is worth adding, most useful first: `AcousticScheduler` composed with
`AcousticStream`, so that a parked stream and its buffered codes are one;
`CFGPairing` over `CodecTransport`, with the failure set between them, once the
streaming path takes failures; the token budget, should a deployment make it smaller
than what its streams may ask for.

# mlx-llm in TLA+

Specifications of `mlx-llm`, a Rust library that runs language models on Apple's MLX arrays, with
model-checking configurations and machine-checked proofs. Paths are relative to the repository
root (`src/src/...` is the library, `src/server/src/...` the HTTP server).

Run a check with `tlc -workers 2 -config MCPagedKv.cfg MCPagedKv.tla`, a proof with
`tlapm PagedKvProofs.tla`. `PROJECT.json` lists the runs, the theorems, the source lines each
definition stands for and, for every checked property, a mutation of the model that breaks it.

## 1. The system

The library loads a snapshot (safetensors, or a GGUF file it converts), builds a decoder and runs
one of several generation engines over it. The *caller* owns a `CancelFlag`, passes an `on_event`
callback, and gets `Token` events followed by one `Done` event and an output. Everything runs on
the caller's thread; MLX arrays are not `Send`. What other threads can do is set a `CancelFlag`.
So the concurrency of the system is: a flag that changes between any two steps of an engine, a
callback that may set it from inside a step, several sequences interleaved by one engine, a
client of the server that can go away, and a process that can end while it writes a snapshot.

`core-llm`, a separate crate that is not in this tree, supplies `Scheduler` (the request
table of a batch), `BlockAllocator`, `PrefixIndex`, `ngram_propose`, the text segmenters and the
tokenizer. They are modelled from the way this repository uses them.

| part | state it keeps | operations | properties that make it correct |
|---|---|---|---|
| Contiguous KV cache, `primitives/kv_cache.rs` | keys and values per layer | update, truncate, reset, retain_sequences, seeded | it is the contract itself: every position of every layer, in order |
| Paged KV cache, `primitives/paged_kv_cache.rs` | block pool (ids, counts, tensors); per cache a block table, a contiguous copy, a tail | update per layer, freeze, truncate, reset, share a prefix, seed, drop | counts equal references; a shared block never changes; same contents as a contiguous cache |
| Decode loop, `decode/stream.rs` | cache, last token, count | prefill, step, stop, cancel | the output is the model's stream up to the first stop, budget or cancel; the reason says which |
| Prefix cache, `decode/prefix.rs` | an index of token sequences and their keys and values | seed_for, store, generate_cached | a cached run equals a cold one; tensors are bounded and match their key |
| Continuous batching, `decode/continuous.rs` | queue, lanes, scheduler, caches | fill slots, step, retire, refill, cancel | every request gets its own stream and one Done; slots do not idle; cancel is prompt |
| Lockstep batching, `decode/batch.rs` | padded rows, masks, positions, lanes | prefill, step, retire, compact, cancel | row *i* is lane *i*'s through every compaction |
| Speculative decoding, `decode/speculative.rs` | target and draft caches, history, drafts | propose, verify, roll back, commit | same output as plain decoding; caches in step; no accepted token lost |
| Sampler, `primitives/sampler.rs` | random state | mask, penalty, top-k, top-p, draw | what is drawn is allowed, by the shaped distribution |
| Llama-family decoder, `models/llama.rs`, `primitives/attention.rs`, `primitives/rope.rs` | weights, a KV cache per sequence | forward over text or embeddings, per-sequence step | a cached forward equals one over everything; lanes do not mix |
| Hybrid decoder, `models/qwen35.rs`, `primitives/gated_delta.rs` | weights; convolution tail and recurrent state per linear layer | forward | the same |
| Vision towers, `image.rs`, `models/qwen35_vision.rs`, `models/siglip.rs` | weights | resize, patch, encode, merge | patch, position and attention group of a row belong together |
| Multimodal prompt, `provider.rs`, `models/deepstack.rs` | ids, grids, feature rows, positions | expand, encode, splice, shift | every placeholder takes the feature of its own block, positions go on from it |
| Text provider, `provider.rs` | detokenizer offset, segmenter tails, stop matcher | per-token sink, tails, result | no text after a stop string; events concatenate to the output |
| JoyCaption, `joycaption.rs` | its own loop and cache | expand image tokens, generate | one feature per image token; same loop contract |
| Server, `server/src/*.rs` | the connection being served | parse, chat, stream | a disconnect cancels; every reply is well terminated |
| Configuration and loading, `config.rs`, `provider.rs`, `primitives/weights.rs`, `primitives/projection.rs` | none | dispatch, parse, pick tensors, load | every tensor in the slot it belongs to, packed or dense, or an error |
| Preparation, `prepare.rs`, `snapshot.rs` | the files of the output directory | convert or re-write, file by file | what is loaded afterwards is the source; an interrupted write serves nothing else |
| GGUF import, `gguf/*.rs` | a byte cursor, tensor table | parse, slice, dequantize, remap, permute, rebuild the tokenizer | nothing outside the file is read; every stored bit is used once; the permutation is inverted exactly |

How they interact: an engine owns the KV caches and calls the decoder, which calls
`KvCache::update` once per layer in layer order and reads `offset()` before the first one;
`forward_per_seq` steps several caches through a layer before the next layer. Engines of a batch
keep their requests in the external scheduler and tell their caller through `on_event`. The
provider wraps the decode loop's events into text; the server wraps the provider's. Before the
first token the provider encodes images and videos, splices their features over the placeholders and
hands the decoder positions of its own. Preparation hands a directory to loading and nothing else:
what is not in its files is lost.

The behaviours that are hard to test are listed in `PROJECT.json` under `hazards`, each at its line.
They are of seven kinds: *reference counting over long mixes of calls* (the block pool), *indices
that must move together* (lanes, rows, caches, drafts; placeholders, features, positions), *coincidences of
finish conditions* (stop, budget, cancel and retirement on one step), *a cancel at any point*, *keys that
say more than the stored data has* (the prefix cache), *state carried from one forward to the next* (keys, the
convolution's tail, the recurrent state), and *layouts written by one piece of code and read by another*
(patch order, GGUF blocks and rows, the files of a snapshot).

## 2. Modules

| module | models | composes |
|---|---|---|
| `ContiguousKv` | `kv_cache.rs`; the contract of the `KvCache` trait | |
| `PagedKv` | `paged_kv_cache.rs`, the pool and any number of caches | implements `ContiguousKv` |
| `Generation` | what every engine promises, one request at a time | |
| `DecodeLoop` | `decode_loop` of `stream.rs` and the beginning of a call | implements `Generation` |
| `PrefixReuse` | `prefix.rs`, `generate_with`, `generate_with_cache` | extends `DecodeLoop` |
| `Recording` | `record_token` / `apply_token`, the scheduler, the events | |
| `Continuous` | `continuous.rs` | extends `Recording`, implements `Generation` |
| `BatchDecode` | `batch.rs` and `retain_sequences` of `kv_cache.rs` | extends `Recording`, implements `Generation` |
| `Speculative` | `speculative.rs` | implements `Generation` |
| `TextPipeline` | `LlamaProvider::generate` of `provider.rs`, from token ids to text | |
| `WholeText` | what one pass over a whole text makes of it, the reference for `TextPipeline` | extends `TextPipeline` |
| `ChatServer` | `server/src/main.rs`, and programs that call the provider directly | extends `TextPipeline` |
| `ModelConfig` | `config.rs`, `Qwen35Config`, the probes of both providers | |
| `Loading` | `weights.rs`, `projection.rs`, the constructors of both decoders, `LlamaProvider::load` | extends `ModelConfig` |
| `GgufBlocks` | the block layouts of `gguf/dequant.rs` | |
| `GgufReader` | `gguf/reader.rs` | extends `ModelConfig`, `GgufBlocks` |
| `GgufConvert` | `gguf/convert.rs`, `gguf/tokenizer.rs` | extends `Loading`, `GgufReader` |
| `Snapshot` | `prepare.rs`, `snapshot.rs`: the writes, one file after the other | extends `GgufConvert` |
| `Decoder` | a forward of `llama.rs` and of `qwen35.rs`, attention, RoPE, `gated_delta.rs` | extends `ModelConfig` |
| `Sampler` | `sampler.rs` | |
| `Vision` | `image.rs`, `qwen35_vision.rs`, `siglip.rs` | extends `ModelConfig` |
| `Multimodal` | `prepare_multimodal`, `deepstack.rs`, `build_inputs` of `joycaption.rs` | extends `Vision`, `Decoder` |
| `VlmGenerate` | one generation of either provider, from the conversation to the last token | extends `Multimodal`, `Sampler` |
| `PagedKvProofs`, `PrefixReuseProofs`, `SpeculativeProofs`, `ContinuousProofs`, `BatchDecodeProofs`, `ChatServerProofs`, `VlmGenerateProofs`, `SnapshotProofs` | theorems and their proofs | each extends the module it is about |
| `MC*` | instances for TLC | |

### Abstractions they share

*The model is a function of its context* (in the engines). `stream[r]` is what the weights, the sampler settings
and the seed of request *r* say together, position by position. A forward pass yields the next
token of that stream exactly if the KV cache holds the prompt and the tokens before it, and the
token `Junk` otherwise. So an engine that feeds a token twice, feeds another lane's token or reads a
stale cache says `Junk`, and the refinement to `Generation` fails. What this assumes of the tensor
code is causality: a position depends on the tokens before it and nothing else; `Decoder` is where that
is looked at. Kernels may round differently for different batch shapes; this is not modelled, and the repository's
own tests compare logits with a tolerance.

*A KV cache is the sequence of tokens it was computed from* in the engines; in `BatchDecode` a
position also carries the RoPE position it was computed at and left padding is visible; in `PagedKv`
the tensors are the state itself.

*No number is computed* (in the decoders, the towers and the weights). A hidden row is its input and, for each layer it
has been through, everything that went into what the layer added: the keys it attended to with the positions
they were turned by, the convolution's window, the experts it was routed to. A feature row is the patches
that went into it with their positions; a tensor is the model and key it comes from and what was done to it.
Two rows that are equal are computed from the same inputs by the same operations; two that are
not could only agree by chance. So a key from another lane, a position off by one or a tensor in the wrong slot is visible,
and a wrong formula is not.

*The environment is free.* A cancel is an action enabled between any two steps of the engine, which
covers other threads and `on_event`, since a callback runs between two of the modelled steps. A
forward or a sample may return an error wherever the code has a `?`. A write may be cut off at any file and inside it.

### Correspondence

`PagedKv`: `refs` and `minted` are the allocator, `bytes` is `BlockPool::blocks`, `ids`, `frozen`,
`tail`, `tailLen` are the fields of `PagedKvCache` (`frozen_k`/`frozen_v` move together, so one
sequence stands for both). `Update` is one call of `update` for one layer, split by whether a
block fills up (`UpdateFreeze`) or not (`UpdateTail`); `Truncate` by whether the cut is in the tail or
in a block. `offer` is what a caller of `shareable_prefix_blocks` holds: ids without a reference.
`StaleOffers` says whether a caller may still use them after one of them was freed. The run has it `FALSE`; with
`TRUE`, `UnbuiltBlocksMaterialized` fails: if the cache the ids came from truncates or drops and they are minted again for
a block that is not materialized, `new_seeded` adopts a live but empty block and the first `update` fails
the `assert!` of `ensure_frozen`. No caller in the tree holds ids that long.

`DecodeLoop`/`PrefixReuse`: one action per branch of the loop, in its order; calls follow each other
so that the prefix cache has a past. `Hit` and `Miss` are `seed_for`, `Store` is the tail of
`generate_cached`. `Garbage` is what a gather past the end of a tensor reads.

`Continuous`: `pc` is the place in `generate_continuous`: the fill loop (`admit`), the top of the
decode loop (`decode`), the recording of each lane (`record`) and the signalling after a cancel
(`cancelled`). Exact and Throughput modes are one action, `StepLogits`: either gives each lane the
logits of its own cache; that the second one does is `BatchedEqualsAlone` of `VlmGenerate`, a theorem.

`BatchDecode`: `rows` is the batched cache, `keep` the survivors' row numbers, `Compacted` the
compaction with its two conditions. `RowLogits` reads a row through its lane's mask and positions.

`Speculative`: `Propose`, `Verify`, then one `CommitStop`/`CommitToken` per committed token, so that
a cancel can arrive in the middle of an accepted run. A sampled run (`greedy = FALSE`) may
accept any prefix of the drafts and draw any token.

`TextPipeline`: text is a sequence of bytes, so that a token may end anywhere in a character, a marker or
a stop string. `pipe` holds what each stage keeps back (the segmenters' and the matcher's buffers); `Segment`,
`ToolPieces` and `EmitContent` are the sink's three stages, each a function of the pipe and one byte, and `Flushed` the
tails. The segmenters and the matcher are `core-llm`'s and are modelled from their use: they give out all
they were given but the longest end that could begin a marker. The decode loop is `DecodeLoop`'s, reduced to what the
text depends on: a piece of text per token, a stop token, the budget, an error, the flag. How many events one token's text
makes is left out (`pipe.out` is all of it); the contract's token index is not modelled.

`ChatServer`: `conn` is the place of the one thread in `handle_connection`; a streamed event writes what it is
given, and a write may fail, or be swallowed by the socket's buffer, once the client is gone
(`Writes`). `conn = "library"` is a direct caller, who may offer tools and may cancel from another thread,
which the server cannot. Parsing is left out: a request is a streamed chat, a whole one, or
`other`. A streamed reply carries the text of both channels, as the sink does not look at `channel`; a whole reply
carries the answer only. `WholeReply` says so.

`ModelConfig`, `Loading`: pure operators. A JSON object is a function from keys to values, a weights file one from keys to
tensors, a directory one from file names to contents. `FromConfig` is `Architecture::from_config` with its order of
substring tests; `ModelFromJson` and `Qwen35FromJson` say which fields are read from where; `LlamaLoad` is
`LlamaProvider::load`, with one slot per tensor of the decoder it builds. A file that was only partly written does not parse
(a truncated safetensors file is rejected by its header: this is assumed of the external crate).

`GgufReader`, `GgufBlocks`, `GgufConvert`: `Parse` counts the bytes of header, metadata and tensor infos, so that the
data section begins where the code puts it; `Span` is the bounds check of `tensor_data`. A layout of `GgufBlocks`
gives, for every element, the bits of each of its fields; what is then computed from them, and the codebooks of
`iq_grids.rs`, are left out. `Convert` is `convert` with the remapped keys, `PermuteInverse` row by row, the rebuilt
`config.json`, and the two tokenizer files. Lengths are small numbers: the wrap-around of a 64-bit length that a file
could claim is not modelled.

`Snapshot`: `dir` is the output directory and outlives everything; `job` the files still to write, in
`write_snapshot`'s order. `BeginFile` creates or empties a file, `EndFile` completes it, `Interrupt` is the end of the
process or a failed write, `Report` is `Ok`. Preparing again into the same directory starts from what is there.
Writing over the source itself is left out.

`Vision`, `Multimodal`, `Decoder`, `Sampler`, `VlmGenerate`: the operators bear the names of the functions they stand for.
`EncodeNext` is one turn of the loop over images and videos, `Place` the rest of `prepare_multimodal`, `PrefillText` a
forward over any part of a text prompt at the offset of its first token (a seeded prefix, a verify pass), `Decode`
one turn of either decode loop: sample any of a few logits with any of a few draws, stop, or feed back at the offset plus
the delta of the prompt. A token is a word, not an id; a picture is its size and the length of its buffer; the generator
is any draw of a small set. A cancel is left to `DecodeLoop`.

## 3. Runs

| run | asks | instance | distinct states |
|---|---|---|---|
| `paged` | counts, sharing, layer agreement, refinement of `ContiguousKv` | 2 caches, 2 layers, 3 ids, blocks of 2, up to 4 positions | 55,878 (symmetry) |
| `continuous` | one place per request, one Done, lanes, slots, cancel, termination, refinement | 5 requests over 2 slots, two of budget zero | 53,370 |
| `continuous_queue_cancel` | finding 1 | the same | violation |
| `batch` | rows follow lanes, one Done, termination, refinement | 4 requests, three prompt lengths, one of budget zero | 31,536 |
| `prefix` | keys and values belong to their keys, bounds, cached equals cold | 3 of 5 calls over a capacity of 2 | 112,280 |
| `prefix_budget` | finding 2 | a first turn that spends its budget and a second that continues it | violation |
| `speculative` | caches in step, nothing wasted, cancel, termination, refinement | budgets 5, 1, 0; two drafts a step; both drafters, greedy and sampled | 57,552 |
| `chat_server` | one pass over the whole text, whole replies, cancel on disconnect, the engine freed | seven texts cut in every way, five setups | 136,465 |
| `chat_split_symbol` | finding 3 | three texts of characters of 1 to 4 bytes | violation |
| `vlm` | placeholders, features, positions, caches, lanes, refusals, sampling | conversations with and without images and videos, five decoders | 1,285 |
| `snapshot` | what is served after a preparation, after two, after an interruption; every stored bit used once | 16 requests over safetensors models and four GGUF files, up to two preparations | 13,735 |
| `snapshot_reload` | finding 4 | Qwen3-VL, Qwen3.5 and Qwen2, dense or quantized | violation |

**Why the bounds are enough.** *Paged*: two caches suffice for every sharing conflict because a
conflict is between two holders; two layers separate "the last layer" from the others;
a block of two has an interior cut; a chunk of three from a tail of one fills two blocks at once;
three ids with two caches of up to two blocks force reuse of freed ids. Symmetry is over cache
handles, used by safety properties and a safety refinement only. *Continuous*: five requests over two
slots give refills, a refill with a request of budget zero, a retirement at the first token, and a
queue behind them; streams range over all choices of stop or text at each position. *Batch*: three
prompt lengths give two paddings, and several retirements in different rows and steps give repeated
compactions. *Prefix*: capacity two and three calls give an eviction; a shared part of two stored
sequences gives a tie. *Speculative*: a budget of five with two drafts gives none, one or both
accepted, a cap cut by the budget, and a stop inside an accepted run. *Chat server*: all markers begin alike, so that
every stage has something to hold back at every cut; the texts have a marker after a false start, a block that
never closes, a marker of one stage inside a block of another, and stop strings before, across and after markers. A call is
cut short by an error or a cancel at every token, so every prefix of every text is tried too. No stop string is part of another:
which of two would win is `core-llm`'s to say.

*Vlm*: a picture of up to 16 patches merged two by two has several rows and columns of merge blocks, and pictures of
odd shapes are resized by both limits; conversations mix images, videos and text over several turns in either order;
two decoder layers separate a layer from the one above it, with each kind of mixer (grouped-query, latent, delta rule with
a convolution of three, gated attention) and routed experts beside dense ones; prefills are cut at every point;
prompts are longer than the two queries one fused call serves, so that prefills attend in chunks, the last one short or not,
with and without a cached prefix; one decoder has a soft cap and attends eagerly. Up to three tokens are sampled
from any of three logits and three draws (zero is one) under eight settings of the sampler, so that tokens repeat inside the
penalty window; no placeholder is among them (`GeneratedIsText`, section 4). Each kind of refusal has a conversation. *Snapshot*: hidden sizes of 256 let every block type
occur, K-quants included; one model is sharded; the GGUF files cover both tokenizers (SPM and BPE), the head permutation, an alignment other than the
default, all IQ types, a tokenizer that is refused and a file one byte short. Two preparations into one
directory suffice for a conflict between old and new files; each may be interrupted before, at and inside any file.

`prefix` keeps to prompts that never reach the one position finding 2 is about, so that its
properties say what the cache does otherwise; `prefix_budget` shows what happens when they do.
`KvBelongsToKey` states the gap exactly: what is stored is short of its key by at most one token.
Likewise `snapshot` does not quantize the vision-language model of finding 4.

**Deadlock.** `CHECK_DEADLOCK FALSE` is set where a call returns and nothing follows
(the engines, `vlm`, and `snapshot`, once no attempt is left), and in `chat_split_symbol`, where a panic ends the
program. The pool never stops and the server always accepts again; their runs check deadlock.

**Fairness.** Weak fairness of the engine's own steps (`Engine` in `Continuous` and `BatchDecode`,
`Step` in `Speculative`): the call runs on its caller's thread, takes no lock and waits for
nobody, so it goes on as long as the thread is scheduled and a forward pass ends. The cancel, a step of
the environment, has no fairness: `Terminates` does not rely on it. `ChatServer`: weak fairness of what the thread does
without its peer (`Serve`), and of a write once the peer is gone, since the kernel then ends it; a present peer may
never send, read or leave, and the code has no timeout against that. Hence `EngineFreed` says what happens when a
client goes, not that a connection ends. The other modules state safety only, and no fairness.

## 4. What is proved

TLAPS checks the proof modules without assumptions other than the `ASSUME`s of the modules they
extend (constants have the right types; caches and requests are finite).

**`PagedKvProofs`: `SpecRefcountsExact`**, `Spec => []RefcountsExact`, for any number of caches, layers
and ids and any block size. The count of an id alone is not inductive: a freeze gives a count of one
to an id and needs that no table names it yet; a truncate takes one from each dropped id and needs
that a table names an id once; a minted id must be one no table can name. The
inductive invariant `PoolInv` is `PoolType` (the tables and counts are well typed, which needs nothing of the
tensors), `TablesDistinct`, `DeadHoldNothing`, `CountedAreMinted` and `RefcountsExact`. Three
lemmas say how the set of holders of an id changes when one table changes, and each action is an
instance of one of them; the remaining arithmetic is that the cardinality of a finite set moves by one.

The other theorems about `PagedKv` hold for the same constants under `~StaleOffers`: a caller does not seed from ids it
was offered after one of those blocks was freed. The code leaves this to the caller (the ids carry no reference), and
without it a recycled id is adopted for what it used to hold. Each invariant needs those before it:

- `SharingInv`: any two tables agree up to a block both name, an offer agrees with every table in
  the same way, and its ids are still allocated. The last part is what keeps a new block from having an id that is
  on offer. Hence `SpecSharedOnlyAsPrefix`.
- `LayerInv`: a layer's contiguous copy is whole or was never built, and then the pool has each of
  its blocks; its tail has `tailLen` positions, and the running chunk too if the pass has been through it. A block is
  published with a slice of every layer, so it is materialized for all of them or for none. Hence
  `SpecUnbuiltBlocksMaterialized` (the `assert!` of `ensure_frozen`) and `SpecLayersInStep`.
- `BytesInv`: each holder's copy has, at the place of a materialized block, the bytes of the pool.
  Publishing writes them; it cannot disagree with a second holder, since a block two tables name has been
  published before (`SharedMaterialized`). Hence `SpecSharedBytesIntact`.
- `LengthInv`: no cache outgrows the bound, the running pass included.

**`PagedKvProofs`: `PagedImplementsContiguous`**, `Spec => ContiguousSpec`, from these five. For each action lemmas say
what `gather` returns after it, layer by layer: freezing moves positions from the tail to the copy, rolling back cuts the
copy and turns the rest of a block into a tail again, publishing changes nothing. The hard case is `NewSeeded`: the
contiguous specification copies a prefix of a *live* cache. `Donor` finds one that still holds the whole offer, because an
offered block has a holder, tables agree with the offer, and the holder of its last block therefore holds the rest.

**`SpeculativeProofs`**, for any vocabulary, model, proposals, budgets and number of drafts. The
invariant `SpecInv` is a conjunction of named parts: `CallType` (the call's parameters), `HistoryInv`
(the history is the prompt, then the tokens of the events), `CachesInv` (what each cache holds at
each place of the call), `DraftInv` (the drafts and the committed tokens fit the budget), `CountInv`
(forwards and accepted drafts account for every token, committed or still to be), `LateInv` (after a
cancel at most the tokens of the step under way stream), `GreedyInv` (what a greedy call has
committed or is about to is the model's stream) and `DoneInv` (a call ends once). From it:

- `SpecTypeOK`, `SpecCachesInStep`, `SpecNothingWasted`, `SpecCancelWithinOneStep`: the safety
  invariants of the run;
- `SpecImplementsGeneration`, `Spec => GenerationSpec`: under the mapping `outBar`, `reasonBar`,
  `cancelBar`, every step of a greedy call is a step of `Generation` or a stutter. The hard case is
  `CommitToken`: `GreedyInv` says the token at the head of `committed` is the model's next one, though
  it was chosen by a verify pass several tokens earlier and from a context that held rejected drafts.

**`ContinuousProofs`**, for any requests, streams, prompts, budgets and number of slots. It begins, as `BatchDecodeProofs`
does, with lemmas on recording: how the set of requests in a list changes when one is appended or taken from the front,
what `EmitToken`, `EmitDone`, `StopHit`, `BudgetFilled` and `Continues` do to one request and to the others, and the step of
`Generation` each of them is. The invariant `ContInv`
has these parts. `PlacesInv`: a request is in at most one of the queue, the active lanes and the lanes still to
record, and once in each; without it, a retirement could leave a second copy behind. `QueuedInv`: what is queued has
streamed nothing. `LiveInv`: a lane is open and has budget left, except that a lane with no budget may be among those
to record during the fill. `EndedInv`: what is in none of the lists has its one Done event, with the reason and tokens
the plain loop would give. `LanesInv`: a lane's cache is its prompt and its tokens but the last, or, between forward and
recording, all of them, with the logits of that context. `PhaseInv` ties these to the place in the function (the
slots are full or the queue is empty when the loop begins), and `LateInv` counts the tokens a lane streamed
after a cancel. `StreamInv` says that what a request has streamed is its model's stream. From it:

- `ContinuousTypeCorrect`, `EveryRequestInOnePlace`, `DoneAgreesWithOutput`, `LanesKeepTheirCaches`, `BatchStaysFull`,
  `CancelIsPrompt`: every safety invariant of the run;
- `ContinuousImplementsGeneration`: every step of the batch is, for each request, a step of `Generation` for that
  request or a stutter. So batching, refilling and retiring are invisible to a request, whatever the others do.

**`BatchDecodeProofs`**, for any number of requests, any streams, prompts and budgets. The invariant `BatchInv` shares
the idea of `ContInv` for the requests (`PlacesInv`, `LiveInv`, `EndedInv`, `LateInv`, `StreamInv`) and adds `RowsInv` for
the batched cache. Between steps row *i* is the padding of the *i*-th lane followed by its tokens (`Fed`). That is not
inductive, since a step is recorded lane by lane: `RecordingRows` follows the rows through it. The first `Recorded`
rows are those of the lanes that were looked at, the rest belong, in order, to the lanes still in `todo`, `keep` names
a row already looked at for every surviving lane, and as long as every lane survived `keep` is the identity,
which is why leaving the rows alone is right when none retired. `Compacted` then gives every lane its own row back
(`KeptRows`). `FedRow` and `ReadRow` are the arithmetic: a token fed at `FeedPosition` extends what the row says by one
position, and the mask of a lane reads from its row what the lane was told, however wide the batch. From it:

- `RowsStayWithLanes` (`RowsFollowLanes`), `BatchTypeCorrect`, `BatchDoneAgrees`, `BatchCancelIsPrompt`: every safety
  invariant of the run;
- `BatchImplementsGeneration`: the same refinement as for continuous batching, so the two engines promise the same
  and neither shows a request the others of its batch.

**`PrefixReuseProofs`**, for any requests, vocabulary, model, prompts, budgets and capacity. `IndexInv` needs no condition:
the index names each stored sequence once, at most `Capacity` of them, and the tensors are those of exactly these
sequences; `Touch` and `Evict` are looked at as operations on a list without repetitions. Hence `SpecKvMatchesIndex`.

What a *seeded* call does depends on what earlier calls stored, so `ReuseInv` has three parts that need each other: `CallInv`
(what a request has streamed follows its model), `CacheInv` (at each place of the loop, which part of prompt and output
the cache holds: before a prefill a proper beginning of the prompt, in the loop all of it, at the end all but at most the last
token) and `KvBelongsToKey` (what the next call may find). It is inductive as long as `NoOverrun` holds: no prompt about to be
used continues the whole of a stored sequence that is short of its last token. That is exactly the case of finding 2, and
the theorems say that it is the only one. In the instance of run `prefix` `NoOverrun` holds in every state, with stored sequences
that are short and with a second turn that continues a first one. From it:

- `SpecKvBelongsToKey` and `SpecImplementsGeneration`, `Spec /\ []NoOverrun => ...`: reuse is invisible, token for token;
- `SingleTurnsImplementGeneration`: a condition on the prompts alone. If no prompt of the prefix cache is a proper beginning of
  another, `NoOverrun` always holds, since every stored sequence begins with a whole prompt (`StoredBegins`). So a shared system
  prompt or a few-shot preamble is always safe; it takes a conversation of several turns to meet the finding.

**`ChatServerProofs`**, for any markers, stop strings, texts and ways to cut them. A segmenter is a function on states of the
pipe, and a text goes through it byte by byte, by a recursive function. That such a function exists and stays in a set is
`Recursion` and `RecursionTyped` (by a least counterexample, on the library's well-foundedness of `<`); on them rest
the types of `EmitContent`, `ToolPieces`, `Segment` and `Flushed`, whatever they hold back (`CallInv`). `ServerInv` relates what the sink
has written to what the call has delivered: between two events they are equal, while an event is being taken they differ by
`pipe.out`, and from a failed write on the flag is set, the client is gone, and what was written is a beginning of what
was delivered. It says of each kind of request how its replies end. From it:

- `SpecWholeReply`: the safety invariant of the server;
- `SpecCancelDisconnects`, an action property: after a failed write no token is generated.

**`VlmGenerateProofs`**, for any decoder of either family (any number of layers, each with any of the four mixers, dense or routed
experts), any length of a fused chunk, any conversation, any cut of the prompt and any number of tokens, under `RequestsAssumption`,
`ModelsAssumption` and `GeometryAssumption` (lists are sequences, sizes of pictures, patches and strides are whole numbers, the
convolution and the learned grid have a width). What has to be shown is that running rows
in two parts over a cache gives what one run over all gives. Per layer (`LayerContinues`): a query sees the keys up to its own row, in
a fused chunk too; the tail of the convolution and the recurrent state carry over; experts are routed row by row. Over the
layers: `StackContinues`, by induction with `Climb`. The invariant `RunInv` then says that the cache and the last row are
those of one pass over the first `fed` rows of prompt and output, at every place of the loop, for a prompt of
text and for JoyCaption's, whose visual rows are spliced in at fixed places. For a prompt with images and videos `VisualInv`
says the same of `prefill_with_deepstack` over *recomputed* M-RoPE positions (`Running`), and that the delta of the prompt
is still the one of the rows run so far. That needs what `mrope_positions_mm` does to one text token more: its loop is
followed token by token (`WalkAt`), up to the last one, where it can stop nowhere but at the end (`WalkComesTo`), because the prompt as
`prepare_multimodal` expands it ends with text (`ExpandedEnds`) and `cur` is above every position given so far (`LaidOutOk`). Then
the token takes position `cur` on all three axes, which is the offset plus the delta (`MropeGoesOn`), and the same
channels are rotated as by a plain position (`SameOnEveryAxis`, `PrefillGoesOn`). From the two invariants and from the lemmas on the layers:

- `SpecCachedEqualsRecomputed`, `Spec => []((Multimodal => GeneratedIsText) => CachedEqualsRecomputed)`: chunked prefill and
  decoding over the cache are invisible to the logits, with visuals and without. `GeneratedIsText` says no placeholder
  token has been generated so far; without it the comparison means nothing, as one pass over such a prompt would look for a
  visual there, while the loop feeds the token as text;
- `SpecBatchedEqualsAlone`: a lane of a batched pass gets the row and the cache of a pass of its own (`LanesBeside`), whatever runs beside it.

A third theorem of the module is about what the tower computes for a visual:

- `SpecVisionRowsAgree`, `Spec => []VisionRowsAgree`. The processor, the position ids, the interpolation table and the mask each
  lay the same cells out on their own. That they agree is shown for a grid of any number of time steps, rows and
  columns of merged blocks: `OrderCells` and `PatchAt` give the n-th cell of the block order, `CutRows` says that the processor
  cuts the pixels in that order (`PixelsOf`, images and videos of any size, after any resize that gives whole blocks), `TablesAt`
  that the ids and the table follow it, `CornersMeet` that four corners weigh one together and average to the place of the
  cell, `AttendsOwn` that the cumulated lengths cut the rows exactly between two frames. `HiddenAgrees` and `MergedRows` carry this
  to the rows `encode` returns, and `VisionInv` (every row kept agrees with the visual it came from) to every state.

**`SnapshotProofs`**, for any sources, requests and number of attempts, interrupted anywhere. `SnapshotInv` says who wrote
what: every file that is whole holds what one accepted attempt wrote there (`StoredInv`), the files still to write are the end of the list
of the request's files and the others are in the directory (`JobInv`), and behind a report all of them are (`ReportInv`).
Two facts about the loader carry this to the model that is served. It reads only these four files, and the template file besides; a directory with one weights
file is merged into that file's tensors (`FromDirOfOne`). And two directories that agree on them load alike (`LoadedAlike`). From it:

- `SpecInterruptedServesNothingElse`, under `WholeServes`: what one undisturbed write of a request leaves in an empty directory
  serves its source. That is a fact about the conversion and not about crashes, and TLC checks it in run `snapshot`: after a first
  attempt that was not interrupted, the directory is `Whole(request)`. It does not hold of every source, as finding 4 shows.
- `SpecPreparedServesTheSource`, under `WholeServes` and `SourcesHoldTokenizers`: a report means that no files of earlier attempts,
  of this or of another model, show. The second hypothesis is needed, because a tokenizer file the source lacks is not written and
  that of an older snapshot stays; `MCSnapshot` states it of its sources as an assumption.

**Only model-checked**: liveness (`Terminates`, `EngineFreed`). `StreamedAsOneText`, which compares the pipeline with the recursive
reference of `WholeText`: that a filter which sees a text in pieces gives what one pass over the whole gives is an induction
over the text.
`EveryVisualTokenIsItsBlock`, `PositionsGoOn` and `RefusedOnlyWhenWrong` of `VlmGenerate` follow the placeholders of a whole
conversation through the template, the expansion and the splice: an induction over messages, blocks and tokens that carries
counts and time steps along. `SampledAsShaped` compares a sort and a search with a definition over sets, folded
over the candidates. `EveryStoredBitCounts` of `Snapshot` and the hypothesis `WholeServes` are about tables of blocks and tensors, where
what could be wrong is in the computation and not in a step.

## 5. Findings

1. *A cancel does not reach the queue at once* (`continuous_queue_cancel`). The doc comment of
   `generate_continuous` says a request still waiting in the queue finishes `Cancelled`. The refill
   loop (`continuous.rs:184-189`) does not read the flag: a request queued when a callback sets it may be prefilled,
   stream its first token and finish `StopToken` or `MaxTokens`. The property looks only at a flag set after a decode
   step has streamed (`MidStream`), and the trace goes through the refill: the step retires request 1, the flag is set,
   request 4 is admitted and finishes `MaxTokens`. `AtMostOneLateToken` bounds the effect.
2. *A full budget leaves the stored key one token too long* (`prefix_budget`). The loop never feeds the
   token that fills the budget, but `generate_cached` stores the prompt and *all* generated tokens as the
   key. A later prompt that continues the whole key reuses one position that is not there.
3. *A character split over tokens breaks the streamed text* (`chat_split_symbol`). The sink slices the text of
   all tokens at the byte length it had before. While a character is incomplete it decodes to a replacement
   character of three bytes; completing it adds no byte, or makes the slice begin inside a character of four bytes,
   which panics. `tests/contract_roundtrip.rs` says the deltas reconstruct the final text; its tiny vocabulary
   has one-byte characters. With thinking, tools or stop strings active the streamed text *is* the result. In
   `chat_server` all symbols have one byte, and the property holds as part of `StreamedAsOneText`.
4. *A quantized Qwen3-VL snapshot does not load again* (`snapshot_reload`). `prepare` writes the
   `quantization` block at the top level of `config.json` (`snapshot.rs:113`), whatever the architecture; the
   configuration of Qwen3-VL is read from its `text_config` (`config.rs:331`, `386`), where there is none.
   The loader then takes the packed projections for dense ones and the load fails.

What modelling showed besides, for which there is no run of its own:

- *Serving and text*: a stop string completed only in the tails ends the text but leaves the reason `Length`. The `Canceled` arm
  of `handle_chat` (`main.rs:203`) is unreachable, as nothing sets the flag of a whole reply. A streamed reply contains the
  reasoning of a thinking model, a whole one does not. JoyCaption streams by the same slicing as finding 3.
- *Sampling*, two departures from the comments. `sampler.rs:103-104` says a forbidden entry is forced to `-inf`, but a draw
  of exactly zero ends the loop at the first candidate, whatever its weight: only a nucleus sorts the candidates, so without
  one the first may be forbidden. `sampler.rs:72` and `178` name the CTRL/HF penalty, which divides a token once;
  the loop divides it once per occurrence in the window. `SampledAsShaped` is stated with the penalty of the comments and
  says how far the code departs: a forbidden token only after that draw, and a token that is in the window twice may give
  way to one it should beat but never wins by it. Without either clause TLC finds the property violated
  by the settings of `vlm`. Rounding may also leave the draw above the last cumulative weight, which returns
  the last candidate; the model's weights are exact.
- *Vision*: user text that contains a placeholder token makes a multimodal request fail; one that is generated is
  treated as text.
- *Snapshots*: `generation_config.json` is not copied. A source that is already quantized is quantized again. Tokenizer files
  of an older snapshot remain in a reused directory. A crash in a directory that held a snapshot of another model may leave a
  mix that loads; `InterruptedServesNothingElse` says what is safe. `rope_freqs` of a GGUF file is dropped.
  `prepare` refuses JoyCaption snapshots. The Qwen3.5 loader does not look for `.scales`. Latent attention is not
  available in throughput mode.

## 6. What is not modelled

Tensor arithmetic (attention weights, rotations, the delta rule's numbers, layer norms, dequantization formulas and the codebooks of
`iq_grids.rs`): the models say what goes into a number, not the number; the tests compare those with reference values.
Pixel resampling and normalisation. The probabilities of `decide_stochastic` and of sampling: a sampled run may draw
anything. The JSON constraint: for the sampler it is a mask, which `Sampler` has; the automaton behind it and the chat
template belong to `core-llm`. The `ConstraintMask` of the engines narrows what the sampler may draw and changes no control.
`PrefixStats` counters. The wrap-around of 64-bit lengths of a GGUF file. Preparing over the source directory itself, and
shards some other program left in the output directory. Log lines and error texts.

## 7. Plan

Done, in order of importance: the KV caches and the proof of counting; the contract of an engine; the four
engines; the refinement proofs of the paged cache, speculative decoding, both batch engines, prefix reuse, the server, the decoders and the preparation of snapshots;
the text pipeline under the server; loading, preparation and GGUF import with their crash model;
the decoders, towers, multimodal prompts and the sampler.

Left, in order:

1. `PositionsGoOn` as a theorem: the walk that `VisualInv` follows, told for every token and not only for its end.
2. `WholeServes` for dense Hugging Face sources as a theorem: which slots a decoder fills from a table of tensors, whatever it holds.
3. `forward_per_seq` over paged caches: `Decoder`'s caches replaced by handles of `PagedKv`, layer by layer.
4. Liveness stays with TLC.

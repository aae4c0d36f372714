# A TLA+ model of meitte

meitte runs mixture-of-experts models that do not fit in memory. It keeps the
dense weights resident and reads the experts a token routes to from flash while
the graph is being computed. This directory holds TLA+ modules for the parts of
the engine whose correctness depends on the order in which threads, callbacks
and failures meet, or on arithmetic that is easy to get wrong by one; the TLC
configurations that check them on small instances; and TLAPS proofs that hold
for any size.

Paths below are relative to `src/` and, unless they say otherwise, to
`src/core/src/`.

Contents: 1 the system · 2 the modules · 3 the runs · 4 the proofs · 5 what the
code does differently from what it says · 6 what is not modelled · 7 plan

## 1. The system

### Components

**Expert stream source** (`moe/expert_stream_source.cpp`). State: a slice per
(layer, expert, projection) backed by pages that are committed and released; an
intrusive LRU list with `cvalid_`, `cstamp_`, `cresident_`; a batch of read jobs
(`jobs_`, `next_idx_`, `done_cnt_`, `batch_gen_`) under `io_mtx_`; readiness
flags (`ready_`, `async_gen_`, `ready_waiters_`), atomics, with `ready_mtx_`
for sleeping; a second queue of speculative jobs
(`spec_jobs_`, `spec_remaining_`, `spec_done_`, `spec_touched_`, `spec_gen_`).
Threads: the eval thread (`load_layer`, `load_layer_async`, `prefetch`,
`settle_spec`, `set_cache_budget`), a pool of I/O lanes (`io_worker`:
`io_drain`, then `drain_spec`), and the compute threads of ggml
(`on_expert_ready`).
Hard: lock-free publication next to sleeping waiters; eviction beside reads;
the two-wave publish; a cancelled decode that leaves its batch behind; failing
reads and commits; adoption of speculative reads.
Correct when: a compute thread multiplies only bytes of its own layer; no lane
reads into pages that were given back; an entry marked valid is complete; the
list, the flags and the byte count agree; the budget holds; nobody waits for
ever.

**Stall accounting** (`moe/stall_union.h`). A counter of stalled threads, the
start of the open interval and a total, under a mutex. Hard: overlapping stalls
and snapshots taken in the middle of one. Correct when the total is the length
of the union of the stalls.

**Row stream** (`moe/row_stream.cpp`). A window of resident slabs of tables the
graph only gathers from, filled when ggml's scheduler *asks* about a gather and
read when the group that holds it is *computed*. Hard: ask and compute are not
one step; stamps wrap; reads fail half-way. Correct when every row read is in
place and the window is accounted for and bounded.

**Router hook, policy and prediction** (`moe/router_hook.cpp`,
`moe/router_policy.cpp`, `moe/router_predict.cpp`). The eval callback sees a
layer's topk node and then the chain of nodes that makes its weights. It
substitutes resident experts, drops cold ones, loads what is left, and may
defer that load to the last node of the chain, which it *learns* from earlier
graphs. A worker thread ranks the experts of layers ahead through a mailbox of
one job and one result; rankings become prefetches, hints, or, under
route-ahead, the routing itself. Hard: a graph that moves under what was
learned; rankings that come late or not at all; in-place rewriting of ids and
weights. Correct when what is multiplied was selected and loaded and a layer is
only routed by a ranking of its own token.

**Session** (`engine/session*.cpp`). State: `chat_history`, `kv_tokens`, the KV
of the target and of an MTP draft context, the sampler, `cancel_requested`,
`cfg.n_ctx`. `generate()`: render, make room, reuse the common prefix, prefill,
draft and verify, grow or compact when the context fills, and commit or undo.
`perplexity()` scores a text in the same context. `open()` and the destructor:
load, capture, rebind, release, hook, and the way back from a failure of each.
Hard: every step may fail or be cancelled, and six states have to be put back;
two sessions of a process share a CPU hook and the address space. Correct when
KV and records never disagree, what is sampled follows the conversation, a turn
is all or nothing, weights are readable whenever they are computed with, and a
failed open leaves nothing.

**Front ends** (`src/cli/main.cpp`, `src/cli/session_protocol.cpp`,
`src/cli/server_main.cpp`). `meitte-cli --session` has a reader thread that
queues requests and cancels at once, and a loop that runs them;
`meitte-server` serves one connection at a time. Hard: cancels that race the
start of a turn; defaults from flags, session and request; a kept conversation
of which the client sends a part; streaming from two observations of a text.
Correct when every request is answered in order, thought about as asked, and
what the client has is what the session keeps.

**Bytes and blocks** (`io/file_reader.cpp`, and the page arithmetic in
`expert_stream_source.cpp`, `row_stream.cpp`, `dense_weights.cpp`). Reads in
aligned blocks with a tail that goes through the page cache; slices and slabs
committed and released in whole pages. Correct when a read returns what was
asked and releasing one thing never takes a byte of its neighbour.

**N-gram draft** (`engine/ngram_draft.cpp`). A pure lookup over the text so far.

**Model files** (`moe/gguf_offsets.cpp`, `moe/arch_registry.cpp`, and
`bind_layer_offsets`). Offsets of a file or of its shards, the fused or split layout
of the expert tensors, and the check of what the graph captured against them.
Correct when no read of an expert leaves its own tensor.

**The rest**: media, metrics, subprocess, the C API.

### How they interact

```
 client --lines/http--> front end --generate/cancel--> Session --llama_decode--> ggml scheduler
                                                          |                        | ask / compute
                                                   set_cache_budget            RouterHook <--> ranking worker
                                                          v                 /      |       \
                                                 ExpertStreamSource <--load--   prefetch   RowStream
                                                  | jobs    ^ ready
                                                  v         |
                                               I/O lanes   compute threads --> StallUnion
```

Everything above `ExpertStreamSource` runs on the eval thread, the caller of
`generate()`; the source's lanes, the graph's compute threads, the ranking
worker and the reader thread that calls `cancel()` run beside it.

## 2. The modules

| module | code | state and actions |
|---|---|---|
| `ExpertStream` | the overlapped demand path: `load_layer_async`, `io_drain`, `on_expert_ready`, `set_cache_budget`, `shutdown` | one action for each critical section of the eval thread, of a lane and of a compute thread; `evalPc`, `lanePc`, `tpc` are where each is |
| `ExpertStreamInv`, `ExpertStreamProofs` | — | the inductive invariant of `ExpertStream`; its proof and the theorems |
| `Speculation`, `SpeculationProofs` | `prefetch`, `drain_spec`, `settle_spec`, `quiesce_spec`, `drain_adopted`, `spec_integrate_done`, `retain`, the serial `load_layer`, and the calls of `router_predict.cpp` | one action for each critical section; `pc`/`call` are the call the eval thread is in |
| `StallUnion`, `BytesAndTimeProofs` | `StallUnionState` and its wrapper | `Enter`, `Exit`, a clock that ticks between any two steps; `truth` is what the code should have counted |
| `RowStream`, `RowStreamProofs` | `RowStream::gather` and the window, the gather callbacks of `RouterHook`, the scheduler's groups | one `Ask…` action for each kind of node, `Compute` for a group |
| `Router`, `RouterProofs` | `RouterHook::on_eval` over one layer after the other, `apply_substitute`, `apply_drop`, `close_drop_layer`, route-ahead, probe, watchdog, the prediction worker | a graph as a walk over layers and their nodes; `Take` and `Post` are the worker's steps; what a layer was routed by, loaded and multiplied is history |
| `Ranking` | `rank_top_k`, `score_prediction`, `build_spec_lists`, the int8 mirror | operators, used by `Router`; proved about in `RouterProofs` |
| `Conversation` | what `Session::generate`, `cancel` and `perplexity` promise | the abstract session: a turn begins, may shorten the conversation it works on, and is committed or abandoned |
| `SessionTurn`, `SessionTurnProofs` | `Session::generate`, `Session::perplexity` and what they call in `session_context.cpp` | a turn as a sequence of actions, each of which may fail; `kv` is what llama.cpp really holds, `kvTokens` what the session believes. Implements `Conversation` |
| `NgramDraft` | `ngram_draft` | an operator, used by `SessionTurn`; proved about in `SessionTurnProofs` |
| `RequestControls` | the thinking controls in `parse_session_generate` and `parse_completion_request` | operators over the four fields a request has and the flags' defaults; proved about in `FrontEndProofs` |
| `FrontEnd`, `FrontEndProofs` | `run_session_loop` and its reader; `process_connection`, `handle_completions` and the loop of `meitte-server` | EXTENDS `Conversation` and `RequestControls`: the reader, the queue, the loop, the stream of one answer and what the client has of it |
| `SessionOpen`, `SessionOpenProofs` | `Session::open`, `ExpertStreamSource::init` and `shutdown`, `DenseWeights::init`, `release_model_mapping`, the CPU hook, `~Impl` | several sessions of a process, each at a phase of its life; `data` says where each of its weights points, `mem` what the process has mapped |
| `FileBytes` | `FileReader::open` and `read`; page arithmetic of slices, slabs, gaps, moved tensors, probes | operators over ranges of bytes; proved about in `BytesAndTimeProofs` |
| `ModelFile` | `fill_all_offsets`, `resolve_moe_recipe`, `bind_layer_offsets`, the offsets of a read | operators, EXTENDS `FileBytes`; proved about in `BytesAndTimeProofs` |
| `RouteTrace` | `RouterHook::flush_pending` | operators; proved about in `BytesAndTimeProofs` |
| `MCExpertStream`, `MCSpeculation`, `MCRowStream`, `MCRouter`, `MCSessionTurn`, `MCFrontEnd`, `MCSessionOpen` | — | the instances TLC checks |

Every variable carries, in its declaration, the member it stands for. Modelling
decisions that a reader should know:

* Memory is sequentially consistent. `on_expert_ready` and the lanes use
  acquire/release pairs around the flag and a `seq_cst` pair around
  `ready_waiters_`; the model has their interleavings, not their reorderings.
* A slice's bytes are abstracted to "none" (no pages), "blank" (pages without
  data), "torn" (a read in progress or failed) or the layer whose data they are.
  Why one slice can be committed, read or released without its neighbours, which
  share pages with it, is `FileBytes`.
* `ExpertStream` and `Speculation` are two views of one class. The first has
  every interleaving of the demand batch and an empty speculative queue; the
  second has every interleaving of speculative reads, with a demand load staged
  in one step. They share no variable, because the code separates them: a lane
  enters `drain_spec` only when the demand batch is empty, and what passes between them
  is `cvalid_`, the LRU and the pages, which only the eval thread writes.
* Lists of ids have no repetition: a repeated id reads nothing and only promotes
  its entry again, so it matters by its last occurrence. Entries of `Speculation` have one size.
  The intrusive list is a sequence; `LruUnlink` keeps what unlinking a node that is
  not in the list does to the two ends (`ExpertStream`).
* A failed commit of demand pages makes the run fatal; a failed read keeps the
  slice torn; in speculation both leave the entry unread.
* `RowStream` assumes slabs of whole pages, as 16 KiB slabs are wherever a page is
  4 or 16 KiB.
* In `Router` the expert source is external: a residency query may answer any
  set, a load succeeds or the run is fatal. A prediction is abstracted to the
  number of the graph whose hidden state it was made from. Which slots are light
  enough to be dropped is any set that spares no rule of the code. That a tensor
  cannot be read is only modelled by its type; the gate matrix is taken to be a
  contiguous leaf, and a row whose input was not stashed does not occur: were
  submits declined in one token and not in another, `CommitFromThisToken` would
  rest on the slot being cleared alone, which is why the code clears it first.
* In `SessionTurn` a token is one of a few kinds: a word, a token of reasoning
  (which the template strips from the message that is committed, so the next
  prompt diverges from the KV), the end of generation. `llama_decode` is
  external: a failed batch leaves the ubatches computed before it failed, and
  removing the tail of a sequence does what the memory type does — anything on
  attention, nothing partial on a recurrent memory, up to `n_rs_seq` positions
  with snapshots, with the wrong state when they are not of the last ubatch. An
  MTP draft context is attention only. Under a reasoning budget tokens of a span
  are free up to an allowance, are sampled by a sampler of their own and are
  never drafted.
* In `FrontEnd` a chat template is on, context policies are off and the wait on
  the condition variable is abstracted to a guard. The server handles
  connections one after the other on its main thread, so its queue is the
  kernel's backlog.
* `SessionOpen` is the POSIX side. An opening may fail at each of its phases,
  after part of the work of one; a `munmap` or a placeholder's `mmap` may fail
  too, and the release then goes on as the code does. The kernel's answer is
  chosen anew at each of the two measurements of available memory. A file is one
  range of addresses, where the code may meet several mappings of it. What the
  code does not defend against is listed in `Perils`, each of which a
  configuration may allow (5).
* `FileBytes` keeps one descriptor and one bounce, where the code has one per
  lane; a `pread` that returns less than asked is repeated and left out.

## 3. The runs

Bounds named in a configuration (`MaxLoads`, `MaxIssues`, `MaxDecodes`, `MaxTurns`,
`MaxGraphs`, `requests`, …) limit how many calls a behaviour makes, never what
one call may do.

| run | instance | shows |
|---|---|---|
| `stream_safety` | 2 layers × 2 experts × 2 projections, 2 lanes, 1 compute thread, 2 loads, all 5 configurations with cancellation, and one whose budget changes between complete decodes | data is used only when it is there, reads never collide and never meet eviction, valid entries are complete, the LRU is the cache, and over its budget it holds only what the graph reads |
| `stream_live` | 1 lane, 2 compute threads, failing reads and commits, cancellation, a graph that asks for a layer nobody staged | every compute thread, drain and shutdown ends |
| `spec_sound` | 2 layers × 2 experts × 2 projections, a lane and the eval thread; a guessing predictor with failing reads and commits, and route-ahead serial and overlapped with reads that succeed | the cache stays consistent, no read into released pages, no page leaks, adopted entries are resident when their layer stages, every call returns |
| `row_window` | tables whose rows straddle slabs, a budget of two slabs, a generation that wraps at 3, failing reads, 3 graphs | rows are in place when read, the window is accounted for and bounded |
| `stall_union` | 3 threads | snapshots equal the union of the stalls and never shrink |
| `router_decode` | 3 layers, 3 experts of which 2 are used, 3 graphs, weight chains that change between graphs, 12 configurations of the policies | what is multiplied was selected or weighs nothing, was loaded unless the graph has just moved, was routed by this token's ranking, and the probe grades what it predicted |
| `session_turns` | 3 turns or texts to score, 2 tokens to predict, drafts of 1, contexts of 6 to 9 tokens, 9 configurations of memory, drafts, budgets and context policy | KV and records agree, generation follows the conversation, the session implements `Conversation`, and turns end |
| `session_replay_failed` | a context that grows during generation, in ubatches of 2 | **violated**, see 5 |
| `front_ends` | 3 requests of every kind, or 4 racing commands, or one request with every combination of controls under every default, or one answer of 3 tokens; both programs | requests are answered in order and each once, with the controls they asked for; the stream carries the answer; a conversation goes on; a cancel hits the turn it was read in |
| `front_system_prompt` | 2 turns of `meitte-cli --session --kv-preserve --system-prompt` | **violated**, see 5 |
| `session_open` | 2 sessions, 2 address ranges, one file or two, 9 configurations, 3 amounts of memory at each of two measurements; an opening may fail at every phase, a `munmap` or a placeholder too; no peril | weights are readable, the hook serves its owner, nothing is left behind, the automatic budget leaves what it deducted |
| `open_release` | row streaming over a released mapping, and a use of the table capture did not see | **violated**, see 5 |

Why these bounds are enough to be of interest. Two layers and two loads let
the second load meet the entries, flags and batch of the first (and of a
cancelled first), and a budget of two of the six bytes forces eviction in every load.
Two projections are the least that makes the two-wave publish different from
one wave; two lanes the least that lets one finish while another reads. In
`Speculation` the interesting encounters are between an issue, its reads, a
settle and a load of the same entry: two issues and three loads have them all.
Slabs of 2 and rows of 3 bytes give rows in two slabs and a short last slab;
three decodes wrap the generation. Three layers are what a ranking two layers
ahead needs; a graph is learned in the first, used in the second and has moved
in the third. Three turns are what a failed or cancelled
turn needs on both sides of it, and context sizes are such that a second turn
reuses a prefix, a third compacts, and answers run into the end of the context.
One prompt is enough in `SessionTurn` because conversations already differ in
what was answered, edited or summarised. All `session_turns` configurations
replay a full context in one ubatch; the finding of `session_replay_failed` is
what a larger one does. In `front_ends` a cancel can be read before, during and
after the turn it was meant for with two requests outstanding; three are needed
to fail one in the middle of a conversation. Sessions of `session_open` share
only the hook and the addresses, so that two meet in every way two can; sessions
and addresses are symmetric.

Fairness. `ExpertStream` and `Speculation`: each thread of the process keeps
being scheduled and a read returns (weak fairness per lane, per compute thread
and for the eval thread *inside* a call; whoever calls is free to stop). That is what the
code's own waits rely on: `io_cv_.wait` has a predicate that covers the batch,
the speculative queue and `io_stop_`. `SessionTurn`: `generate()` runs on its
caller's thread, so its next step is taken. `FrontEnd`: the loop and the turn it
runs go on, and the reader pushes the command it holds; the client never has to
send anything. Choices (which draft, whether a decode fails) are never fair.
Safety runs and the runs with an expected violation of a safety property need no
fairness.

`CHECK_DEADLOCK FALSE` stands where the system may really stop: a bounded
number of calls was made, or the program has ended. `ExpertStream` and
`SessionOpen` check deadlock; `Closed` is the first one's only way to end, and a
closed session of the second may be opened again.

## 4. The proofs

TLAPS proves these for every value of the constants that satisfies the
`ASSUME` of the module: any number of layers, experts, projections, lanes,
compute threads, turns and tokens; every budget, size and offset.

**`ExpertStreamProofs`** — `TypeCorrect`, `ReadyMeansData` (`UseSeesData`),
`ReadsDoNotCollide`, `ResidentIsComplete` (`ValidIsComplete`) and
`EvictionSpareReads`, all from one inductive invariant (`ExpertStreamInv`).
`UseSeesData` is not inductive: that a raised flag means data follows only if
whoever raised it had read the bytes of *this* generation. So the invariant says
how each job of a batch is either queued, held by a lane or counted as done
(`CountInv`), that a batch has one layer and that the eval thread starts
nothing before the last one is drained (`BatchInv`), that what is staged and not
resolved carries no flag yet (`StageInv`), that what this generation stages is
resident with a fresh stamp, so that the eviction that runs beside the reads
passes it by (`StampInv`), that a slice of a valid entry holds its data or is
still owed a read (`ValidInv`), that pages are there before a lane gets the job
(`PagesInv`), that a flag of this generation means data (`FlagInv`) and where
the compute threads may be (`ThreadInv`). There is one lemma per action and one
step per part it can disturb. `EvictionSpareReads` needs `HeldInv`, inductive
relative to the rest, and holds up to the first change of the budget: what
comes after one is in 5. The conjuncts of `IInv` are not properties of a run:
the proof has taken their place; what follows from them is checked by
`stream_safety`.

The two sums are proved as well. `EntriesBytes` is a recursive function over sets;
that adding an entry adds its bytes is shown by a least counterexample instead of
an induction. From it, `ListMirrorsCache` (`LruIsValidSet`): the intrusive list holds
each valid entry once and `resident` is the sum of their bytes, through hits, misses,
promotions and both evictions. `ExcessServesTheGraph` (`ExcessIsInUse`) is about the
order of the list: eviction stops at the first tail with this load's stamp, so what it
leaves over the budget is what the graph reads only if nothing older is in front of that
tail. That needs an invariant of its own (`OrderInv`): an entry with this load's stamp
either waits for its promotion or has only such entries in front of it, which misses (at
the front), promotions (unlinked, then at the front) and evictions (at the back) keep. A full
sweep is excepted: it promotes no hit (`if (!load_all_)`) and may stop earlier.

**`SpeculationProofs`** — the six invariants `spec_sound` checks, for any experts,
projections, lanes and budgets: `ListIsTheCache` (`LruIsValidSet`), `ResidentsAreAtRest`
(`ResidentHasNoLiveJobs`), `PagesOutliveReads` (`NoReadIntoReleasedPages`),
`ResidentsHoldTheirData` (`ResidentComplete`), `NoPageIsLost` (`PagesAccounted`) and
`AdoptedIsNotReadAgain` (`AdoptedIsResident`). None is inductive, and all follow from
one account of `spec_remaining_`: an entry is *active* while it is owed slices, or has
them all and is not integrated. An active entry has its pages, is not resident and
misses no more slices than it is owed (`ActiveInv`); what is queued or in flight is
owed, once (`OwedInv`, `ReadsInv`); and committed pages are those of what is resident or
active (`PagesInv`). So a completed entry has every slice, an evicted one no reader, and a
failed prefetch gives back pages nobody has filled. That a load stages no active entry
needs to know where they are: in layers issued and not loaded since, or in
the layer whose load adopts them (`WhereInv`, `AdoptInv`). Two hypotheses, which are how
`spec_sound` sets `Reissues` and `Modes` (`SoundModes`): a layer is issued once before it
is loaded (`IssuedOnce`; what happens otherwise is in 5), and reads fail only under a
guessing predictor (`GuessesFail`): after a failed read under route-ahead the code forgets
the entry while its other slices are still queued (5), and these are owed no more.

**`SessionTurnProofs`** — `TurnsAreAllOrNothing`: `SessionTurn` implements
`Conversation`, which is `ImplementsConversation` of `session_turns`, for every failure
that is modelled (a template that throws in mid-generation is not, see 5). The mapping
shows the conversation between turns as it is, and during a turn as its rollback
would put it back. The invariant therefore says what a turn owes its rollback:
without a context policy the history is what it was with the pushed request at
its end, or was copied before a transcript replaced it; with one it was copied
(`UndoInv`); the sampler has not been drawn from before the first token; a turn that
ends as cancelled had a cancel (`OutcomeInv`). `ServeIsInside` reduces the
twenty steps of `generate()` and `perplexity()` to five effects on the
conversation (`Works`, `Compacts`, `Undone`, `Replied`, `Scores`), from which
both the invariant and the step simulation follow. `RoomCompacts` shows that the
loop of `make_context_room` drops a whole old turn and never the newest.
`KvAndRecordsAgree` (`KvMirrorsRecords`) and `SamplesFollowTheConversation`
(`GeneratesFromConversation`) are about the other half, the KV. Neither is inductive:
between a removal, a decode and the moment its tokens are recorded the two differ. The
invariant (`KvInv`) says by how much, phase by phase: in a prefill the records hold the
prefix that is reused and the KV what was decoded since; in a replay there are no records;
at the end of a turn the KV may be one token ahead, an end of generation that was drafted
and confirmed, which the last ubatch can take back (`Overshot`) — so that a memory with
snapshots does not refuse the trim of `:905`. The text of a turn is the rendered history,
and `nPast` is where the KV ends (`TextInv`). What is proved of the steps is arithmetic on
beginnings of sequences (`TakeHead`, `TakeJoin`, `TakeChunk`): `Take`, `Render` and
`Reply` are not recursive, and that a flattened sequence is a sequence (`FlattenType`) is
shown by its shortest counterexample. Two conditions on behaviours remain, and both are the
defect in 5: a replay that fails leaves nothing in the KV (`FailedReplayLeavesNothing`), and
a session that drafts with a head does not roll back to a prefix longer than what its
rebuilt context holds (`RollbackReaches`). Each was found by an invariant that failed without
it; both hold of the modes of `session_turns`. `FixedContextAgrees` needs neither: without a
context policy, which is how a session opens by default (`config.h:422-424`), no context is
resized, and both properties hold of every session.
`DraftContinuesMatch`: a draft by n-gram continues the latest earlier occurrence of
the longest suffix that has one.

**`RouterProofs`** — the four invariants `router_decode` checks. A residency
query may answer anything, weight chains move between graphs and the prediction
worker posts whenever it likes.
`LoadedOrMoved` (`UnloadedOnlyAfterMove`): a layer is computed without having been
loaded at most once for each time the graph moved its chains. The
deferral point is learned from the previous graph, so the invariant (`TermInv`) says
for each layer that the terminal it has learned is in the present chain, or the
chain moved since it was, or it is the layer whose terminal has just been missed
(and `close_drop_layer` will forget it).
`SlotsKeepTheirRow` (`SlotsSelectedOrDead`): a slot multiplies the expert selected
for it or weighs nothing, and each row keeps a live slot to copy (`SlotInv`).
`CommitsThisToken` (`CommitFromThisToken`): sequence numbers alone do not show it,
as a job of an aborted graph may be collected in the next; the invariant adds that
the gates are learned from the first layer up, so that a graph that submits at all
submits at its first layer and makes older jobs stale there, and that a slot is
cleared before the layer it is for can be reached (`GateInv`, `FreshInv`).
`GradesThisToken` (`GradesWhatWasPredicted`) is proved for sessions without both a
probe and an MTP draft head (`NoProbedDraft`): with both, the last trunk layer
leaves a prediction for the head's layer that a later graph grades; no instance of
`router_decode` has both.
For the ranking itself: `BestFirst` (`rank_top_k` orders and cuts as promised),
`SpecListsSplit`, `QuantizedIsNearest`, and `ExactMeansEverySlot`: what the probe counts
as exact is that every slot was predicted.

**`RowStreamProofs`** — `WindowIsAccounted` and `WindowIsACeiling` (`WindowAccounted`,
`WindowBound`) for any tables, budget and generation span: a gather stamps what it
asks for with a generation that nothing resident carries, so its eviction takes
none of it, and the list and the byte count lose and gain what the window does.
`RowsAreInPlace` (`RowsInPlace`) needs more, because a group of nodes is computed at
once after all its nodes were asked about: the second gather of a group would be
free to evict what the first put in place, and ids that are computed in the group
are read before they exist. It is proved under two conditions on the graphs that
the code relies on and does not check: routing is read between any two gathers
(`GathersApart`), and a table's ids are computed in every graph or in none
(`IndicesKnown`, what `RouterHook` learns in the first). The graphs of `row_window` satisfy
both. That a group is computed in what its gathers left follows from `GroupInv`: while
a group holds a gather, routing is read before the next.

**`SessionOpenProofs`** — `HookServes` (`HookServesItsSession`): the CPU hook runs only
over a session that owns it, is whole and streams with overlap, whatever else goes
wrong. The rest holds when the release of a mapping meets none of `Perils`, as in
`session_open`: `WeightsStayReadable` (`WeightsReadable`), `ClosedLeavesNothing`
(`NothingLeft`), `CacheLeavesTheFloor` (`BudgetAsPlanned`). `PlaceInv` follows each
range of addresses (one session at a time: the file until it was unmapped, then a
placeholder, or nothing where that failed) and each weight (in the mapping, in the
caches, in rows or in a buffer that is held), and says that a session whose range was
unmapped points at none of it. A `munmap` that fails is no peril: the range stays the
file. A placeholder that fails is one only where another model lands in what it left.
`open_release` shows what a peril does.

`BudgetAsPlanned` relates two measurements. The cache is planned from the first; which
weights stay mapped is decided by the second, so a weight that was deducted may not move
(the cache is then smaller than it could be, never larger), and one that was larger than
the first may move after all. The property states the bound for what was deducted and
moved, and equality where the second measurement is not below the first; it says nothing of
a weight that was not deducted, nor of a row takeover that failed, which goes over
the budget (`FitsBesideDense`, 5).

**`FrontEndProofs`** — for any client and any number of requests:
`TurnsThinkAsAsked` (`ControlsHonoured`) and `CancelsReachTheirTurn`
(`CancelsTheirOwn`), from an invariant on the queue, the reader's hand and the
request being served; `AnswersKeepTheirOrder` (`AnsweredInOrder`), from what still
waits: the accepted requests that have no answer are, in order, the one in hand and
the queue, and behind a closed loop there is an end of input; `ClientsHoldTheAnswer`
(`StreamCarriesAnswer`): what the client has put together is the view (on the line) or
ends with it (over HTTP, where what was sent cannot be taken back), and a step keeps
that because it sends exactly what the view gained, or all of one that was rewritten.
`ConversationsAreKept` (`ConversationContinues`): while a turn runs, it works on the
conversation it found with its message at the end, or on the system prompt and its
message where it found none (`TalkInv`). Its hypothesis (`SystemIsApart`) leaves out
what `front_system_prompt` shows to be wrong, a system prompt on the line whose session
is kept; over HTTP there is none. For the parsers of the four thinking fields:
`FlagsLeaveDefaults`, `LineHonoursRequest`, `HttpHonoursRequest`, and
`ProgramsAgree` where both accept.

**`BytesAndTimeProofs`** — what is counted, and what can be touched without its
neighbours. `StalledTimeIsExact` (`UnionExact`) and `StalledTimeGrows`: the
invariant adds to `UnionExact` that the counter is the number of stalled threads,
whence an interval is open exactly while the union is. `EachReadIsChargedOnce`: the
route trace's bytes of a layer are those of the distinct experts it missed and kept,
as it classified them before the load (a prefetch that lands between the two is still
charged).
`ReadReturnsWhatWasAsked` for every offset, length, file
size and alignment, tail and fallback included; `WrongBytesAreNotRead`;
`EvictionSparesNeighbours`, `SlabsAreApart`, `GapsAreTheRest`,
`WithoutIsDifference`, `DropSparesNeighbours`, `ProbesAreDense`: page arithmetic never
touches a byte that is not meant. `ReadsStayInTheirTensor` links them to the
model's files: from what the parser accepts (tensors apart, within their file) and
what `bind_layer_offsets` checks, the 64-bit product of size and count included, no
expert is read from another tensor's bytes; `NoGateIsMissed` says that the layout that
was resolved names every gate of the file.

The operators of `FileBytes`, `ModelFile` and `RouteTrace` have no behaviour for TLC
to run; TLC evaluates `Ranking`, `NgramDraft` and `RequestControls` in the runs of the
modules that use them (`router_decode`, `session_turns`, `front_ends`), and
`SlabsAreApart` and `EvictionSparesNeighbours` are what lets `RowStream` and
`ExpertStream` treat slices and slabs one by one.

Only model-checked: everything about liveness (TLAPS has no rule for fairness
or `ENABLED`). Every other property of the passing runs, the
refinement included, is stated by a theorem.

## 5. What the code does differently from what it says

### Shown by a run

* **A replay that fails** (`session_replay_failed`). A context that is resized
  during generation is replayed from position 0 with `kv_tokens` empty; if the replay
  fails in its second ubatch or later, or is cancelled there, `rollback_turn`
  keeps the prefix captured *before* the resize (`engine/session_generate.cpp:376`,
  `:654`) and leaves positions in the KV of which the records know nothing. The
  next turn prefills behind them. The proof met the same stale prefix on a second way,
  without a failed replay: after a compaction the rebuilt context can be shorter than that
  prefix, and a draft context that then fails (`:808-815`) is rolled back to it, so that
  the target keeps a token that is in no record (`CompactingDrafts`, below).
* **A system prompt of a kept session** (`front_system_prompt`).
  `meitte-cli --session --kv-preserve --system-prompt …` makes `[system, user]`
  of every prompt-only command (`src/cli/main.cpp:166`); `generate()` takes messages
  in place of its history, so no such turn sees the ones before.
* **Row streaming over a released mapping** (`open_release`). When both are on
  the range of a row table is unmapped with the rest; a use of the table that capture
  did not see makes `RowStream::materialize` point it there again
  (`moe/row_stream.cpp:218-221`).

### In the model, kept out of the runs

Each of these violates a property (of a passing run, except where one is named). A
constant, or a set of modes or graphs that an MC module defines and no run uses,
holds the case: a reader who gives it to the configuration sees the behaviour.

* `CancelledResize` (`MCExpertStream`, for `Modes`; violates `NoReadIntoReleasedPages`): `set_cache_budget` after a
  decode that was cancelled, or failed, does not drain the batch that decode left behind
  (`moe/expert_stream_source.cpp:711`), so it may return pages under a read. The interface
  asks only for "no generate() in flight" (`include/bmoe/session.h:296`).
* `Reissues = TRUE` (`Speculation`; violates `ResidentComplete`): a second prefetch of an entry with speculative
  jobs still queued replaces its count (`:849`), and an entry may be taken for
  complete while a slice is not.
* `AdoptFailing` (`MCSpeculation`, for `Modes`; violates `ResidentHasNoLiveJobs` and
  `NoReadIntoReleasedPages`): a read that fails under route-ahead forgets its entry but
  leaves its other jobs queued (`:554`, `:893`); the entry may be read on demand and
  evicted before a lane gets to them.
* `AdjacentGraphs` (`MCRowStream`; violates `RowsInPlace`): two gathers in one scheduler group share the
  window's stamp; the second may evict what the first is about to read
  (`moe/row_stream.cpp:155`).
* `SubstituteAndAhead` (`MCRouter`, for `Modes`; `WatchdogSeesRouter`): with substitution and route-ahead
  both on, the watchdog compares the prediction with ids that were already
  substituted (`moe/router_hook.cpp:501`).
* `CompactingDrafts` (`MCSessionTurn`, for `Modes`, with `NPredict = 4`; violates
  `KvMirrorsRecords`): the failed replay of above and, with `ReplayFails` taken out of
  `Serve`, a draft context that fails after a rebuild.
* `Perils` (`SessionOpen`; each violates `WeightsReadable`): `"shared"`, the release of a mapping finds ranges by
  file name and would unmap another session's (`io/mapping_release.cpp:305-318`);
  `"gap"`, a mapping may land between `munmap` and the placeholder, which then covers it
  (`:319-327`); `"unplugged"` (with `GapModes` of `MCSessionOpen`), when the placeholder's `mmap` fails
  (`:325-328`) the session opens with a free range that llama.cpp still takes for its
  mapping: another session's model may be mapped there, and the first session's teardown
  unmaps it, where `docs/moe-streaming.md:80-81` has placeholders remain that make this
  harmless; `"blind"`, a list of mappings that cannot be read when the release looks
  for weights counts as no weight found (`:285-303`, `engine/session_open.cpp:503-521`),
  and what is listed afterwards is unmapped; `"reopen"`, a reader that does not open again
  keeps no file and the session goes on (`io/file_reader.cpp:192`,
  `engine/session_open.cpp:524` only prints); `"fallback"` is the finding above.
* `RowBudgetModes` (`MCSessionOpen`, for `Modes`; violates `FitsBesideDense`, which no run checks): the
  automatic budget deducts the rows' window, not their tables
  (`moe/expert_stream_source.cpp:107-117`); a takeover that fails leaves the tables to
  `read_anonymous`, which converts them whole, where `moe/dense_weights.cpp:179-180`
  has it cost "nothing but the log line". In the same way a weight larger than the
  memory of the plan that fits the memory found later is converted and was never
  deducted; `SessionOpen` has such behaviours and `BudgetAsPlanned` says nothing of that
  weight.

### Read in the code, not in the model

* Expert source: two sessions that size themselves at once plan the same memory.
* Session: a template that throws when re-rendered by the compaction in
  mid-generation (`engine/session_generate.cpp:607-620`) leaves `generate()` by
  exception and without rollback. A raw turn leaves KV that no record names
  before a chat turn (`:521`). The prefix batch of a perplexity run in the decode
  regime is assumed to fit `n_batch` (`engine/session_perplexity.cpp:94`).
* Front ends: a cancel read after a request was announced and before `generate()`
  starts is cleared by it (`:52`); `docs/telemetry.md` has the announcement as the
  start. After an explicit `clear_kv:true` turn that fails, the next incremental chat
  of the server runs without the default system prompt. An effort of more than 64
  bytes is refused by the line parser and ignored by the server when thinking is
  off. After a failed send a stream may still be ended as complete. A transcript of
  only a system message gains an empty user message on the line.
* Configuration: `validate()` is the front ends' to call; `Session::open` calls
  `check_session_config` only. `src/tests/moe_gates.cpp:230` comments
  `row_stream_mb = 0` as one slab; `moe/row_stream.cpp:26` takes the default window.

## 6. What is not modelled

* Raw (template-less) and media turns, tool calls, templates and parsers: text
  in and text out over the llama.cpp common library.
* Weak memory. The atomics of `on_expert_ready` are modelled as sequentially
  consistent.
* The synchronous prefetch of the source and a shutdown with speculative reads queued;
  renormalisation of weights after a drop (floating point); the sampling of dense
  pages by the residency sensor, of which only the probes' places are.
* Per-lane descriptors and partial `pread`s of the reader; a direct read that
  returns short, which leaves the next one unaligned. The Windows side of mapping
  release and of memory.
* GGUF parsing itself and the table of architectures, metrics sinks and telemetry formatting, the compute
  trace, statistics, subprocess, the multimodal wrapper, the C API and the one-shot wrappers, which
  forward to a session; HTTP and JSON syntax.
* ggml, llama.cpp and the kernel are external: what the code relies on of them is in
  the comments of the actions that stand for them.

## 7. Plan

Done: the demand path with its invariant and its proofs, speculation, stalls, rows,
the router with its policies and predictor, turns and their refinement, opening and
closing, both front ends, bytes and blocks.

Left, in the order in which it would pay: raw and media turns as more kinds of
request of `SessionTurn`; the synchronous prefetch as another call of
`Speculation`.

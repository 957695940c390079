# Verification of LiveMem

TLA+ specifications of the parts of this repository where several actors, or
several pieces of state, have to agree: the chunk-eviction schedule that
training and serving share and its enforcement inside vLLM, SFT from raw samples
to updates, the way of the weights to the server, the two RL loops, and the
evaluation with its memory servers and its scoring. TLC checks them on small
instances; TLAPS proves the most important facts for every value of the
constants.

Run everything inside this directory: `tlc -workers 2 -config X.cfg M` for a
run of section 3 (M is the module it names), `tlapm M_proofs.tla` for a proof
module. `PROJECT.json` maps every definition to the lines it translates and
lists the hazards the properties are about, each at its line.

## 1. Inventory

LiveMem trains a language model with a recurrent side memory: the input is cut
into chunks, and all but a sink and a recent window leave attention. Paths are
below `src/`.

| Component | Source | State it keeps | Operations | Hard behaviour |
|---|---|---|---|---|
| Eviction schedule | `train/sft/eviction.py` | none (a loop over a window) | `compute_evict_at` | limits at their edge, a window of one chunk |
| Stride and message policy | `train/sft/eviction_policy.py`, `models/vllm/memory_qwen3/chunking.py`, `eviction_mask.py` | none | rule table, sink, frontier, spans, views | rounding; rows chosen by prompt length |
| Serving hooks | `evict_registry.py`, `evict_manager.py`, `flashinfer_evict.py`, `gdn2_side.py` of `models/vllm/memory_qwen3/` | `EVICT_REG` per process, block tables, page tables, recurrent state slots | register/pop, clamp, free blocks, drop pages, scan | two processes, two granularities; preemption, aborts, prefix cache, chunked prefill, reused slots |
| SFT data | `tools/data_process/tokenize_train.py`, `train/sft/train_sft.py`, `train/sft/data.py` | rows with chunk ids, evict steps and labels | tokenize, filter, sample a mixture, W=0 draws | samples at the length limits |
| SFT packing and loop | `train/sft/data.py`, `collator.py`, `loop.py` | a plan per epoch, cached per planner; a cursor; gradients, weights, checkpoints | plan, collate, step, log, save | every rank plans for itself; collectives; packs that fill no step |
| Model definition | `models/modeling_memory_qwen3.py`, `models/stride_glue.py` | mask and scan boundaries of a row | SFT rows, RL rows | several sequences and pads in one row |
| Parameters | `train/sft/lora.py`, `train_sft.py`, `loop.py`, `tools/.../export_checkpoint.py`, `models/vllm/memory_qwen3/modeling_memory_qwen3.py`, `train/rl` LoRA | named tensors | build, choose what trains, resume, save, export, load, synchronize | most hops ignore names they do not know |
| RL load balancer | `train/rl/rollout_patch.py` | load per server, sticky LRU, group counters LRU | acquire, release, add and remove servers | releases out of order, dead clients, elastic servers, full caches |
| RL group filter | `train/rl/group_filter_patch.py` and verl's `fully_async_policy` | filter counters, `staleness_samples`, `active_tasks`, message queue | decide, put, collect, pause, resume, reset | stale decisions, lost increments, a cycle of waiting |
| Synchronous DAPO loop | `train/rl/dapo_fit.py` | kept groups, `global_steps`, actor and replica weights, checkpoint | generate, filter, update, save, synchronize, validate | steps without informative groups, limits in the middle of a step, relaunch |
| Evaluation pipeline | `eval/pipeline.py` | `outstanding`, queues, `scored`, jsonl files, summaries | producer, router, workers, evaluators, finish | back-pressure, wakeups, kills between file operations |
| Memory servers | `eval/recurrent_server.py`, `embedding_rag_server.py`, `delta_server.py`, `c2l_server.py`, `baselines_common.py` | caches of memory blocks, indexes, a snapshot, a mounted adapter; locks, tasks, a queue | get or build, answer | eviction while others wait, shared tasks that fail, partial reads, batches |
| C2L adapter cache | `eval/c2l_server.py` | adapter files and lock on a shared disk | ensure adapter | crashes, stale locks, files placed one by one |
| Requests and scoring | `eval/materialize.py`, `prompt.py`, `extract.py`, `judge.py`, `metrics.py`, `tools/data_process/format.py`, `train/rl/reward.py` | none (functions of rows and outputs) | regroup, pack, extract, judge, aggregate, reward | last block, last answer of a number, missing and surplus answers |
| C2L synthesis and training, data preparation | `eval/`, `tools/` | files | calls to models, gradient steps, conversions | none for a model checker |

How they interact: training computes masks from the policy, which calls the
schedule; the serving hooks call the same policy from the scheduler (engine
process) and from the attention builder (worker process); RL's forward pass
rebuilds from flat tokens what serving did. Weights go from Qwen3 through SFT
stages and an export to the server and the RL actor, whose updates go to the
server again. In RL, clients call the balancer actor before every generation;
finished groups pass the filter into the message queue; the trainer empties it
and resets the rollouter's staleness. The synchronous loop does all of this in
one driver. In evaluation, requests are made of the rows of a test set, the
pipeline sends them to vLLM or to a memory server behind the same HTTP
protocol, and scores what comes back; C2L instances meet only on the shared disk.

What makes each component correct:

* schedule: the loop computes the window rule, and what stays live fits the budget;
* serving: a token sees at inference what it saw in training, reads no freed
  block, live memory is bounded, and the recurrent state is the scan of the
  request's own tokens;
* SFT: an update is the planned step of all ranks, an epoch trains each example
  once but for a bounded remainder, steps have similar weights, and a document in
  a packed row sees what it would see alone; RL's rows are those serving had;
* weights: the server computes with what was trained;
* balancer: load and group counts are those of the outstanding requests,
  siblings share a server, entries leave with their group;
* filter: drops stay in the budget, and the trainer always gets the samples it
  waits for;
* DAPO: updates are on-policy, replicas hold the actor's weights when they
  generate, a death costs less than one checkpoint interval, the run ends;
* pipeline: one record per request however often the process is killed, an
  ended process has dealt with everything, summaries stand for whole runs,
  admission is exact, the process ends;
* memory servers: one reply to each request, from the whole of its own memory or
  an error, and nobody waits for good;
* adapter cache: the marker is never ahead of the adapter, one instance trains,
  nobody waits for good;
* scoring: each question is asked once, and full marks mean the same in
  training, evaluation and RL.

## 2. Modules

| Module | Models | Correspondence |
|---|---|---|
| `EvictionSchedule` | the rule behind `compute_evict_at` | operators over a chunking `[n, bound]` and limits `[chunks, tokens, sink]`; the abstract side |
| `EvictLoop` | `compute_evict_at` | one action per branch of the loop; `live`, `liveTok`, `evictAt` are the code's variables |
| `StridePolicy` | `eviction_policy.py`, `chunking.py`, training masks | operators with the functions' names; a prompt is its length and the positions of `<\|im_start\|>` |
| `ServeEvict` | the hook files around one vLLM engine, and the state slots | composes `StridePolicy`; a step is Schedule\*, Dispatch, UpdateStates, Execute; between steps requests arrive, abort, complete, are preempted |
| `PackedRow` | `collator.py`, `stride_glue.py`, masks and scan of `modeling_memory_qwen3.py` | a row is sequences of chunk ids, evict steps, sequence ids, positions and the set `cu_seqlens` |
| `Lists` | sums, offsets and selections of lists | operators |
| `TrainData` | `tokenize_train.py`, the filter and mixture of `train_sft.py` | operators; texts are their token counts |
| `PackPlanner` | `PackPlanner` of `data.py` | operators with the methods' names; a pack is its members and labels |
| `SftTraining` | `loop.py` on every rank | composes the three above; one action per stretch between collectives and per collective |
| `RlForward` | the actor's forward pass in RL | composes `PackedRow`; one action per micro-batch |
| `Weights` | parameters from Qwen3 to the server | one action per hop (build, train, save, export, load, synchronize); a tensor is the set of what went into it |
| `LoadBalancer` | `GroupWeightedLoadBalancer` and its client | one action per actor call and per branch of it; LRU caches as sequences, oldest first |
| `GroupFilter` | filter, processor, monitor, queue, trainer | one action between two awaits; groups are counted, not named |
| `DapoFit` | `dapo_fit.py` | one action per phase of the driver; weights are the number of updates behind them |
| `RlLoops` | a training by RL | composes `GroupFilter` and `DapoFit`: a launch runs one of the two loops |
| `EvalPipeline` | one run on one pool | one action between two awaits; files survive `Kill`, the rest does not |
| `MemoryService` | what a memory server promises | the abstract specification: a request arrives, then one reply |
| `MemoryUnits` | `baselines_common.py`: cutting a memory into units | operators; a unit is the tokens it holds |
| `RecurrentServer`, `RagServer`, `DeltaServer` | the three servers of those names | one action per stretch between two awaits of a request (or of an index task) |
| `C2LBatch` | the consumer of `c2l_server.py` and `generate_batch` | one action per slice; taking packs apart and putting them together is part of it |
| `C2LAdapter` | `_ensure_adapter` of several instances | one action per file operation; the lock is none, fresh or stale |
| `MemoryServers` | an evaluation with one of the four servers | composes `RecurrentServer`, `RagServer`, `DeltaServer` and `C2LBatch`; a step is one of the deployed server's |
| `Scoring` | requests, extraction, judges, aggregate, reward | one action per stage; an output is lines with a marker, a number and what they say |
| `MC*` | | constants for TLC; `MCTraining` also composes |
| `*_proofs` | | theorems, section 5 |

Composition and refinement:

* `LoopIsWindowRule`, checked and proved, shows that `EvictLoop` computes what
  `EvictionSchedule` says. `StridePolicy`, and through it `ServeEvict`,
  `PackedRow`, `TrainData` and `RlForward`, use the rule instead of the loop, so
  one fact about the loop carries over to training, serving and RL.
* `MCTraining` is `SftTraining` over `TrainData`, `PackPlanner`, `PackedRow` and
  `StridePolicy`, followed by `RlForward`.
* `MemoryServers` deploys one of the four servers, each an instance with its own
  part of the state. `Promise == INSTANCE MemoryService WITH own <- ...` maps it
  to the abstract service, and `KeepsPromise` is the service's specification,
  its fairness included, as a property of the deployed server.

Code outside the repository is modelled from how the repository uses it and is
marked external in `PROJECT.json`: vLLM's scheduler (who gets how many tokens,
who is preempted, what the prefix cache still holds are left open), FlashInfer
(reads the compacted page table, causal over the shrunk length), `LRUCache`,
PEFT's renaming, DDP's collectives, and the operating system's crashes. verl's
asynchronous loop is vendored and modelled from its source.

Abstractions worth knowing:

* In `ServeEvict` token contents are gone; a shared prefix is a number of
  leading tokens common to all prompts, and the cache remembers whose request
  filled a block. Registration never fails. In stride mode the worker is a
  process of its own, as verl starts it, or shares the engine's, which no script
  does and nothing forbids; in message mode they share one, as
  `scripts/serve_livemem.sh` starts it. Where they share it, the worker's purge
  (`evict_registry.py:352`) takes the registration of a request that still waits:
  its first slice is not clamped. `Clamped` names these slices.
* `gdn2_side.py` asks vLLM whether a batch has prefills (`m.num_prefills`, line 155).
  vLLM is not in the repository, so whether it counts a prompt's first token, alone
  in its slice, as a prefill or as a decode is an assumption about it: `tokenPrefill`
  chooses, and a run has servers of both. As a decode in a batch without prefills
  the token's slot is not cleared (lines 114-118, 164): the request starts from what
  the slot holds, which the model takes for another request's states (`Foreign`),
  the worst there can be. `FirstTokenDecoded` names these requests, and what comes
  of them (`Mixed`) also passes through the prefix cache.
* In `SftTraining` a gradient is the sequence of packs it sums over and weights
  are the sequence of updates applied. `ds`, `shape` and `plans` are chosen at the
  start and never change: they are functions of configuration and seed.
* In `Weights` a hop finds tensors by name, as the code does; what a tensor is made
  of is a set of origins and stages, so an adapter that is dropped or folded
  twice, or a parameter that keeps its random values, shows. A folded adapter also
  has the factor it was folded with, so another `alpha` shows; the rank is a shape,
  and another one is refused. `BuildActor` has both forms of the actor: frozen but for
  the memory branch (`mem_freeze_main_path`), and with adapters on the main path.
* In `DeltaServer`, `RecurrentServer` and `RagServer` a model state, a memory block
  or an index is the sequence (or set) of tokens that went into it.
* In `LoadBalancer` the variables `removed`, `evicted`, `uncounted` and `failed`
  record what has happened to a server or key. Properties use them to name the
  circumstances in which the code gives no guarantee; no action reads them.
* In `GroupFilter` a group's decision happens in the step that ends its
  generation; the rollout statistics are read and the filter is asked before
  anything else of the rollouter's event loop can change the counters.
* In `EvalPipeline` a row is appended in one step; a summary may be missing or torn
  after a kill, a jsonl line is not torn. The set of requests is the same at every
  start.
* In `C2LBatch` every body is one that `eval/pipeline.py`, the client in the
  repository, sends. `batch_group_key` (`c2l_server.py:443`) runs outside the `try`:
  a body whose sampling fields are no numbers would end the consumer for all.
* In `DapoFit` `SaveFreq` is positive. With -1, which `scripts/rl/run_grpo_dev.sh`
  passes (line 117), nothing is saved and a death loses all updates: what
  `UnsavedBounded` says is for runs that save.
* In `Scoring` an answer is one line or lines, and the language model's verdict on
  each question is left open; without a service it is open for none.
* In `C2LAdapter` `MaySlow` says whether an owner may hold its lock for more
  than 45 minutes. `steals` counts takeovers and no action reads it.

## 3. Runs

| Run | Module, configuration | Shows |
|---|---|---|
| `evict_loop` | `MCEvictLoop` | `LoopIsWindowRule`: the loop is the rule. `BudgetAtEveryFrontier`: what is kept fits, unless only the newest chunk is left |
| `serve` | `MCServeEvict` | `ReadsLiveBlocks`: no slice reads a freed block. `ServeViewIsTrainingView`: in stride mode every token sees its training view, which takes slices that stay in a chunk. `SliceEndSeesTraining`: in message mode at least a slice's last token does. `KVBounded`: what a running request holds fits sink, window, slice and frozen tail, and the two blocks in which the freed span starts and ends. The exceptions are in section 2 |
| `serve_state` | `MCServeEvict`, `MCServeState` | `StateIsScan`: the recurrent state is the scan of the request's own tokens, whatever vLLM counts a lone first token as; the exception is in section 2 |
| `load_balancer` | `MCLoadBalancer` | `InflightIsLoad`, `GroupCountExact`, `GroupKeyRemoved`, `SiblingsTogether` |
| `rl_loops` | `RlLoops`, `MCRlLoops` | the asynchronous loop: `WindowDropsBounded`: drops between two resets. `FloorButForOvercount`: the trainer's floor. The synchronous one: `OnPolicy`, `RolloutsCurrent`, `StepIsUpdate`, `UnsavedBounded`, `Ends` |
| `group_filter_starve` | `GroupFilter`, `MCGroupFilterStarve` | a violation: `NoStarvation` |
| `eval_pipeline` | `MCEvalPipeline` | `RecordedOnce`, `EndedComplete`, `SummaryCoversRun`, `OutstandingExact`, `Ends` |
| `c2l_adapter` | `C2LAdapter`, `MCC2LAdapter` | `CommittedComplete`: the marker stands for a whole adapter. `TrainersBounded`: one trainer and one more per takeover. `Served` |
| `memory_servers` | `MCMemoryServers` | `KeepsPromise`: each server implements `MemoryService`. `BuildsExplained`: a memory block is read again only after eviction or failure, or behind a removed lock. `BuildersApart`: two read the same memory at once only behind different locks. `OneIndexTask`: one index task per memory at a time |
| `sft_training` | `MCTraining` | `UpdateIsPlannedStep`, `EpochCoversExamples`, `LabelsBalanced`, `DocumentsIsolated`, `SequencesAsServed`, `Ends` |
| `weights` | `MCWeights` | `ServedIsTrained` |
| `scoring` | `MCScoring` | `AskedOnce`, `FullMarks` |

Deadlock is not checked as such: every system here stops when its bounded
supply of requests, calls or steps is used up. Where waiting for good is a danger, a
liveness property says so.

Each module has a `TypeOK`. Types are proved where a proof module exists; no run
spends time on them.

### Bounds

* `evict_loop`: all chunkings of at most 4 chunks of 1 to 3 tokens, token limits 0
  (off) to 7, chunk limits 2 and 99 (off), sinks of 0 to 2 chunks. This has
  chunks larger than the limit, sinks that fill it, and several evictions by
  one arrival. The theorem covers the rest.
* `serve`: two requests (one can preempt, share blocks with, or be recycled
  under the other), pages of 2, blocks of 4, slices up to 4 tokens, prompts of
  9 and 14 tokens with 8 in common, two generated tokens. The prompts fall into
  different rows of the table and span several chunks, so eviction during prefill,
  during decode, after preemption and after a cache hit all happen. Four servers: stride, stride
  with a frozen decode frontier, stride in one process, message. 1,781,664 states,
  the largest of the runs.
* `serve_state`: the same with one prompt of 9 tokens, in stride and in message mode,
  on a vLLM that counts a lone first token as a prefill and on one that decodes it.
  Eviction neither reads nor writes the recurrent states, so the chunks, windows and
  prompts that tell the views apart are left to `serve`. 618,247 states.
* `load_balancer`: two siblings, a second group, an ungrouped key, two
  servers, caches of one entry so that eviction happens, three calls, two
  removals (an acquire fails only when both servers are gone), weights 1 and 3.
* `rl_loops`, asynchronous: 2 groups per synchronization, a staleness bound of 4, three
  concurrent tasks, no generation limit or 2 or 4, two synchronizations: enough
  for a reset to be unnoticed, overtaken, and followed by another.
* `eval_pipeline`: three requests of one memory, with and without splitting,
  `hf` and `vllm`, two evaluators, two attempts, queues of one, two starts of the
  process. It has one server, so the choice of the least loaded one is not
  exercised; larger instances with two servers (one attempt; 182,381 states for
  `vllm`, 452,848 for `hf`) satisfy the same properties and take too long to be a
  run of every check.
* `c2l_adapter`: three instances (an owner and two that wait), one crash, four
  requests.
* `memory_servers`: five requests (three of one memory, one of another, one that
  names no memory), caches of one entry so that each build evicts the other
  memory, one index task at a time, batches of two. The documents of the first
  memory are split, packed, left over and blank, those of the other all blank, so
  that it has no units. Any build, read or answer may fail.
* `rl_loops`, synchronous: 4 batches an epoch, 2 epochs, 5 steps, batches of 2
  groups for a target of 3 (so groups are cut off), at most 3 batches for a step,
  checkpoints every 2 and
  tests every 3 steps, two relaunches.
* `sft_training`: two ranks, 14 raw samples in two files, one in unit and one in
  token mode, rows of 12 tokens and a system sink of 1. Some samples are
  too long or too short, one fills the row; steps of one or two packs a
  rank, one or two micro-batches; 4 steps, so that a second and a third epoch
  begin; several draws of every generator. RL rows: up to three sequences on both
  sides of a border of the rule table and across it.
* `weights`: two layers, the first stage with a memory branch in one or both, up to
  two stages, six forms of what is trained (those of the shipped configurations
  and mixtures), two at the export; adapters of rank 16 and alpha 32 in training, at
  the export also of another rank (64, 128: the export's defaults) and of another
  alpha (16, 64).
* `scoring`: ten kinds of test set, one of which reads the rows of one source only,
  packs of at most two questions, 14 shapes of output for every request (right, wrong, swapped, doubled, missing, surplus,
  unclosed, with drafts before and text after).

### What the violation says

`group_filter_starve`: `group_filter_patch.py` (lines 9-11) says that the bounds
on drops keep the rollouter from starving the trainer. A reset counts tasks
that have ended but are still in `active_tasks`. The rollouter then reaches its
limit with too few groups under way, and waits for a synchronization that waits
for the groups. `FloorButForOvercount` says that this is the only way: without
an overcount the floor holds.

### Divergences seen while modelling, without a run

Behaviour that is in the models, or was seen while reading, and that a reader of
the code may not expect:

* The repository's README (line 26) promises the same visibility boundary in
  training and deployment. Message mode does not clamp slices
  (`evict_registry.py:232`), so one frontier serves a whole slice
  (`flashinfer_evict.py:125-127`): only the slice's end sees its training view.
* Prefix caching shares blocks between prompts of different rows of the rule
  table, whose schedules differ over the same tokens (`eviction_policy.py:22-24`,
  line 75): a hit may bring state computed under the other schedule.
* Admission in the pipeline counts a request until it is answered, not until its
  output is handed over, so prompts accumulate behind a full `gen_q`
  (`pipeline.py:26-27` says otherwise, 384-392).
* A kill while summaries are written leaves them torn or stale: the
  restart looks only for the existence of `summary.json` (`pipeline.py:272`,
  546-548).
* Resumed with another `--limit` or `--max-pack-questions`, the pipeline reuses
  outputs by id (`pipeline.py:585`, 240-258), although an id may now stand for
  other questions.
* Two waiting C2L instances can read the age of the same stale lock before
  either refreshes it (`c2l_server.py:178-180`, 195-197), and both train.
  `TrainersBounded` says how far this goes.
* Group accuracy counts a group one of whose requests failed to generate, by the
  records it has (`metrics.py:4-5`, 54).
* An epoch with fewer packs than one step needs yields nothing, and `_cycle` spins
  (`loop.py:267`). `DistributedSampler` of the unpacked path never gets `set_epoch`
  (`train_sft.py:297`). A resumed stage starts at step 0: it replays the first
  epoch's plan and overwrites `step_<n>` of the same directory.
* W=0 rows (`data.py:189-193`, "attention sees just sink + query + answer") are made
  by evicting chunks (244-246); in token mode, with a query that spans several
  chunks, earlier query tokens are hidden as well.
* A resumed stage that trains less saves less (`loop.py:256-257`), so earlier
  training is missing after the export; a tier with adapters leaves `A_log` and
  `dt_bias` random, untrained and unsaved (`lora.py:34`); an export onto another
  base goes unnoticed (`export_checkpoint.py:38`), and so does another alpha: the
  export's own defaults (64/128, lines 53-54) are not the training's (16/32), and
  only the rank is checked, by the shapes. `ServedIsTrained` excepts exactly these.
* On a stride server in one process a request's first slice is scheduled without its
  registration (`evict_registry.py:352-357`) and may cross chunk boundaries.
  `ServeViewIsTrainingView` says that no later slice loses its view.
* If vLLM decodes a lone first token, a new request may start from the recurrent
  state of the slot's last owner (`gdn2_side.py:114-118`). Whether it does is not in
  this repository, so there is no run that says the code is wrong.

## 4. Fairness

Every fairness condition is weak; nothing needs strong fairness.

* `EvalPipeline`: `WF_vars(Process)`. asyncio runs a task that is ready, and
  every request to a server or a judge ends, by its answer or by the client's
  timeout (`make_client`). One weak fairness for the process as a whole
  suffices, because every cycle of its steps is bounded (attempts are).
  `Kill` and `Start` are not fair. `Ends` therefore says: a process that is not
  killed comes to its end. It fails if a wakeup of the router is lost or if the
  bounded queues block each other.
* `C2LAdapter`: weak fairness of each instance's own steps and of `Age`.
  Instances are threads of different machines, training ends or raises, and
  time passes. `Crash`, `Restart` and `Request` are not fair: an owner may stay
  dead. `Served` says that a request is served or fails unless its own instance
  dies.
* `memory_servers`: weak fairness of the deployed server's steps. Its event loop (or,
  for C2L, its consumer) runs what is ready, and each call to the model ends with a
  result or an error. Arrivals are not fair.
* `RlLoops`: weak fairness of the steps of the synchronous loop's driver. Deaths and
  launches are not fair; `Ends` says that a launch which is not killed ends.
* `SftTraining`: weak fairness of each rank's own steps and of the collectives,
  which complete once all ranks are in them.

## 5. Proofs

All theorems hold for every value of the constants that satisfies the named
assumption of their module, which TLC evaluates in every run: `InputsAssumption`,
`PolicyAssumption`, `ServeAssumption`, `ConfigAssumption`, `C2LAssumption`,
`BalancerAssumption`, `PipelineAssumption`, `LoopsAssumption` of `RlLoops`, which is
the assumption of each loop, `InstancesAssumption` of `MemoryServers`, which is
that of each server, and for training `PlannerAssumption`, `RowAssumption`,
`TrainingAssumption`, `DataAssumption`, which says that the files hold what
`build_sample` writes, and `RlAssumption`: a prompt ends with its generation header
and holds a message at least. `ScoringAssumption` says of a test set what the parquet
files hold (`IsTestSet`): every row asks something and has an id of its own, and no
question, gold answer included, is asked twice of one memory. A test set that repeats
a question asks it as often as it repeats it.

* `EvictLoop_proofs`. `LoopCorrect`: the loop computes the rule for every
  chunking and all limits. `TypeCorrect`: in particular the live count is never
  negative. The inductive invariant adds two facts to the types.
  `WindowInv`: the live window is a contiguous run of chunks that ends at the
  last arrival, and its counter is the sink plus that run. `ResultInv`: for
  frontiers passed, the result already agrees with the rule; chunks that left
  the window break a limit at the current frontier; live ones are still marked
  never. The argument rests on monotonicity: a window that breaks a limit still
  breaks it when newer chunks join (`ExceedsGrows`) or older ones are added.
  `ScheduleExtends`: the rule at a frontier does not depend on later chunks,
  which is why the serving side may extend a cached schedule
  (`evict_registry.py:164`) and training may compute it once for the whole text.
  `BudgetHolds`: what the schedule keeps at a frontier fits the limits, unless
  it is the newest chunk alone. It follows from `LoopCorrect`: the kept chunks are
  the run from the oldest one to the frontier (`LeastOf`), whose window breaks no
  limit, and the tokens of a run are counted as the rule counts them
  (`TokensOfRun`).
* `Rl_proofs`. The loops: a training keeps the invariant of the one it runs.
  - The asynchronous loop: `DropsBounded` and `FloorHolds`, the bound on drops and
    the floor but for overcounting. The invariant needs `ControlInv` (who may submit
    and collect), `DropInv` (once something was dropped since the reset, staleness
    cannot look smaller than the filter last saw it, so the count of the window is
    not restarted) and `AccountInv` (the trainer has its groups, or staleness
    without the overcount is covered by groups under way, collected or dropped).
  - The synchronous loop: `TrainsOnPolicy`, `RolloutsFollow`, `StepsAreUpdates`,
    `LossBounded`, for every dataset, every limit and any number of relaunches. The
    inductive invariant is the conjunction of the types, `Room` (how full the
    buffer may be at each place), `Counted` (the counter against the updates behind
    actor and disk), `Fresh` (whose groups and weights are where) and `Saved` (how
    far the disk is behind). `LossBounded` also needs that among `SaveFreq`
    consecutive numbers one is a multiple of `SaveFreq` (lemma `MultipleNear`).
  - The balancer: `CountsExact`, `KeysRemoved`, `SiblingsMeet` and
    `LoadCounted`, the four properties of its run. First,
    `cachetools.LRUCache`, a sequence in the model, behaves as a map: dropping, putting
    and overflowing change the keys and values they should (`Without`,
    `DropProperties`, `PutProperties`). The invariant then needs `CountInv` (a counter
    is exact, or too high if an acquire of its group has raised), `RouteInv` (a group
    without requests is not sticky) and `StickyInv` (the sticky entry is the server of
    each sibling). They depend on each other: a release drops the sticky entry when
    the counter says one, and only the exact counter says that no sibling is left.
    `LoadInv` counts the units of work on a server: `inflight` is exact on a server
    that was never removed and never too high on one that came back.
* `EvalPipeline_proofs`. `RecordsOnce`, `EndsComplete`, `SummaryOfRun` and
  `OutstandingCounted`, for any number of kills. `RecordInv`: from its start a
  process knows exactly the requests that have a record. `FlowInv`: whatever is
  queued for, or held by, an evaluator has an output on the disk, and outputs are
  never taken back. These two (`IInv`) are inductive alone and give `RecordsOnce`;
  what an ended process has done needs `RunInv` too, which says where a request
  is. `LineInv`: the queues are closed once, by the None at their end. `WaitInv` and
  `ServeInv`: a request is in one group, and in one place. `AdmitInv`: the count of a
  server is that of the requests given to it and not answered. `CoverInv`: a request
  that is not on its way has reached the evaluators or has failed; `FailInv`,
  `EndInv` and `SummaryInv` are what this means for failures, the end, and what is
  written. Regrouping loses no request: the requests of a group in the order they
  have in it exist (`OrderExists`, by ranks), and cutting a group in parts keeps them
  (`SplitIs`, by division).
* `MemoryServers_proofs`. Each server has an invariant over its own variables, and
  the deployment keeps that of the server it runs.
  `ServersKeepPromise` is the refinement but for its liveness: whatever server is
  deployed, its initial states and steps are those of `MemoryService`.
  `OneTask`, `ReadingsExplained` and `ReadersApart` are the three invariants
  of the run.
  - `RagInv`. `RagReplyInv`: the place of a request against its reply. `TaskInv`:
    tasks are created by arrivals, at most one by each, so numbers for tasks do not
    run out (`NumberLeft`). `WholeInv`: what is cached, built or held is the
    whole index of its memory. `OneIndexTask` is inductive with these: a request
    that resumes takes out only the registration of the task it waited for,
    which has ended.
  - `DeltaInv`. `LineInv`: who stands where in the line for the lock has got which
    reply. `SnapInv`: the snapshot is one memory's text, whole or without its last
    token. `StateInv`: the model's state when the answer begins is an answer's of
    the request that holds the lock, and what follows is not written into it;
    `SharedTokens` says what the common prefix of a prompt and a memory is.
  - `RecurrentInv`. `PlaceInv`: who builds a block holds a lock of its memory, also
    one that an eviction has removed. `BuildInv`: while no lock of a memory was
    removed, every build but the failed ones is the block in the cache or the one
    under way. `HeldInv`: a question is asked of a block into which all units went.
    That the units are then the whole memory is `UnitsAreWhole`, about `_pack_pieces`:
    after every piece, the units made and the buffer are the pieces read so far
    (`AddPieceWhole`), and a piece cut every window loses nothing (`HardSplitWhole`).
  - `C2LInv`. The requests that wait are in the queue, once, or in a chunk; a chunk
    has requests of one group, and no two have one in common (`IsCut`), which is kept
    because grouping the queue and slicing the groups cuts it so (`ChunksCut`). The
    answers of a chunk are those of its last request's memory, hence of the memory of
    each. `ResultsAre`: taking packs apart, asking in two passes and putting the outputs
    back at their places gives every request what its own texts gave, because each
    place of the batch is in the order of the passes (`InOrder`) and a span begins
    where the texts of the requests before it end (`FlattenAt`).
  - The adapter cache. `MarkerIsLast`: the marker implies the adapter;
    `ProgressInv` says what an instance must have on disk at each place.
    `TrainersHold`: trainers are bounded by takeovers, by counting how each step
    changes the set of trainers and the lock. `AdapterTyped`.
* `ServeEvict_proofs`. The properties of the runs `serve` and `serve_state`, `TypeCorrect`, for any
  configurations, prompts and cache hits: `ReadsAvoidFreedBlocks`,
  `ServingSeesTraining`, `SliceEndsSeeTraining`, `KVIsBounded`, `ScanIsContinuous`,
  for either treatment of a lone first token and either layout of the processes,
  with the exceptions of section 2. The first part is about the rule: division, the
  set of tokens the stride and the message rule evict at an offset, and that what is
  evicted stays evicted as the prompt is computed. The invariant then has `BatchInv` (a
  slice belongs to a running request and ends at what it has), `RegInv` (who is
  registered in which process at which phase of a step), `NulledInv` (a freed block
  held evicted tokens only), `FreedInv` (a slice after the first finds
  every evicted block freed), `ScanInv` and `SliceInv` (a clamped slice ends with
  its chunk). `NulledInv` is inductive
  because eviction is monotone; the properties compare `EvictedSpans` at the offset
  of the slice with what the training view of a token hides. `KVIsBounded` counts
  the blocks that are not freed: they cover the sink, the window, the slice and
  the frozen tail, and at most two of them are shared with the evicted span.
  The bound has two partial blocks: the form with one more block is
  false from blocks of 4 tokens on (`PageSize` 2, `BlockSize` 8, chunks of 2, a window
  of 6, 18 tokens).
* `Lists_proofs`: what the proofs of `MemoryServers`, `ServeEvict`, `SftTraining` and
  `Scoring` need of numbers, sequences and sums. Folds and recursive functions over
  sequences are reached by induction up to a number, which is a fact about
  the least element of a set of numbers (`UpTo`) and not about operators; `Iterates`
  says that a step can be repeated, `TotalIs` and `FlattenIs` what the folds
  of the community modules are.
* `Training_proofs`. SFT for any dataset, number of ranks, shape of a step and
  number of epochs. The theorems have one hypothesis, `ShufflePermutes`: `Shuffle`, a
  parameter of the planner, returns the list in another order, as `random.shuffle` does.
  - The planner: `Bins` takes each example that fits once and makes no pack
    longer than the target (`Holds`, by an invariant of its two pointers);
    dealing packs to steps fills every step, uses a pack once, and keeps the steps
    even (`IsPlanned`). Balance is not an invariant by itself, because a full step
    takes no more packs and the others catch up: `Leads` also bounds, by the labels
    of the packs still to come, how far a step with more packs is ahead.
  - `PlansInv`: the plans of all epochs are what the planner makes of the dataset,
    and what a rank holds in its cache is the plan of the epoch it is in, although each
    rank computes it alone and rank 0 also asks for its length (`PlansKept`). It gives
    `Balanced`.
  - `StepsInv` is inductive with it. It says where in the plan a rank is (what
    it has fetched is what the steps behind it and the one it is in have taken), that
    all ranks have the same steps behind them, that a rank's gradients are the packs
    of its part of the step so far, and that the updates behind the weights are those
    of the planned steps in their order (`StepsKept`). `PlannedUpdates` follows
    because the parts of the ranks partition a step, and `CoveredExamples` because
    different steps of a plan share no pack and packs share no example.
  - `RowsInv`: between loading and the optimizer's step, the rows a rank computes
    with are those of its own micro-batch, and none of its packs is too
    long, so that `collate_memory_packed` never raises (`RowsKept`, `PacksCollate`).
    `IsolatedDocuments` then compares the row with a document alone: offsets of
    documents, pads at the end, the cuts of the scan, and which earlier tokens the
    mask lets a token see.
  - RL (`ServedSequences`). The actor gets one flat row and has to find the sequences
    again: a position 0 is where one starts, so the starts and the ends, in order, are
    those of the sequences (`CutsAre`, `Enumerated`), and so are their messages
    (`SegmentsAre`). The last message gives the prompt that serving saw (`TokensAre`),
    thus the same sink and row of the table. The frontier at a token is the chunk
    it is in (`FrontierIsChunk`), and what is evicted there does not depend on
    how long the sequence became (`EvictedPrefix`), so the schedule computed over the
    whole sequence shows a token what serving showed it then (`StrideDocumentIs`). The
    rest is the argument about rows, with the padding of verl's row and the missing
    cuts of a row that is one sequence (`RlRowServes`).
* `Scoring_proofs`. Requests and marks, for any test sets, size of a pack and outputs.
  - `QuestionsAskedOnce`. `Materialized`: a run's requests are those of its test set.
    The rest is about the functions that make them. Each of the three stages says
    where every question of its result came from and that none is lost: regrouping
    keeps the questions of a memory in the order of its rows (`DynamicPackIs`),
    splitting puts the x-th question at the one place of one pack that `PackPlace`
    has for it (`SplitsAre`, by division), and a row asks all that is not excluded, in one
    request or in one each (`RequestsBuilt`). Ids stay apart because a stage
    appends tails of one length (`ConcatSame`).
  - `FullMarksGiven`. `Scored`, inductive with `Materialized`: every record and reward
    is that of an output of its request, or stands for a failure, and the report is the
    aggregate of the records. For outputs: the block after the last fence of an
    output that ends as SFT trains is the gold answers (`GoldBlock`), each is found under
    its number (`GoldFound`), and what exact match credits comes from a line of
    that block with the question's number (`ExactFound`), for every sequence of
    lines there is. Of the reward only the sum that full marks need is 3n
    (`FullReward`). For test sets: a sum of counts reaches the sum of sizes only
    where each count does (`TotalLess`).

What stays with TLC, and why:

* All liveness (`Ends`, `Served`, that nobody waits in `MemoryService`, so of
  `KeepsPromise` all but its last conjunct is proved): temporal
  properties under fairness are beyond the prover.
* `ServedIsTrained` of `Weights`. The module has a finite number of configurations,
  stages and forms of what is trained, and TLC goes through all of them; a proof
  would repeat its enumeration.

## 6. Not modelled

* Tensor computation, tokenization itself, prompt wording, HTTP parsing.
* C2L's synthesis of questions and training of adapters: calls to models, steps
  that succeed or fail in `C2LAdapter`.
* Of SFT: `train_embed` (no configuration sets it), the unpacked loader
  (`pack: false`), evaluation inside the loop, the learning-rate schedule.
* Of serving: the environment overrides of chunk size and window, the legacy
  global ranges, swallowed registration failures.
* Of RL: the balancer's fallback to an unpatched class, the end of the data in
  verl's asynchronous loop, metrics and advantages.
* Of evaluation: several runs or pools in one pipeline process, `--gen-only`, torn
  jsonl lines, the other rule-based judges and reference metrics.
* Preparation and splitting of raw datasets, plots, vendored libraries: sequential
  conversions, or third-party code.

`PROJECT.json` has the list by component.

## 7. Plan

Done: every module of section 2 and the proofs of section 5. What is left, in
this order:

1. `EvalPipeline`: torn jsonl lines, several runs that share `gen_q` and the model
   summary, `--gen-only`.
2. `ServeEvict`: registration failures.

---- MODULE ServeEvict ----
(***************************************************************************)
(* Chunk eviction while vLLM serves a batch: the hooks of                  *)
(* models/vllm/memory_qwen3 around one engine process and one worker.      *)
(*                                                                         *)
(* One engine step is Schedule* Dispatch UpdateStates Execute: the         *)
(* scheduler gives requests a slice of tokens (evict_registry.py clamps    *)
(* it, evict_manager.py frees blocks), the worker updates its registry,    *)
(* and flashinfer_evict.py decides which pages the slice reads.  Requests  *)
(* arrive, are preempted, are aborted and complete between two steps.      *)
(*                                                                         *)
(* vLLM itself is external: which request gets how many tokens, what the   *)
(* prefix cache still holds and which request is preempted is left open.   *)
(***************************************************************************)
EXTENDS StridePolicy

CONSTANTS
    Reqs,          \* request ids
    Prompts,       \* records [len, im]
    Shared,        \* leading tokens that all Prompts have in common
    Configs,       \* the environments a server may be started with
    BlockSize,     \* KV manager block, a multiple of PageSize
    SliceMax,      \* bound: tokens one request gets in one step
    MaxGen,        \* bound: generated tokens
    NoPrompt

(* A configuration is a record                                             *)
(*   mode        "message" or "stride"                  MEM_EVICT_MODE     *)
(*   clamp       clamp_enabled()                        MEM_EVICT_CLAMP    *)
(*   decodeEvict the schedule runs on past the prompt   MEM_EVICT_DECODE   *)
(*   physical    blocks are freed                       CHUNK_EVICT        *)
(*   oneProcess  engine and worker share one EVICT_REG                     *)
(*   tokenPrefill  vLLM counts the first token of a prompt, in a slice of    *)
(*               its own, as a prefill: the repository does not say          *)
(*   chunkSize, tokenLimit, nSink                       message mode       *)
(*   sinkLen, keepRecent                                CHUNK_EVICT        *)

ASSUME ServeAssumption ==
    /\ BlockSize \in Nat \ {0} /\ BlockSize % PageSize = 0
    /\ SliceMax \in Nat \ {0} /\ MaxGen \in Nat \ {0} /\ Shared \in Nat
    /\ NoPrompt \notin Prompts
    /\ \A p \in Prompts : p.len \in Nat \ {0} /\ p.im \subseteq 0 .. p.len - 1
    /\ \A p, q \in Prompts :
          Shared <= p.len /\ p.im \cap (0 .. Shared - 1) = q.im \cap (0 .. Shared - 1)

ASSUME ConfigAssumption ==
    \A c \in Configs :
        /\ c.mode \in {"message", "stride"}
        /\ {c.clamp, c.decodeEvict, c.physical, c.oneProcess, c.tokenPrefill} \subseteq BOOLEAN
        /\ c.chunkSize \in Nat \ {0}
        /\ {c.tokenLimit, c.nSink, c.sinkLen, c.keepRecent} \subseteq Nat

VARIABLES
    cfg,           \* the configuration of this server
    phase,         \* "engine", "update" or "build": where the step stands
    status,        \* absent, waiting, running, done
    prompt,        \* prompt_token_ids
    computed,      \* num_computed_tokens
    gen,           \* generated tokens
    batch,         \* tokens of this step's slice, 0 for none
    nulled,        \* blocks replaced by the null block
    engineReg,     \* keys of EVICT_REG in the engine process
    workerReg,     \* keys of EVICT_REG in the worker process
    runner,        \* keys of GPUModelRunner.requests
    cached,        \* prefix cache: which prompt's request filled a block
    hit,           \* the fillers of the cached blocks a request started from
    scan,          \* ssm_state, conv_state: how many of the request's tokens the
                   \* states in its slot have scanned
    cachedScan     \* the same of the states cached at the end of a block

vars == <<cfg, phase, status, prompt, computed, gen, batch, nulled,
          engineReg, workerReg, runner, cached, hit, scan, cachedScan>>

Foreign == -1      \* states left behind by another request
Mixed == -2        \* the request's tokens, scanned from such states on

SharedBlocks == 0 .. (Shared \div BlockSize) - 1
BlockTokens(b) == b * BlockSize .. (b + 1) * BlockSize - 1
PageTokens(b) == b * PageSize .. (b + 1) * PageSize - 1

-----------------------------------------------------------------------------
\* The schedule of one request, a function of its prompt.

Row(p) == ResolveParams(p.len)

\* Mutant: a frozen frontier is that of the whole prompt from the start.
EffSeqLenWhole(c, p, seqLen) ==
    IF c.mode = "stride" /\ c.decodeEvict THEN seqLen ELSE p.len

\* _eff_seq_len of a stride request; frontier_chunk of a message request.
EffSeqLen(c, p, seqLen) ==
    IF (c.mode = "stride" /\ c.decodeEvict) \/ seqLen < p.len THEN seqLen ELSE p.len

MessageLimits(c) == [chunks |-> 1073741824, tokens |-> c.tokenLimit, sink |-> c.nSink]

\* evicted_spans(seq_len), as the set of evicted tokens.
EvictedSpans(c, p, seqLen) ==
    LET eff == EffSeqLen(c, p, seqLen)
        stride == LET f == FrontierChunk(eff, SinkEnd(p), Row(p).chunk)
                  IN  IF f < 1 THEN {}
                      ELSE EvictedTokens(StrideChunking(f + 1, SinkEnd(p), Row(p).chunk),
                                         StrideLimits(Row(p).window), f)
        chunks == MessageChunking(p, c.chunkSize)
    IN  IF c.mode = "stride" THEN stride
        ELSE EvictedTokens(chunks, MessageLimits(c), MessageFrontier(chunks, eff))

\* The same, tabulated for every request and length.
SpansAt ==
    [c \in Configs |-> [p \in Prompts |-> [n \in 0 .. p.len + MaxGen |-> EvictedSpans(c, p, n)]]]

\* Mutant: the boundary of a request past the sink is one chunk too far.
ClampOneChunkLate(p, done, n) ==
    LET sink == SinkEnd(p)
        S == Row(p).chunk
        boundary == IF done < sink THEN sink
                    ELSE sink + ((done - sink) \div S + 2) * S
    IN  Min({n, boundary - done})

\* clamp_to_chunk_boundary
ClampToChunkBoundary(p, done, n) ==
    LET sink == SinkEnd(p)
        S == Row(p).chunk
        boundary == IF done < sink THEN sink
                    ELSE sink + ((done - sink) \div S + 1) * S
    IN  Min({n, boundary - done})

\* _mamba_block_aligned_split after the original has settled on n.
Slice(r, done, n) ==
    IF cfg.clamp /\ cfg.mode = "stride" /\ r \in engineReg
    THEN ClampToChunkBoundary(prompt[r], done, n)
    ELSE n

\* Mutant: nothing is freed before the prompt is computed.
EvictedBlocksInDecode(r, done) ==
    {b \in 0 .. CeilDiv(done, BlockSize) - 1 :
        /\ done >= prompt[r].len
        /\ BlockTokens(b) \subseteq SpansAt[cfg][prompt[r]][done]}

\* _evicted_block_indices: the registry first, the static window without it.
EvictedBlocks(r, done) ==
    LET nBlocks == CeilDiv(done, BlockSize)
        evictEnd == done - cfg.keepRecent
        bySchedule == {b \in 0 .. nBlocks - 1 :
                          BlockTokens(b) \subseteq SpansAt[cfg][prompt[r]][done]}
        byWindow == {b \in 0 .. nBlocks - 1 :
                        cfg.sinkLen \div BlockSize <= b /\ b < evictEnd \div BlockSize}
    IN  IF r \in engineReg THEN bySchedule
        ELSE IF evictEnd <= cfg.sinkLen THEN {} ELSE byWindow

\* _pages_in_spans: full pages inside an evicted span.
DroppedPages(c, p, n) ==
    LET spans == SpansAt[c][p][n]
    IN  {b \in 0 .. (n \div PageSize) - 1 : PageTokens(b) \subseteq spans}

\* Mutant: the docstring taken at its word, "Prefill rows (query_len > 1) pass
\* through".
KeptTokensDecodeOnly(r) ==
    LET n == computed[r] + batch[r]
        dropped == IF batch[r] = 1 /\ computed[r] > 0 /\ r \in workerReg
                   THEN UNION {PageTokens(b) : b \in DroppedPages(cfg, prompt[r], n)}
                   ELSE {}
    IN  (0 .. n - 1) \ dropped

\* _apply_drop: the tokens of the pages the slice of r reads, in order.
KeptTokens(r) ==
    LET n == computed[r] + batch[r]
        dropped == IF computed[r] > 0 /\ r \in workerReg
                   THEN UNION {PageTokens(b) : b \in DroppedPages(cfg, prompt[r], n)}
                   ELSE {}
    IN  (0 .. n - 1) \ dropped

\* What token t of the slice attends to: the kernel sees the compacted pages
\* and the shrunk seq_lens only, and lets the i-th of q query tokens read the
\* first seq_lens - q + i of them.
ServeView(r, t) ==
    LET kept == KeptTokens(r)
        limit == Cardinality(kept) - batch[r] + (t - computed[r]) + 1
    IN  {u \in kept : Cardinality({v \in kept : v < u}) < limit}

-----------------------------------------------------------------------------

Init ==
    /\ cfg \in Configs
    /\ phase = "engine"
    /\ status = [r \in Reqs |-> "absent"]
    /\ prompt = [r \in Reqs |-> NoPrompt]
    /\ computed = [r \in Reqs |-> 0]
    /\ gen = [r \in Reqs |-> 0]
    /\ batch = [r \in Reqs |-> 0]
    /\ nulled = [r \in Reqs |-> {}]
    /\ engineReg = {}
    /\ workerReg = {}
    /\ runner = {}
    /\ cached = [b \in SharedBlocks |-> NoPrompt]
    /\ hit = [r \in Reqs |-> << >>]
    /\ scan = [r \in Reqs |-> Foreign]
    /\ cachedScan = [b \in SharedBlocks |-> Foreign]

\* EVICT_REG is a module global: one dict per process.
SetEngineReg(keys) ==
    /\ engineReg' = keys
    /\ workerReg' = IF cfg.oneProcess THEN keys ELSE workerReg

SetWorkerReg(keys) ==
    /\ workerReg' = keys
    /\ engineReg' = IF cfg.oneProcess THEN keys ELSE engineReg

BetweenSteps == phase = "engine" /\ \A r \in Reqs : batch[r] = 0

\* add_request: the request is queued, then registered.
AddRequest(r, p) ==
    /\ BetweenSteps
    /\ status[r] = "absent"
    /\ status' = [status EXCEPT ![r] = "waiting"]
    /\ prompt' = [prompt EXCEPT ![r] = p]
    /\ SetEngineReg(engineReg \cup {r})
    /\ UNCHANGED <<cfg, phase, computed, gen, batch, nulled, runner, cached, hit, scan,
                   cachedScan>>

\* The scheduler frees everything the requests R hold.
Free(R) ==
    /\ computed' = [r \in Reqs |-> IF r \in R THEN 0 ELSE computed[r]]
    /\ nulled' = [r \in Reqs |-> IF r \in R THEN {} ELSE nulled[r]]
    /\ hit' = [r \in Reqs |-> IF r \in R THEN << >> ELSE hit[r]]
    /\ scan' = [r \in Reqs |-> IF r \in R THEN Foreign ELSE scan[r]]

Finish(R) ==
    /\ Free(R)
    /\ status' = [r \in Reqs |-> IF r \in R THEN "done" ELSE status[r]]
    /\ prompt' = [r \in Reqs |-> IF r \in R THEN NoPrompt ELSE prompt[r]]
    /\ gen' = [r \in Reqs |-> IF r \in R THEN 0 ELSE gen[r]]
    /\ UNCHANGED <<cfg, phase, batch, runner, cached, cachedScan>>

Active == {r \in Reqs : status[r] \in {"waiting", "running"}}

\* finish_requests with some ids: aborts by the client.
FinishRequests(R) ==
    /\ BetweenSteps
    /\ R # {} /\ R \subseteq Active
    /\ Finish(R)
    /\ SetEngineReg(engineReg \ R)

\* finish_requests(None): abort all.
FinishAll ==
    /\ BetweenSteps
    /\ Active # {}
    /\ Finish(Active)
    /\ SetEngineReg({})

\* A request that stops by itself is freed inside the scheduler; the hook on
\* finish_requests does not see it and its entry stays.
Complete(r) ==
    /\ BetweenSteps
    /\ status[r] = "running"
    /\ gen[r] > 0
    /\ computed[r] = prompt[r].len + gen[r] - 1
    /\ Finish({r})
    /\ UNCHANGED <<engineReg, workerReg>>

\* The scheduler takes all blocks back; prompt and generated tokens are
\* computed again later.
Preempt(r) ==
    /\ phase = "engine"
    /\ status[r] = "running"
    /\ batch[r] = 0
    /\ gen[r] < MaxGen
    /\ status' = [status EXCEPT ![r] = "waiting"]
    /\ Free({r})
    /\ UNCHANGED <<cfg, phase, prompt, gen, batch, engineReg, workerReg, runner, cached,
                   cachedScan>>

\* A running request gets a slice; remove_skipped_blocks runs at the tokens
\* computed so far.
Schedule(r, n) ==
    /\ phase = "engine"
    /\ status[r] = "running"
    /\ batch[r] = 0
    /\ gen[r] < MaxGen
    /\ n <= prompt[r].len + gen[r] - computed[r]
    /\ batch' = [batch EXCEPT ![r] = Slice(r, computed[r], n)]
    /\ nulled' = IF cfg.physical
                 THEN [nulled EXCEPT ![r] = @ \cup EvictedBlocks(r, computed[r])]
                 ELSE nulled
    /\ UNCHANGED <<cfg, phase, status, prompt, computed, gen, engineReg, workerReg,
                   runner, cached, hit, scan, cachedScan>>

\* A waiting request starts behind h cached blocks, with the state cached at
\* their end.  It holds no block yet, so there is none to free.
Admit(r, n, h) ==
    /\ phase = "engine"
    /\ status[r] = "waiting"
    /\ \A b \in 0 .. h - 1 : b \in SharedBlocks /\ cached[b] # NoPrompt
    /\ n <= prompt[r].len + gen[r] - h * BlockSize
    /\ status' = [status EXCEPT ![r] = "running"]
    /\ computed' = [computed EXCEPT ![r] = h * BlockSize]
    /\ batch' = [batch EXCEPT ![r] = Slice(r, h * BlockSize, n)]
    /\ hit' = [hit EXCEPT ![r] = [k \in 1 .. h |-> cached[k - 1]]]
    /\ scan' = [scan EXCEPT ![r] = IF h = 0 THEN Foreign ELSE cachedScan[h - 1]]
    /\ UNCHANGED <<cfg, phase, prompt, gen, nulled, engineReg, workerReg, runner, cached,
                   cachedScan>>

\* The block pool reuses a cached block that no request holds.
Recycle(b) ==
    /\ phase = "engine"
    /\ cached[b] # NoPrompt
    /\ \A r \in Reqs :
          status[r] = "running" => b \in nulled[r] \/ computed[r] + batch[r] <= b * BlockSize
    /\ cached' = [cached EXCEPT ![b] = NoPrompt]
    /\ cachedScan' = [cachedScan EXCEPT ![b] = Foreign]
    /\ UNCHANGED <<cfg, phase, status, prompt, computed, gen, batch, nulled,
                   engineReg, workerReg, runner, hit, scan>>

Dispatch ==
    /\ phase = "engine"
    /\ \E r \in Reqs : batch[r] > 0
    /\ phase' = "update"
    /\ UNCHANGED <<cfg, status, prompt, computed, gen, batch, nulled, engineReg,
                   workerReg, runner, cached, hit, scan, cachedScan>>

\* _update_states: finished requests have left the runner and scheduled ones
\* have joined; the registry drops every key the runner does not track and
\* registers the others.
UpdateStates ==
    /\ phase = "update"
    /\ runner' = {r \in runner : status[r] # "done"} \cup {r \in Reqs : batch[r] > 0}
    /\ SetWorkerReg(runner')
    /\ phase' = "build"
    /\ UNCHANGED <<cfg, status, prompt, computed, gen, batch, nulled, cached, hit, scan,
                   cachedScan>>

\* Shared blocks that the slice of r fills.
Filled(r) ==
    {b \in SharedBlocks : /\ computed[r] < (b + 1) * BlockSize
                          /\ (b + 1) * BlockSize <= computed[r] + batch[r]}

\* num_prefills > 0: a slice of several tokens is a prefill; whether a prompt's
\* first token alone is one, vLLM decides.
HasPrefills ==
    \E r \in Reqs : batch[r] > 1 \/ (batch[r] = 1 /\ computed[r] = 0 /\ cfg.tokenPrefill)

\* Mutant: the first slice takes the slot as it finds it.
InitialStateUncleared(r) == scan[r]

\* gdn2_paged_compute: the states a slice starts from.  One pass is made over
\* the batch; on the prefill kernels, states are zero without has_initial_state;
\* on the decode kernels they are what the slot holds.
InitialState(r) == IF HasPrefills /\ computed[r] = 0 THEN 0 ELSE scan[r]

\* The states after n more tokens.
Scanned(s, n) == IF s < 0 THEN Mixed ELSE s + n

\* The slices are computed; a request whose last token was computed samples
\* the next one.  The first request to fill a block puts it and the states at
\* its end in the cache.
Execute ==
    /\ phase = "build"
    /\ computed' = [r \in Reqs |-> computed[r] + batch[r]]
    /\ gen' = [r \in Reqs |->
                  IF batch[r] > 0 /\ computed[r] + batch[r] = prompt[r].len + gen[r]
                  THEN gen[r] + 1 ELSE gen[r]]
    /\ LET new == {b \in SharedBlocks : cached[b] = NoPrompt /\ \E r \in Reqs : b \in Filled(r)}
       IN  \E filler \in [new -> Reqs] :
              /\ \A b \in new : b \in Filled(filler[b])
              /\ cached' = [b \in SharedBlocks |->
                               IF b \in new THEN prompt[filler[b]] ELSE cached[b]]
              /\ cachedScan' = [b \in SharedBlocks |->
                    IF b \in new
                    THEN Scanned(InitialState(filler[b]), (b + 1) * BlockSize - computed[filler[b]])
                    ELSE cachedScan[b]]
    /\ scan' = [r \in Reqs |->
                   IF batch[r] > 0 THEN Scanned(InitialState(r), batch[r]) ELSE scan[r]]
    /\ batch' = [r \in Reqs |-> 0]
    /\ phase' = "engine"
    /\ UNCHANGED <<cfg, status, prompt, nulled, engineReg, workerReg, runner, hit>>

Next ==
    \/ \E r \in Reqs :
          \/ \E p \in Prompts : AddRequest(r, p)
          \/ \E n \in 1 .. SliceMax : Schedule(r, n)
          \/ \E n \in 1 .. SliceMax, h \in 0 .. Cardinality(SharedBlocks) : Admit(r, n, h)
          \/ Preempt(r)
          \/ Complete(r)
    \/ \E R \in SUBSET Reqs : FinishRequests(R)
    \/ FinishAll
    \/ \E b \in SharedBlocks : Recycle(b)
    \/ Dispatch
    \/ UpdateStates
    \/ Execute

Spec == Init /\ [][Next]_vars

-----------------------------------------------------------------------------

TypeOK ==
    /\ cfg \in Configs
    /\ phase \in {"engine", "update", "build"}
    /\ status \in [Reqs -> {"absent", "waiting", "running", "done"}]
    /\ prompt \in [Reqs -> Prompts \cup {NoPrompt}]
    /\ \A r \in Reqs : r \in Active => prompt[r] \in Prompts
    /\ computed \in [Reqs -> Nat]
    /\ gen \in [Reqs -> 0 .. MaxGen]
    /\ batch \in [Reqs -> 0 .. SliceMax]
    /\ nulled \in [Reqs -> SUBSET Nat]
    /\ \A r \in Reqs : \A b \in nulled[r] : (b + 1) * BlockSize <= computed[r]
    /\ engineReg \subseteq Reqs /\ workerReg \subseteq Reqs /\ runner \subseteq Reqs
    /\ cached \in [SharedBlocks -> Prompts \cup {NoPrompt}]
    /\ hit \in [Reqs -> Seq(Prompts)]
    /\ \A r \in Reqs : Len(hit[r]) * BlockSize <= computed[r]
    /\ scan \in [Reqs -> Nat \cup {Foreign, Mixed}]
    /\ cachedScan \in [SharedBlocks -> Nat \cup {Foreign, Mixed}]

Scheduled == {r \in Reqs : phase = "build" /\ batch[r] > 0}
SliceTokens(r) == computed[r] .. computed[r] + batch[r] - 1

\* evict_manager.py: "reads never hit a null block".  No page that a slice
\* reads lies in a block the engine has freed.
ReadsLiveBlocks ==
    \A r \in Scheduled : \A b \in nulled[r] : BlockTokens(b) \cap KeptTokens(r) = {}

\* Whether the slice of r went through the clamp.  Where engine and worker share
\* their registry, the worker drops a request that still waits, and its first
\* slice comes out of the engine as wide as the scheduler likes.
Clamped(r) == cfg.oneProcess => computed[r] > Len(hit[r]) * BlockSize

\* A prompt's first token, alone in its slice, in a batch that runs on the
\* decode kernels because vLLM counts it as a decode: nothing clears its slot.
FirstTokenDecoded(r) ==
    /\ ~cfg.tokenPrefill
    /\ computed[r] = 0
    /\ \A q \in Reqs : batch[q] <= 1

\* gdn2_side.py: "This implementation uses continuous scanning", as training
\* does.  Every slice starts from the states of exactly the tokens before it,
\* whatever was preempted, aborted, admitted behind cached blocks or mixed
\* with decodes in between, and whoever owned the slot before.  Where vLLM
\* counts a prompt's first token as a decode, such a token takes over another
\* request's states, and what is scanned after it inherits them; no other slice
\* starts from states that are not its own.
StateIsScan ==
    \A r \in Scheduled :
        \/ InitialState(r) = computed[r]
        \/ InitialState(r) = Foreign /\ FirstTokenDecoded(r)
        \/ InitialState(r) = Mixed /\ computed[r] > 0 /\ ~cfg.tokenPrefill

TrainingView(p, t) == StrideTrainingView(t, SinkEnd(p), Row(p).chunk, Row(p).window)

\* eviction_policy.py: "the serve page-drop visible set equals the token-exact
\* training mask (no leak)", for every token of every slice, prefilled,
\* generated, computed again after preemption or behind cached blocks, but the
\* first slice of a request whose registration was lost in an only process.
ServeViewIsTrainingView ==
    cfg.mode = "stride" /\ cfg.clamp /\ cfg.decodeEvict =>
        \A r \in Scheduled : Clamped(r) =>
            \A t \in SliceTokens(r) : ServeView(r, t) = TrainingView(prompt[r], t)

\* README.md: "inference releases evicted KV pages, preserving the same
\* visibility boundary in training and deployment", as far as it goes in message
\* mode, where a slice may cross chunks and a fresh prompt's first slice is left
\* alone: the last token of every other slice sees all that its training view
\* shows, and beyond that only pages with a token of the view in them.
SliceEndSeesTraining ==
    cfg.mode = "message" =>
        \A r \in Scheduled :
            LET t == computed[r] + batch[r] - 1
                view == MessageTrainingView(t, MessageChunking(prompt[r], cfg.chunkSize),
                                            MessageLimits(cfg))
                more == ServeView(r, t) \ view
            IN  t < prompt[r].len =>
                  /\ view \subseteq ServeView(r, t)
                  /\ computed[r] > 0 /\ r \in workerReg =>
                        \A u \in more : PageTokens(u \div PageSize) \cap view # {}

\* What the window holds at most when the next chunk is opened.
WindowTokens(c, p) ==
    LET S == Row(p).chunk
        sink == c.nSink * c.chunkSize
    IN  IF c.mode = "stride"
        THEN SinkEnd(p) + Max({1, (Row(p).window - SinkEnd(p)) \div S}) * S
        ELSE Max({c.tokenLimit, sink + c.chunkSize})

\* Tokens of request r generated under a frozen frontier.
FrozenTokens(r) == IF cfg.mode = "stride" /\ cfg.decodeEvict THEN 0 ELSE gen[r]

LiveBlocks(r) == (0 .. CeilDiv(computed[r] + batch[r], BlockSize) - 1) \ nulled[r]

\* evict_manager.py: "peak KV stays bounded at [sink + recent window]".  When a
\* slice runs, the live blocks hold what the window kept before it, the slice
\* itself, tokens generated under a frozen frontier, and the rest of the blocks
\* in which the evicted span starts and ends: whole pages in stride mode, where
\* chunks are, and tokens in message mode.  The first slice after a prefix-cache
\* hit is left out: the cached blocks arrive after the only call that frees any.
KVBounded ==
    cfg.physical =>
        \A r \in Scheduled :
            LET window == IF cfg.mode = "stride" THEN Row(prompt[r]).window ELSE cfg.tokenLimit
                rest == 2 * (BlockSize - (IF cfg.mode = "stride" THEN PageSize ELSE 1))
            IN  window > 0 /\ computed[r] > Len(hit[r]) * BlockSize =>
                    Cardinality(LiveBlocks(r)) <=
                        CeilDiv(WindowTokens(cfg, prompt[r]) + batch[r] + FrozenTokens(r) + rest,
                                BlockSize)
====

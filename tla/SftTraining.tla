---- MODULE SftTraining ----
(***************************************************************************)
(* The SFT loop of train/sft/loop.py on every rank: each takes its         *)
(* micro-batches from its own PackPlanner, accumulates gradients, and      *)
(* meets the others in the all-reduce of the last backward pass and in the *)
(* one of the logged loss.  Rank 0 saves.                                  *)
(*                                                                         *)
(* A gradient is the sequence of packs it sums over; weights are the       *)
(* sequence of updates applied to them, each the gradients of all ranks.   *)
(***************************************************************************)
EXTENDS PackPlanner

CONSTANTS
    Items,         \* data.datasets: records [rows, count]
    MinLen,        \* data.min_len
    Shapes,        \* records [ga, mb]: grad_accum and batch_size
    Draws,         \* what Random(seed), Random(seed + 1), ... may be: functions on
                   \* the epochs there are, their number being the bound on epoch
    W0,            \* the examples random.Random(f"{w_seed}:{i}") draws for W=0
    MaxSteps, LogEvery, SaveEvery

ASSUME TrainingAssumption ==
    /\ \A s \in Shapes : s.ga \in Nat \ {0} /\ s.mb \in Nat \ {0}
    /\ MaxSteps \in Nat /\ LogEvery \in Nat \ {0} /\ SaveEvery \in Nat
    /\ \A rng \in Draws : 0 \in DOMAIN rng /\ DOMAIN rng \subseteq Nat

\* The files hold what build_sample writes.
ASSUME DataAssumption ==
    /\ Items \in Seq(ToSet(Items)) /\ MinLen \in Nat
    /\ \A k \in DOMAIN Items : /\ Items[k].rows \in Seq(ToSet(Items[k].rows))
                              /\ Items[k].count \in Nat
                              /\ \A e \in ToSet(Items[k].rows) : IsExample(e)

Ranks == 0 .. World - 1
NoPlan == [key |-> -1, packs |-> << >>, steps |-> << >>]

VARIABLES
    ds,            \* the dataset: [examples, lengths, labels, items], items being
                   \* what __getitem__ returns
    shape,         \* the run's grad_accum and batch_size
    plans,         \* what _plan returns, on any rank, in every epoch
    pc,            \* where each rank is in the loop
    epoch,         \* epoch of _cycle and, through set_epoch, of the planner
    at,            \* micro-batches the epoch's iterator has yielded
    cache,         \* _cache_key and _cache
    micro, step,
    batch,         \* the micro-batch: the members of its packs
    control,       \* its rows as _set_mem_control and the mask hold them
    grads,         \* packs accumulated since zero_grad
    weights,
    saved          \* step_<n>/trainable.pt

run == <<ds, shape, plans>>
vars == <<run, pc, epoch, at, cache, micro, step, batch, control, grads, weights, saved>>

N == World * shape.ga * shape.mb

\* build_dataset; MixedArrowDataset.lengths, label_counts and __getitem__.
Dataset ==
    LET examples == BuildMixture(Items, Target, MinLen)
    IN  [examples |-> examples,
         lengths |-> [i \in DOMAIN examples |-> examples[i].len + SystemLen],
         labels |-> [i \in DOMAIN examples |-> examples[i].labels],
         items |-> [i \in DOMAIN examples |-> Document(examples[i], i \in W0)]]

\* collate_memory_packed raises on a pack longer than the target.
Collates(members) == Weight(ds.lengths, members) <= Target

-----------------------------------------------------------------------------

PlanFor(e) == [key |-> e, packs |-> plans[e].packs, steps |-> plans[e].steps]

\* Rank 0 has asked for len(planner) before the loop starts.
Init ==
    /\ ds = Dataset
    /\ shape \in Shapes
    /\ \E rng \in Draws :
          plans = [e \in DOMAIN rng |-> Plan([lengths |-> ds.lengths, labels |-> ds.labels], N, rng[e])]
    /\ pc = [r \in Ranks |-> "top"]
    /\ epoch = [r \in Ranks |-> 0]
    /\ at = [r \in Ranks |-> 0]
    /\ cache = [r \in Ranks |-> IF r = 0 THEN PlanFor(0) ELSE NoPlan]
    /\ micro = [r \in Ranks |-> 0]
    /\ step = [r \in Ranks |-> 0]
    /\ batch = [r \in Ranks |-> << >>]
    /\ control = [r \in Ranks |-> << >>]
    /\ grads = [r \in Ranks |-> << >>]
    /\ weights = [r \in Ranks |-> << >>]
    /\ saved = << >>

Goto(r, label) == pc' = [pc EXCEPT ![r] = label]

\* while step < max_steps: zero_grad
ZeroGrad(r) ==
    /\ pc[r] = "top" /\ step[r] < MaxSteps
    /\ grads' = [grads EXCEPT ![r] = << >>]
    /\ micro' = [micro EXCEPT ![r] = 0]
    /\ Goto(r, "fetch")
    /\ UNCHANGED <<run, epoch, at, cache, step, batch, control, weights, saved>>

\* Mutant: a plan once made is kept.
EnsurePlanOnce(r) ==
    IF cache[r] = NoPlan THEN PlanFor(epoch[r]) ELSE cache[r]

\* _ensure_plan
EnsurePlan(r) ==
    IF cache[r].key # epoch[r] THEN PlanFor(epoch[r]) ELSE cache[r]

Upcoming(r) == MicroBatches(EnsurePlan(r).steps, r, shape.ga, shape.mb)

\* next(data_iter): the next micro-batch, collated.
Fetch(r) ==
    /\ pc[r] = "fetch"
    /\ at[r] < Len(Upcoming(r))
    /\ cache' = [cache EXCEPT ![r] = EnsurePlan(r)]
    /\ at' = [at EXCEPT ![r] = @ + 1]
    /\ LET packs == Upcoming(r)[at[r] + 1]
       IN  batch' = [batch EXCEPT ![r] =
                        [k \in DOMAIN packs |-> cache'[r].packs[packs[k]].members]]
    /\ Goto(r, IF \A k \in DOMAIN batch'[r] : Collates(batch'[r][k]) THEN "forward" ELSE "raised")
    /\ UNCHANGED <<run, epoch, micro, step, control, grads, weights, saved>>

\* _cycle: the loader is exhausted, the next epoch begins.
NextEpoch(r) ==
    /\ pc[r] = "fetch"
    /\ at[r] = Len(Upcoming(r))
    /\ epoch[r] + 1 \in DOMAIN plans
    /\ cache' = [cache EXCEPT ![r] = EnsurePlan(r)]
    /\ epoch' = [epoch EXCEPT ![r] = @ + 1]
    /\ at' = [at EXCEPT ![r] = 0]
    /\ UNCHANGED <<run, pc, micro, step, batch, control, grads, weights, saved>>

\* MemoryQwen3Model.forward with the schedule and the bounds of the collator;
\* _set_mem_control overwrites what the last forward pass left.
Forward(r) ==
    /\ pc[r] = "forward"
    /\ control' = [control EXCEPT ![r] =
                       [k \in DOMAIN batch[r] |->
                           CollatedRow([i \in DOMAIN batch[r][k] |-> ds.items[batch[r][k][i]]],
                                       Target)]]
    /\ Goto(r, "backward")
    /\ UNCHANGED <<run, epoch, at, cache, micro, step, batch, grads, weights, saved>>

\* backward, under no_sync except in the last micro-step.
Backward(r) ==
    /\ pc[r] = "backward"
    /\ grads' = [grads EXCEPT ![r] = @ \o batch[r]]
    /\ micro' = [micro EXCEPT ![r] = @ + 1]
    /\ Goto(r, IF micro[r] = shape.ga - 1 THEN "reduce" ELSE "fetch")
    /\ UNCHANGED <<run, epoch, at, cache, step, batch, control, weights, saved>>

\* Mutant: only rank 0 enters the all-reduce of the loss it prints.
ShouldLogMain(r, n) == r = 0 /\ (n % LogEvery = 0 \/ n = 1)

\* should_log
ShouldLog(r, n) == n % LogEvery = 0 \/ n = 1

\* DDP's all-reduce of the gradients, then opt.step and sched.step: nobody
\* passes before everybody is there.
Update ==
    /\ \A r \in Ranks : pc[r] = "reduce"
    /\ weights' = [r \in Ranks |-> Append(weights[r], grads)]
    /\ step' = [r \in Ranks |-> step[r] + 1]
    /\ pc' = [r \in Ranks |-> IF ShouldLog(r, step'[r]) THEN "log" ELSE "save"]
    /\ UNCHANGED <<run, epoch, at, cache, micro, batch, control, grads, saved>>

\* The all-reduce of the logged loss.
LogLoss ==
    /\ \A r \in Ranks : pc[r] = "log"
    /\ pc' = [r \in Ranks |-> "save"]
    /\ UNCHANGED <<run, epoch, at, cache, micro, step, batch, control, grads,
                   weights, saved>>

\* save_checkpoint: a file of the same name is overwritten.
SaveCheckpoint(r) ==
    saved' = [n \in DOMAIN saved \cup {step[r]} |-> IF n = step[r] THEN weights[r] ELSE saved[n]]

\* The end of an iteration.
EndStep(r) ==
    /\ pc[r] = "save"
    /\ IF r = 0 /\ SaveEvery > 0 /\ step[r] % SaveEvery = 0
       THEN SaveCheckpoint(r) ELSE UNCHANGED saved
    /\ Goto(r, "top")
    /\ UNCHANGED <<run, epoch, at, cache, micro, step, batch, control, grads, weights>>

\* After the loop.
Finish(r) ==
    /\ pc[r] = "top" /\ step[r] >= MaxSteps
    /\ IF r = 0 THEN SaveCheckpoint(r) ELSE UNCHANGED saved
    /\ Goto(r, "done")
    /\ UNCHANGED <<run, epoch, at, cache, micro, step, batch, control, grads, weights>>

RankStep(r) ==
    \/ ZeroGrad(r) \/ Fetch(r) \/ NextEpoch(r) \/ Forward(r) \/ Backward(r)
    \/ EndStep(r) \/ Finish(r)

Next == (\E r \in Ranks : RankStep(r)) \/ Update \/ LogLoss

Spec == Init /\ [][Next]_vars

\* Every rank is a process of its own, and a collective that all have entered
\* completes.
FairSpec ==
    Spec /\ (\A r \in Ranks : WF_vars(RankStep(r))) /\ WF_vars(Update) /\ WF_vars(LogLoss)

-----------------------------------------------------------------------------

TypeOK ==
    /\ shape \in Shapes
    /\ pc \in [Ranks -> {"top", "fetch", "forward", "backward", "reduce", "log", "save",
                         "done", "raised"}]
    /\ step \in [Ranks -> 0 .. MaxSteps]
    /\ \A r \in Ranks : micro[r] \in 0 .. shape.ga /\ at[r] \in Nat /\ epoch[r] \in DOMAIN plans
    /\ \A r \in Ranks : Len(weights[r]) = step[r]

StepsPerEpoch == Len(cache[0].packs) \div N
EpochOf(k) == (k - 1) \div StepsPerEpoch

\* The packs an update summed over, in no particular order.
PacksOf(update) == FlattenSeq([k \in 1 .. World |-> update[k - 1]])

\* data.py: "Every rank runs the IDENTICAL algorithm from the same seed,
\* derives the same global plan, and yields only its own packs".  The k-th
\* update sums over exactly the packs that one plan, that of its epoch, put
\* into one step: no pack twice, none of a neighbouring step or epoch.
UpdateIsPlannedStep ==
    \A r \in Ranks : pc[r] \in {"log", "save"} =>
        LET plan == plans[EpochOf(step[r])]
            planned == plan.steps[((step[r] - 1) % StepsPerEpoch) + 1]
            summed == PacksOf(weights[r][step[r]])
        IN  /\ Len(summed) = N
            /\ ToSet(summed) = {plan.packs[p].members : p \in ToSet(planned)}

\* The examples rank 0 has trained on in the epoch of its last update.
TrainedInEpoch ==
    LET first == EpochOf(step[0]) * StepsPerEpoch
        updates == SubSeq(weights[0], first + 1, step[0])
    IN  FlattenSeq(FlattenSeq([k \in DOMAIN updates |-> PacksOf(updates[k])]))

\* data.py: "drop tail that can't fill a full step"; train_sft.py: "every
\* example + sink must stay <= max_len (= pack target)".  Within an epoch no
\* example is trained on twice, and when it ends the only ones left out are
\* those of fewer than N packs: none is lost to its length or to the packing.
EpochCoversExamples ==
    pc[0] = "save" =>
        LET left == DOMAIN ds.examples \ ToSet(TrainedInEpoch)
            packs == {ToSet(cache[0].packs[p].members) : p \in DOMAIN cache[0].packs}
        IN  /\ IsInjective(TrainedInEpoch)
            /\ step[0] % StepsPerEpoch = 0 =>
                  \E P \in SUBSET packs : Cardinality(P) < N /\ left = UNION P

\* data.py: "balanced so every step supervises ~equal label tokens".  Two steps
\* of an epoch differ by no more than the heaviest pack they hold.
LabelsBalanced ==
    \A r \in Ranks : \A s, t \in DOMAIN cache[r].steps :
        LET packs == cache[r].packs
            a == cache[r].steps[s]
            b == cache[r].steps[t]
        IN  StepLabels(packs, a) - StepLabels(packs, b)
                <= Max({packs[p].labels : p \in ToSet(a)})

\* What a token of an example sees by the schedule of eviction.py, on its own.
LoneView(i, t) ==
    LET e == ds.examples[i]
        ch == WithSystem(e.spans)
    IN  (0 .. t) \ EvictedTokens(ch, LimitsOf(e, i \in W0), ChunkOf(ch, t))

\* collator.py: "attention can't see it (and it can't see real docs)",
\* "document states still reset inside each pack".  In a forward pass every
\* token sees, scans and is rotated by exactly what it would be in a row of its
\* own, and a token of the pad span reaches no document.
DocumentsIsolated ==
    \A r \in Ranks : pc[r] = "backward" => \A k \in DOMAIN batch[r] :
        LET row == control[r][k]
            docs == [i \in DOMAIN batch[r][k] |-> [len |-> ds.lengths[batch[r][k][i]]]]
        IN  /\ \A i \in DOMAIN docs :
                  LET off == Offset(docs, i)
                  IN  \A t \in 0 .. docs[i].len - 1 :
                         LET q == off + t + 1
                         IN  /\ {u - off - 1 : u \in Visible(row, q)} = LoneView(batch[r][k][i], t)
                             /\ Scanned(row, q) = off + 1 .. q
                             /\ row.pos[q] = t
            /\ \A q \in Used(docs) + 1 .. Target :
                  (Visible(row, q) \cup Scanned(row, q)) \cap (1 .. Used(docs)) = {}

\* Every rank runs to its end and the last checkpoint holds all updates.
Ends ==
    <>(/\ \A r \in Ranks : pc[r] = "done"
       /\ MaxSteps \in DOMAIN saved /\ Len(saved[MaxSteps]) = MaxSteps)
====

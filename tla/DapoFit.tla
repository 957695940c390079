---- MODULE DapoFit ----
(***************************************************************************)
(* The synchronous DAPO loop (train/rl/dapo_fit.py): batches of prompts are *)
(* generated until enough groups are informative, then the rollout replicas *)
(* sleep while the actor is trained on them, a checkpoint is saved at some   *)
(* steps, and the replicas wake up with the new weights.  The trainer may    *)
(* die at any time and be launched again.                                    *)
(*                                                                          *)
(* Weights are named by the number of updates they have behind them; what   *)
(* verl's dataloader and checkpoint do is modelled from their use.           *)
(***************************************************************************)
EXTENDS Naturals, FiniteSets, FiniteSetsExt

CONSTANTS
    EpochBatches,   \* len(train_dataloader)
    TotalEpochs,
    TotalSteps,     \* total_training_steps
    BatchGroups,    \* groups in one generated batch
    Target,         \* groups in one update: train_batch_size
    MaxGenBatches,
    SaveFreq, TestFreq,
    Relaunches      \* bound: how often the trainer is launched again

\* What the theorems assume of the constants.
DapoAssumption ==
    /\ {EpochBatches, TotalEpochs, TotalSteps, BatchGroups, Target, MaxGenBatches,
        SaveFreq, TestFreq} \subseteq Nat \ {0}
    /\ Relaunches \in Nat

VARIABLES
    pc,         \* what the driver does next
    step,       \* global_steps
    epoch,      \* the epoch of the loop
    pos,        \* batches taken from the dataloader in this pass
    exhausted,  \* epoch_exhausted
    ngen,       \* num_gen_batches of this step
    buffer,     \* the groups kept for this update, by the weights that made them
    actor,      \* the actor's weights
    replicas,   \* the replicas' weights and whether they are awake
    disk,       \* the last checkpoint: step, actor, pos
    tested,     \* the weights validated last
    launches    \* launches left

vars == <<pc, step, epoch, pos, exhausted, ngen, buffer, actor, replicas, disk, tested, launches>>

Have == buffer.n
IsLastStep == step >= TotalSteps

\* Mutant: the buffer outlives the step while it is not full.
NewStepKeeps ==
    /\ ngen' = 0
    /\ buffer' = IF Have < Target THEN buffer ELSE [n |-> 0, by |-> {}]

NewStep ==
    /\ ngen' = 0
    /\ buffer' = [n |-> 0, by |-> {}]

Init ==
    /\ pc = "load" /\ step = 0 /\ epoch = 0 /\ pos = 0 /\ exhausted = FALSE
    /\ ngen = 0 /\ buffer = [n |-> 0, by |-> {}]
    /\ actor = 0 /\ replicas = [by |-> 0, awake |-> FALSE]
    /\ disk = [step |-> 0, actor |-> 0, pos |-> 0]
    /\ tested = 0 /\ launches = Relaunches

\* fit up to its loop: the checkpoint is loaded, the replicas get its weights
\* and validate them.  verl's dataloader starts from nothing at what it takes for
\* an epoch boundary.
Load ==
    /\ pc = "load"
    /\ actor' = disk.actor
    /\ replicas' = [by |-> disk.actor, awake |-> TRUE]
    /\ tested' = disk.actor
    /\ step' = disk.step + 1
    /\ epoch' = disk.step \div EpochBatches
    /\ pos' = IF disk.step % EpochBatches = 0 THEN 0 ELSE disk.pos
    /\ exhausted' = FALSE
    /\ NewStep
    /\ pc' = IF epoch' < TotalEpochs THEN "gen" ELSE "done"
    /\ UNCHANGED <<disk, launches>>

\* One round of the oversampling loop that gets a batch, with k informative
\* groups in it; rows beyond the target are cut off.
Generate(k) ==
    /\ pc = "gen" /\ pos < EpochBatches
    /\ pos' = pos + 1
    /\ ngen' = ngen + 1
    /\ buffer' = [n |-> Min({Have + k, Target}),
                  by |-> buffer.by \cup IF k = 0 THEN {} ELSE {replicas.by}]
    /\ pc' = IF Have + k >= Target \/ ngen' >= MaxGenBatches THEN "full" ELSE "gen"
    /\ UNCHANGED <<step, epoch, exhausted, actor, replicas, disk, tested, launches>>

\* Mutant: nobody notes that the pass is over.
ExhaustForgets ==
    /\ pc = "gen" /\ pos = EpochBatches
    /\ pc' = "full"
    /\ UNCHANGED <<step, epoch, pos, exhausted, ngen, buffer, actor, replicas, disk, tested, launches>>

\* The dataloader has nothing left in this pass.
Exhaust ==
    /\ pc = "gen" /\ pos = EpochBatches
    /\ exhausted' = TRUE
    /\ pc' = "full"
    /\ UNCHANGED <<step, epoch, pos, ngen, buffer, actor, replicas, disk, tested, launches>>

\* while not epoch_exhausted, for epoch in range: on to the next step, in this
\* pass or in a new one.
Continue ==
    IF ~exhausted THEN pc' = "gen" /\ UNCHANGED <<epoch, pos, exhausted>>
    ELSE /\ epoch' = epoch + 1 /\ pos' = 0 /\ exhausted' = FALSE
         /\ pc' = IF epoch + 1 < TotalEpochs THEN "gen" ELSE "done"

\* Mutant: a skipped step puts the replicas to sleep.
SkipAsleep ==
    /\ pc = "full" /\ Have = 0
    /\ replicas' = [replicas EXCEPT !.awake = FALSE]
    /\ Continue /\ NewStep
    /\ UNCHANGED <<step, actor, disk, tested, launches>>

\* Mutant: a skipped step counts.
SkipCounts ==
    /\ pc = "full" /\ Have = 0
    /\ Continue /\ NewStep
    /\ step' = step + 1
    /\ UNCHANGED <<actor, replicas, disk, tested, launches>>

\* No informative group at all: the step is tried again with the next batches.
Skip ==
    /\ pc = "full" /\ Have = 0
    /\ Continue /\ NewStep
    /\ UNCHANGED <<step, actor, replicas, disk, tested, launches>>

SleepReplicas ==
    /\ pc = "full" /\ Have > 0
    /\ replicas' = [replicas EXCEPT !.awake = FALSE]
    /\ pc' = "update"
    /\ UNCHANGED <<step, epoch, pos, exhausted, ngen, buffer, actor, disk, tested, launches>>

\* Old log-probs, advantages and the update of the actor.
UpdateActor ==
    /\ pc = "update"
    /\ actor' = actor + 1
    /\ pc' = "save"
    /\ UNCHANGED <<step, epoch, pos, exhausted, ngen, buffer, replicas, disk, tested, launches>>

\* Mutant: the last step is not saved for its own sake.
SaveDueByFreq == step % SaveFreq = 0
SaveDue == IsLastStep \/ step % SaveFreq = 0

SaveCheckpoint ==
    /\ pc = "save"
    /\ disk' = IF SaveDue THEN [step |-> step, actor |-> actor, pos |-> pos] ELSE disk
    /\ pc' = "wake"
    /\ UNCHANGED <<step, epoch, pos, exhausted, ngen, buffer, actor, replicas, tested, launches>>

UpdateWeights ==
    /\ pc = "wake"
    /\ replicas' = [by |-> actor, awake |-> TRUE]
    /\ pc' = "test"
    /\ UNCHANGED <<step, epoch, pos, exhausted, ngen, buffer, actor, disk, tested, launches>>

\* Validation where it is due, and the end of the step.
EndStep ==
    /\ pc = "test"
    /\ tested' = IF IsLastStep \/ step % TestFreq = 0 THEN replicas.by ELSE tested
    /\ step' = step + 1
    /\ IF IsLastStep THEN pc' = "done" /\ UNCHANGED <<epoch, pos, exhausted>> ELSE Continue
    /\ NewStep
    /\ UNCHANGED <<actor, replicas, disk, launches>>

\* The trainer dies, or has ended, and is launched again; saving is atomic for
\* the loader, which follows the tracker written last.
Relaunch ==
    /\ pc # "load" /\ launches > 0
    /\ launches' = launches - 1
    /\ pc' = "load"
    /\ UNCHANGED <<step, epoch, pos, exhausted, ngen, buffer, actor, replicas, disk, tested>>

Drive ==
    \/ Load \/ (\E k \in 0..BatchGroups : Generate(k)) \/ Exhaust \/ Skip
    \/ SleepReplicas \/ UpdateActor \/ SaveCheckpoint \/ UpdateWeights \/ EndStep

Next == Drive \/ Relaunch

Spec == Init /\ [][Next]_vars /\ WF_vars(Drive)

TypeOK ==
    /\ pc \in {"load", "gen", "full", "update", "save", "wake", "test", "done"}
    /\ step \in Nat /\ epoch \in Nat /\ pos \in 0..EpochBatches
    /\ exhausted \in BOOLEAN /\ ngen \in 0..MaxGenBatches
    /\ buffer \in [n : 0..Target, by : SUBSET Nat]
    /\ actor \in Nat /\ replicas \in [by : Nat, awake : BOOLEAN]
    /\ disk \in [step : Nat, actor : Nat, pos : 0..EpochBatches]
    /\ tested \in Nat /\ launches \in 0..Relaunches

Updated == pc \in {"save", "wake", "test"}

\* GRPO is on-policy: the groups an update is made from were all generated with
\* the weights it changes, however many batches they came from and wherever the
\* trainer was launched from (the buffer of one step, sleep and update_weights).
OnPolicy == pc \in {"gen", "full", "update"} => buffer.by \subseteq {actor}

\* The replicas generate only while they are awake and have the actor's weights,
\* and sleep while the trainer has the devices.
RolloutsCurrent ==
    /\ pc \in {"gen", "test"} => replicas = [by |-> actor, awake |-> TRUE]
    /\ pc \in {"update", "save", "wake"} => ~replicas.awake

\* global_steps counts the updates behind the weights, whatever was skipped, so
\* that checkpoints are named and resumed by what they hold.
StepIsUpdate ==
    pc # "load" => /\ actor = IF Updated THEN step ELSE step - 1
                   /\ disk.step = disk.actor

\* A death costs fewer updates than SaveFreq, and a run that ends at its last
\* step costs none.
UnsavedBounded ==
    /\ pc # "load" => actor < disk.actor + SaveFreq + (IF pc = "save" THEN 1 ELSE 0)
    /\ pc = "done" /\ step > TotalSteps => disk.actor = actor

\* Unless it dies the trainer comes to its end, by its steps or by its data.
Ends == <>[](pc = "done")
====

---- MODULE GroupFilter ----
(***************************************************************************)
(* train/rl/group_filter_patch.py between the rollouter, the message queue *)
(* and the trainer of verl's fully_async_policy (vendored in third_party). *)
(*                                                                         *)
(* The rollouter's processor submits groups until staleness_samples        *)
(* reaches max_required_samples; a finished group passes the filter into   *)
(* the queue or is dropped; the trainer collects KeepFloor groups, then    *)
(* synchronizes parameters, which resets staleness_samples.  Groups are    *)
(* counted, not named.                                                     *)
(***************************************************************************)
EXTENDS Integers

CONSTANTS
    Required,        \* required_samples
    Trigger,         \* trigger_parameter_sync_step
    MaxRequired,     \* max_required_samples, also the size of the queue
    MaxConcurrent,   \* max_concurrent_samples
    GenBatches,      \* values of max_num_gen_batches to consider
    MaxSyncs,        \* bound: parameter synchronizations
    None

\* What the theorems assume of the constants.
FilterAssumption ==
    /\ Required \in Nat \ {0} /\ Trigger \in Nat \ {0}
    /\ MaxRequired \in Nat /\ MaxRequired >= Required * Trigger
    /\ MaxConcurrent \in 1 .. MaxRequired
    /\ GenBatches \subseteq Nat /\ MaxSyncs \in Nat

VARIABLES
    genBatches,      \* max_num_gen_batches of this training
    \* rollouter
    worker,          \* _processor_worker: loop, pause, drain, take, limit, submit
    paused,
    monitor,         \* _async_monitor_loop: idle, resume
    lock,            \* holder of the rollouter's lock: free, limit, reset
    staleness,       \* staleness_samples
    running,         \* active tasks that generate
    putting,         \* active tasks whose group the filter kept, not yet queued
    ended,           \* tasks in active_tasks whose group was dropped or queued
    \* _GroupFilter
    lastStaleness, droppedInWindow, consecutiveDrops,
    \* message queue and trainer
    queue,           \* groups in the message queue
    trainer,         \* collect, train, resetQueue, resetStore
    consumed,        \* groups collected since the last synchronization
    resetActive, resetQueue,     \* operands of the new staleness_samples
    syncs,
    \* For the properties only: since the last reset.
    drops,           \* groups dropped
    overcount        \* by how much the reset exceeded the groups then under way

vars == <<genBatches, worker, paused, monitor, lock, staleness, running, putting, ended,
          lastStaleness, droppedInWindow, consecutiveDrops, queue, trainer,
          consumed, resetActive, resetQueue, syncs, drops, overcount>>
workerVars == <<worker, paused, monitor, lock>>
taskVars == <<running, putting, ended>>
filterVars == <<lastStaleness, droppedInWindow, consecutiveDrops, drops>>
resetVars == <<resetActive, resetQueue, syncs, overcount>>

Max0(n) == IF n > 0 THEN n ELSE 0

\* _GroupFilter.__init__
KeepFloor == Required * Trigger
ConsecLimit == IF genBatches > 0 THEN Max0(genBatches - 1) * Required ELSE None

\* Mutant: the trigger steps of a window are forgotten.
BudgetOneStep == Max0(MaxRequired - Required)

Budget == Max0(MaxRequired - KeepFloor)

Active == running + putting + ended

-----------------------------------------------------------------------------

Init ==
    /\ genBatches \in GenBatches
    /\ worker = "loop" /\ paused = FALSE /\ monitor = "idle" /\ lock = "free"
    /\ staleness = 0
    /\ running = 0 /\ putting = 0 /\ ended = 0
    /\ lastStaleness = None /\ droppedInWindow = 0 /\ consecutiveDrops = 0
    /\ queue = 0 /\ trainer = "collect" /\ consumed = 0
    /\ resetActive = 0 /\ resetQueue = 0 /\ syncs = 0
    /\ drops = 0 /\ overcount = 0

\* _should_pause_generation
ShouldPause == queue >= MaxRequired \/ staleness >= MaxRequired

\* The head of _processor_worker's loop.
Look ==
    /\ worker = "loop"
    /\ worker' = IF paused \/ ShouldPause THEN "pause" ELSE "take"
    /\ UNCHANGED <<genBatches, paused, monitor, lock, staleness, taskVars, filterVars,
                   queue, trainer, consumed, resetVars>>

\* It may have been resumed since it looked.
Pause ==
    /\ worker = "pause"
    /\ lock = "free"
    /\ paused' = TRUE
    /\ worker' = "drain"
    /\ UNCHANGED <<genBatches, monitor, lock, staleness, taskVars, filterVars,
                   queue, trainer, consumed, resetVars>>

\* The drain loop takes finished tasks out of active_tasks: those that asyncio.wait
\* returned, which need not be all by the time it has the lock.
DrainReap ==
    /\ worker = "drain"
    /\ lock = "free"
    /\ \E n \in 1 .. ended : ended' = ended - n
    /\ UNCHANGED <<genBatches, workerVars, staleness, running, putting, filterVars,
                   queue, trainer, consumed, resetVars>>

Resume ==
    /\ worker = "drain"
    /\ ~paused
    /\ worker' = "loop"
    /\ UNCHANGED <<genBatches, paused, monitor, lock, staleness, taskVars, filterVars,
                   queue, trainer, consumed, resetVars>>

\* A sample is taken and counted without the lock.
Take ==
    /\ worker = "take"
    /\ staleness' = staleness + 1
    /\ worker' = "limit"
    /\ UNCHANGED <<genBatches, paused, monitor, lock, taskVars, filterVars, queue, trainer,
                   consumed, resetVars>>

\* At max_concurrent_samples it waits for a task, with the lock.
LimitLock ==
    /\ worker = "limit"
    /\ Active >= MaxConcurrent
    /\ lock = "free"
    /\ lock' = "limit"
    /\ UNCHANGED <<genBatches, worker, paused, monitor, staleness, taskVars, filterVars,
                   queue, trainer, consumed, resetVars>>

LimitReap ==
    /\ lock = "limit"
    /\ \E n \in 1 .. ended : ended' = ended - n
    /\ lock' = "free"
    /\ UNCHANGED <<genBatches, worker, paused, monitor, staleness, running, putting,
                   filterVars, queue, trainer, consumed, resetVars>>

BelowLimit ==
    /\ worker = "limit"
    /\ Active < MaxConcurrent
    /\ worker' = "submit"
    /\ UNCHANGED <<genBatches, paused, monitor, lock, staleness, taskVars, filterVars,
                   queue, trainer, consumed, resetVars>>

Submit ==
    /\ worker = "submit"
    /\ ~paused
    /\ lock = "free"
    /\ running' = running + 1
    /\ worker' = "loop"
    /\ UNCHANGED <<genBatches, paused, monitor, lock, staleness, putting, ended, filterVars,
                   queue, trainer, consumed, resetVars>>

\* _async_monitor_loop decides to resume before it has the lock.
MonitorLook ==
    /\ monitor = "idle"
    /\ paused /\ ~ShouldPause
    /\ monitor' = "resume"
    /\ UNCHANGED <<genBatches, worker, paused, lock, staleness, taskVars, filterVars,
                   queue, trainer, consumed, resetVars>>

MonitorResume ==
    /\ monitor = "resume"
    /\ lock = "free"
    /\ monitor' = "idle"
    /\ paused' = FALSE
    /\ UNCHANGED <<genBatches, worker, lock, staleness, taskVars, filterVars, queue,
                   trainer, consumed, resetVars>>

\* Mutant: an unchanged staleness opens a new window.
WindowDropsEager ==
    IF lastStaleness # None /\ staleness <= lastStaleness THEN 0 ELSE droppedInWindow

\* dropped_in_window after the window check of decide.
WindowDrops ==
    IF lastStaleness # None /\ staleness < lastStaleness THEN 0 ELSE droppedInWindow

\* decide: a group of zero variance goes unless a guard fires.
Keeps(informative) ==
    \/ informative
    \/ ConsecLimit # None /\ consecutiveDrops >= ConsecLimit
    \/ WindowDrops >= Budget

\* A task has generated its group, takes the statistics and asks the filter,
\* all without a pause in between.  A group without a usable metric is kept as
\* an informative one is.
Decide(informative) ==
    /\ running > 0
    /\ running' = running - 1
    /\ lastStaleness' = staleness
    /\ IF Keeps(informative)
       THEN /\ putting' = putting + 1
            /\ consecutiveDrops' = 0
            /\ droppedInWindow' = WindowDrops
            /\ UNCHANGED <<ended, drops>>
       ELSE /\ ended' = ended + 1
            /\ consecutiveDrops' = consecutiveDrops + 1
            /\ droppedInWindow' = WindowDrops + 1
            /\ drops' = drops + 1
            /\ UNCHANGED putting
    /\ UNCHANGED <<genBatches, workerVars, staleness, queue, trainer, consumed, resetVars>>

\* MessageQueue.put_sample; a full queue loses its oldest sample.
Put ==
    /\ putting > 0
    /\ putting' = putting - 1
    /\ ended' = ended + 1
    /\ queue' = IF queue >= MaxRequired THEN queue ELSE queue + 1
    /\ UNCHANGED <<genBatches, workerVars, staleness, running, filterVars, trainer,
                   consumed, resetVars>>

\* The trainer's loop over get_sample, for the steps up to a synchronization.
Collect ==
    /\ trainer = "collect"
    /\ queue > 0
    /\ queue' = queue - 1
    /\ consumed' = consumed + 1
    /\ trainer' = IF consumed + 1 = KeepFloor THEN "train" ELSE "collect"
    /\ UNCHANGED <<genBatches, workerVars, staleness, taskVars, filterVars, resetVars>>

\* reset_staleness: resumes, then adds len(active_tasks) to an awaited queue size.
ResetBegin ==
    /\ trainer = "train"
    /\ syncs < MaxSyncs
    /\ lock = "free"
    /\ lock' = "reset"
    /\ paused' = FALSE
    /\ resetActive' = Active
    /\ trainer' = "resetQueue"
    /\ UNCHANGED <<genBatches, worker, monitor, staleness, taskVars, filterVars, queue,
                   consumed, resetQueue, syncs, overcount>>

ResetAskQueue ==
    /\ trainer = "resetQueue"
    /\ resetQueue' = queue
    /\ trainer' = "resetStore"
    /\ UNCHANGED <<genBatches, workerVars, staleness, taskVars, filterVars, queue,
                   consumed, resetActive, syncs, overcount>>

\* Groups that may still reach the trainer, the sample in hand included.
UnderWay ==
    running + putting + queue + (IF worker \in {"limit", "submit"} THEN 1 ELSE 0)

ResetStore ==
    /\ trainer = "resetStore"
    /\ staleness' = resetActive + resetQueue
    /\ overcount' = Max0(resetActive + resetQueue - UnderWay)
    /\ lock' = "free"
    /\ trainer' = "collect"
    /\ consumed' = 0
    /\ syncs' = syncs + 1
    /\ drops' = 0
    /\ resetActive' = 0 /\ resetQueue' = 0
    /\ UNCHANGED <<genBatches, worker, paused, monitor, taskVars, lastStaleness,
                   droppedInWindow, consecutiveDrops, queue>>

Next ==
    \/ Look \/ Pause \/ DrainReap \/ Resume \/ Take
    \/ LimitLock \/ LimitReap \/ BelowLimit \/ Submit
    \/ MonitorLook \/ MonitorResume
    \/ \E informative \in BOOLEAN : Decide(informative)
    \/ Put
    \/ Collect
    \/ ResetBegin \/ ResetAskQueue \/ ResetStore

Spec == Init /\ [][Next]_vars

-----------------------------------------------------------------------------

TypeOK ==
    /\ genBatches \in GenBatches
    /\ worker \in {"loop", "pause", "drain", "take", "limit", "submit"}
    /\ paused \in BOOLEAN /\ monitor \in {"idle", "resume"}
    /\ lock \in {"free", "limit", "reset"}
    /\ staleness \in Nat /\ running \in Nat /\ putting \in Nat /\ ended \in Nat
    /\ Active <= MaxConcurrent
    /\ lastStaleness \in Nat \cup {None}
    /\ droppedInWindow \in 0 .. Budget /\ consecutiveDrops \in Nat
    /\ queue \in 0 .. MaxRequired
    /\ trainer \in {"collect", "train", "resetQueue", "resetStore"}
    /\ (trainer \in {"resetQueue", "resetStore"}) <=> (lock = "reset")
    /\ consumed \in 0 .. KeepFloor
    /\ resetActive \in Nat /\ resetQueue \in Nat /\ syncs \in 0 .. MaxSyncs
    /\ drops \in Nat /\ overcount \in Nat

\* "Drop counts are bounded by ... the asynchronous staleness window": between
\* two resets never more groups are dropped than the budget, even when the
\* filter does not notice the reset.
WindowDropsBounded == drops <= Budget

\* The rollouter will submit nothing more and has nothing under way.
Exhausted ==
    /\ worker = "drain" /\ paused /\ ShouldPause
    /\ Active = 0
    /\ lock = "free" /\ trainer = "collect"

\* What the filter can promise: an exhausted rollouter has left the trainer its
\* KeepFloor groups, but for the tasks that the last reset counted twice.
FloorButForOvercount ==
    Exhausted => consumed + queue >= KeepFloor - overcount

\* "so the rollouter cannot starve the trainer before parameter
\* synchronization".
NoStarvation == Exhausted => consumed + queue >= KeepFloor
====

---- MODULE RlLoops ----
(***************************************************************************)
(* A training by RL runs one of two loops: verl's asynchronous one, with    *)
(* the group filter between rollouter and trainer, or the synchronous one   *)
(* of dapo_fit.py.  The launch decides which.                               *)
(***************************************************************************)
EXTENDS Integers

CONSTANTS
    Required, Trigger, MaxRequired, MaxConcurrent, GenBatches, MaxSyncs, None,  \* GroupFilter
    EpochBatches, TotalEpochs, TotalSteps, BatchGroups, Target, MaxGenBatches,  \* DapoFit
    SaveFreq, TestFreq, Relaunches

VARIABLES
    loop,                                   \* "async" or "sync"
    genBatches, worker, paused, monitor, lock, staleness, running, putting, ended,
    lastStaleness, droppedInWindow, consecutiveDrops, queue, trainer, consumed,
    resetActive, resetQueue, syncs, drops, overcount,                           \* GroupFilter
    pc, step, epoch, pos, exhausted, ngen, buffer, actor, replicas, disk, tested,
    launches                                                                    \* DapoFit

F == INSTANCE GroupFilter
D == INSTANCE DapoFit

ASSUME LoopsAssumption == F!FilterAssumption /\ D!DapoAssumption

avars == <<genBatches, worker, paused, monitor, lock, staleness, running, putting, ended,
           lastStaleness, droppedInWindow, consecutiveDrops, queue, trainer, consumed,
           resetActive, resetQueue, syncs, drops, overcount>>
svars == <<pc, step, epoch, pos, exhausted, ngen, buffer, actor, replicas, disk, tested,
           launches>>
loopsVars == <<loop, avars, svars>>

LoopsInit ==
    \/ /\ loop = "async" /\ F!Init
       /\ pc = "unused" /\ step = "unused" /\ epoch = "unused" /\ pos = "unused"
       /\ exhausted = "unused" /\ ngen = "unused" /\ buffer = "unused" /\ actor = "unused"
       /\ replicas = "unused" /\ disk = "unused" /\ tested = "unused"
       /\ launches = "unused"
    \/ /\ loop = "sync" /\ D!Init
       /\ genBatches = "unused" /\ worker = "unused" /\ paused = "unused"
       /\ monitor = "unused" /\ lock = "unused" /\ staleness = "unused"
       /\ running = "unused" /\ putting = "unused" /\ ended = "unused"
       /\ lastStaleness = "unused" /\ droppedInWindow = "unused"
       /\ consecutiveDrops = "unused" /\ queue = "unused" /\ trainer = "unused"
       /\ consumed = "unused" /\ resetActive = "unused" /\ resetQueue = "unused"
       /\ syncs = "unused" /\ drops = "unused" /\ overcount = "unused"

Async == loop = "async" /\ F!Next /\ UNCHANGED svars
Drive == loop = "sync" /\ D!Drive /\ UNCHANGED <<loop, avars>>
Relaunch == loop = "sync" /\ D!Relaunch /\ UNCHANGED avars

LoopsNext == (Async \/ Drive \/ Relaunch) /\ UNCHANGED loop

\* The driver of the synchronous loop is one process that goes on until it dies.
LoopsSpec == LoopsInit /\ [][LoopsNext]_loopsVars /\ WF_loopsVars(Drive)

-----------------------------------------------------------------------------

\* Between two resets of the staleness the filter drops no more groups than the
\* asynchronous window leaves (group_filter_patch.py), also when it does not
\* notice a reset.
WindowDropsBounded == loop = "async" => F!WindowDropsBounded

\* An exhausted rollouter has left the trainer the groups of one synchronization,
\* but for the tasks that the last reset counted twice.
FloorButForOvercount == loop = "async" => F!FloorButForOvercount

\* dapo_fit.py trains on groups of the weights it changes, ...
OnPolicy == loop = "sync" => D!OnPolicy

\* ... has replicas awake only with the actor's weights, ...
RolloutsCurrent == loop = "sync" => D!RolloutsCurrent

\* ... counts updates by global_steps, ...
StepIsUpdate == loop = "sync" => D!StepIsUpdate

\* ... and loses fewer than SaveFreq of them when it dies.
UnsavedBounded == loop = "sync" => D!UnsavedBounded

\* Unless it dies the synchronous trainer comes to its end.
Ends == loop = "sync" => D!Ends
====

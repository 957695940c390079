---- MODULE Rl_proofs ----
(***************************************************************************)
(* What runs RL: the loops, and the balancer between them and the servers.  *)
(*                                                                          *)
(* The loops, for every batch size, limit and number of relaunches.  The    *)
(* asynchronous one: the bound of the drops between two resets, and         *)
(* what an exhausted rollouter leaves the trainer.  The synchronous one: it *)
(* is on-policy, wakes its replicas with the actor's weights, counts        *)
(* updates, and loses fewer of them than SaveFreq when it dies.  Each loop  *)
(* has an invariant over the variables it uses (FilterInv, DapoInv); a      *)
(* training keeps the one of the loop it runs.                              *)
(*                                                                          *)
(* The balancer counts a group's requests, forgets the group with the last  *)
(* of them, keeps its requests on one server and chooses a server by the    *)
(* weight of the requests on it, for any clients, servers, keys, weights    *)
(* and cache size, whatever is removed, added or lost.                      *)
(***************************************************************************)
EXTENDS RlLoops, LoadBalancer, FiniteSetTheorems, SequenceTheorems, TLAPS

-----------------------------------------------------------------------------
\* The asynchronous loop.

\* What TypeOK needs of the processor: it submits below the limit only, and the
\* trainer collects, and synchronizes, only while it has to.
ControlInv ==
    /\ worker = "submit" => F!Active < MaxConcurrent
    /\ trainer = "collect" => consumed < F!KeepFloor
    /\ lock = "reset" => syncs < MaxSyncs

\* The window's drops are among those the filter counts: once a group was
\* dropped since the reset, staleness cannot look smaller than when last seen.
DropInv ==
    drops > 0 => /\ drops <= droppedInWindow
                 /\ lastStaleness = None \/ lastStaleness <= staleness

\* Either the trainer already has its groups, or every unit of staleness that the
\* reset did not invent is a group under way, collected or dropped.
AccountInv ==
    \/ consumed + queue >= F!KeepFloor
    \/ staleness - overcount <= F!UnderWay + consumed + drops

FilterInv == F!TypeOK /\ ControlInv /\ DropInv /\ AccountInv

-----------------------------------------------------------------------------

\* The constants, and what the filter derives from them, are numbers.
LEMMA FilterConstants ==
    /\ F!KeepFloor \in Nat \ {0} /\ MaxRequired \in Nat /\ MaxConcurrent \in Nat
    /\ MaxConcurrent > 0 /\ F!KeepFloor <= MaxRequired
    /\ F!Budget = MaxRequired - F!KeepFloor /\ F!Budget \in Nat
    /\ MaxSyncs \in Nat
<1>1. Required \in Nat \ {0} /\ Trigger \in Nat \ {0} => Required * Trigger \in Nat \ {0}
    BY SMT
<1> QED
    BY <1>1, LoopsAssumption DEF F!FilterAssumption, F!KeepFloor, F!Budget, F!Max0

LEMMA FilterInit == F!Init => FilterInv
<1> SUFFICES ASSUME F!Init PROVE FilterInv
    OBVIOUS
<1>1. F!TypeOK
  <2>1. paused \in BOOLEAN
    BY DEF F!Init
  <2>2. F!Active = 0
    BY DEF F!Init, F!Active
  <2> QED
    BY <2>1, <2>2, FilterConstants DEF F!Init, F!TypeOK
<1>2. ControlInv /\ DropInv
    BY FilterConstants DEF F!Init, ControlInv, DropInv
<1>3. AccountInv
    BY FilterConstants DEF F!Init, AccountInv, F!UnderWay
<1> QED
    BY <1>1, <1>2, <1>3 DEF FilterInv

\* The window check never adds to the filter's own count.
LEMMA WindowDropsRange ==
    F!TypeOK => F!WindowDrops \in 0 .. F!Budget /\ (F!WindowDrops = droppedInWindow \/ F!WindowDrops = 0)
    BY FilterConstants DEF F!TypeOK, F!WindowDrops

\* A decision keeps the invariant: the filter drops only below the budget.
LEMMA DecideKeeps ==
    ASSUME FilterInv, NEW informative \in BOOLEAN, F!Decide(informative)
    PROVE  FilterInv'
<1> USE FilterConstants DEF FilterInv
<1>1. F!WindowDrops \in 0 .. F!Budget
    BY WindowDropsRange
<1>t. /\ staleness \in Nat /\ running \in Nat /\ putting \in Nat /\ ended \in Nat
      /\ running > 0 /\ consecutiveDrops \in Nat /\ drops \in Nat
      /\ lastStaleness' = staleness /\ staleness' = staleness
      /\ running' = running - 1 /\ drops' \in Nat
    BY DEF F!TypeOK, F!Decide
<1>2. CASE F!Keeps(informative)
  <2>1. /\ putting' = putting + 1 /\ consecutiveDrops' = 0 /\ ended' = ended
        /\ droppedInWindow' = F!WindowDrops /\ drops' = drops
    BY <1>2 DEF F!Decide
  <2>2. F!Active' = F!Active /\ F!UnderWay' = F!UnderWay
    BY <2>1, <1>t DEF F!Active, F!UnderWay, F!Decide, F!TypeOK, F!workerVars
  <2>3. F!TypeOK'
    BY <1>1, <1>t, <2>1, <2>2 DEF F!TypeOK, F!Decide, F!workerVars, F!resetVars
  <2>4. ControlInv'
    BY <2>2 DEF ControlInv, F!Decide, F!workerVars, F!resetVars
  <2>5. DropInv'
    BY <1>t, <2>1 DEF DropInv, F!WindowDrops, F!TypeOK
  <2>6. AccountInv'
    BY <2>1, <2>2, <1>t DEF AccountInv, F!Decide, F!resetVars
  <2> QED
    BY <2>3, <2>4, <2>5, <2>6
<1>3. CASE ~F!Keeps(informative)
  <2>1. /\ putting' = putting /\ consecutiveDrops' = consecutiveDrops + 1
        /\ ended' = ended + 1
        /\ droppedInWindow' = F!WindowDrops + 1 /\ drops' = drops + 1
    BY <1>3 DEF F!Decide
  <2>2. F!WindowDrops < F!Budget
    BY <1>1, <1>3 DEF F!Keeps
  <2>3. F!Active' = F!Active /\ F!UnderWay' = F!UnderWay - 1
    BY <2>1, <1>t DEF F!Active, F!UnderWay, F!Decide, F!TypeOK, F!workerVars
  <2>4. F!TypeOK'
    BY <1>1, <1>t, <2>1, <2>2, <2>3 DEF F!TypeOK, F!Decide, F!workerVars, F!resetVars
  <2>5. ControlInv'
    BY <2>3 DEF ControlInv, F!Decide, F!workerVars, F!resetVars
  <2>6. DropInv'
    BY <1>1, <1>t, <2>1 DEF DropInv, F!WindowDrops, F!TypeOK
  <2>7. AccountInv'
    <3>1. F!UnderWay \in Int /\ consumed \in Nat /\ queue \in Nat /\ overcount \in Nat
        BY DEF F!TypeOK, F!UnderWay
    <3> QED
        BY <2>1, <2>3, <1>t, <3>1 DEF AccountInv, F!Decide, F!resetVars
  <2> QED
    BY <2>4, <2>5, <2>6, <2>7
<1> QED
    BY <1>2, <1>3

\* The filter's own state is disturbed only by a decision and a reset.
LEMMA FilterUntouched ==
    ASSUME F!TypeOK, DropInv, UNCHANGED F!filterVars, staleness' \in Nat, staleness' >= staleness
    PROVE  DropInv'
    BY DEF F!TypeOK, DropInv, F!filterVars

\* Steps of the processor and of the monitor.
LEMMA WorkerKeeps ==
    ASSUME FilterInv,
           \/ F!Look \/ F!Pause \/ F!DrainReap \/ F!Resume \/ F!Take \/ F!LimitLock \/ F!LimitReap
           \/ F!BelowLimit \/ F!Submit \/ F!MonitorLook \/ F!MonitorResume
    PROVE  FilterInv'
<1> USE FilterConstants DEF FilterInv, F!TypeOK, ControlInv, AccountInv, F!Active, F!UnderWay
<1>1. CASE F!Look
    BY <1>1, FilterUntouched DEF F!Look, F!taskVars, F!filterVars, F!resetVars
<1>2. CASE F!Pause
    BY <1>2, FilterUntouched DEF F!Pause, F!taskVars, F!filterVars, F!resetVars
<1>3. CASE F!DrainReap
    BY <1>3, FilterUntouched DEF F!DrainReap, F!workerVars, F!filterVars, F!resetVars
<1>4. CASE F!Resume
    BY <1>4, FilterUntouched DEF F!Resume, F!taskVars, F!filterVars, F!resetVars
<1>5. CASE F!Take
    BY <1>5, FilterUntouched DEF F!Take, F!taskVars, F!filterVars, F!resetVars
<1>6. CASE F!LimitLock
    BY <1>6, FilterUntouched DEF F!LimitLock, F!taskVars, F!filterVars, F!resetVars
<1>7. CASE F!LimitReap
    BY <1>7, FilterUntouched DEF F!LimitReap, F!filterVars, F!resetVars
<1>8. CASE F!BelowLimit
    BY <1>8, FilterUntouched DEF F!BelowLimit, F!taskVars, F!filterVars, F!resetVars
<1>9. CASE F!Submit
    BY <1>9, FilterUntouched DEF F!Submit, F!filterVars, F!resetVars
<1>10. CASE F!MonitorLook
    BY <1>10, FilterUntouched DEF F!MonitorLook, F!taskVars, F!filterVars, F!resetVars
<1>11. CASE F!MonitorResume
  <2>1. DropInv'
    BY <1>11, FilterUntouched DEF F!MonitorResume, F!filterVars
  <2> QED
    BY <2>1, <1>11 DEF F!MonitorResume, F!taskVars, F!filterVars, F!resetVars
<1> QED
    BY <1>1, <1>2, <1>3, <1>4, <1>5, <1>6, <1>7, <1>8, <1>9, <1>10, <1>11

\* Steps of the queue and of the trainer.  A full queue that loses a group still
\* holds the KeepFloor; the reset accounts for what it counts.
LEMMA TrainerKeeps ==
    ASSUME FilterInv, F!Put \/ F!Collect \/ F!ResetBegin \/ F!ResetAskQueue \/ F!ResetStore
    PROVE  FilterInv'
<1> USE FilterConstants DEF FilterInv, F!TypeOK, ControlInv, AccountInv, F!Active, F!UnderWay
<1>1. CASE F!Put
    BY <1>1, FilterUntouched DEF F!Put, F!workerVars, F!filterVars, F!resetVars
<1>2. CASE F!Collect
    BY <1>2, FilterUntouched DEF F!Collect, F!workerVars, F!taskVars, F!filterVars, F!resetVars
<1>3. CASE F!ResetBegin
  <2>1. DropInv'
    BY <1>3, FilterUntouched DEF F!ResetBegin, F!filterVars
  <2>2. F!TypeOK'
    <3>1. paused' \in BOOLEAN
        BY <1>3 DEF F!ResetBegin
    <3>2. resetActive' \in Nat /\ F!Active' = F!Active
        BY <1>3 DEF F!ResetBegin, F!taskVars
    <3> QED
        BY <1>3, <3>1, <3>2 DEF F!ResetBegin, F!taskVars, F!filterVars
  <2>3. ControlInv' /\ AccountInv'
    BY <1>3 DEF F!ResetBegin, F!taskVars, F!filterVars
  <2> QED
    BY <2>1, <2>2, <2>3
<1>4. CASE F!ResetAskQueue
    BY <1>4, FilterUntouched DEF F!ResetAskQueue, F!workerVars, F!taskVars, F!filterVars
<1>5. CASE F!ResetStore
  <2>1. DropInv' /\ ControlInv'
    BY <1>5 DEF F!ResetStore, F!taskVars, DropInv
  <2>2. F!UnderWay' = F!UnderWay /\ F!UnderWay \in Int
    BY <1>5 DEF F!ResetStore, F!taskVars
  <2>3. overcount' \in Nat /\ staleness' - overcount' <= F!UnderWay
    BY <1>5, <2>2 DEF F!ResetStore, F!Max0
  <2>4. AccountInv'
    BY <1>5, <2>2, <2>3 DEF F!ResetStore
  <2>5. F!TypeOK'
    BY <1>5, <2>3 DEF F!ResetStore, F!taskVars
  <2> QED
    BY <2>1, <2>4, <2>5
<1> QED
    BY <1>1, <1>2, <1>3, <1>4, <1>5

LEMMA FilterNext == FilterInv /\ [F!Next]_(F!vars) => FilterInv'
<1> SUFFICES ASSUME FilterInv, [F!Next]_(F!vars) PROVE FilterInv'
    OBVIOUS
<1>1. CASE UNCHANGED F!vars
    BY <1>1 DEF F!vars, FilterInv, F!TypeOK, ControlInv, DropInv, AccountInv, F!Active, F!UnderWay
<1>2. CASE F!Next
    BY <1>2, DecideKeeps, WorkerKeeps, TrainerKeeps DEF F!Next
<1> QED
    BY <1>1, <1>2


-----------------------------------------------------------------------------
\* The synchronous loop.

\* The last step whose chance to be saved is over.
Passed == IF pc \in {"wake", "test"} THEN step ELSE step - 1

\* Nothing the loop does relies on the driver's place but through these.
Counted ==
    /\ disk.step = disk.actor
    /\ pc # "load" => /\ step >= 1
                      /\ actor = IF D!Updated THEN step ELSE step - 1

Fresh ==
    /\ D!OnPolicy
    /\ pc \in {"gen", "full", "test"} => replicas = [by |-> actor, awake |-> TRUE]
    /\ pc \in {"update", "save", "wake"} => ~replicas.awake

\* No multiple of SaveFreq and no last step has passed unsaved.
Saved ==
    /\ pc # "load" => \A k \in disk.actor + 1 .. Passed : k % SaveFreq # 0
    /\ pc \in {"wake", "test"} /\ D!IsLastStep => disk.actor = actor
    /\ pc \in {"gen", "full", "done"} /\ step > TotalSteps => disk.actor = actor

\* A step that generates has batches left to generate.
Room == pc = "gen" => ngen < MaxGenBatches

DapoInv == D!TypeOK /\ Room /\ Counted /\ Fresh /\ Saved

\* Min of two numbers is one of them and exceeds neither.
LEMMA MinOfTwo ==
    ASSUME NEW a \in Nat, NEW b \in Nat
    PROVE  /\ D!Min({a, b}) \in {a, b}
           /\ D!Min({a, b}) <= a /\ D!Min({a, b}) <= b
<1>1. \E x \in {a, b} : \A y \in {a, b} : x <= y
  <2>1. CASE a <= b
    BY <2>1
  <2>2. CASE ~(a <= b)
    BY <2>2
  <2> QED BY <2>1, <2>2
<1>2. /\ D!Min({a, b}) \in {a, b}
      /\ \A y \in {a, b} : D!Min({a, b}) <= y
  BY <1>1 DEF D!Min
<1> QED BY <1>2

\* A multiple of SaveFreq lies among any SaveFreq numbers in a row.
LEMMA MultipleNear ==
    ASSUME NEW d \in Nat, NEW m \in Nat \ {0}
    PROVE  \E k \in d + 1 .. d + m : k % m = 0
<1> DEFINE q == d \div m
           k == m * (q + 1)
           r == k % m
           p == k \div m
<1>1. q \in Nat /\ d = m * q + (d % m) /\ (d % m) \in 0 .. m - 1
  OBVIOUS
<1>2. k \in Nat /\ k = m * q + m
  BY <1>1
<1>3. k \in d + 1 .. d + m
  BY <1>1, <1>2
<1>4. p \in Nat /\ r \in 0 .. m - 1 /\ k = m * p + r
  BY <1>2
<1>5. r = m * (q + 1 - p)
  BY <1>1, <1>2, <1>4
<1>6. q + 1 - p = 0
  <2>1. CASE q + 1 - p >= 1
    <3>1. m * (q + 1 - p) >= m
      BY <2>1, <1>1, <1>4
    <3> QED BY <3>1, <1>4, <1>5
  <2>2. CASE q + 1 - p <= -1
    <3>1. m * (q + 1 - p) <= -m
      BY <2>2, <1>1, <1>4
    <3> QED BY <3>1, <1>4, <1>5
  <2> QED BY <2>1, <2>2, <1>1, <1>4
<1>7. r = 0
  BY <1>5, <1>6
<1> QED BY <1>3, <1>7

\* The constants one by one.
LEMMA DapoConstants ==
    /\ EpochBatches \in Nat \ {0} /\ TotalEpochs \in Nat \ {0} /\ TotalSteps \in Nat \ {0}
    /\ Target \in Nat \ {0} /\ MaxGenBatches \in Nat \ {0} /\ SaveFreq \in Nat \ {0}
    /\ Relaunches \in Nat
BY LoopsAssumption DEF D!DapoAssumption

\* The loop starts with nothing generated, trained or saved.
LEMMA DapoInit == D!Init => DapoInv
<1> SUFFICES ASSUME D!Init PROVE DapoInv
  OBVIOUS
<1> USE DapoConstants DEF D!Init
<1>1. D!TypeOK
  <2>1. exhausted \in BOOLEAN /\ pc \in {"load", "gen", "full", "update", "save", "wake", "test", "done"}
    BY Zenon
  <2>2. replicas \in [by : Nat, awake : BOOLEAN]
    OBVIOUS
  <2>3. buffer \in [n : 0..Target, by : SUBSET Nat]
    OBVIOUS
  <2>4. disk \in [step : Nat, actor : Nat, pos : 0..EpochBatches]
    OBVIOUS
  <2> QED BY <2>1, <2>2, <2>3, <2>4 DEF D!TypeOK
<1>2. Room /\ Counted /\ Fresh /\ Saved
  BY DEF Room, Counted, Fresh, D!OnPolicy, Saved
<1> QED BY <1>1, <1>2 DEF DapoInv

\* Going on, the driver generates again or is done, in the same pass or in the
\* next one.
LEMMA ContinueTo ==
    ASSUME D!TypeOK, D!Continue
    PROVE  pc' \in {"gen", "done"} /\ epoch' \in Nat /\ pos' \in 0..EpochBatches
           /\ exhausted' \in BOOLEAN
<1> USE DapoConstants DEF D!TypeOK, D!Continue
<1>1. CASE exhausted
  <2>1. exhausted' \in BOOLEAN
    BY <1>1, Zenon
  <2>2. epoch' \in Nat /\ pos' \in 0..EpochBatches
    BY <1>1
  <2>3. pc' \in {"gen", "done"}
    BY <1>1
  <2> QED BY <2>1, <2>2, <2>3
<1>2. CASE ~exhausted
  BY <1>2
<1> QED BY <1>1, <1>2

\* A new step starts with nothing.
LEMMA NewStepEmpty ==
    ASSUME D!NewStep
    PROVE  /\ buffer' \in [n : 0..Target, by : SUBSET Nat] /\ buffer'.by = {}
           /\ ngen' = 0 /\ ngen' \in 0..MaxGenBatches /\ ngen' < MaxGenBatches
BY DapoConstants DEF D!NewStep

\* Every step keeps the types, and room for a batch while it generates.
LEMMA TypeStep == D!TypeOK /\ Room /\ [D!Next]_(D!vars) => D!TypeOK' /\ Room'
<1> SUFFICES ASSUME D!TypeOK, Room, [D!Next]_(D!vars) PROVE D!TypeOK' /\ Room'
  OBVIOUS
<1> USE DapoConstants DEF D!TypeOK, Room
<1>1. CASE D!Load
  <2>1. /\ disk.step \in Nat /\ disk.actor \in Nat /\ disk.pos \in 0..EpochBatches
        /\ disk.step \div EpochBatches \in Nat
    OBVIOUS
  <2>2. pos' \in 0..EpochBatches
    BY <1>1, <2>1 DEF D!Load
  <2>3. /\ pc' \in {"gen", "done"} /\ step' \in Nat /\ epoch' \in Nat
        /\ actor' \in Nat /\ tested' \in Nat
    BY <1>1, <2>1 DEF D!Load
  <2>4. exhausted' \in BOOLEAN
    BY <1>1, Zenon DEF D!Load
  <2>5. replicas' \in [by : Nat, awake : BOOLEAN]
    BY <1>1, <2>1 DEF D!Load
  <2>6. disk' = disk /\ launches' = launches /\ D!NewStep
    BY <1>1 DEF D!Load
  <2> QED BY <2>2, <2>3, <2>4, <2>5, <2>6, NewStepEmpty
<1>2. ASSUME NEW k \in 0..BatchGroups, D!Generate(k) PROVE D!TypeOK' /\ Room'
  <2>1. D!Min({D!Have + k, Target}) \in 0..Target
    <3>1. D!Have + k \in Nat /\ Target \in Nat
      BY DEF D!Have
    <3>2. D!Min({D!Have + k, Target}) \in Nat /\ D!Min({D!Have + k, Target}) <= Target
      BY <3>1, MinOfTwo
    <3> QED BY <3>1, <3>2
  <2>2. buffer.by \cup (IF k = 0 THEN {} ELSE {replicas.by}) \in SUBSET Nat
    OBVIOUS
  <2>3. buffer' \in [n : 0..Target, by : SUBSET Nat]
    BY <1>2, <2>1, <2>2 DEF D!Generate
  <2>4. ngen' \in 0..MaxGenBatches /\ pos' \in 0..EpochBatches
    BY <1>2 DEF D!Generate
  <2>5. Room'
    BY <1>2, <2>4 DEF D!Generate
  <2> QED BY <1>2, <2>3, <2>4, <2>5 DEF D!Generate
<1>3. CASE D!Exhaust
  BY <1>3 DEF D!Exhaust
<1>4. CASE D!Skip
  BY <1>4, ContinueTo, NewStepEmpty DEF D!Skip
<1>5. CASE D!SleepReplicas
  BY <1>5 DEF D!SleepReplicas
<1>6. CASE D!UpdateActor
  BY <1>6 DEF D!UpdateActor
<1>7. CASE D!SaveCheckpoint
  BY <1>7 DEF D!SaveCheckpoint
<1>8. CASE D!UpdateWeights
  BY <1>8 DEF D!UpdateWeights
<1>9. CASE D!EndStep
  <2>1. pc' \in {"gen", "done"} /\ epoch' \in Nat /\ pos' \in 0..EpochBatches
        /\ exhausted' \in BOOLEAN
    BY <1>9, ContinueTo DEF D!EndStep
  <2> QED BY <1>9, <2>1, NewStepEmpty DEF D!EndStep
<1>10. CASE D!Relaunch
  BY <1>10 DEF D!Relaunch
<1>11. CASE UNCHANGED D!vars
  BY <1>11 DEF D!vars
<1> QED BY <1>1, <1>2, <1>3, <1>4, <1>5, <1>6, <1>7, <1>8, <1>9, <1>10, <1>11
         DEF D!Next, D!Drive

\* Steps and updates are counted alike, in memory and on disk.
LEMMA CountedStep == D!TypeOK /\ Counted /\ [D!Next]_(D!vars) => Counted'
<1> SUFFICES ASSUME D!TypeOK, Counted, [D!Next]_(D!vars) PROVE Counted'
  OBVIOUS
<1> USE DapoConstants DEF D!TypeOK, Counted, D!Updated
<1>1. CASE D!Load
  BY <1>1 DEF D!Load
<1>2. ASSUME NEW k \in 0..BatchGroups, D!Generate(k) PROVE Counted'
  BY <1>2 DEF D!Generate
<1>3. CASE D!Exhaust
  BY <1>3 DEF D!Exhaust
<1>4. CASE D!Skip
  BY <1>4, ContinueTo DEF D!Skip
<1>5. CASE D!SleepReplicas
  BY <1>5 DEF D!SleepReplicas
<1>6. CASE D!UpdateActor
  BY <1>6 DEF D!UpdateActor
<1>7. CASE D!SaveCheckpoint
  BY <1>7 DEF D!SaveCheckpoint
<1>8. CASE D!UpdateWeights
  BY <1>8 DEF D!UpdateWeights
<1>9. CASE D!EndStep
  BY <1>9, ContinueTo DEF D!EndStep
<1>10. CASE D!Relaunch
  BY <1>10 DEF D!Relaunch
<1>11. CASE UNCHANGED D!vars
  BY <1>11 DEF D!vars
<1> QED BY <1>1, <1>2, <1>3, <1>4, <1>5, <1>6, <1>7, <1>8, <1>9, <1>10, <1>11
         DEF D!Next, D!Drive

\* The replicas have the actor's weights wherever they may generate, and the
\* groups kept come from these weights.
LEMMA FreshStep == D!TypeOK /\ Fresh /\ [D!Next]_(D!vars) => Fresh'
<1> SUFFICES ASSUME D!TypeOK, Fresh, [D!Next]_(D!vars) PROVE Fresh'
  OBVIOUS
<1> USE DEF D!TypeOK, Fresh, D!OnPolicy
<1>1. CASE D!Load
  BY <1>1, NewStepEmpty DEF D!Load
<1>2. ASSUME NEW k \in 0..BatchGroups, D!Generate(k) PROVE Fresh'
  <2>1. buffer'.by \subseteq {actor} /\ actor' = actor /\ replicas' = replicas
    BY <1>2 DEF D!Generate
  <2> QED BY <1>2, <2>1 DEF D!Generate
<1>3. CASE D!Exhaust
  BY <1>3 DEF D!Exhaust
<1>4. CASE D!Skip
  BY <1>4, ContinueTo, NewStepEmpty DEF D!Skip
<1>5. CASE D!SleepReplicas
  BY <1>5 DEF D!SleepReplicas
<1>6. CASE D!UpdateActor
  BY <1>6 DEF D!UpdateActor
<1>7. CASE D!SaveCheckpoint
  BY <1>7 DEF D!SaveCheckpoint
<1>8. CASE D!UpdateWeights
  BY <1>8 DEF D!UpdateWeights
<1>9. CASE D!EndStep
  <2>1. pc' \in {"gen", "done"}
    BY <1>9, ContinueTo DEF D!EndStep
  <2> QED BY <1>9, <2>1, NewStepEmpty DEF D!EndStep
<1>10. CASE D!Relaunch
  BY <1>10 DEF D!Relaunch
<1>11. CASE UNCHANGED D!vars
  BY <1>11 DEF D!vars
<1> QED BY <1>1, <1>2, <1>3, <1>4, <1>5, <1>6, <1>7, <1>8, <1>9, <1>10, <1>11
         DEF D!Next, D!Drive

\* No step that is due to be saved passes unsaved.
LEMMA SavedStep == D!TypeOK /\ Counted /\ Saved /\ [D!Next]_(D!vars) => Saved'
<1> SUFFICES ASSUME D!TypeOK, Counted, Saved, [D!Next]_(D!vars) PROVE Saved'
  OBVIOUS
<1> USE DapoConstants DEF D!TypeOK, Counted, D!Updated, Saved, Passed, D!IsLastStep
<1>1. CASE D!Load
  BY <1>1 DEF D!Load
<1>2. ASSUME NEW k \in 0..BatchGroups, D!Generate(k) PROVE Saved'
  BY <1>2 DEF D!Generate
<1>3. CASE D!Exhaust
  BY <1>3 DEF D!Exhaust
<1>4. CASE D!Skip
  BY <1>4, ContinueTo DEF D!Skip
<1>5. CASE D!SleepReplicas
  BY <1>5 DEF D!SleepReplicas
<1>6. CASE D!UpdateActor
  BY <1>6 DEF D!UpdateActor
<1>7. CASE D!SaveCheckpoint
  <2>1. Passed = step - 1 /\ Passed' = step /\ actor = step
    BY <1>7 DEF D!SaveCheckpoint
  <2>2. CASE D!SaveDue
    BY <1>7, <2>1, <2>2 DEF D!SaveCheckpoint
  <2>3. CASE ~D!SaveDue
    <3>1. disk' = disk /\ step' = step /\ pc' = "wake"
      BY <1>7, <2>3 DEF D!SaveCheckpoint
    <3>2. \A k \in disk.actor + 1 .. step : k % SaveFreq # 0
      BY <2>1, <2>3, <1>7 DEF D!SaveDue, D!SaveCheckpoint
    <3> QED BY <2>1, <2>3, <3>1, <3>2 DEF D!SaveDue
  <2> QED BY <2>2, <2>3
<1>8. CASE D!UpdateWeights
  BY <1>8 DEF D!UpdateWeights
<1>9. CASE D!EndStep
  <2>1. pc' \in {"gen", "done"} /\ Passed' = Passed /\ disk' = disk /\ actor' = actor
    BY <1>9, ContinueTo DEF D!EndStep
  <2>2. step' > TotalSteps => D!IsLastStep
    BY <1>9 DEF D!EndStep
  <2> QED BY <1>9, <2>1, <2>2 DEF D!EndStep
<1>10. CASE D!Relaunch
  BY <1>10 DEF D!Relaunch
<1>11. CASE UNCHANGED D!vars
  BY <1>11 DEF D!vars
<1> QED BY <1>1, <1>2, <1>3, <1>4, <1>5, <1>6, <1>7, <1>8, <1>9, <1>10, <1>11
         DEF D!Next, D!Drive

-----------------------------------------------------------------------------
\* A training.

LoopsInv ==
    /\ loop \in {"async", "sync"}
    /\ loop = "async" => FilterInv
    /\ loop = "sync" => DapoInv

\* A loop does not touch what the other one would use.
LEMMA LoopStep ==
    ASSUME [LoopsNext]_loopsVars
    PROVE  /\ loop' = loop
           /\ loop = "async" => [F!Next]_(F!vars)
           /\ loop = "sync" => [D!Next]_(D!vars)
BY DEF LoopsNext, Async, Drive, Relaunch, loopsVars, avars, svars, F!vars, D!vars, D!Next

\* The invariant of the loop that runs holds in every reachable state.
THEOREM LoopsKept == LoopsSpec => []LoopsInv
<1>1. LoopsInit => LoopsInv
    BY FilterInit, DapoInit DEF LoopsInit, LoopsInv
<1>2. LoopsInv /\ [LoopsNext]_loopsVars => LoopsInv'
  <2> SUFFICES ASSUME LoopsInv, [LoopsNext]_loopsVars PROVE LoopsInv'
    OBVIOUS
  <2>1. /\ loop' = loop
        /\ loop = "async" => [F!Next]_(F!vars)
        /\ loop = "sync" => [D!Next]_(D!vars)
    BY LoopStep
  <2>2. CASE loop = "async"
    BY <2>1, <2>2, FilterNext DEF LoopsInv
  <2>3. CASE loop = "sync"
    <3>1. DapoInv'
      BY <2>1, <2>3, TypeStep, CountedStep, FreshStep, SavedStep DEF LoopsInv, DapoInv
    <3> QED
      BY <2>1, <2>3, <3>1 DEF LoopsInv
  <2> QED
    BY <2>2, <2>3 DEF LoopsInv
<1> QED
    BY <1>1, <1>2, PTL DEF LoopsSpec

\* The variables of the loop that runs keep their types.
THEOREM TypeCorrect ==
    LoopsSpec => []((loop = "async" /\ F!TypeOK) \/ (loop = "sync" /\ D!TypeOK))
<1>1. LoopsInv => (loop = "async" /\ F!TypeOK) \/ (loop = "sync" /\ D!TypeOK)
    BY DEF LoopsInv, FilterInv, DapoInv
<1> QED
    BY LoopsKept, <1>1, PTL

\* Between two resets the filter drops at most max_required_samples - keep_floor
\* groups, although it sees the resets only through a smaller staleness.
THEOREM DropsBounded == LoopsSpec => []WindowDropsBounded
<1>1. LoopsInv => WindowDropsBounded
    BY FilterConstants
    DEF LoopsInv, FilterInv, F!TypeOK, DropInv, WindowDropsBounded, F!WindowDropsBounded
<1> QED
    BY <1>1, LoopsKept, PTL

\* A rollouter that will submit nothing more has left the trainer its keep_floor
\* groups, but for the tasks that the last reset counted twice.
THEOREM FloorHolds == LoopsSpec => []FloorButForOvercount
<1>1. FilterInv => F!FloorButForOvercount
  <2> SUFFICES ASSUME FilterInv, F!Exhausted
               PROVE  consumed + queue >= F!KeepFloor - overcount
    BY DEF F!FloorButForOvercount
  <2>1. drops <= F!Budget /\ drops \in Nat
    BY FilterConstants DEF FilterInv, F!TypeOK, DropInv
  <2>2. F!UnderWay = queue
    BY DEF F!Exhausted, F!UnderWay, F!Active, FilterInv, F!TypeOK
  <2> QED
    BY <2>1, <2>2, FilterConstants
    DEF FilterInv, F!TypeOK, AccountInv, F!Exhausted, F!ShouldPause
<1>2. LoopsInv => FloorButForOvercount
    BY <1>1 DEF LoopsInv, FloorButForOvercount
<1> QED
    BY <1>2, LoopsKept, PTL

\* The buffer of an update holds only groups that the actor's own weights made.
THEOREM TrainsOnPolicy == LoopsSpec => []OnPolicy
<1>1. LoopsInv => OnPolicy
    BY DEF LoopsInv, DapoInv, Fresh, OnPolicy
<1> QED
    BY LoopsKept, <1>1, PTL

\* Replicas generate and validate awake and with the actor's weights, and sleep
\* from before the update until after the checkpoint.
THEOREM RolloutsFollow == LoopsSpec => []RolloutsCurrent
<1>1. LoopsInv => RolloutsCurrent
    BY DEF LoopsInv, DapoInv, Fresh, RolloutsCurrent, D!RolloutsCurrent
<1> QED
    BY LoopsKept, <1>1, PTL

\* global_steps is the number of updates behind the weights, in memory and in the
\* checkpoint.
THEOREM StepsAreUpdates == LoopsSpec => []StepIsUpdate
<1>1. LoopsInv => StepIsUpdate
    BY DEF LoopsInv, DapoInv, Counted, StepIsUpdate, D!StepIsUpdate
<1> QED
    BY LoopsKept, <1>1, PTL

\* Fewer than SaveFreq updates are on no disk, and none once the last step is
\* over.
THEOREM LossBounded == LoopsSpec => []UnsavedBounded
<1>1. ASSUME DapoInv PROVE D!UnsavedBounded
  <2> USE DapoConstants, <1>1 DEF DapoInv, D!TypeOK
  <2>1. ASSUME pc # "load"
        PROVE  actor < disk.actor + SaveFreq + (IF pc = "save" THEN 1 ELSE 0)
    <3>1. PICK k \in disk.actor + 1 .. disk.actor + SaveFreq : k % SaveFreq = 0
      BY MultipleNear
    <3>2. Passed \in Int /\ Passed < k
      BY <2>1, <3>1 DEF Saved, Passed
    <3>3. actor = Passed + (IF pc = "save" THEN 1 ELSE 0)
      BY <2>1 DEF Counted, D!Updated, Passed
    <3> QED BY <3>1, <3>2, <3>3
  <2>2. pc = "done" /\ step > TotalSteps => disk.actor = actor
    BY DEF Saved
  <2> QED BY <2>1, <2>2 DEF D!UnsavedBounded
<1>2. LoopsInv => UnsavedBounded
    BY <1>1 DEF LoopsInv, UnsavedBounded
<1> QED
    BY LoopsKept, <1>2, PTL

-----------------------------------------------------------------------------
\* The balancer.

Entries(vals) == [key : Keys, val : vals]

\* A cache: no key is there twice.
Lru(cache, vals) ==
    /\ cache \in Seq(Entries(vals))
    /\ \A j, k \in 1 .. Len(cache) : cache[j].key = cache[k].key => j = k

Counts == Nat \ {0}
Of(k) == {c \in Outstanding : KeyOf[c] = k}

TypeInv ==
    /\ Lru(sticky, Servers) /\ Lru(groupCount, Counts)
    /\ phase \in [Clients -> {"idle", "called", "holding", "releasing", "dead", "failed"}]
    /\ DOMAIN at = Clients
    /\ \A c \in Outstanding : at[c] \in Servers
    /\ Servers \ Live \subseteq removed

\* What GroupCountExact leaves open for a group whose acquire has raised: its
\* counter may only be too high.
CountInv ==
    \A k \in GroupKeys \ uncounted :
        /\ Count(k) >= Cardinality(Of(k))
        /\ k \notin failed => Count(k) = Cardinality(Of(k))

RouteInv ==
    \A k \in GroupKeys \ (failed \cup uncounted) : Of(k) = {} => k \notin LruKeys(sticky)

Routes(cache, k, s) == k \in LruKeys(cache) /\ LruVal(cache, k) = s

\* What the siblings have in common: the sticky entry is their server.
StickyInv ==
    \A c \in Outstanding :
        KeyOf[c] \in GroupKeys \ (evicted \cup uncounted) /\ at[c] \notin removed
            => Routes(sticky, KeyOf[c], at[c])

BalancerInv == TypeInv /\ CountInv /\ RouteInv /\ StickyInv

-----------------------------------------------------------------------------
(* The LRU cache as a map *)

LEMMA PlaceOf ==
    ASSUME NEW cache, NEW k \in LruKeys(cache)
    PROVE  LruPlace(cache, k) \in 1 .. Len(cache) /\ cache[LruPlace(cache, k)].key = k
<1>1. \E i \in 1 .. Len(cache) : cache[i].key = k
    BY DEF LruKeys
<1> QED
    BY <1>1, Zenon DEF LruPlace

LEMMA ValAt ==
    ASSUME NEW vals, NEW cache, Lru(cache, vals), NEW i \in 1 .. Len(cache)
    PROVE  cache[i].key \in LruKeys(cache) /\ LruVal(cache, cache[i].key) = cache[i].val
<1>1. cache[i].key \in LruKeys(cache)
    BY DEF LruKeys
<1>2. LruPlace(cache, cache[i].key) = i
    BY <1>1, PlaceOf DEF Lru
<1> QED
    BY <1>1, <1>2 DEF LruVal

\* d is the cache without its entry at p.
Skips(d, cache, p) ==
    /\ Len(d) = Len(cache) - 1
    /\ \A j \in 1 .. Len(cache) - 1 : d[j] = IF j < p THEN cache[j] ELSE cache[j + 1]

LEMMA Without ==
    ASSUME NEW vals, NEW cache, Lru(cache, vals), NEW p \in 1 .. Len(cache),
           NEW d \in Seq(Entries(vals)), Skips(d, cache, p)
    PROVE  /\ Lru(d, vals)
           /\ LruKeys(d) = LruKeys(cache) \ {cache[p].key}
           /\ \A k \in LruKeys(d) : LruVal(d, k) = LruVal(cache, k)
<1>0. Len(cache) \in Nat /\ Len(d) = Len(cache) - 1
    BY DEF Lru, Skips
<1> DEFINE from(j) == IF j < p THEN j ELSE j + 1
<1>1. \A j \in 1 .. Len(d) : from(j) \in 1 .. Len(cache) /\ from(j) # p /\ d[j] = cache[from(j)]
    BY <1>0 DEF Skips
<1>2. \A i, j \in 1 .. Len(d) : from(i) = from(j) => i = j
    BY <1>0
<1>3. \A i \in 1 .. Len(cache) : i # p => \E j \in 1 .. Len(d) : from(j) = i
  <2> SUFFICES ASSUME NEW i \in 1 .. Len(cache), i # p
               PROVE  \E j \in 1 .. Len(d) : from(j) = i
    OBVIOUS
  <2>1. CASE i < p
    <3>1. i \in 1 .. Len(d) /\ from(i) = i
      BY <1>0, <2>1
    <3> QED
      BY <3>1
  <2>2. CASE i > p
    <3>1. i - 1 \in 1 .. Len(d) /\ from(i - 1) = i
      BY <1>0, <2>2
    <3> QED
      BY <3>1
  <2> QED
    BY <1>0, <2>1, <2>2
<1> HIDE DEF from
<1>4. Lru(d, vals)
    BY <1>1, <1>2 DEF Lru
<1>5. LruKeys(d) \subseteq LruKeys(cache) \ {cache[p].key}
    BY <1>1 DEF LruKeys, Lru
<1>6. LruKeys(cache) \ {cache[p].key} \subseteq LruKeys(d)
  <2> SUFFICES ASSUME NEW i \in 1 .. Len(cache), cache[i].key # cache[p].key
               PROVE  cache[i].key \in LruKeys(d)
    BY DEF LruKeys
  <2>1. PICK j \in 1 .. Len(d) : from(j) = i
    BY <1>3
  <2> QED
    BY <1>1, <2>1 DEF LruKeys
<1>7. ASSUME NEW k \in LruKeys(d) PROVE LruVal(d, k) = LruVal(cache, k)
  <2>1. PICK j \in 1 .. Len(d) : d[j].key = k
    BY DEF LruKeys
  <2>2. LruVal(d, k) = d[j].val
    BY <1>4, <2>1, ValAt
  <2>3. LruVal(cache, k) = cache[from(j)].val
    BY <1>1, <2>1, ValAt
  <2> QED
    BY <1>1, <2>1, <2>2, <2>3
<1> QED
    BY <1>4, <1>5, <1>6, <1>7

LEMMA DropProperties ==
    ASSUME NEW vals, NEW cache, Lru(cache, vals), NEW k
    PROVE  /\ Lru(LruDrop(cache, k), vals)
           /\ LruKeys(LruDrop(cache, k)) = LruKeys(cache) \ {k}
           /\ \A j \in LruKeys(cache) \ {k} : LruVal(LruDrop(cache, k), j) = LruVal(cache, j)
<1>1. CASE k \notin LruKeys(cache)
    BY <1>1 DEF LruDrop
<1>2. CASE k \in LruKeys(cache)
  <2> DEFINE p == LruPlace(cache, k)
             a == SubSeq(cache, 1, p - 1)
             b == SubSeq(cache, p + 1, Len(cache))
             d == a \o b
  <2>1. p \in 1 .. Len(cache) /\ cache[p].key = k
    BY <1>2, PlaceOf
  <2>2. cache \in Seq(Entries(vals)) /\ Len(cache) \in Nat
    BY DEF Lru
  <2> HIDE DEF p
  <2>3. \A i \in 1 .. Len(cache) : cache[i] \in Entries(vals)
    BY <2>2
  <2>4. /\ a \in Seq(Entries(vals)) /\ Len(a) = p - 1
        /\ \A i \in 1 .. p - 1 : a[i] = cache[i]
    <3>1. \A i \in 1 .. p - 1 : cache[i] \in Entries(vals)
      BY <2>1, <2>2, <2>3
    <3> QED
      BY <2>1, <2>2, <3>1, SubSeqProperties
  <2>5. /\ b \in Seq(Entries(vals)) /\ Len(b) = Len(cache) - p
        /\ \A i \in 1 .. Len(cache) - p : b[i] = cache[p + i]
    <3>1. \A i \in p + 1 .. Len(cache) : cache[i] \in Entries(vals)
      BY <2>1, <2>2, <2>3
    <3>2. /\ b \in Seq(Entries(vals))
          /\ Len(b) = IF p + 1 <= Len(cache) THEN Len(cache) - (p + 1) + 1 ELSE 0
          /\ \A i \in 1 .. Len(cache) - (p + 1) + 1 : b[i] = cache[p + 1 + i - 1]
      BY <2>1, <2>2, <3>1, SubSeqProperties
    <3> QED
      BY <2>1, <2>2, <3>2
  <2> HIDE DEF a, b
  <2>6. /\ d \in Seq(Entries(vals)) /\ Len(d) = Len(a) + Len(b)
        /\ \A i \in 1 .. Len(a) + Len(b) : d[i] = IF i <= Len(a) THEN a[i] ELSE b[i - Len(a)]
    BY <2>4, <2>5, ConcatProperties
  <2> HIDE DEF d
  <2>7. Skips(d, cache, p)
    <3>1. Len(d) = Len(cache) - 1
      BY <2>1, <2>2, <2>4, <2>5, <2>6
    <3>2. ASSUME NEW j \in 1 .. Len(cache) - 1, j < p PROVE d[j] = cache[j]
      <4>1. j \in 1 .. p - 1 /\ j \in 1 .. Len(a) + Len(b) /\ j <= Len(a)
        BY <2>1, <2>2, <2>4, <2>5, <3>2
      <4>2. d[j] = a[j]
        BY <2>6, <4>1
      <4> QED
        BY <2>4, <4>1, <4>2
    <3>3. ASSUME NEW j \in 1 .. Len(cache) - 1, ~(j < p) PROVE d[j] = cache[j + 1]
      <4>1. /\ j \in 1 .. Len(a) + Len(b) /\ ~(j <= Len(a))
            /\ j - Len(a) \in 1 .. Len(cache) - p
        BY <2>1, <2>2, <2>4, <2>5, <3>3
      <4>2. d[j] = b[j - Len(a)] /\ b[j - Len(a)] = cache[p + (j - Len(a))]
        BY <2>5, <2>6, <4>1
      <4> QED
        BY <2>1, <2>2, <2>4, <4>1, <4>2
    <3> QED
      BY <3>1, <3>2, <3>3 DEF Skips
  <2>8. LruDrop(cache, k) = d
    BY <1>2 DEF LruDrop, RemoveAt, d, a, b, p
  <2> QED
    BY <2>1, <2>6, <2>7, <2>8, Without
<1> QED
    BY <1>1, <1>2

LEMMA AppendEntry ==
    ASSUME NEW vals, NEW cache, Lru(cache, vals), NEW k \in Keys \ LruKeys(cache), NEW v \in vals
    PROVE  LET d == Append(cache, [key |-> k, val |-> v])
           IN  /\ Lru(d, vals)
               /\ LruKeys(d) = LruKeys(cache) \cup {k}
               /\ LruVal(d, k) = v
               /\ \A j \in LruKeys(cache) : LruVal(d, j) = LruVal(cache, j)
<1> DEFINE e == [key |-> k, val |-> v]
           d == Append(cache, e)
<1>1. cache \in Seq(Entries(vals)) /\ Len(cache) \in Nat /\ e \in Entries(vals)
    BY DEF Lru, Entries
<1>2. /\ d \in Seq(Entries(vals)) /\ Len(d) = Len(cache) + 1
      /\ \A i \in 1 .. Len(cache) : d[i] = cache[i]
      /\ d[Len(cache) + 1] = e
    BY <1>1, AppendProperties
<1>3. e.key = k /\ e.val = v
    OBVIOUS
<1> HIDE DEF d, e
<1>4. \A i \in 1 .. Len(cache) : d[i].key # k
    BY <1>2 DEF LruKeys
<1>5. \A i \in 1 .. Len(d) : i \in 1 .. Len(cache) \/ i = Len(cache) + 1
    BY <1>1, <1>2
<1>6. Lru(d, vals)
    BY <1>1, <1>2, <1>3, <1>4, <1>5 DEF Lru
<1>7. 1 .. Len(d) = 1 .. Len(cache) \cup {Len(cache) + 1}
    BY <1>1, <1>2
<1>8. LruKeys(d) = LruKeys(cache) \cup {k}
    BY <1>2, <1>3, <1>7 DEF LruKeys
<1>9. LruVal(d, k) = v
  <2>1. Len(cache) + 1 \in 1 .. Len(d)
    BY <1>7
  <2> QED
    BY <1>2, <1>3, <1>6, <2>1, ValAt
<1>10. ASSUME NEW j \in LruKeys(cache) PROVE LruVal(d, j) = LruVal(cache, j)
  <2>1. PICK i \in 1 .. Len(cache) : cache[i].key = j
    BY DEF LruKeys
  <2>2. i \in 1 .. Len(d) /\ d[i] = cache[i]
    BY <1>2, <1>7, <2>1
  <2> QED
    BY <1>6, <2>1, <2>2, ValAt
<1> QED
    BY <1>6, <1>8, <1>9, <1>10 DEF d, e

LEMMA PutProperties ==
    ASSUME BalancerAssumption,
           NEW vals, NEW cache, Lru(cache, vals), NEW k \in Keys, NEW v \in vals
    PROVE  /\ Lru(LruPut(cache, k, v), vals)
           /\ LruKeys(LruPut(cache, k, v)) = (LruKeys(cache) \ LruVictims(cache, k)) \cup {k}
           /\ LruVal(LruPut(cache, k, v), k) = v
           /\ \A j \in LruKeys(cache) \ (LruVictims(cache, k) \cup {k}) :
                 LruVal(LruPut(cache, k, v), j) = LruVal(cache, j)
<1>1. CASE LruOverflow(cache, k)
  <2> DEFINE d == Tail(cache)
  <2>1. cache \in Seq(Entries(vals)) /\ Len(cache) \in Nat /\ cache # <<>> /\ 1 \in 1 .. Len(cache)
    BY <1>1 DEF Lru, LruOverflow, BalancerAssumption
  <2>2. /\ Head(cache) = cache[1]
        /\ d \in Seq(Entries(vals)) /\ Len(d) = Len(cache) - 1
        /\ \A i \in 1 .. Len(d) : d[i] = cache[i + 1]
    BY <2>1, HeadTailProperties
  <2> HIDE DEF d
  <2>3. Skips(d, cache, 1)
    BY <2>1, <2>2 DEF Skips
  <2>4. /\ Lru(d, vals)
        /\ LruKeys(d) = LruKeys(cache) \ {cache[1].key}
        /\ \A j \in LruKeys(d) : LruVal(d, j) = LruVal(cache, j)
    BY <2>1, <2>2, <2>3, Without
  <2>5. LruVictims(cache, k) = {cache[1].key}
    BY <1>1, <2>2 DEF LruVictims
  <2>6. LruPut(cache, k, v) = Append(d, [key |-> k, val |-> v])
    BY <1>1 DEF LruPut, d
  <2>7. k \notin LruKeys(d)
    BY <1>1, <2>4 DEF LruOverflow
  <2> QED
    BY <2>4, <2>5, <2>6, <2>7, AppendEntry
<1>2. CASE ~LruOverflow(cache, k)
  <2> DEFINE d == LruDrop(cache, k)
  <2>1. /\ Lru(d, vals)
        /\ LruKeys(d) = LruKeys(cache) \ {k}
        /\ \A j \in LruKeys(cache) \ {k} : LruVal(d, j) = LruVal(cache, j)
    BY DropProperties
  <2>2. LruVictims(cache, k) = {}
    BY <1>2 DEF LruVictims
  <2>3. LruPut(cache, k, v) = Append(d, [key |-> k, val |-> v])
    BY <1>2 DEF LruPut
  <2> HIDE DEF d
  <2> QED
    BY <2>1, <2>2, <2>3, AppendEntry
<1> QED
    BY <1>1, <1>2

-----------------------------------------------------------------------------
(* Counters and the requests they count *)

LEMMA CountType ==
    ASSUME Lru(groupCount, Counts), NEW k
    PROVE  Count(k) \in Nat /\ (Count(k) = 0 <=> k \notin LruKeys(groupCount))
<1>1. CASE k \in LruKeys(groupCount)
  <2>1. LruPlace(groupCount, k) \in 1 .. Len(groupCount)
    BY <1>1, PlaceOf
  <2>2. groupCount[LruPlace(groupCount, k)] \in Entries(Counts)
    BY <2>1 DEF Lru
  <2>3. LruVal(groupCount, k) \in Counts
    BY <2>2 DEF LruVal, Entries
  <2> QED
    BY <1>1, <2>3 DEF Count, Counts
<1>2. CASE k \notin LruKeys(groupCount)
    BY <1>2 DEF Count
<1> QED
    BY <1>1, <1>2

LEMMA AcquireCounts ==
    ASSUME BalancerAssumption, Lru(groupCount, Counts), NEW key \in Keys, CountAcquire(key)
    PROVE  /\ Lru(groupCount', Counts)
           /\ key \in GroupKeys => Count(key)' = Count(key) + 1
           /\ \A k \in GroupKeys \ (CountVictims(key) \cup {key}) : Count(k)' = Count(k)
<1>1. CASE key \notin GroupKeys
    BY <1>1 DEF CountAcquire, Count
<1>2. CASE key \in GroupKeys
  <2> DEFINE n == Count(key) + 1
             d == LruPut(groupCount, key, n)
  <2>1. n \in Counts
    BY CountType DEF Counts
  <2>2. groupCount' = d /\ CountVictims(key) = LruVictims(groupCount, key)
    BY <1>2 DEF CountAcquire, CountVictims
  <2> HIDE DEF n
  <2>3. /\ Lru(d, Counts)
        /\ LruKeys(d) = (LruKeys(groupCount) \ LruVictims(groupCount, key)) \cup {key}
        /\ LruVal(d, key) = n
        /\ \A j \in LruKeys(groupCount) \ (LruVictims(groupCount, key) \cup {key}) :
              LruVal(d, j) = LruVal(groupCount, j)
    BY <2>1, PutProperties
  <2> HIDE DEF d
  <2>4. Count(key)' = n
    BY <2>2, <2>3 DEF Count
  <2>5. ASSUME NEW k \in GroupKeys \ (CountVictims(key) \cup {key}) PROVE Count(k)' = Count(k)
    BY <2>2, <2>3, <2>5 DEF Count
  <2> QED
    BY <2>2, <2>3, <2>4, <2>5 DEF n
<1> QED
    BY <1>1, <1>2

LEMMA ReleaseCounts ==
    ASSUME BalancerAssumption, Lru(groupCount, Counts), Lru(sticky, Servers),
           NEW key \in Keys, CountRelease(key)
    PROVE  /\ Lru(groupCount', Counts) /\ Lru(sticky', Servers)
           /\ key \in GroupKeys => Count(key)' = IF Count(key) > 1 THEN Count(key) - 1 ELSE 0
           /\ \A k \in GroupKeys \ {key} : Count(k)' = Count(k)
           /\ LruKeys(sticky') \subseteq LruKeys(sticky)
           /\ \A k, s : (k # key \/ Count(key) > 1) => (Routes(sticky', k, s) <=> Routes(sticky, k, s))
           /\ key \in GroupKeys /\ Count(key) <= 1 => key \notin LruKeys(sticky')
<1>0. Count(key) \in Nat
    BY CountType
<1>1. CASE key \notin GroupKeys
    BY <1>0, <1>1 DEF CountRelease, Count, Routes
<1>2. CASE key \in GroupKeys /\ Count(key) > 1
  <2> DEFINE n == Count(key) - 1
             d == LruPut(groupCount, key, n)
  <2>1. n \in Counts /\ key \in LruKeys(groupCount)
    BY <1>0, <1>2, CountType DEF Counts
  <2>2. groupCount' = d /\ sticky' = sticky /\ LruVictims(groupCount, key) = {}
    BY <1>2, <2>1 DEF CountRelease, LruVictims, LruOverflow
  <2> HIDE DEF n
  <2>3. /\ Lru(d, Counts)
        /\ LruKeys(d) = (LruKeys(groupCount) \ LruVictims(groupCount, key)) \cup {key}
        /\ LruVal(d, key) = n
        /\ \A j \in LruKeys(groupCount) \ (LruVictims(groupCount, key) \cup {key}) :
              LruVal(d, j) = LruVal(groupCount, j)
    BY <2>1, PutProperties
  <2> HIDE DEF d
  <2>4. Count(key)' = n
    BY <2>2, <2>3 DEF Count
  <2>5. ASSUME NEW k \in GroupKeys \ {key} PROVE Count(k)' = Count(k)
    BY <2>2, <2>3, <2>5 DEF Count
  <2>6. \A k, s : Routes(sticky', k, s) <=> Routes(sticky, k, s)
    BY <2>2 DEF Routes
  <2> QED
    BY <1>0, <1>2, <2>2, <2>3, <2>4, <2>5, <2>6 DEF n
<1>3. CASE key \in GroupKeys /\ ~(Count(key) > 1)
  <2>1. groupCount' = LruDrop(groupCount, key) /\ sticky' = LruDrop(sticky, key)
    BY <1>3 DEF CountRelease
  <2>2. /\ Lru(groupCount', Counts) /\ LruKeys(groupCount') = LruKeys(groupCount) \ {key}
        /\ \A j \in LruKeys(groupCount) \ {key} : LruVal(groupCount', j) = LruVal(groupCount, j)
    BY <2>1, DropProperties
  <2>3. /\ Lru(sticky', Servers) /\ LruKeys(sticky') = LruKeys(sticky) \ {key}
        /\ \A j \in LruKeys(sticky) \ {key} : LruVal(sticky', j) = LruVal(sticky, j)
    BY <2>1, DropProperties
  <2>4. Count(key)' = 0 /\ \A k \in GroupKeys \ {key} : Count(k)' = Count(k)
    BY <2>2 DEF Count
  <2>5. \A k, s : k # key => (Routes(sticky', k, s) <=> Routes(sticky, k, s))
    BY <2>3 DEF Routes
  <2> QED
    BY <1>3, <2>2, <2>3, <2>4, <2>5
<1> QED
    BY <1>1, <1>2, <1>3

LEMMA OfFinite ==
    ASSUME BalancerAssumption, NEW k
    PROVE  IsFiniteSet(Of(k)) /\ Cardinality(Of(k)) \in Nat
<1>1. Of(k) \in SUBSET Clients
    BY DEF Of, Outstanding
<1>2. IsFiniteSet(Of(k))
    BY <1>1, FS_Subset DEF BalancerAssumption
<1> QED
    BY <1>2, FS_CardinalityType

LEMMA OfGrows ==
    ASSUME BalancerAssumption, NEW c \in Clients \ Outstanding,
           Outstanding' = Outstanding \cup {c}
    PROVE  /\ Of(KeyOf[c])' # {} /\ Cardinality(Of(KeyOf[c])') = Cardinality(Of(KeyOf[c])) + 1
           /\ \A k : k # KeyOf[c] => Of(k)' = Of(k)
<1>1. Of(KeyOf[c])' = Of(KeyOf[c]) \cup {c} /\ c \notin Of(KeyOf[c])
    BY DEF Of
<1>2. Cardinality(Of(KeyOf[c])') = Cardinality(Of(KeyOf[c])) + 1
    BY <1>1, OfFinite, FS_AddElement
<1>3. \A k : k # KeyOf[c] => Of(k)' = Of(k)
    BY DEF Of
<1> QED
    BY <1>1, <1>2, <1>3

LEMMA OfShrinks ==
    ASSUME BalancerAssumption, NEW c \in Outstanding, c \in Clients,
           Outstanding' = Outstanding \ {c}
    PROVE  /\ Cardinality(Of(KeyOf[c])') = Cardinality(Of(KeyOf[c])) - 1
           /\ Cardinality(Of(KeyOf[c])) >= 1
           /\ \A k : k # KeyOf[c] => Of(k)' = Of(k)
<1>1. Of(KeyOf[c])' = Of(KeyOf[c]) \ {c} /\ c \in Of(KeyOf[c])
    BY DEF Of
<1>2. Cardinality(Of(KeyOf[c])') = Cardinality(Of(KeyOf[c])) - 1
  <2>1. Cardinality(Of(KeyOf[c]) \ {c}) = Cardinality(Of(KeyOf[c])) - 1
    BY <1>1, OfFinite, FS_RemoveElement
  <2> QED
    BY <1>1, <2>1
<1>3. Cardinality(Of(KeyOf[c])) >= 1
    BY <1>1, OfFinite, FS_EmptySet
<1>4. \A k : k # KeyOf[c] => Of(k)' = Of(k)
    BY DEF Of
<1> QED
    BY <1>2, <1>3, <1>4

-----------------------------------------------------------------------------
(* The steps *)

LEMMA InitIInv == ASSUME BalancerAssumption PROVE Init => BalancerInv
<1> SUFFICES ASSUME Init PROVE BalancerInv
    OBVIOUS
<1>1. Outstanding = {} /\ LruKeys(groupCount) = {} /\ LruKeys(sticky) = {}
    BY DEF Init, Outstanding, LruKeys
<1>2. \A k : Of(k) = {} /\ Count(k) = 0
    BY <1>1 DEF Of, Count
<1>3. TypeInv
    BY <1>1 DEF Init, TypeInv, Lru, Live
<1>4. CountInv
    BY <1>2, FS_EmptySet DEF CountInv
<1>5. RouteInv /\ StickyInv
    BY <1>1 DEF RouteInv, StickyInv
<1> QED
    BY <1>3, <1>4, <1>5 DEF BalancerInv

\* What the steps that grant an acquire have in common.
LEMMA AcquireKept ==
    ASSUME BalancerAssumption, BalancerInv, NEW c \in Clients, phase[c] = "called",
           CountAcquire(KeyOf[c]), uncounted' = uncounted \cup CountVictims(KeyOf[c]),
           NEW s \in Servers, Assign(c, s), s \in Live, UNCHANGED <<removed, failed>>,
           Lru(sticky', Servers), LruKeys(sticky') \subseteq LruKeys(sticky) \cup {KeyOf[c]}
    PROVE  /\ TypeInv' /\ CountInv' /\ RouteInv'
           /\ Outstanding' = Outstanding \cup {c} /\ c \notin Outstanding
           /\ at'[c] = s /\ \A d \in Outstanding : at'[d] = at[d]
<1> DEFINE key == KeyOf[c]
<1>1. key \in Keys
    BY DEF BalancerAssumption
<1>2. /\ Lru(groupCount', Counts)
      /\ key \in GroupKeys => Count(key)' = Count(key) + 1
      /\ \A k \in GroupKeys \ (CountVictims(key) \cup {key}) : Count(k)' = Count(k)
    BY <1>1, AcquireCounts DEF BalancerInv, TypeInv
<1>3. Outstanding' = Outstanding \cup {c} /\ c \notin Outstanding
    BY DEF Assign, Outstanding, BalancerInv, TypeInv
<1>4. at'[c] = s /\ \A d \in Outstanding : at'[d] = at[d]
    BY <1>3 DEF Assign, BalancerInv, TypeInv, Outstanding
<1>5. TypeInv'
  <2>1. Live' = Live
    BY DEF Assign, Live
  <2>2. phase' \in [Clients -> {"idle", "called", "holding", "releasing", "dead", "failed"}]
        /\ DOMAIN at' = Clients
    BY DEF Assign, BalancerInv, TypeInv
  <2> QED
    BY <1>2, <1>3, <1>4, <2>1, <2>2 DEF BalancerInv, TypeInv
<1>6. /\ Of(key)' # {} /\ Cardinality(Of(key)') = Cardinality(Of(key)) + 1
      /\ \A k : k # key => Of(k)' = Of(k)
    BY <1>3, OfGrows
<1>7. CountInv'
  <2> SUFFICES ASSUME NEW k \in GroupKeys, k \notin uncounted'
               PROVE  /\ Count(k)' >= Cardinality(Of(k)')
                      /\ k \notin failed' => Count(k)' = Cardinality(Of(k)')
    BY DEF CountInv
  <2>1. /\ Count(k) >= Cardinality(Of(k)) /\ (k \notin failed => Count(k) = Cardinality(Of(k)))
        /\ Count(k) \in Nat /\ Cardinality(Of(k)) \in Nat
    BY CountType, OfFinite DEF BalancerInv, CountInv, TypeInv
  <2>2. CASE k = key
    BY <1>2, <1>6, <2>1, <2>2
  <2>3. CASE k # key
    BY <1>2, <1>6, <2>1, <2>3
  <2> QED
    BY <2>2, <2>3
<1>8. RouteInv'
    BY <1>6 DEF RouteInv, BalancerInv
<1> QED
    BY <1>3, <1>4, <1>5, <1>7, <1>8

LEMMA AcquireStickyIInv ==
    ASSUME BalancerAssumption, BalancerInv, NEW c \in Clients, NEW s \in Servers, AcquireSticky(c, s)
    PROVE  BalancerInv'
<1> DEFINE key == KeyOf[c]
<1>1. key \in Keys /\ key \in LruKeys(sticky) /\ LruVictims(sticky, key) = {}
    BY DEF AcquireSticky, StickyTo, LruVictims, LruOverflow, BalancerAssumption
<1>2. sticky' = LruPut(sticky, key, s) /\ LruVal(sticky, key) = s
    BY DEF AcquireSticky, StickyTo
<1>3. /\ Lru(sticky', Servers) /\ LruKeys(sticky') = LruKeys(sticky)
      /\ \A k \in LruKeys(sticky) : LruVal(sticky', k) = LruVal(sticky, k)
  <2>1. /\ Lru(sticky', Servers)
        /\ LruKeys(sticky') = (LruKeys(sticky) \ LruVictims(sticky, key)) \cup {key}
        /\ LruVal(sticky', key) = s
        /\ \A k \in LruKeys(sticky) \ (LruVictims(sticky, key) \cup {key}) :
              LruVal(sticky', k) = LruVal(sticky, k)
    BY <1>1, <1>2, PutProperties DEF BalancerInv, TypeInv
  <2> QED
    BY <1>1, <1>2, <2>1
<1>4. /\ TypeInv' /\ CountInv' /\ RouteInv'
      /\ Outstanding' = Outstanding \cup {c} /\ at'[c] = s
      /\ \A d \in Outstanding : at'[d] = at[d]
    BY <1>3, AcquireKept DEF AcquireSticky
<1>5. StickyInv'
  <2> SUFFICES ASSUME NEW d \in Outstanding \cup {c},
                      KeyOf[d] \in GroupKeys \ (evicted' \cup uncounted'),
                      at'[d] \notin removed'
               PROVE  Routes(sticky', KeyOf[d], at'[d])
    BY <1>4 DEF StickyInv
  <2>1. CASE d = c
    BY <1>1, <1>2, <1>3, <1>4, <2>1 DEF Routes
  <2>2. CASE d # c
    <3>1. Routes(sticky, KeyOf[d], at[d])
      BY <1>4, <2>2 DEF AcquireSticky, BalancerInv, StickyInv
    <3> QED
      BY <1>3, <1>4, <2>2, <3>1 DEF Routes
  <2> QED
    BY <2>1, <2>2
<1> QED
    BY <1>4, <1>5 DEF BalancerInv

LEMMA AcquireNewIInv ==
    ASSUME BalancerAssumption, BalancerInv, NEW c \in Clients, NEW s \in Servers, AcquireNew(c, s)
    PROVE  BalancerInv'
<1> DEFINE key == KeyOf[c]
           kept == LruDrop(sticky, key)
<1>1. key \in Keys
    BY DEF BalancerAssumption
<1>2. sticky' = LruPut(kept, key, s) /\ evicted' = evicted \cup LruVictims(kept, key)
    BY DEF AcquireNew
<1>3. /\ Lru(kept, Servers) /\ LruKeys(kept) = LruKeys(sticky) \ {key}
      /\ \A k \in LruKeys(sticky) \ {key} : LruVal(kept, k) = LruVal(sticky, k)
    BY DropProperties DEF BalancerInv, TypeInv
<1> HIDE DEF kept
<1>4. /\ Lru(sticky', Servers)
      /\ LruKeys(sticky') = (LruKeys(kept) \ LruVictims(kept, key)) \cup {key}
      /\ LruVal(sticky', key) = s
      /\ \A k \in LruKeys(kept) \ (LruVictims(kept, key) \cup {key}) :
            LruVal(sticky', k) = LruVal(kept, k)
    BY <1>1, <1>2, <1>3, PutProperties
<1>5. LruKeys(sticky') \subseteq LruKeys(sticky) \cup {key}
    BY <1>3, <1>4
<1>6. /\ TypeInv' /\ CountInv' /\ RouteInv'
      /\ Outstanding' = Outstanding \cup {c} /\ at'[c] = s
      /\ \A d \in Outstanding : at'[d] = at[d]
    BY <1>4, <1>5, AcquireKept DEF AcquireNew
<1>7. StickyInv'
  <2> SUFFICES ASSUME NEW d \in Outstanding \cup {c},
                      KeyOf[d] \in GroupKeys \ (evicted' \cup uncounted'),
                      at'[d] \notin removed'
               PROVE  Routes(sticky', KeyOf[d], at'[d])
    BY <1>6 DEF StickyInv
  <2>1. CASE d = c
    BY <1>4, <1>6, <2>1 DEF Routes
  <2>2. CASE d # c
    <3>1. /\ KeyOf[d] \in GroupKeys \ (evicted \cup uncounted)
          /\ at[d] \notin removed /\ d \in Outstanding /\ at'[d] = at[d]
      BY <1>2, <1>6, <2>2 DEF AcquireNew
    <3>2. Routes(sticky, KeyOf[d], at[d]) /\ at[d] \in Live
      BY <3>1 DEF BalancerInv, StickyInv, TypeInv
    <3>3. KeyOf[d] # key
      BY <3>2 DEF AcquireNew, Routes, StickyTo
    <3>4. KeyOf[d] \notin LruVictims(kept, key)
      BY <1>2
    <3> QED
      BY <1>3, <1>4, <3>1, <3>2, <3>3, <3>4 DEF Routes
  <2> QED
    BY <2>1, <2>2
<1> QED
    BY <1>6, <1>7 DEF BalancerInv

LEMMA AcquireFailsIInv ==
    ASSUME BalancerAssumption, BalancerInv, NEW c \in Clients, AcquireFails(c)
    PROVE  BalancerInv'
<1> DEFINE key == KeyOf[c]
<1>1. /\ key \in Keys /\ Live = {} /\ sticky' = LruDrop(sticky, key)
      /\ CountAcquire(key) /\ uncounted' = uncounted \cup CountVictims(key)
      /\ failed' = failed \cup {key} /\ UNCHANGED <<inflight, at, removed, evicted>>
    BY DEF AcquireFails, BalancerAssumption
<1>2. /\ Lru(groupCount', Counts)
      /\ key \in GroupKeys => Count(key)' = Count(key) + 1
      /\ \A k \in GroupKeys \ (CountVictims(key) \cup {key}) : Count(k)' = Count(k)
    BY <1>1, AcquireCounts DEF BalancerInv, TypeInv
<1>3. /\ Lru(sticky', Servers) /\ LruKeys(sticky') = LruKeys(sticky) \ {key}
    BY <1>1, DropProperties DEF BalancerInv, TypeInv
<1>4. Outstanding' = Outstanding
    BY DEF AcquireFails, Outstanding, BalancerInv, TypeInv
<1>5. \A k : Of(k)' = Of(k)
    BY <1>4 DEF Of
<1>6. TypeInv'
  <2>1. Live' = Live
    BY <1>1 DEF Live
  <2>2. phase' \in [Clients -> {"idle", "called", "holding", "releasing", "dead", "failed"}]
    BY DEF AcquireFails, BalancerInv, TypeInv
  <2> QED
    BY <1>1, <1>2, <1>3, <1>4, <2>1, <2>2 DEF BalancerInv, TypeInv
<1>7. CountInv'
  <2> SUFFICES ASSUME NEW k \in GroupKeys, k \notin uncounted'
               PROVE  /\ Count(k)' >= Cardinality(Of(k)')
                      /\ k \notin failed' => Count(k)' = Cardinality(Of(k)')
    BY DEF CountInv
  <2>1. /\ Count(k) >= Cardinality(Of(k)) /\ (k \notin failed => Count(k) = Cardinality(Of(k)))
        /\ Count(k) \in Nat /\ Cardinality(Of(k)) \in Nat
    BY <1>1, CountType, OfFinite DEF BalancerInv, CountInv, TypeInv
  <2>2. Cardinality(Of(k)') = Cardinality(Of(k))
    BY <1>5
  <2>3. CASE k = key
    BY <1>1, <1>2, <2>1, <2>2, <2>3
  <2>4. CASE k # key
    BY <1>1, <1>2, <2>1, <2>2, <2>4
  <2> QED
    BY <2>3, <2>4
<1>8. RouteInv'
    BY <1>1, <1>3, <1>5 DEF BalancerInv, RouteInv
<1>9. StickyInv'
    \* Every server has been removed: no client stands on another one.
  <2>1. \A d \in Outstanding : at[d] \in removed
    BY <1>1 DEF BalancerInv, TypeInv
  <2> QED
    BY <1>1, <1>4, <2>1 DEF StickyInv
<1> QED
    BY <1>6, <1>7, <1>8, <1>9 DEF BalancerInv

LEMMA ReleaseIInv ==
    ASSUME BalancerAssumption, BalancerInv, NEW c \in Clients, Release(c)
    PROVE  BalancerInv'
<1> DEFINE key == KeyOf[c]
<1>1. key \in Keys /\ CountRelease(key) /\ UNCHANGED <<removed, evicted, uncounted, failed>>
    BY DEF Release, BalancerAssumption, historyVars
<1>2. /\ Lru(groupCount', Counts) /\ Lru(sticky', Servers)
      /\ key \in GroupKeys => Count(key)' = IF Count(key) > 1 THEN Count(key) - 1 ELSE 0
      /\ \A k \in GroupKeys \ {key} : Count(k)' = Count(k)
      /\ LruKeys(sticky') \subseteq LruKeys(sticky)
      /\ \A k, s : (k # key \/ Count(key) > 1) => (Routes(sticky', k, s) <=> Routes(sticky, k, s))
      /\ key \in GroupKeys /\ Count(key) <= 1 => key \notin LruKeys(sticky')
    BY <1>1, ReleaseCounts DEF BalancerInv, TypeInv
<1>3. Outstanding' = Outstanding \ {c} /\ c \in Outstanding
    BY DEF Release, Outstanding, BalancerInv, TypeInv
<1>4. \A d \in Outstanding' : at'[d] = at[d]
    BY <1>3 DEF Release, BalancerInv, TypeInv, Outstanding
<1>5. TypeInv'
  <2>1. Live' = Live
    BY DEF Release, Live
  <2>2. phase' \in [Clients -> {"idle", "called", "holding", "releasing", "dead", "failed"}]
        /\ DOMAIN at' = Clients
    BY DEF Release, BalancerInv, TypeInv
  <2> QED
    BY <1>1, <1>2, <1>3, <1>4, <2>1, <2>2 DEF BalancerInv, TypeInv
<1>6. /\ Cardinality(Of(key)') = Cardinality(Of(key)) - 1 /\ Cardinality(Of(key)) >= 1
      /\ \A k : k # key => Of(k)' = Of(k)
    BY <1>3, OfShrinks
<1>7. ASSUME NEW k \in GroupKeys, k \notin uncounted
      PROVE  /\ Count(k) >= Cardinality(Of(k)) /\ (k \notin failed => Count(k) = Cardinality(Of(k)))
             /\ Count(k) \in Nat /\ Cardinality(Of(k)) \in Nat
    BY <1>7, CountType, OfFinite DEF BalancerInv, CountInv, TypeInv
<1>8. CountInv'
  <2> SUFFICES ASSUME NEW k \in GroupKeys, k \notin uncounted
               PROVE  /\ Count(k)' >= Cardinality(Of(k)')
                      /\ k \notin failed => Count(k)' = Cardinality(Of(k)')
    BY <1>1 DEF CountInv
  <2>1. CASE k = key
    BY <1>2, <1>6, <1>7, <2>1
  <2>2. CASE k # key
    BY <1>2, <1>6, <1>7, <2>2
  <2> QED
    BY <2>1, <2>2
<1>9. RouteInv'
  <2> SUFFICES ASSUME NEW k \in GroupKeys \ (failed \cup uncounted), Of(k)' = {}
               PROVE  k \notin LruKeys(sticky')
    BY <1>1 DEF RouteInv
  <2>1. CASE k = key
    <3>1. Cardinality(Of(key)) = 1
      BY <1>6, <1>7, <2>1, FS_EmptySet
    <3> QED
      BY <1>2, <1>7, <2>1, <3>1
  <2>2. CASE k # key
    BY <1>2, <1>6, <2>2 DEF BalancerInv, RouteInv
  <2> QED
    BY <2>1, <2>2
<1>10. StickyInv'
  <2> SUFFICES ASSUME NEW d \in Outstanding \ {c},
                      KeyOf[d] \in GroupKeys \ (evicted \cup uncounted),
                      at[d] \notin removed
               PROVE  Routes(sticky', KeyOf[d], at'[d])
    BY <1>1, <1>3, <1>4 DEF StickyInv
  <2>1. Routes(sticky, KeyOf[d], at[d])
    BY DEF BalancerInv, StickyInv
  <2>2. CASE KeyOf[d] # key
    BY <1>2, <1>3, <1>4, <2>1, <2>2
  <2>3. CASE KeyOf[d] = key
    <3>1. Of(key)' # {}
      BY <1>3, <2>3 DEF Of
    <3>2. Cardinality(Of(key)') \in Nat /\ Cardinality(Of(key)') # 0
      <4>1. Of(key)' \in SUBSET Of(key)
        BY <1>3 DEF Of
      <4>2. IsFiniteSet(Of(key)')
        BY <4>1, OfFinite, FS_Subset
      <4> QED
        BY <3>1, <4>2, FS_EmptySet, FS_CardinalityType
    <3>3. Count(key) > 1
      BY <1>6, <1>7, <2>3, <3>2
    <3> QED
      BY <1>2, <1>3, <1>4, <2>1, <2>3, <3>3
  <2> QED
    BY <2>2, <2>3
<1> QED
    BY <1>5, <1>8, <1>9, <1>10 DEF BalancerInv

\* The steps that leave the caches and the outstanding requests alone.
LEMMA CachesKept ==
    ASSUME BalancerInv, TypeInv', Outstanding' = Outstanding, removed \subseteq removed',
           UNCHANGED <<sticky, groupCount, at, evicted, uncounted, failed>>
    PROVE  BalancerInv'
<1>1. \A k : Of(k)' = Of(k) /\ Count(k)' = Count(k)
    BY DEF Of, Count
<1>2. CountInv' /\ RouteInv'
    BY <1>1 DEF BalancerInv, CountInv, RouteInv
<1>3. StickyInv'
    BY DEF BalancerInv, StickyInv, Routes
<1> QED
    BY <1>2, <1>3 DEF BalancerInv

LEMMA ClientIInv ==
    ASSUME BalancerInv, NEW c \in Clients, Call(c) \/ Finish(c) \/ Die(c)
    PROVE  BalancerInv'
<1>1. UNCHANGED <<inflight, sticky, groupCount, at, removed, evicted, uncounted, failed>>
    BY DEF Call, Finish, Die, historyVars
<1>2. PICK s \in {"called", "releasing", "dead"} :
        /\ phase' = [phase EXCEPT ![c] = s]
        /\ s = "called" => phase[c] = "idle"
        /\ s # "called" => phase[c] = "holding"
    BY DEF Call, Finish, Die
<1>3. Outstanding' = Outstanding
    BY <1>2 DEF Outstanding, BalancerInv, TypeInv
<1>4. TypeInv'
    BY <1>1, <1>2, <1>3 DEF BalancerInv, TypeInv, Live
<1> QED
    BY <1>1, <1>3, <1>4, CachesKept

LEMMA ServerIInv ==
    ASSUME BalancerInv, NEW s \in Servers, RemoveServer(s) \/ AddServer(s)
    PROVE  BalancerInv'
<1>1. UNCHANGED <<sticky, groupCount, phase, at, evicted, uncounted, failed>>
    BY DEF RemoveServer, AddServer, clientVars, historyVars
<1>2. Outstanding' = Outstanding
    BY <1>1 DEF Outstanding
<1>3. removed \subseteq removed' /\ Servers \ Live' \subseteq removed'
    BY DEF RemoveServer, AddServer, historyVars, Live, BalancerInv, TypeInv
<1>4. TypeInv'
    BY <1>1, <1>2, <1>3 DEF BalancerInv, TypeInv
<1> QED
    BY <1>1, <1>2, <1>3, <1>4, CachesKept

LEMMA StutterIInv == BalancerInv /\ UNCHANGED vars => BalancerInv'
<1> SUFFICES ASSUME BalancerInv, UNCHANGED vars PROVE BalancerInv'
    OBVIOUS
<1>1. Outstanding' = Outstanding
    BY DEF vars, Outstanding
<1>2. TypeInv'
    BY <1>1 DEF BalancerInv, TypeInv, Live, vars
<1> QED
    BY <1>1, <1>2, CachesKept DEF vars

LEMMA BalancerKept == ASSUME BalancerAssumption PROVE Spec => []BalancerInv
<1>1. Init => BalancerInv
    BY InitIInv
<1>2. BalancerInv /\ [Next]_vars => BalancerInv'
    BY AcquireStickyIInv, AcquireNewIInv, AcquireFailsIInv, ReleaseIInv, ClientIInv,
       ServerIInv, StutterIInv
    DEF Next
<1> QED
    BY <1>1, <1>2, PTL DEF Spec

-----------------------------------------------------------------------------

\* _group_inflight counts a group's outstanding requests, over all removals and
\* additions of servers and deaths of clients.
THEOREM CountsExact == ASSUME BalancerAssumption PROVE Spec => []GroupCountExact
<1>1. BalancerInv => GroupCountExact
    BY DEF BalancerInv, CountInv, GroupCountExact, Of
<1> QED
    BY BalancerKept, <1>1, PTL

\* A group whose last request was released is in neither cache.
THEOREM KeysRemoved == ASSUME BalancerAssumption PROVE Spec => []GroupKeyRemoved
<1>1. ASSUME BalancerInv PROVE GroupKeyRemoved
  <2> SUFFICES ASSUME NEW k \in GroupKeys \ (failed \cup uncounted),
                      \A c \in Outstanding : KeyOf[c] # k
               PROVE  k \notin LruKeys(sticky) /\ k \notin LruKeys(groupCount)
    BY DEF GroupKeyRemoved
  <2>1. Of(k) = {}
    BY DEF Of
  <2>2. Count(k) = 0
    BY <1>1, <2>1, FS_EmptySet DEF BalancerInv, CountInv
  <2> QED
    BY <1>1, <2>1, <2>2, CountType DEF BalancerInv, RouteInv, TypeInv
<1> QED
    BY BalancerKept, <1>1, PTL

\* Siblings under way are on one server, which is the sticky entry's.
THEOREM SiblingsMeet == ASSUME BalancerAssumption PROVE Spec => []SiblingsTogether
<1>1. BalancerInv => SiblingsTogether
    BY DEF BalancerInv, StickyInv, SiblingsTogether, Routes
<1> QED
    BY BalancerKept, <1>1, PTL

-----------------------------------------------------------------------------
(* The load *)

LoadInv ==
    /\ weight \in [Clients -> Nat]
    /\ Live \subseteq Servers
    /\ \A s \in Servers : IsFiniteSet(Units(s))
    /\ \A s \in Live :
          /\ inflight[s] \in Nat /\ inflight[s] <= Load(s)
          /\ s \notin removed => inflight[s] = Load(s)

\* The units of one client.
LEMMA OwnUnits ==
    ASSUME NEW c, NEW w \in Nat
    PROVE  IsFiniteSet({c} \X (1 .. w)) /\ Cardinality({c} \X (1 .. w)) = w
<1>1. IsFiniteSet({c}) /\ Cardinality({c}) = 1
    BY FS_Singleton
<1>2. IsFiniteSet(1 .. w) /\ Cardinality(1 .. w) = w
    BY FS_Interval
<1>3. /\ IsFiniteSet({c} \X (1 .. w))
      /\ Cardinality({c} \X (1 .. w)) = Cardinality({c}) * Cardinality(1 .. w)
    BY <1>1, <1>2, FS_Product
<1> QED
    BY <1>1, <1>2, <1>3

\* A set that gains a disjoint part.
LEMMA DisjointPart ==
    ASSUME NEW S, IsFiniteSet(S), NEW T, IsFiniteSet(T), S \cap T = {}
    PROVE  /\ IsFiniteSet(S \cup T)
           /\ Cardinality(S \cup T) = Cardinality(S) + Cardinality(T)
<1>1. /\ IsFiniteSet(S \cup T)
      /\ Cardinality(S \cup T) = Cardinality(S) + Cardinality(T) - Cardinality(S \cap T)
    BY FS_Union
<1>2. Cardinality(S \cap T) = 0
    BY FS_EmptySet
<1>3. Cardinality(S) \in Nat /\ Cardinality(T) \in Nat
    BY FS_CardinalityType
<1> QED
    BY <1>1, <1>2, <1>3

\* What the units of a server are, client by client.
LEMMA UnitsAre ==
    ASSUME NEW s, NEW u
    PROVE  u \in Units(s) <=>
              \E c \in Outstanding : at[c] = s /\ u \in {c} \X (1 .. weight[c])
    BY DEF Units

\* A client that gets a server adds its weight to it, and to no other.
LEMMA LoadJoins ==
    ASSUME BalancerInv, LoadInv, NEW c \in Clients \ Outstanding, NEW s \in Servers,
           Outstanding' = Outstanding \cup {c}, at' = [at EXCEPT ![c] = s], weight' = weight
    PROVE  /\ Load(s)' = Load(s) + weight[c] /\ Load(s) \in Nat
           /\ \A t \in Servers : IsFiniteSet(Units(t)')
           /\ \A t \in Servers \ {s} : Units(t)' = Units(t)
<1> DEFINE own == {c} \X (1 .. weight[c])
<1>1. weight[c] \in Nat /\ IsFiniteSet(own) /\ Cardinality(own) = weight[c]
    BY OwnUnits DEF LoadInv
<1>2. \A d \in Clients : at'[d] = IF d = c THEN s ELSE at[d]
    BY DEF BalancerInv, TypeInv
<1>3. Outstanding \subseteq Clients
    BY DEF Outstanding
<1>4. ASSUME NEW t \in Servers \ {s} PROVE Units(t)' = Units(t)
  <2>1. {d \in Outstanding : at[d] = t}' = {d \in Outstanding : at[d] = t}
    BY <1>2, <1>3
  <2> QED
    BY <2>1 DEF Units
<1>5. Units(s)' = Units(s) \cup own
  <2>1. {d \in Outstanding : at[d] = s}' = {d \in Outstanding : at[d] = s} \cup {c}
    BY <1>2, <1>3
  <2> QED
    BY <2>1 DEF Units
<1>6. Units(s) \cap own = {}
  <2> SUFFICES ASSUME NEW u \in Units(s), u \in own PROVE FALSE
    OBVIOUS
  <2>1. PICK d \in Outstanding : u \in {d} \X (1 .. weight[d])
    BY UnitsAre
  <2> QED
    BY <2>1
<1>7. IsFiniteSet(Units(s))
    BY DEF LoadInv
<1> HIDE DEF own
<1>8. /\ IsFiniteSet(Units(s) \cup own)
      /\ Cardinality(Units(s) \cup own) = Cardinality(Units(s)) + Cardinality(own)
    BY <1>1, <1>6, <1>7, DisjointPart
<1>9. Load(s)' = Load(s) + weight[c]
    BY <1>1, <1>5, <1>8 DEF Load
<1>10. Load(s) \in Nat
    BY <1>7, FS_CardinalityType DEF Load
<1>11. \A t \in Servers : IsFiniteSet(Units(t)')
    BY <1>4, <1>5, <1>8 DEF LoadInv
<1> QED
    BY <1>4, <1>9, <1>10, <1>11

\* A client that is released takes its weight off its server, and off no other.
LEMMA LoadLeaves ==
    ASSUME BalancerInv, LoadInv, NEW c \in Outstanding, c \in Clients, NEW s \in Servers, at[c] = s,
           Outstanding' = Outstanding \ {c}, at' = [at EXCEPT ![c] = NoServer],
           weight' = [weight EXCEPT ![c] = 0]
    PROVE  /\ Load(s) = Load(s)' + weight[c] /\ Load(s)' \in Nat
           /\ \A t \in Servers : IsFiniteSet(Units(t)')
           /\ \A t \in Servers \ {s} : Units(t)' = Units(t)
<1> DEFINE own == {c} \X (1 .. weight[c])
<1>1. weight[c] \in Nat /\ IsFiniteSet(own) /\ Cardinality(own) = weight[c]
    BY OwnUnits DEF LoadInv
<1>2. /\ \A d \in Clients \ {c} : at'[d] = at[d] /\ weight'[d] = weight[d]
      /\ Outstanding \subseteq Clients
    BY DEF BalancerInv, TypeInv, LoadInv, Outstanding
<1>3. ASSUME NEW t \in Servers, NEW u
      PROVE  u \in Units(t)' <=> u \in Units(t) /\ ~(t = s /\ u \in own)
  <2>1. u \in Units(t)' <=>
           \E d \in Outstanding' : at'[d] = t /\ u \in {d} \X (1 .. weight'[d])
    BY DEF Units
  <2>2. u \in Units(t)' <=>
           \E d \in Outstanding \ {c} : at[d] = t /\ u \in {d} \X (1 .. weight[d])
    BY <1>2, <2>1
  <2>3. u \in Units(t) <=>
           \E d \in Outstanding : at[d] = t /\ u \in {d} \X (1 .. weight[d])
    BY UnitsAre
  <2>4. \A d \in Outstanding \ {c} : u \in {d} \X (1 .. weight[d]) => u \notin own
    OBVIOUS
  <2> QED
    BY <2>2, <2>3, <2>4
<1>4. \A t \in Servers \ {s} : Units(t)' = Units(t)
    BY <1>3
<1>5. own \subseteq Units(s)
    BY UnitsAre
<1>6. Units(s) = Units(s)' \cup own /\ Units(s)' \cap own = {}
    BY <1>3, <1>5
<1>7. IsFiniteSet(Units(s)')
  <2>1. IsFiniteSet(Units(s)) /\ Units(s)' \in SUBSET Units(s)
    BY <1>6 DEF LoadInv
  <2> QED
    BY <2>1, FS_Subset
<1> HIDE DEF own
<1>8. Cardinality(Units(s)' \cup own) = Cardinality(Units(s)') + Cardinality(own)
    BY <1>1, <1>6, <1>7, DisjointPart
<1>9. Load(s) = Load(s)' + weight[c]
    BY <1>1, <1>6, <1>8 DEF Load
<1>10. Load(s)' \in Nat
    BY <1>7, FS_CardinalityType DEF Load
<1>11. \A t \in Servers : IsFiniteSet(Units(t)')
    BY <1>4, <1>7 DEF LoadInv
<1> QED
    BY <1>4, <1>9, <1>10, <1>11

\* The larger of a number and zero.
LEMMA AboveZero ==
    ASSUME NEW n \in Int
    PROVE  Max({n, 0}) = IF n >= 0 THEN n ELSE 0
<1> DEFINE S == {n, 0}
<1>1. \E x \in S : \A y \in S : x >= y
    OBVIOUS
<1>2. Max(S) \in S /\ \A y \in S : Max(S) >= y
    BY <1>1, Zenon DEF Max
<1> QED
    BY <1>2

LEMMA LoadAcquire ==
    ASSUME BalancerAssumption, BalancerInv, LoadInv, NEW c \in Clients, NEW s \in Servers,
           AcquireSticky(c, s) \/ AcquireNew(c, s)
    PROVE  LoadInv'
<1>1. /\ phase[c] = "called" /\ s \in Live
      /\ inflight' = [inflight EXCEPT ![s] = @ + weight[c]]
      /\ phase' = [phase EXCEPT ![c] = "holding"] /\ at' = [at EXCEPT ![c] = s]
      /\ weight' = weight /\ removed' = removed
    BY DEF AcquireSticky, AcquireNew, Assign
<1>2. c \in Clients \ Outstanding /\ Outstanding' = Outstanding \cup {c}
    BY <1>1 DEF Outstanding, BalancerInv, TypeInv
<1>3. /\ Load(s)' = Load(s) + weight[c] /\ Load(s) \in Nat
      /\ \A t \in Servers : IsFiniteSet(Units(t)')
      /\ \A t \in Servers \ {s} : Units(t)' = Units(t)
    BY <1>1, <1>2, LoadJoins
<1>4. Live' = Live /\ \A t \in Live : inflight'[t] = IF t = s THEN inflight[s] + weight[c]
                                                            ELSE inflight[t]
    BY <1>1 DEF Live
<1>5. ASSUME NEW t \in Live
      PROVE  /\ inflight'[t] \in Nat /\ inflight'[t] <= Load(t)'
             /\ t \notin removed => inflight'[t] = Load(t)'
  <2>1. CASE t = s
    <3>1. inflight[s] \in Nat /\ weight[c] \in Nat
      BY <2>1 DEF LoadInv
    <3> QED
      BY <1>3, <1>4, <2>1, <3>1 DEF LoadInv
  <2>2. CASE t # s
    <3>1. Load(t)' = Load(t)
      BY <1>3, <2>2 DEF Load, LoadInv
    <3> QED
      BY <1>4, <2>2, <3>1 DEF LoadInv
  <2> QED
    BY <2>1, <2>2
<1> QED
    BY <1>1, <1>3, <1>4, <1>5 DEF LoadInv

LEMMA LoadRelease ==
    ASSUME BalancerAssumption, BalancerInv, LoadInv, NEW c \in Clients, Release(c)
    PROVE  LoadInv'
<1>r. phase[c] = "releasing" /\ at[c] \in Servers
    BY DEF Release, BalancerInv, TypeInv, Outstanding
<1>0. PICK s \in Servers : at[c] = s
    BY <1>r
<1>1. /\ phase[c] = "releasing"
      /\ inflight' = IF s \in Live THEN [inflight EXCEPT ![s] = Max({@ - weight[c], 0})]
                                   ELSE inflight
      /\ phase' = [phase EXCEPT ![c] = "idle"] /\ at' = [at EXCEPT ![c] = NoServer]
      /\ weight' = [weight EXCEPT ![c] = 0] /\ removed' = removed
    BY <1>0 DEF Release, historyVars
<1>2. c \in Outstanding /\ Outstanding' = Outstanding \ {c}
    BY <1>1 DEF Outstanding, BalancerInv, TypeInv
<1>4. /\ Load(s) = Load(s)' + weight[c] /\ Load(s)' \in Nat
      /\ \A t \in Servers : IsFiniteSet(Units(t)')
      /\ \A t \in Servers \ {s} : Units(t)' = Units(t)
    BY <1>0, <1>1, <1>2, LoadLeaves
<1>5. weight' \in [Clients -> Nat] /\ weight[c] \in Nat
    BY <1>1 DEF LoadInv
<1>6. Live' = Live
    BY <1>1 DEF Live
<1>7. ASSUME NEW t \in Live
      PROVE  /\ inflight'[t] \in Nat /\ inflight'[t] <= Load(t)'
             /\ t \notin removed => inflight'[t] = Load(t)'
  <2>1. CASE t = s
    <3> DEFINE n == inflight[s] - weight[c]
    <3>1. inflight[s] \in Nat /\ inflight[s] <= Load(s) /\ (s \notin removed => inflight[s] = Load(s))
      BY <2>1 DEF LoadInv
    <3>2. inflight'[s] = Max({n, 0})
      BY <1>1, <2>1 DEF Live
    <3>3. n \in Int /\ n <= Load(s)' /\ (s \notin removed => n = Load(s)')
      BY <1>4, <1>5, <3>1
    <3>4. Max({n, 0}) = IF n >= 0 THEN n ELSE 0
      BY <3>3, AboveZero
    <3> HIDE DEF n
    <3>5. inflight'[t] = IF n >= 0 THEN n ELSE 0
      BY <2>1, <3>2, <3>4
    <3>6. Load(t)' = Load(s)' /\ (t \notin removed <=> s \notin removed)
      BY <2>1
    <3>7. CASE n >= 0
      BY <1>4, <3>3, <3>5, <3>6, <3>7
    <3>8. CASE ~(n >= 0)
      BY <1>4, <3>3, <3>5, <3>6, <3>8
    <3> QED
      BY <3>7, <3>8
  <2>2. CASE t # s
    <3>1. Load(t)' = Load(t)
      BY <1>4, <2>2 DEF Load, LoadInv
    <3>2. inflight'[t] = inflight[t]
      BY <1>1, <2>2 DEF Live
    <3> QED
      BY <2>2, <3>1, <3>2 DEF LoadInv
  <2> QED
    BY <2>1, <2>2
<1> QED
    BY <1>1, <1>4, <1>5, <1>6, <1>7 DEF LoadInv

\* The steps that neither grant nor release.
LEMMA LoadKept ==
    ASSUME LoadInv, Outstanding' = Outstanding, weight' \in [Clients -> Nat],
           at' = at, \A c \in Outstanding : weight'[c] = weight[c]
    PROVE  \A s \in Servers : Units(s)' = Units(s)
<1> SUFFICES ASSUME NEW s \in Servers PROVE Units(s)' = Units(s)
    OBVIOUS
<1>1. \A u : u \in Units(s)' <=>
         \E c \in Outstanding' : at'[c] = s /\ u \in {c} \X (1 .. weight'[c])
    BY DEF Units
<1>2. \A u : u \in Units(s) <=>
         \E c \in Outstanding : at[c] = s /\ u \in {c} \X (1 .. weight[c])
    BY UnitsAre
<1>3. \A u : u \in Units(s)' <=> u \in Units(s)
    BY <1>1, <1>2
<1> QED
    BY <1>3

LEMMA LoadClient ==
    ASSUME BalancerAssumption, BalancerInv, LoadInv, NEW c \in Clients,
           Call(c) \/ AcquireFails(c) \/ Finish(c) \/ Die(c)
    PROVE  LoadInv'
<1>1. /\ inflight' = inflight /\ at' = at /\ removed' = removed
      /\ \/ weight' = weight
         \/ phase[c] = "idle" /\ \E w \in Weights : weight' = [weight EXCEPT ![c] = w]
    BY DEF Call, AcquireFails, Finish, Die, historyVars
<1>2. Outstanding' = Outstanding
    BY DEF Call, AcquireFails, Finish, Die, Outstanding, BalancerInv, TypeInv
<1>3. weight' \in [Clients -> Nat] /\ \A d \in Outstanding : weight'[d] = weight[d]
    BY <1>1 DEF LoadInv, BalancerAssumption, Outstanding
<1>4. \A s \in Servers : Units(s)' = Units(s)
    BY <1>1, <1>2, <1>3, LoadKept
<1> QED
    BY <1>1, <1>3, <1>4 DEF LoadInv, Live, Load

LEMMA LoadServer ==
    ASSUME BalancerInv, LoadInv, NEW s \in Servers, RemoveServer(s) \/ AddServer(s)
    PROVE  LoadInv'
<1>1. at' = at /\ weight' = weight /\ phase' = phase /\ removed \subseteq removed'
    BY DEF RemoveServer, AddServer, clientVars, historyVars
<1>2. Outstanding' = Outstanding
    BY <1>1 DEF Outstanding
<1>3. \A t \in Servers : Units(t)' = Units(t)
    BY <1>1, <1>2, LoadKept DEF LoadInv
<1>4. /\ Live' \subseteq Servers
      /\ \A t \in Live' : \/ t \in Live /\ inflight'[t] = inflight[t]
                          \/ inflight'[t] = 0 /\ t \in removed'
    BY DEF RemoveServer, AddServer, Live, LoadInv, historyVars, BalancerInv, TypeInv
<1>5. ASSUME NEW t \in Live'
      PROVE  /\ inflight'[t] \in Nat /\ inflight'[t] <= Load(t)'
             /\ t \notin removed' => inflight'[t] = Load(t)'
  <2>1. Load(t)' = Load(t) /\ Load(t) \in Nat
    BY <1>3, <1>4, FS_CardinalityType DEF Load, LoadInv
  <2> QED
    BY <1>1, <1>4, <2>1 DEF LoadInv
<1> QED
    BY <1>1, <1>3, <1>4, <1>5 DEF LoadInv

\* The load a server is chosen by is the weight of the requests on it; for a
\* server that was removed and added again it may fall short of that, as late
\* releases of the time before are taken off the new count, and never exceeds it.
THEOREM LoadCounted == ASSUME BalancerAssumption PROVE Spec => []InflightIsLoad
<1>1. Init => LoadInv
  <2> SUFFICES ASSUME Init PROVE LoadInv
    OBVIOUS
  <2>1. Outstanding = {}
    BY DEF Init, Outstanding
  <2>2. \A s : Units(s) = {}
    BY <2>1 DEF Units
  <2>3. \A s : IsFiniteSet(Units(s)) /\ Load(s) = 0
    BY <2>2, FS_EmptySet DEF Load
  <2>4. \A s \in Live : s \in Servers /\ inflight[s] = 0
    BY DEF Init, Live
  <2>5. weight \in [Clients -> Nat]
    BY DEF Init
  <2> QED
    BY <2>3, <2>4, <2>5 DEF LoadInv
<1>2. BalancerInv /\ LoadInv /\ [Next]_vars => LoadInv'
  <2> SUFFICES ASSUME BalancerInv, LoadInv, [Next]_vars PROVE LoadInv'
    OBVIOUS
  <2>1. CASE UNCHANGED vars
    BY <2>1 DEF vars, LoadInv, Load, Units, Outstanding, Live
  <2>2. CASE Next
    BY <2>2, LoadAcquire, LoadRelease, LoadClient, LoadServer DEF Next
  <2> QED
    BY <2>1, <2>2
<1>3. LoadInv => InflightIsLoad
    BY DEF LoadInv, InflightIsLoad
<1> QED
    BY BalancerKept, <1>1, <1>2, <1>3, PTL DEF Spec
====

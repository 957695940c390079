---- MODULE C2LAdapter ----
(***************************************************************************)
(* eval/c2l_server.py: _ensure_adapter.  Server instances that share the   *)
(* adapter cache on a network disk get requests about the same memory; one *)
(* of them is to train the memory's adapter, under a lock that is a        *)
(* directory, and the others are to load it.  One memory, hence one key.   *)
(***************************************************************************)
EXTENDS Integers, FiniteSets

CONSTANTS
    Instances,
    MaySlow,         \* may an owner hold its lock for more than 45 minutes?
    MaxCrashes,      \* bound: crashes of an instance
    MaxRequests,     \* bound: requests
    None

ASSUME C2LAssumption ==
    /\ IsFiniteSet(Instances) /\ None \notin Instances
    /\ MaySlow \in BOOLEAN /\ MaxCrashes \in Nat /\ MaxRequests \in Nat

VARIABLES
    \* the disk
    lock,            \* the directory .lock-<key>: none, fresh, stale
    qa,              \* qa.json: none, torn, whole
    weights, config, \* the adapter's files, as the instance that trained them, or None
    \* the instances
    stage,
    requests, crashes,
    steals           \* for the properties only: locks taken over

adapterVars == <<lock, qa, weights, config, stage, requests, crashes, steals>>
disk == <<lock, qa, weights, config>>
counts == <<requests, crashes>>

\* Where an instance is in _ensure_adapter: it has the lock, or believes so.
Holding == {"qa", "synthesize", "qaWrite", "train", "place", "mark", "release", "abort"}
Places == Holding \cup {"idle", "check", "acquire", "stat", "steal", "wait", "mounted", "down"}

AdapterInit ==
    /\ lock = "none" /\ qa = "none" /\ weights = None /\ config = None
    /\ stage = [i \in Instances |-> "idle"]
    /\ requests = 0 /\ crashes = 0 /\ steals = 0

Goto(i, place) ==
    stage' = [stage EXCEPT ![i] = place]

\* A request about the memory; a mounted adapter is used as it is.
Request(i) ==
    /\ stage[i] = "idle"
    /\ requests < MaxRequests
    /\ requests' = requests + 1
    /\ Goto(i, "check")
    /\ UNCHANGED <<disk, crashes, steals>>

\* A request about another memory unmounts the adapter.
Unmount(i) ==
    /\ stage[i] = "mounted"
    /\ Goto(i, "idle")
    /\ UNCHANGED <<disk, counts, steals>>

\* The commit marker says that the adapter is there.  A qa.json that does not
\* parse fails the request, and so does a missing file of the adapter.
Loaded == IF qa = "torn" \/ weights = None THEN "idle" ELSE "mounted"

Check(i) ==
    /\ stage[i] = "check"
    /\ Goto(i, IF config # None THEN Loaded ELSE "acquire")
    /\ UNCHANGED <<disk, counts, steals>>

\* _acquire_lock: mkdir is atomic.
Acquire(i) ==
    /\ stage[i] = "acquire"
    /\ IF lock = "none"
       THEN lock' = "fresh" /\ Goto(i, "qa")
       ELSE Goto(i, "stat") /\ UNCHANGED lock
    /\ UNCHANGED <<qa, weights, config, counts, steals>>

\* Its age is read; it may be gone by now.
Stat(i) ==
    /\ stage[i] = "stat"
    /\ \/ lock = "none" /\ Goto(i, "acquire")
       \/ lock = "stale" /\ Goto(i, "steal")
       \/ lock = "fresh" /\ Goto(i, "wait")
    /\ UNCHANGED <<disk, counts, steals>>

\* Mutant: it goes on when the lock has gone meanwhile, without making it.
StealBlind(i) ==
    /\ stage[i] = "steal"
    /\ Goto(i, "qa")
    /\ lock' = IF lock = "none" THEN "none" ELSE "fresh"
    /\ steals' = IF lock = "none" THEN steals ELSE steals + 1
    /\ UNCHANGED <<qa, weights, config, counts>>

\* The lock is touched and taken, whatever its age is by now.
Steal(i) ==
    /\ stage[i] = "steal"
    /\ IF lock = "none"
       THEN Goto(i, "acquire") /\ UNCHANGED <<lock, steals>>
       ELSE Goto(i, "qa") /\ lock' = "fresh" /\ steals' = steals + 1
    /\ UNCHANGED <<qa, weights, config, counts>>

\* Mutant: the loop ends by the commit marker only.
WaitForMarker(i) ==
    /\ stage[i] = "wait"
    /\ config # None
    /\ Goto(i, Loaded)
    /\ UNCHANGED <<disk, counts, steals>>

\* The polling loop: loads the adapter when it is committed, starts over when
\* the lock is gone or after 45 minutes.
Wait(i) ==
    /\ stage[i] = "wait"
    /\ \/ config # None /\ Goto(i, Loaded)
       \/ Goto(i, "check")
    /\ UNCHANGED <<disk, counts, steals>>

\* Persisted synthesis results are reused; what does not parse fails the request.
ReadQa(i) ==
    /\ stage[i] = "qa"
    /\ \/ qa = "none" /\ Goto(i, "synthesize")
       \/ qa = "whole" /\ Goto(i, "train")
       \/ qa = "torn" /\ Goto(i, "abort")
    /\ UNCHANGED <<disk, counts, steals>>

\* qa.json is opened, which empties it, and written.
Synthesize(i) ==
    /\ stage[i] = "synthesize"
    /\ qa' = "torn"
    /\ Goto(i, "qaWrite")
    /\ UNCHANGED <<lock, weights, config, counts, steals>>

WriteQa(i) ==
    /\ stage[i] = "qaWrite"
    /\ qa' = "whole"
    /\ Goto(i, "train")
    /\ UNCHANGED <<lock, weights, config, counts, steals>>

\* train_lora writes to a staging directory of the process.
Train(i) ==
    /\ stage[i] = "train"
    /\ Goto(i, "place")
    /\ UNCHANGED <<disk, counts, steals>>

\* Mutant: files are placed in the order of their names.
PlaceByName(i) ==
    \/ /\ stage[i] = "place"
       /\ config' = i
       /\ Goto(i, "mark")
       /\ UNCHANGED <<lock, qa, weights, counts, steals>>
    \/ /\ stage[i] = "mark"
       /\ weights' = i
       /\ Goto(i, "release")
       /\ UNCHANGED <<lock, qa, config, counts, steals>>

\* Each file is replaced atomically, adapter_config.json last.
Place(i) ==
    \/ /\ stage[i] = "place"
       /\ weights' = i
       /\ Goto(i, "mark")
       /\ UNCHANGED <<lock, qa, config, counts, steals>>
    \/ /\ stage[i] = "mark"
       /\ config' = i
       /\ Goto(i, "release")
       /\ UNCHANGED <<lock, qa, weights, counts, steals>>

\* Synthesis or training raises.
Fail(i) ==
    /\ stage[i] \in {"synthesize", "train"}
    /\ Goto(i, "abort")
    /\ UNCHANGED <<disk, counts, steals>>

\* _release_lock, in a finally: it removes the directory, whoever made it.
Release(i) ==
    /\ \/ stage[i] = "release" /\ Goto(i, "mounted")
       \/ stage[i] = "abort" /\ Goto(i, "idle")
    /\ lock' = "none"
    /\ UNCHANGED <<qa, weights, config, counts, steals>>

\* A lock is stale 45 minutes after it was made or touched.
Age ==
    /\ lock = "fresh"
    /\ MaySlow \/ \A i \in Instances : stage[i] \notin Holding
    /\ lock' = "stale"
    /\ UNCHANGED <<qa, weights, config, stage, counts, steals>>

Crash(i) ==
    /\ stage[i] # "down"
    /\ crashes < MaxCrashes
    /\ crashes' = crashes + 1
    /\ Goto(i, "down")
    /\ UNCHANGED <<disk, requests, steals>>

Restart(i) ==
    /\ stage[i] = "down"
    /\ Goto(i, "idle")
    /\ UNCHANGED <<disk, counts, steals>>

\* What an instance does of itself once a request has come.
Step(i) ==
    \/ Check(i) \/ Acquire(i) \/ Stat(i) \/ Steal(i) \/ Wait(i)
    \/ ReadQa(i) \/ Synthesize(i) \/ WriteQa(i) \/ Train(i) \/ Place(i) \/ Fail(i)
    \/ Release(i)

AdapterNext ==
    \/ \E i \in Instances : Request(i) \/ Unmount(i) \/ Step(i) \/ Crash(i) \/ Restart(i)
    \/ Age

\* An instance's thread runs, training ends, and time passes.
AdapterSpec ==
    /\ AdapterInit /\ [][AdapterNext]_adapterVars
    /\ \A i \in Instances : WF_adapterVars(Step(i))
    /\ WF_adapterVars(Age)

-----------------------------------------------------------------------------

TypeOK ==
    /\ lock \in {"none", "fresh", "stale"}
    /\ qa \in {"none", "torn", "whole"}
    /\ weights \in Instances \cup {None} /\ config \in Instances \cup {None}
    /\ stage \in [Instances -> Places]
    /\ weights # None => qa # "none"
    /\ requests \in 0 .. MaxRequests /\ crashes \in 0 .. MaxCrashes /\ steals \in Nat

Trainers == {i \in Instances : stage[i] \in Holding}

\* "Place adapter_config.json last as the commit marker": whoever sees the marker
\* finds the adapter, whatever crashes and whoever trains.
CommittedComplete == config # None => weights # None

\* Every instance that trains beside the owner of the lock goes back to a lock
\* that was taken over: one that is removed by an owner who lost it adds none.
TrainersBounded ==
    Cardinality(Trainers) <= steals + (IF lock = "none" THEN 0 ELSE 1)

\* A request never waits for good, neither for a dead owner nor for another one
\* that waits: it gets its adapter or fails, unless its instance dies.
Served ==
    \A i \in Instances : stage[i] = "check" ~> stage[i] \in {"mounted", "idle", "down"}
====

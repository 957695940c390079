---- MODULE MemoryServers ----
(***************************************************************************)
(* The four memory servers an evaluation may have behind the same HTTP      *)
(* protocol, one of them deployed: each implements MemoryService.           *)
(***************************************************************************)
EXTENDS MemoryUnits, FiniteSets

CONSTANTS
    Requests, Memories, NoMemory,
    MemOf,                                  \* the memory of a request, or NoMemory
    Absent, Asked, Failed,
    Docs,                                   \* the documents of a memory
    ReadWindow, CacheSize,                  \* RecurrentServer, RagServer
    Window, BatchSize, Threshold, IndexConcurrency,     \* RagServer
    Length, Merged,                         \* DeltaServer
    GroupOf, Questions, Icl, MaxBatch       \* C2LBatch

VARIABLES server, reply,
    pc, held, cache, line, pops, builds,    \* RecurrentServer, RagServer, DeltaServer
    task, waits, inflight,                  \* RagServer
    snapKey, snap, written, write,          \* DeltaServer
    queue, work, mounted                    \* C2LBatch

ReadUnits == [m \in Memories |-> Units(Docs[m], ReadWindow, TRUE)]
IndexUnits == [m \in Memories |-> Units(Docs[m], Window, FALSE)]

R == INSTANCE RecurrentServer
G == INSTANCE RagServer
D == INSTANCE DeltaServer
C == INSTANCE C2LBatch

ASSUME InstancesAssumption ==
    R!ServerAssumption /\ G!ServerAssumption /\ D!ServerAssumption /\ C!ServerAssumption

rvars == <<pc, held, cache, line, pops, builds>>
gvars == <<task, waits, inflight>>
dvars == <<snapKey, snap, written, write>>
cvars == <<queue, work, mounted>>
vars == <<server, reply, rvars, gvars, dvars, cvars>>

Init ==
    \/ /\ server = "recurrent" /\ R!Init
       /\ task = "unused" /\ waits = "unused" /\ inflight = "unused"
       /\ snapKey = "unused" /\ snap = "unused" /\ written = "unused" /\ write = "unused"
       /\ queue = "unused" /\ work = "unused" /\ mounted = "unused"
    \/ /\ server = "rag" /\ G!Init
       /\ line = "unused" /\ pops = "unused" /\ builds = "unused"
       /\ snapKey = "unused" /\ snap = "unused" /\ written = "unused" /\ write = "unused"
       /\ queue = "unused" /\ work = "unused" /\ mounted = "unused"
    \/ /\ server = "delta" /\ D!Init
       /\ held = "unused" /\ cache = "unused" /\ pops = "unused" /\ builds = "unused"
       /\ task = "unused" /\ waits = "unused" /\ inflight = "unused"
       /\ queue = "unused" /\ work = "unused" /\ mounted = "unused"
    \/ /\ server = "c2l" /\ C!Init
       /\ pc = "unused" /\ held = "unused" /\ cache = "unused" /\ line = "unused"
       /\ pops = "unused" /\ builds = "unused"
       /\ task = "unused" /\ waits = "unused" /\ inflight = "unused"
       /\ snapKey = "unused" /\ snap = "unused" /\ written = "unused" /\ write = "unused"

Of(kind, action, others) == server = kind /\ action /\ UNCHANGED others

ROthers == <<gvars, dvars, cvars>>
GOthers == <<line, pops, builds, dvars, cvars>>
DOthers == <<held, cache, pops, builds, gvars, cvars>>
COthers == <<rvars, gvars, dvars>>

Arriving ==
    \/ Of("recurrent", \E r \in Requests : R!Arrive(r), ROthers)
    \/ Of("rag", \E r \in Requests : G!Arrive(r), GOthers)
    \/ Of("delta", \E r \in Requests : D!Arrive(r), DOthers)
    \/ Of("c2l", \E r \in Requests : C!Arrive(r), COthers)

Serving ==
    \/ Of("recurrent", \E r \in Requests : R!Serve(r), ROthers)
    \/ Of("rag", \E r \in Requests : G!Serve(r), GOthers)
    \/ Of("rag", \E t \in G!Tasks : G!Index(t), GOthers)
    \/ Of("delta", \E r \in Requests : D!Serve(r), DOthers)
    \/ Of("c2l", C!Consume, COthers)

Next == (Arriving \/ Serving) /\ UNCHANGED server

\* The event loop runs every coroutine that is ready.
Spec == Init /\ [][Next]_vars /\ WF_vars(Serving /\ UNCHANGED server)

\* The recurrent server reads a memory once as long as its block stays in the
\* cache, but for builds that fail (recurrent_server.py's locks).
BuildsExplained == server = "recurrent" => R!BuildsExplained

\* Two requests of the recurrent server build the block of one memory at the
\* same time only when an eviction took its lock away in between.
BuildersApart == server = "recurrent" => R!BuildersApart

\* The retrieval server has at most one index task per memory under way.
OneIndexTask == server = "rag" => G!OneIndexTask

OwnOf == [recurrent |-> R!Own, rag |-> G!Own, delta |-> D!Own, c2l |-> C!Own]

Promise == INSTANCE MemoryService WITH
    own <- OwnOf[server]

\* Whatever server is deployed: a request is answered once, from the whole of
\* its own memory, or with an error, and none waits for good.
KeepsPromise == Promise!Spec
====

---- MODULE LoadBalancer ----
(***************************************************************************)
(* GroupWeightedLoadBalancer of train/rl/rollout_patch.py and the clients  *)
(* that call it.  The balancer is one Ray actor: it handles one call at a  *)
(* time, in any order between clients.  A client's release is sent and     *)
(* forgotten, and handled before the same client's next acquire.           *)
(*                                                                         *)
(* Elastic scaling (verl, external) removes servers and adds them back     *)
(* while requests are under way; a client may die and never release.       *)
(***************************************************************************)
EXTENDS Integers, Sequences, FiniteSets, FiniteSetsExt, SequencesExt

CONSTANTS
    Servers, Clients,
    Keys,          \* routing keys
    GroupKeys,     \* those with the group prefix
    KeyOf,         \* the key each client routes by
    Weights,       \* what request_weight may return
    CacheSize,     \* max_cache_size
    MaxCalls,      \* bound: generate calls
    MaxRemovals,   \* bound: removals of servers
    NoServer

ASSUME BalancerAssumption ==
    /\ IsFiniteSet(Clients)
    /\ GroupKeys \subseteq Keys
    /\ KeyOf \in [Clients -> Keys]
    /\ Weights \subseteq Nat \ {0}
    /\ CacheSize \in Nat \ {0}
    /\ MaxCalls \in Nat /\ MaxRemovals \in Nat
    /\ NoServer \notin Servers

VARIABLES
    inflight,      \* _inflight_requests: weight per registered server
    sticky,        \* _request_id_to_server, an LRU cache
    groupCount,    \* _group_inflight, an LRU cache
    phase,            \* of a client: idle, called, holding, releasing, dead, failed
    at,            \* the server a client acquired
    weight,        \* the weight of its call
    calls,         \* generate calls so far
    removals,      \* removals so far
    \* What happened to whom, for the properties only.
    removed,       \* servers that have been removed
    evicted,       \* keys the sticky cache has dropped for want of room
    uncounted,     \* keys the counter cache has dropped for want of room
    failed         \* keys whose acquire has raised

vars == <<inflight, sticky, groupCount, phase, at, weight, calls, removals,
          removed, evicted, uncounted, failed>>
clientVars == <<phase, at, weight, calls>>
historyVars == <<removals, removed, evicted, uncounted, failed>>

-----------------------------------------------------------------------------
\* cachetools.LRUCache: the entries, least recently used first.

LruKeys(cache) == {cache[k].key : k \in 1 .. Len(cache)}
LruPlace(cache, key) == CHOOSE k \in 1 .. Len(cache) : cache[k].key = key
LruVal(cache, key) == cache[LruPlace(cache, key)].val
LruDrop(cache, key) ==
    IF key \in LruKeys(cache) THEN RemoveAt(cache, LruPlace(cache, key)) ELSE cache
LruOverflow(cache, key) == key \notin LruKeys(cache) /\ Len(cache) >= CacheSize
\* What leaves when key is put.
LruVictims(cache, key) == IF LruOverflow(cache, key) THEN {Head(cache).key} ELSE {}
LruPut(cache, key, val) ==
    Append(IF LruOverflow(cache, key) THEN Tail(cache) ELSE LruDrop(cache, key),
           [key |-> key, val |-> val])

Count(key) == IF key \in LruKeys(groupCount) THEN LruVal(groupCount, key) ELSE 0

-----------------------------------------------------------------------------

Init ==
    /\ inflight = [s \in Servers |-> 0]
    /\ sticky = << >>
    /\ groupCount = << >>
    /\ phase = [c \in Clients |-> "idle"]
    /\ at = [c \in Clients |-> NoServer]
    /\ weight = [c \in Clients |-> 0]
    /\ calls = 0
    /\ removals = 0
    /\ removed = {}
    /\ evicted = {}
    /\ uncounted = {}
    /\ failed = {}

Live == DOMAIN inflight

\* generate: request_weight, then the call of acquire_server.
Call(c) ==
    /\ phase[c] = "idle"
    /\ calls < MaxCalls
    /\ \E w \in Weights : weight' = [weight EXCEPT ![c] = w]
    /\ phase' = [phase EXCEPT ![c] = "called"]
    /\ calls' = calls + 1
    /\ UNCHANGED <<inflight, sticky, groupCount, at, historyVars>>

\* Mutant: a counter that is there already is kept.
CountAcquireOnce(key) ==
    groupCount' = IF key \in GroupKeys
                  THEN LruPut(groupCount, key, IF Count(key) > 0 THEN Count(key) ELSE 1)
                  ELSE groupCount

\* The reference count of a group key, taken before a server is found.
CountAcquire(key) ==
    groupCount' = IF key \in GroupKeys
                  THEN LruPut(groupCount, key, Count(key) + 1)
                  ELSE groupCount

CountVictims(key) == IF key \in GroupKeys THEN LruVictims(groupCount, key) ELSE {}

Assign(c, s) ==
    /\ inflight' = [inflight EXCEPT ![s] = @ + weight[c]]
    /\ phase' = [phase EXCEPT ![c] = "holding"]
    /\ at' = [at EXCEPT ![c] = s]
    /\ UNCHANGED <<weight, calls>>

StickyTo(key, s) == key \in LruKeys(sticky) /\ LruVal(sticky, key) = s

\* acquire_server with a sticky entry for a registered server.
AcquireSticky(c, s) ==
    /\ phase[c] = "called"
    /\ s \in Live /\ StickyTo(KeyOf[c], s)
    /\ CountAcquire(KeyOf[c])
    /\ sticky' = LruPut(sticky, KeyOf[c], s)
    /\ uncounted' = uncounted \cup CountVictims(KeyOf[c])
    /\ Assign(c, s)
    /\ UNCHANGED <<removals, removed, evicted, failed>>

\* Mutant: the choice is not remembered.
AcquireNewForgets(c, s) ==
    /\ phase[c] = "called"
    /\ \A t \in Live : ~StickyTo(KeyOf[c], t)
    /\ s \in Live /\ \A t \in Live : inflight[s] <= inflight[t]
    /\ CountAcquire(KeyOf[c])
    /\ uncounted' = uncounted \cup CountVictims(KeyOf[c])
    /\ Assign(c, s)
    /\ UNCHANGED <<sticky, removals, removed, evicted, failed>>

\* acquire_server otherwise: a stale entry is dropped, the least loaded server
\* taken.
AcquireNew(c, s) ==
    /\ phase[c] = "called"
    /\ \A t \in Live : ~StickyTo(KeyOf[c], t)
    /\ s \in Live /\ \A t \in Live : inflight[s] <= inflight[t]
    /\ CountAcquire(KeyOf[c])
    /\ LET kept == LruDrop(sticky, KeyOf[c])
       IN  /\ sticky' = LruPut(kept, KeyOf[c], s)
           /\ evicted' = evicted \cup LruVictims(kept, KeyOf[c])
    /\ uncounted' = uncounted \cup CountVictims(KeyOf[c])
    /\ Assign(c, s)
    /\ UNCHANGED <<removals, removed, failed>>

\* acquire_server raises: the count is taken and generate never releases it.
AcquireFails(c) ==
    /\ phase[c] = "called"
    /\ Live = {}
    /\ CountAcquire(KeyOf[c])
    /\ sticky' = LruDrop(sticky, KeyOf[c])
    /\ phase' = [phase EXCEPT ![c] = "failed"]
    /\ failed' = failed \cup {KeyOf[c]}
    /\ uncounted' = uncounted \cup CountVictims(KeyOf[c])
    /\ UNCHANGED <<inflight, at, weight, calls, removals, removed, evicted>>

\* The finally clause of generate sends the release.
Finish(c) ==
    /\ phase[c] = "holding"
    /\ phase' = [phase EXCEPT ![c] = "releasing"]
    /\ UNCHANGED <<inflight, sticky, groupCount, at, weight, calls, historyVars>>

\* The worker process of a client dies.
Die(c) ==
    /\ phase[c] = "holding"
    /\ phase' = [phase EXCEPT ![c] = "dead"]
    /\ UNCHANGED <<inflight, sticky, groupCount, at, weight, calls, historyVars>>

\* Mutant: the sticky entry outlives the count.
CountReleaseKeepsSticky(key) ==
    IF key \in GroupKeys /\ Count(key) > 1
    THEN groupCount' = LruPut(groupCount, key, Count(key) - 1) /\ UNCHANGED sticky
    ELSE groupCount' = LruDrop(groupCount, key) /\ UNCHANGED sticky

\* The lifecycle of a group key on release.
CountRelease(key) ==
    IF key \notin GroupKeys THEN UNCHANGED <<groupCount, sticky>>
    ELSE IF Count(key) > 1
    THEN groupCount' = LruPut(groupCount, key, Count(key) - 1) /\ UNCHANGED sticky
    ELSE groupCount' = LruDrop(groupCount, key) /\ sticky' = LruDrop(sticky, key)

\* Mutant: weight is left at its default of 1.
ReleaseUnweighted(c) ==
    /\ phase[c] = "releasing"
    /\ CountRelease(KeyOf[c])
    /\ inflight' = IF at[c] \in Live
                   THEN [inflight EXCEPT ![at[c]] = Max({@ - 1, 0})]
                   ELSE inflight
    /\ phase' = [phase EXCEPT ![c] = "idle"]
    /\ at' = [at EXCEPT ![c] = NoServer]
    /\ weight' = [weight EXCEPT ![c] = 0]
    /\ UNCHANGED <<calls, historyVars>>

\* release_server
Release(c) ==
    /\ phase[c] = "releasing"
    /\ CountRelease(KeyOf[c])
    /\ inflight' = IF at[c] \in Live
                   THEN [inflight EXCEPT ![at[c]] = Max({@ - weight[c], 0})]
                   ELSE inflight
    /\ phase' = [phase EXCEPT ![c] = "idle"]
    /\ at' = [at EXCEPT ![c] = NoServer]
    /\ weight' = [weight EXCEPT ![c] = 0]
    /\ UNCHANGED <<calls, historyVars>>

\* remove_servers
RemoveServer(s) ==
    /\ s \in Live
    /\ removals < MaxRemovals
    /\ inflight' = [t \in Live \ {s} |-> inflight[t]]
    /\ removals' = removals + 1
    /\ removed' = removed \cup {s}
    /\ UNCHANGED <<sticky, groupCount, clientVars, evicted, uncounted, failed>>

\* add_servers, as verl calls it: for servers that are not registered.
AddServer(s) ==
    /\ s \in Servers \ Live
    /\ inflight' = [t \in Live \cup {s} |-> IF t = s THEN 0 ELSE inflight[t]]
    /\ UNCHANGED <<sticky, groupCount, clientVars, historyVars>>

Next ==
    \/ \E c \in Clients :
          \/ Call(c)
          \/ \E s \in Servers : AcquireSticky(c, s) \/ AcquireNew(c, s)
          \/ AcquireFails(c)
          \/ Finish(c)
          \/ Die(c)
          \/ Release(c)
    \/ \E s \in Servers : RemoveServer(s) \/ AddServer(s)

Spec == Init /\ [][Next]_vars

-----------------------------------------------------------------------------

IsLru(cache, keys, vals) ==
    /\ Len(cache) <= CacheSize
    /\ \A k \in 1 .. Len(cache) : cache[k].key \in keys /\ cache[k].val \in vals
    /\ \A j, k \in 1 .. Len(cache) : j # k => cache[j].key # cache[k].key

TypeOK ==
    /\ Live \subseteq Servers
    /\ \A s \in Live : inflight[s] \in Nat
    /\ IsLru(sticky, Keys, Servers)
    /\ IsLru(groupCount, GroupKeys, Nat \ {0})
    /\ phase \in [Clients -> {"idle", "called", "holding", "releasing", "dead", "failed"}]
    /\ at \in [Clients -> Servers \cup {NoServer}]
    /\ weight \in [Clients -> Weights \cup {0}]
    /\ calls \in 0 .. MaxCalls
    /\ removals \in 0 .. MaxRemovals
    /\ removed \subseteq Servers /\ evicted \subseteq Keys
    /\ uncounted \subseteq GroupKeys /\ failed \subseteq Keys

\* Clients whose acquire the balancer has granted and not seen released.
Outstanding == {c \in Clients : phase[c] \in {"holding", "releasing", "dead"}}
\* The units of weight they put on a server, and how many that are.
Units(s) == UNION {{c} \X (1 .. weight[c]) : c \in {d \in Outstanding : at[d] = s}}
Load(s) == Cardinality(Units(s))

\* The load the balancer compares is the load there is; a server that was
\* removed and added again is never counted higher than that.
InflightIsLoad ==
    \A s \in Live :
        /\ inflight[s] <= Load(s)
        /\ s \notin removed => inflight[s] = Load(s)

\* "Group keys are reference-counted": a group's counter is the number of its
\* outstanding requests, whatever servers come and go, as long as every acquire
\* of the group found a server and the counter cache had room.
GroupCountExact ==
    \A k \in GroupKeys \ (failed \cup uncounted) :
        Count(k) = Cardinality({c \in Outstanding : KeyOf[c] = k})

\* "and removed when their requests finish": a group none of whose requests is
\* outstanding routes by no old entry.
GroupKeyRemoved ==
    \A k \in GroupKeys \ (failed \cup uncounted) :
        (\A c \in Outstanding : KeyOf[c] # k) =>
            k \notin LruKeys(sticky) /\ k \notin LruKeys(groupCount)

\* "Sibling rollouts from one prompt share a stable routing key so they reach
\* the same vLLM replica": siblings that are under way together are on one
\* server, unless one of their servers was removed in between or a cache was
\* too small for the keys.
SiblingsTogether ==
    \A c, d \in Outstanding :
        /\ KeyOf[c] = KeyOf[d]
        /\ KeyOf[c] \in GroupKeys \ (evicted \cup uncounted)
        /\ at[c] \notin removed /\ at[d] \notin removed
        => at[c] = at[d]
====

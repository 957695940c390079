---- MODULE RecurrentServer ----
(***************************************************************************)
(* The recurrent baseline (eval/recurrent_server.py): the first request of *)
(* a memory reads it unit by unit into a memory block, the others wait for *)
(* the block under the memory's lock and reuse it.  Blocks are kept in an   *)
(* LRU cache; a block that leaves the cache takes its lock with it, also    *)
(* when requests still hold the lock or wait for it.                        *)
(*                                                                          *)
(* One coroutine per request: a step runs from one await to the next.  An   *)
(* asyncio.Lock is the line of the requests that want it, the first of      *)
(* them its holder; <<m, n>> is the lock of memory m after n removals.      *)
(***************************************************************************)
EXTENDS MemoryUnits

CONSTANTS
    Requests, Memories, NoMemory,
    MemOf,      \* the memory of a request, or NoMemory without prefix_chars
    Docs,       \* the documents of a memory
    ReadWindow,
    ReadUnits,  \* the units of a memory
    CacheSize,
    Absent, Asked, Failed

\* What the theorems and the instances assume of the constants.
ServerAssumption ==
    /\ MemOf \in [Requests -> Memories \cup {NoMemory}] /\ NoMemory \notin Memories
    /\ Docs \in [Memories -> Seq(Nat)]
    /\ ReadWindow \in Nat \ {0}
    /\ ReadUnits = [m \in Memories |-> Units(Docs[m], ReadWindow, TRUE)]
    /\ CacheSize \in Nat
    /\ Failed \notin {Absent, Asked}

VARIABLES
    pc,         \* where the coroutine of a request stands
    reply,      \* what its client has got
    held,       \* units read into the block the request builds or uses
    cache,      \* _blocks, oldest first: memory and units read
    line,       \* the requests that want a lock, its holder first
    pops,       \* how often the lock of a memory was removed
    builds      \* how often the building of a block was started

vars == <<pc, reply, held, cache, line, pops, builds>>

Lock(m) == <<m, pops[m]>>
Cached(m) == \E i \in DOMAIN cache : cache[i].mem = m
Place(m) == CHOOSE i \in DOMAIN cache : cache[i].mem = m
Entry(m) == cache[Place(m)]
Others(m) == IF Cached(m) THEN RemoveAt(cache, Place(m)) ELSE cache
Leave(r) ==
    line' = [l \in DOMAIN line |->
               IF line[l] # <<>> /\ Head(line[l]) = r THEN Tail(line[l]) ELSE line[l]]
First(r) == \E l \in DOMAIN line : line[l] # <<>> /\ Head(line[l]) = r

\* What an answer rests on: the tokens read into the block.
Answer(m, n) ==
    [mem |-> m, read |-> IF m = NoMemory THEN <<>>
                         ELSE FlattenSeq(SubSeq(ReadUnits[m], 1, n))]
Whole(m) == IF m = NoMemory THEN <<>> ELSE Numbered(1, TokensUpTo(Docs[m])[Len(Docs[m])])
Own == [r \in Requests |-> {[mem |-> MemOf[r], read |-> Whole(MemOf[r])]}]

Init ==
    /\ pc = [r \in Requests |-> "idle"]
    /\ reply = [r \in Requests |-> Absent]
    /\ held = [r \in Requests |-> 0]
    /\ cache = <<>>
    /\ line = [l \in Memories \X (0..Cardinality(Requests)) |-> <<>>]
    /\ pops = [m \in Memories |-> 0]
    /\ builds = [m \in Memories |-> 0]

\* handle up to its first await: a request with a memory joins the line of the
\* lock that is registered now.
Arrive(r) ==
    /\ pc[r] = "idle"
    /\ reply' = [reply EXCEPT ![r] = Asked]
    /\ IF MemOf[r] = NoMemory
       THEN pc' = [pc EXCEPT ![r] = "ask"] /\ UNCHANGED line
       ELSE /\ pc' = [pc EXCEPT ![r] = "wait"]
            /\ line' = [line EXCEPT ![Lock(MemOf[r])] = Append(@, r)]
    /\ UNCHANGED <<held, cache, pops, builds>>

\* The lock is acquired and the block is there: no await, the lock is let go.
Hit(r) ==
    LET m == MemOf[r] IN
    /\ pc[r] = "wait" /\ First(r) /\ Cached(m)
    /\ cache' = Append(Others(m), Entry(m))
    /\ held' = [held EXCEPT ![r] = Entry(m).read]
    /\ Leave(r)
    /\ pc' = [pc EXCEPT ![r] = "ask"]
    /\ UNCHANGED <<reply, pops, builds>>

\* Mutant: the lock is let go while the block is built.
BuildUnlocked(r) ==
    /\ pc[r] = "wait" /\ First(r) /\ ~Cached(MemOf[r]) /\ ReadUnits[MemOf[r]] # <<>>
    /\ pc' = [pc EXCEPT ![r] = "read"]
    /\ held' = [held EXCEPT ![r] = 0]
    /\ builds' = [builds EXCEPT ![MemOf[r]] = @ + 1]
    /\ Leave(r)
    /\ UNCHANGED <<reply, cache, pops>>

\* The lock is acquired, the block is not there.
Build(r) ==
    /\ pc[r] = "wait" /\ First(r) /\ ~Cached(MemOf[r]) /\ ReadUnits[MemOf[r]] # <<>>
    /\ pc' = [pc EXCEPT ![r] = "read"]
    /\ held' = [held EXCEPT ![r] = 0]
    /\ builds' = [builds EXCEPT ![MemOf[r]] = @ + 1]
    /\ UNCHANGED <<reply, cache, line, pops>>

\* One recurrent pass that is not the last.
Pass(r) ==
    /\ pc[r] = "read" /\ held[r] + 1 < Len(ReadUnits[MemOf[r]])
    /\ held' = [held EXCEPT ![r] = @ + 1]
    /\ UNCHANGED <<pc, reply, cache, line, pops, builds>>

Evicted(c) == {c[i].mem : i \in 1..(Len(c) - CacheSize)}
\* Mutant: one block fewer is kept.
KeptBelowSize(c) == SubSeq(c, Max({1, Len(c) - CacheSize + 2}), Len(c))
Kept(c) == SubSeq(c, Max({1, Len(c) - CacheSize + 1}), Len(c))

\* The block of n units is stored, the oldest ones leave with their locks, and
\* the lock the request holds is let go.
Store(r, n) ==
    LET m == MemOf[r]
        filled == Append(Others(m), [mem |-> m, read |-> n])
    IN  /\ cache' = Kept(filled)
        /\ pops' = [k \in Memories |-> pops[k] + IF k \in Evicted(filled) THEN 1 ELSE 0]
        /\ held' = [held EXCEPT ![r] = n]
        /\ Leave(r)
        /\ pc' = [pc EXCEPT ![r] = "ask"]
        /\ UNCHANGED reply

\* The last pass returns.
LastPass(r) ==
    LET n == held[r] + 1 IN
    /\ pc[r] = "read" /\ n = Len(ReadUnits[MemOf[r]])
    /\ Store(r, n)
    /\ UNCHANGED builds

\* A memory of blanks has no units: its empty block is stored without an await.
BuildEmpty(r) ==
    LET m == MemOf[r] IN
    /\ pc[r] = "wait" /\ First(r) /\ ~Cached(m) /\ ReadUnits[m] = <<>>
    /\ Store(r, 0)
    /\ builds' = [builds EXCEPT ![m] = @ + 1]

\* A pass fails for good: the client is told, the lock is let go and stays.
PassFails(r) ==
    /\ pc[r] = "read"
    /\ Leave(r)
    /\ pc' = [pc EXCEPT ![r] = "done"]
    /\ reply' = [reply EXCEPT ![r] = Failed]
    /\ UNCHANGED <<held, cache, pops, builds>>

\* The generation for the rewritten prompt returns, or fails for good.
Ask(r) ==
    /\ pc[r] = "ask"
    /\ pc' = [pc EXCEPT ![r] = "done"]
    /\ \E a \in {Answer(MemOf[r], held[r]), Failed} : reply' = [reply EXCEPT ![r] = a]
    /\ UNCHANGED <<held, cache, line, pops, builds>>

Serve(r) ==
    Hit(r) \/ Build(r) \/ BuildEmpty(r) \/ Pass(r) \/ LastPass(r) \/ PassFails(r) \/ Ask(r)

Next == \E r \in Requests : Arrive(r) \/ Serve(r)

Spec == Init /\ [][Next]_vars /\ \A r \in Requests : WF_vars(Serve(r))

\* The variables keep their types; a request is in a line exactly while it
\* waits or builds, and in one line only.
TypeOK ==
    /\ pc \in [Requests -> {"idle", "wait", "read", "ask", "done"}]
    /\ DOMAIN reply = Requests
    /\ held \in [Requests -> Nat]
    /\ cache \in Seq([mem : Memories, read : Nat])
    /\ line \in [Memories \X (0..Cardinality(Requests)) -> Seq(Requests)]
    /\ pops \in [Memories -> Nat] /\ builds \in [Memories -> Nat]
    /\ \A r \in Requests :
          Cardinality({l \in DOMAIN line : r \in ToSet(line[l])})
              = IF pc[r] \in {"wait", "read"} THEN 1 ELSE 0

Builders(m) == {r \in Requests : MemOf[r] = m /\ pc[r] = "read"}
Refused(m) == {r \in Requests : MemOf[r] = m /\ reply[r] = Failed}

\* Until its block is evicted a memory is read once, but for builds that fail.
BuildsExplained ==
    \A m \in Memories : pops[m] = 0 => builds[m] <= 1 + Cardinality(Refused(m))

\* Requests build one block at the same time only when the lock they hold is
\* not the same, which takes an eviction for each.
BuildersApart == \A m \in Memories : Cardinality(Builders(m)) <= 1 + pops[m]
====

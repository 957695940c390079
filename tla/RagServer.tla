---- MODULE RagServer ----
(***************************************************************************)
(* The retrieval baseline (eval/embedding_rag_server.py): a memory's units  *)
(* are embedded once into an index, by a task that all requests for it      *)
(* share; indexes are kept in an LRU cache.  A failed task fails every      *)
(* request that waits for it, and the next request starts another.          *)
(*                                                                          *)
(* Coroutines run from one await to the next; requests and tasks are both    *)
(* coroutines.  <<m, n>> is the n-th task of memory m.                       *)
(***************************************************************************)
EXTENDS MemoryUnits

CONSTANTS
    Requests, Memories, NoMemory,
    MemOf, Docs,
    Window,
    IndexUnits, \* the units of a memory
    BatchSize, Threshold,
    CacheSize, IndexConcurrency,
    Absent, Asked, Failed

\* What the theorems and the instances assume of the constants.
ServerAssumption ==
    /\ IsFiniteSet(Requests)
    /\ MemOf \in [Requests -> Memories \cup {NoMemory}] /\ NoMemory \notin Memories
    /\ Docs \in [Memories -> Seq(Nat)]
    /\ Window \in Nat \ {0}
    /\ IndexUnits = [m \in Memories |-> Units(Docs[m], Window, FALSE)]
    /\ BatchSize \in Nat \ {0} /\ Threshold \in Nat
    /\ CacheSize \in Nat \ {0} /\ IndexConcurrency \in Nat \ {0}

VARIABLES
    pc,         \* where the coroutine of a request stands
    reply,      \* what its client has got
    held,       \* the units embedded in the index a request has
    cache,      \* _cache, oldest first: memory and units embedded
    task,       \* the state of every task ever created
    waits,      \* the task a request awaits
    inflight    \* _inflight: the number of a memory's registered task, or 0

vars == <<pc, reply, held, cache, task, waits, inflight>>

Tasks == Memories \X (1..Cardinality(Requests))
NoTask == <<NoMemory, 0>>
Cached(m) == \E i \in DOMAIN cache : cache[i].mem = m
Place(m) == CHOOSE i \in DOMAIN cache : cache[i].mem = m
Entry(m) == cache[Place(m)]
Others(m) == IF Cached(m) THEN RemoveAt(cache, Place(m)) ELSE cache
Ended(t) == task[t].step \in {"built", "failed"}
Embedding == {t \in Tasks : task[t].step = "embed"}

\* What an answer may rest on: k units of the index, in their order.
Answers(m, n) ==
    IF m = NoMemory THEN {[mem |-> m, read |-> <<>>]}
    ELSE LET chosen(s) == SelectSeq([i \in 1..n |-> i], LAMBDA i : i \in s)
             text(q) == FlattenSeq([j \in DOMAIN q |-> IndexUnits[m][q[j]]])
         IN  {[mem |-> m, read |-> text(chosen(s))] : s \in kSubset(TopK(n, Threshold), 1..n)}
Own == [r \in Requests |->
          IF MemOf[r] = NoMemory THEN Answers(NoMemory, 0)
          ELSE Answers(MemOf[r], Len(IndexUnits[MemOf[r]]))]

Init ==
    /\ pc = [r \in Requests |-> "idle"]
    /\ reply = [r \in Requests |-> Absent]
    /\ held = [r \in Requests |-> 0]
    /\ cache = <<>>
    /\ task = [t \in Tasks |-> [step |-> "none", done |-> 0]]
    /\ waits = [r \in Requests |-> NoTask]
    /\ inflight = [m \in Memories |-> 0]

\* handle up to its first await: the index is cached, or its task is there to
\* be awaited, or the request creates it.
Arrive(r) ==
    LET m == MemOf[r]
        new == 1 + Cardinality({t \in Tasks : t[1] = m /\ task[t].step # "none"})
    IN  /\ pc[r] = "idle"
        /\ reply' = [reply EXCEPT ![r] = Asked]
        /\ \/ /\ m = NoMemory
              /\ pc' = [pc EXCEPT ![r] = "ask"]
              /\ UNCHANGED <<held, cache, task, waits, inflight>>
           \/ /\ m # NoMemory /\ Cached(m)
              /\ cache' = Append(Others(m), Entry(m))
              /\ held' = [held EXCEPT ![r] = Entry(m).read]
              /\ pc' = [pc EXCEPT ![r] = "query"]
              /\ UNCHANGED <<task, waits, inflight>>
           \/ /\ m # NoMemory /\ ~Cached(m) /\ inflight[m] # 0
              /\ waits' = [waits EXCEPT ![r] = <<m, inflight[m]>>]
              /\ pc' = [pc EXCEPT ![r] = "await"]
              /\ UNCHANGED <<held, cache, task, inflight>>
           \/ /\ m # NoMemory /\ ~Cached(m) /\ inflight[m] = 0
              /\ task' = [task EXCEPT ![<<m, new>>].step = "queued"]
              /\ inflight' = [inflight EXCEPT ![m] = new]
              /\ waits' = [waits EXCEPT ![r] = <<m, new>>]
              /\ pc' = [pc EXCEPT ![r] = "await"]
              /\ UNCHANGED <<held, cache>>

Kept(c) == SubSeq(c, Max({1, Len(c) - CacheSize + 1}), Len(c))

\* An index of n units is cached and its task ends.
Store(t, n) ==
    /\ task' = [task EXCEPT ![t] = [step |-> "built", done |-> n]]
    /\ cache' = Kept(Append(Others(t[1]), [mem |-> t[1], read |-> n]))
    /\ UNCHANGED <<pc, reply, held, waits, inflight>>

Admitted(t) == task[t].step = "queued" /\ Cardinality(Embedding) < IndexConcurrency

\* A task gets past the semaphore.
StartEmbedding(t) ==
    /\ Admitted(t) /\ (Cached(t[1]) \/ IndexUnits[t[1]] # <<>>)
    /\ task' = [task EXCEPT ![t] =
          IF Cached(t[1]) THEN [step |-> "built", done |-> Entry(t[1]).read]
                          ELSE [step |-> "embed", done |-> 0]]
    /\ cache' = IF Cached(t[1]) THEN Append(Others(t[1]), Entry(t[1])) ELSE cache
    /\ UNCHANGED <<pc, reply, held, waits, inflight>>

\* So does one whose memory, all blanks, has no units: nothing is awaited.
IndexEmpty(t) ==
    /\ Admitted(t) /\ ~Cached(t[1]) /\ IndexUnits[t[1]] = <<>>
    /\ Store(t, 0)

Left(t) == Len(IndexUnits[t[1]]) - task[t].done

\* A batch of units is embedded and more are left.
EmbedBatch(t) ==
    /\ task[t].step = "embed" /\ Left(t) > BatchSize
    /\ task' = [task EXCEPT ![t].done = @ + BatchSize]
    /\ UNCHANGED <<pc, reply, held, cache, waits, inflight>>

\* The last batch returns.
StoreIndex(t) ==
    /\ task[t].step = "embed" /\ Left(t) <= BatchSize
    /\ Store(t, task[t].done + Left(t))

\* A batch fails: retries exhausted, or an error that is not retried.
EmbeddingFails(t) ==
    /\ task[t].step = "embed"
    /\ task' = [task EXCEPT ![t].step = "failed"]
    /\ UNCHANGED <<pc, reply, held, cache, waits, inflight>>

\* Mutant: whatever task is registered is taken out.
UnregisterAny(t) == [inflight EXCEPT ![t[1]] = 0]
Unregister(t) == IF inflight[t[1]] = t[2] THEN [inflight EXCEPT ![t[1]] = 0] ELSE inflight

\* The await returns or raises; the first to leave takes the task out, and only
\* that task.
Resume(r) ==
    LET t == waits[r] IN
    /\ pc[r] = "await" /\ Ended(t)
    /\ inflight' = Unregister(t)
    /\ IF task[t].step = "built"
       THEN /\ held' = [held EXCEPT ![r] = task[t].done]
            /\ pc' = [pc EXCEPT ![r] = "query"] /\ UNCHANGED reply
       ELSE /\ reply' = [reply EXCEPT ![r] = Failed]
            /\ pc' = [pc EXCEPT ![r] = "done"] /\ UNCHANGED held
    /\ waits' = [waits EXCEPT ![r] = NoTask]
    /\ UNCHANGED <<cache, task>>

\* The query is embedded and the best units are chosen.
EmbedQuery(r) ==
    /\ pc[r] = "query"
    /\ \/ pc' = [pc EXCEPT ![r] = "ask"] /\ UNCHANGED reply
       \/ pc' = [pc EXCEPT ![r] = "done"] /\ reply' = [reply EXCEPT ![r] = Failed]
    /\ UNCHANGED <<held, cache, task, waits, inflight>>

\* The generation for the rewritten prompt returns, or fails for good.
Ask(r) ==
    /\ pc[r] = "ask"
    /\ pc' = [pc EXCEPT ![r] = "done"]
    /\ \E a \in Answers(MemOf[r], held[r]) \cup {Failed} : reply' = [reply EXCEPT ![r] = a]
    /\ UNCHANGED <<held, cache, task, waits, inflight>>

Serve(r) == Resume(r) \/ EmbedQuery(r) \/ Ask(r)
Index(t) ==
    StartEmbedding(t) \/ IndexEmpty(t) \/ EmbedBatch(t) \/ StoreIndex(t) \/ EmbeddingFails(t)

Next ==
    \/ \E r \in Requests : Arrive(r) \/ Serve(r)
    \/ \E t \in Tasks : Index(t)

Spec ==
    /\ Init /\ [][Next]_vars
    /\ \A r \in Requests : WF_vars(Serve(r))
    /\ \A t \in Tasks : WF_vars(Index(t))

\* The variables keep their types and the semaphore its bound; a request waits
\* for a task of its own memory.
TypeOK ==
    /\ pc \in [Requests -> {"idle", "await", "query", "ask", "done"}]
    /\ DOMAIN reply = Requests
    /\ held \in [Requests -> Nat]
    /\ cache \in Seq([mem : Memories, read : Nat]) /\ Len(cache) <= CacheSize
    /\ task \in [Tasks -> [step : {"none", "queued", "embed", "built", "failed"}, done : Nat]]
    /\ inflight \in [Memories -> 0..Cardinality(Requests)]
    /\ Cardinality(Embedding) <= IndexConcurrency
    /\ \A r \in Requests : waits[r] # NoTask =>
          pc[r] = "await" /\ waits[r][1] = MemOf[r] /\ task[waits[r]].step # "none"

\* Of the tasks of one memory at most one is under way, and it is the
\* registered one.
OneIndexTask ==
    \A t \in Tasks : task[t].step \in {"queued", "embed"} => inflight[t[1]] = t[2]
====

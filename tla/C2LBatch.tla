---- MODULE C2LBatch ----
(***************************************************************************)
(* Batching in front of the C2L engine (eval/c2l_server.py): one consumer   *)
(* drains the queue, groups what it finds by memory, sampling parameters    *)
(* and seed, and has the engine answer each group in slices.  A pack of     *)
(* questions is asked question by question and put together again.  How an  *)
(* adapter gets on the disk is C2LAdapter's subject; here it is mounted or   *)
(* cannot be had.                                                            *)
(***************************************************************************)
EXTENDS Naturals, Sequences, FiniteSets, SequencesExt, FiniteSetsExt

CONSTANTS
    Requests, Memories, NoMemory,
    MemOf,      \* the memory of a request, or NoMemory without prefix_chars
    GroupOf,    \* batch_group_key of a request
    Questions,  \* how many questions a request asks, 1 unless it is a pack
    Icl,        \* the memories whose adapter is trained on examples directly
    MaxBatch,
    Absent, Asked, Failed

\* What the theorems and the instances assume of the constants.
ServerAssumption ==
    /\ MemOf \in [Requests -> Memories \cup {NoMemory}] /\ NoMemory \notin Memories
    /\ Questions \in [Requests -> Nat \ {0}] /\ Icl \subseteq Memories
    /\ MaxBatch \in Nat \ {0} /\ Absent # Asked
    /\ \A r, s \in Requests : GroupOf[r] = GroupOf[s] => MemOf[r] = MemOf[s]

VARIABLES
    reply,      \* what the client of a request has got: its future
    queue,      \* requests the consumer has not taken
    work,       \* the chunks it has cut, the one being served first
    mounted     \* the memory whose adapter is mounted, or NoMemory

vars == <<reply, queue, work, mounted>>

\* The items of s that are in T, in their order.
Within(s, T) == FlattenSeq([i \in 1..Len(s) |-> IF s[i] \in T THEN <<s[i]>> ELSE <<>>])

\* Groups in the order of their first request, each cut in slices.
Opens(s, i) == \A j \in 1..(i - 1) : GroupOf[s[j]] # GroupOf[s[i]]
Group(r) == {q \in Requests : GroupOf[q] = GroupOf[r]}
Slices(s) ==
    [i \in 1..((Len(s) + MaxBatch - 1) \div MaxBatch) |->
        SubSeq(s, (i - 1) * MaxBatch + 1, Min({i * MaxBatch, Len(s)}))]
Chunks(s) ==
    FlattenSeq([i \in 1..Len(s) |->
        IF Opens(s, i) THEN Slices(Within(s, Group(s[i]))) ELSE <<>>])

IsPack(r) == Questions[r] > 1 /\ MemOf[r] \in Memories \ Icl

\* The texts a request adds to the batch.
Texts(r) == IF IsPack(r) THEN [i \in 1..Questions[r] |-> <<r, i>>] ELSE <<<<r, 0>>>>
Batch(chunk) == FlattenSeq([i \in 1..Len(chunk) |-> Texts(chunk[i])])
Start(chunk, i) == Len(Batch(SubSeq(chunk, 1, i - 1)))

\* pack_i and single_i: the places of the texts of packs, or of other requests.
Places(chunk, pack) ==
    FlattenSeq([i \in 1..Len(chunk) |->
        IF IsPack(chunk[i]) <=> pack
        THEN [k \in 1..Len(Texts(chunk[i])) |-> Start(chunk, i) + k] ELSE <<>>])

\* gen_out: single requests and packs are generated in two passes, with budgets
\* of their own, and each output is put back at the place of its text.
GenOut(chunk) ==
    LET texts == Batch(chunk)
        order == Places(chunk, FALSE) \o Places(chunk, TRUE)
        outs == [j \in DOMAIN order |-> texts[order[j]]]
    IN  [i \in 1..Len(texts) |-> outs[CHOOSE j \in DOMAIN order : order[j] = i]]

\* What every item of the batch gets back, by its span.
Results(chunk) ==
    [i \in DOMAIN chunk |->
        SubSeq(GenOut(chunk), Start(chunk, i) + 1, Start(chunk, i) + Len(Texts(chunk[i])))]

Own == [r \in Requests |-> {[mem |-> MemOf[r], read |-> Texts(r)]}]

Init ==
    /\ reply = [r \in Requests |-> Absent]
    /\ queue = <<>> /\ work = <<>>
    /\ mounted = NoMemory

Arrive(r) ==
    /\ reply[r] = Absent
    /\ reply' = [reply EXCEPT ![r] = Asked]
    /\ queue' = Append(queue, r)
    /\ UNCHANGED <<work, mounted>>

\* The consumer has served what it took and takes all there is.
Drain ==
    /\ work = <<>> /\ queue # <<>>
    /\ work' = Chunks(queue) /\ queue' = <<>>
    /\ UNCHANGED <<reply, mounted>>

ToAll(chunk, a(_)) ==
    reply' = [r \in Requests |->
                IF r \in ToSet(chunk)
                THEN a(CHOOSE i \in DOMAIN chunk : chunk[i] = r) ELSE reply[r]]

\* generate_batch returns.  Every item has its adapter mounted in turn, and what
\* is generated then is generated with the last; a request without a memory is
\* answered by the base model, the mounted adapter disabled.
ServeChunk ==
    LET chunk == Head(work)
        m == MemOf[Last(chunk)]
        results == Results(chunk)
    IN  /\ work # <<>>
        /\ mounted' = IF m = NoMemory THEN mounted ELSE m
        /\ ToAll(chunk, LAMBDA i : [mem |-> m, read |-> results[i]])
        /\ work' = Tail(work)
        /\ UNCHANGED queue

\* generate_batch raises, for want of the adapter or while it generates: every
\* request of the chunk is told, the next chunk is served.
ChunkFails ==
    LET m == MemOf[Last(Head(work))] IN
    /\ work # <<>>
    /\ mounted' \in IF m \in {mounted, NoMemory} THEN {mounted} ELSE {NoMemory, m}
    /\ ToAll(Head(work), LAMBDA i : Failed)
    /\ work' = Tail(work)
    /\ UNCHANGED queue

Consume == Drain \/ ServeChunk \/ ChunkFails

Next == (\E r \in Requests : Arrive(r)) \/ Consume

Spec == Init /\ [][Next]_vars /\ WF_vars(Consume)

\* The variables keep their types; a request without a reply is in the queue or
\* in one chunk, and chunks are not empty and no longer than the limit.
TypeOK ==
    /\ DOMAIN reply = Requests
    /\ mounted \in Memories \cup {NoMemory}
    /\ \A i \in DOMAIN work : Len(work[i]) \in 1..MaxBatch
    /\ LET under == queue \o FlattenSeq(work)
       IN  IsInjective(under) /\ ToSet(under) = {r \in Requests : reply[r] = Asked}
====

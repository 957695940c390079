---- MODULE DeltaServer ----
(***************************************************************************)
(* The delta-memory baseline (eval/delta_server.py): one model whose online *)
(* memory is written by every token it is fed while writing is enabled.     *)
(* Requests are served one at a time under a lock; the state after a        *)
(* memory is kept as a snapshot, so that the next question about the same   *)
(* memory restores it instead of reading the memory again.                   *)
(*                                                                          *)
(* A prompt is its memory's tokens and one query token; where the tokenizer *)
(* merges the last memory token with the query's first, the merged token    *)
(* takes the place of both.                                                 *)
(***************************************************************************)
EXTENDS Naturals, Sequences, FiniteSets, SequencesExt, FiniteSetsExt

CONSTANTS
    Requests, Memories, NoMemory,
    MemOf,      \* the memory of a request, or NoMemory without prefix_chars
    Length,     \* the tokens of a memory
    Merged,     \* the requests whose query merges with the last memory token
    Absent, Asked, Failed

\* What the theorems and the instances assume of the constants.
ServerAssumption ==
    /\ MemOf \in [Requests -> Memories \cup {NoMemory}] /\ NoMemory \notin Memories
    /\ Length \in [Memories -> Nat \ {0, 1}] /\ Merged \subseteq Requests

VARIABLES
    pc,         \* where the serving of a request stands
    reply,      \* what its client has got
    line,       \* the requests that want the lock, its holder first
    snapKey,    \* _snap_key, NoMemory for None
    snap,       \* the tokens of the snapshot, which are also its state
    written,    \* the tokens the model's online memory has taken in
    write       \* whether the model writes

vars == <<pc, reply, line, snapKey, snap, written, write>>

MemoryTokens(m) == [i \in 1..Length[m] |-> <<m, i>>]

\* ids_full.
Prompt(r) ==
    LET m == MemOf[r]
        query == <<<<r, 0>>>>
    IN  IF m = NoMemory THEN <<<<r, 1>>>> \o query
        ELSE IF r \in Merged THEN Front(MemoryTokens(m)) \o query
        ELSE MemoryTokens(m) \o query

CommonPrefix(s, t) ==
    SubSeq(s, 1, Max({0} \cup {n \in 1..Min({Len(s), Len(t)}) : SubSeq(s, 1, n) = SubSeq(t, 1, n)}))

\* The memory as this prompt has it, as another prompt's snapshot has it, or,
\* without a snapshot that fits, the prompt up to its last token.
Own == [r \in Requests |->
          {[mem |-> MemOf[r], read |-> Front(Prompt(r))]} \cup
          (IF MemOf[r] = NoMemory THEN {}
           ELSE LET m == MemoryTokens(MemOf[r])
                IN  {[mem |-> MemOf[r], read |-> s] :
                      s \in {x \in {m, Front(m)} : IsPrefix(x, Prompt(r))}})]

Init ==
    /\ pc = [r \in Requests |-> "idle"]
    /\ reply = [r \in Requests |-> Absent]
    /\ line = <<>>
    /\ snapKey = NoMemory /\ snap = <<>>
    /\ written = <<>> /\ write = TRUE

Arrive(r) ==
    /\ pc[r] = "idle"
    /\ pc' = [pc EXCEPT ![r] = "wait"]
    /\ reply' = [reply EXCEPT ![r] = Asked]
    /\ line' = Append(line, r)
    /\ UNCHANGED <<snapKey, snap, written, write>>

Holds(r, step) == line # <<>> /\ Head(line) = r /\ pc[r] = step
Go(r, step) == pc' = [pc EXCEPT ![r] = step] /\ UNCHANGED <<reply, line>>
\* The call ends, with or without an answer, and the lock is let go.
End(r, a) ==
    /\ pc' = [pc EXCEPT ![r] = "done"]
    /\ reply' = [reply EXCEPT ![r] = a]
    /\ line' = Tail(line)

\* The lock is acquired.  A snapshot of another memory is dropped before the
\* memory of this request is read.
Begin(r) ==
    /\ Holds(r, "wait")
    /\ \/ /\ MemOf[r] = NoMemory
          /\ Go(r, "prefill") /\ UNCHANGED <<snapKey, snap, written, write>>
       \/ /\ MemOf[r] # NoMemory /\ snapKey = MemOf[r]
          /\ Go(r, "load") /\ UNCHANGED <<snapKey, snap, written, write>>
       \/ /\ MemOf[r] # NoMemory /\ snapKey # MemOf[r]
          /\ snapKey' = NoMemory /\ snap' = <<>>
          /\ written' = <<>> /\ write' = TRUE
          /\ Go(r, "snapshot")

\* Tokens the model is fed reach its memory while it writes.
Fed(tokens) == IF write THEN written \o tokens ELSE written

\* The tokens the prompt and the memory alone have in common are read and
\* become the snapshot.
BuildSnapshot(r) ==
    LET ids == CommonPrefix(Prompt(r), MemoryTokens(MemOf[r])) IN
    /\ Holds(r, "snapshot")
    /\ written' = Fed(ids)
    /\ snapKey' = MemOf[r] /\ snap' = Fed(ids)
    /\ Go(r, "load") /\ UNCHANGED write

\* Mutant: the key is trusted, the tokens are not compared.
LoadByKey(r) ==
    /\ Holds(r, "load")
    /\ written' = snap /\ Go(r, "start")
    /\ UNCHANGED <<snapKey, snap, write>>

\* The snapshot is restored when its tokens begin the prompt.
Load(r) ==
    /\ Holds(r, "load")
    /\ IF IsPrefix(snap, Prompt(r))
       THEN written' = snap /\ Go(r, "start")
       ELSE UNCHANGED written /\ Go(r, "prefill")
    /\ UNCHANGED <<snapKey, snap, write>>

\* Without a snapshot the prompt is read from nothing, all but its last token.
Prefill(r) ==
    /\ Holds(r, "prefill")
    /\ written' = Front(Prompt(r)) /\ write' = TRUE
    /\ Go(r, "start") /\ UNCHANGED <<snapKey, snap>>

StopWriting(r) ==
    /\ Holds(r, "start")
    /\ write' = FALSE
    /\ Go(r, "generate") /\ UNCHANGED <<snapKey, snap, written>>

\* The rest of the prompt and the answer pass through the model.
Generate(r) ==
    LET rest == SubSeq(Prompt(r), Len(written) + 1, Len(Prompt(r))) IN
    /\ Holds(r, "generate")
    /\ written' = Fed(rest) /\ write' = TRUE
    /\ \E a \in {[mem |-> MemOf[r], read |-> Fed(rest)], Failed} : End(r, a)
    /\ UNCHANGED <<snapKey, snap>>

\* Reading or restoring a memory fails, in the middle of it.
ReadFails(r) ==
    /\ \E step \in {"snapshot", "load", "prefill"} : Holds(r, step)
    /\ \E n \in 0..(Len(Prompt(r)) - 1) : written' = SubSeq(Prompt(r), 1, n)
    /\ write' = TRUE
    /\ End(r, Failed)
    /\ UNCHANGED <<snapKey, snap>>

Serve(r) ==
    Begin(r) \/ BuildSnapshot(r) \/ Load(r) \/ Prefill(r) \/ StopWriting(r)
        \/ Generate(r) \/ ReadFails(r)

Next == \E r \in Requests : Arrive(r) \/ Serve(r)

Spec == Init /\ [][Next]_vars /\ \A r \in Requests : WF_vars(Serve(r))

\* The variables keep their types; one request at a time is past the lock.
TypeOK ==
    /\ pc \in [Requests -> {"idle", "wait", "snapshot", "load", "prefill", "start",
                            "generate", "done"}]
    /\ DOMAIN reply = Requests
    /\ line \in Seq(Requests) /\ IsInjective(line)
    /\ snapKey \in Memories \cup {NoMemory} /\ write \in BOOLEAN
    /\ \A r \in Requests :
          pc[r] \notin {"idle", "wait", "done"} => line # <<>> /\ Head(line) = r

\* A snapshot is the tokens of its memory, but for the last where the query of
\* the request that built it merged with it; and only a generating model has
\* writing off.
SnapshotClean ==
    /\ snapKey # NoMemory =>
          snap \in {MemoryTokens(snapKey), Front(MemoryTokens(snapKey))}
    /\ ~write <=> \E r \in Requests : pc[r] = "generate"
====

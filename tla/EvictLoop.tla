---- MODULE EvictLoop ----
(***************************************************************************)
(* compute_evict_at of train/sft/eviction.py, step by step: the simulation *)
(* of the live attention window that training, evaluation and serving all  *)
(* call.  The inputs are picked in Init and never change.                  *)
(***************************************************************************)
EXTENDS EvictionSchedule, Sequences, FiniteSets

CONSTANT Inputs     \* set of records [ch, lim]: the arguments of a call

ASSUME InputsAssumption ==
    \A x \in Inputs : IsChunking(x.ch) /\ IsLimits(x.lim)

VARIABLES
    in,        \* chunk_spans and the limits of this call
    i,         \* the chunk that arrives
    live,      \* non-sink chunks in the window, oldest first
    liveTok,   \* sink tokens plus tokens of the live chunks
    evictAt,   \* the result under construction
    pc         \* "for": before chunk i, "while": after it arrived, "done"

vars == <<in, i, live, liveTok, evictAt, pc>>

N == in.ch.n
Tok(j) == SpanTokens(in.ch, j, j)

Init ==
    /\ in \in Inputs
    /\ i = 0
    /\ live = << >>
    /\ liveTok = SinkTokens(in.ch, in.lim)
    /\ evictAt = [j \in 0 .. N - 1 |-> N]
    /\ pc = "for"

\* for i in range(n): if i < n_sink: continue
SkipSink ==
    /\ pc = "for"
    /\ i < N
    /\ i < in.lim.sink
    /\ i' = i + 1
    /\ UNCHANGED <<in, live, liveTok, evictAt, pc>>

\* live.append(i); live_tok += tok[i]
Arrive ==
    /\ pc = "for"
    /\ i < N
    /\ i >= in.lim.sink
    /\ live' = Append(live, i)
    /\ liveTok' = liveTok + Tok(i)
    /\ pc' = "while"
    /\ UNCHANGED <<in, i, evictAt>>

\* Mutant: the token limit is exclusive.
OverBudgetAtLimit ==
    /\ Len(live) > 1
    /\ Len(live) > in.lim.chunks \/ (in.lim.tokens > 0 /\ liveTok >= in.lim.tokens)

\* Mutant: two chunks stay instead of one.
OverBudgetKeepsTwo ==
    /\ Len(live) > 2
    /\ Len(live) > in.lim.chunks \/ (in.lim.tokens > 0 /\ liveTok > in.lim.tokens)

\* The condition of the while loop.
OverBudget ==
    /\ Len(live) > 1
    /\ Len(live) > in.lim.chunks \/ (in.lim.tokens > 0 /\ liveTok > in.lim.tokens)

\* j = live.pop(0); live_tok -= tok[j]; evict_at[j] = i
EvictOldest ==
    /\ pc = "while"
    /\ OverBudget
    /\ live' = Tail(live)
    /\ liveTok' = liveTok - Tok(Head(live))
    /\ evictAt' = [evictAt EXCEPT ![Head(live)] = i]
    /\ UNCHANGED <<in, i, pc>>

NextChunk ==
    /\ pc = "while"
    /\ ~OverBudget
    /\ i' = i + 1
    /\ pc' = "for"
    /\ UNCHANGED <<in, live, liveTok, evictAt>>

Return ==
    /\ pc = "for"
    /\ i = N
    /\ pc' = "done"
    /\ UNCHANGED <<in, i, live, liveTok, evictAt>>

Next == SkipSink \/ Arrive \/ EvictOldest \/ NextChunk \/ Return

Spec == Init /\ [][Next]_vars

-----------------------------------------------------------------------------

TypeOK ==
    /\ in \in Inputs
    /\ i \in 0 .. N
    /\ live \in Seq(0 .. N - 1)
    /\ liveTok \in Nat
    /\ evictAt \in [0 .. N - 1 -> 0 .. N]
    /\ pc \in {"for", "while", "done"}

\* The loop computes the rule: chunk j counts as evicted at frontier c exactly
\* when it is no sink chunk, is older than c, and the window j .. c breaks a
\* limit.  evict_registry.py and eviction_policy.py read evict_at only through
\* the comparison evict_at[j] <= c.
LoopIsWindowRule ==
    pc = "done" =>
        \A j, c \in 0 .. N - 1 : evictAt[j] <= c <=> Evicted(in.ch, in.lim, j, c)

TokensOf(chunks) == UNION {ChunkTokens(in.ch, j) : j \in chunks}

\* What stays live at every frontier c fits the token limit, unless nothing
\* but the frontier chunk itself is left beside the sink.
BudgetAtEveryFrontier ==
    pc = "done" =>
        \A c \in in.lim.sink .. N - 1 :
            LET kept == {j \in in.lim.sink .. c : evictAt[j] > c}
            IN  \/ kept = {c}
                \/ /\ Cardinality(kept) <= in.lim.chunks
                   /\ \/ in.lim.tokens = 0
                      \/ SinkTokens(in.ch, in.lim) + Cardinality(TokensOf(kept))
                             <= in.lim.tokens
====

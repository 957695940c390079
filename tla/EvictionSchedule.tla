---- MODULE EvictionSchedule ----
(***************************************************************************)
(* The canonical chunk-eviction schedule of train/sft/eviction.py, as a    *)
(* rule instead of a loop.                                                 *)
(*                                                                         *)
(* A chunking is a record [n, bound]: chunk k \in 0..n-1 holds the tokens  *)
(* bound[k] .. bound[k+1]-1, as every caller of compute_evict_at passes    *)
(* contiguous spans that start at token 0.  Limits are a record            *)
(* [chunks, tokens, sink]: chunk_limit, token_limit and n_sink.            *)
(***************************************************************************)
EXTENDS Integers, FiniteSetsExt

IsChunking(ch) ==
    /\ ch.n \in Nat
    /\ ch.bound \in [0 .. ch.n -> Nat]
    /\ ch.bound[0] = 0
    /\ \A j, k \in 0 .. ch.n : j < k => ch.bound[j] < ch.bound[k]

IsLimits(lim) ==
    /\ lim.chunks \in Nat
    /\ lim.tokens \in Nat
    /\ lim.sink \in Nat

\* sum(tok[:n_sink]): the sink always occupies the budget.
SinkTokens(ch, lim) == ch.bound[IF lim.sink < ch.n THEN lim.sink ELSE ch.n]

\* Tokens of the chunks j .. i.
SpanTokens(ch, j, i) == ch.bound[i + 1] - ch.bound[j]

\* The window j .. i breaks the chunk limit or, when it is on, the token limit.
Exceeds(ch, lim, j, i) ==
    \/ i - j + 1 > lim.chunks
    \/ lim.tokens > 0 /\ SinkTokens(ch, lim) + SpanTokens(ch, j, i) > lim.tokens

\* Chunk j has left attention once the frontier reached chunk c:
\* what evict_at[j] <= c says.  The newest chunk is never evicted.
Evicted(ch, lim, j, c) ==
    /\ lim.sink <= j
    /\ j < c
    /\ Exceeds(ch, lim, j, c)

\* evict_at: the first frontier at which chunk j is evicted, n for never.
EvictAt(ch, lim) ==
    [j \in 0 .. ch.n - 1 |->
        LET steps == {c \in 0 .. ch.n - 1 : Evicted(ch, lim, j, c)}
        IN  IF steps = {} THEN ch.n ELSE Min(steps)]

\* Tokens a chunk index stands for.
ChunkTokens(ch, j) == ch.bound[j] .. ch.bound[j + 1] - 1

\* evicted_spans / evicted_spans_at: the tokens of the chunks evicted at
\* frontier c.  Merged spans and the set of their tokens say the same.
EvictedTokens(ch, lim, c) ==
    UNION {ChunkTokens(ch, j) : j \in {k \in 0 .. c - 1 : Evicted(ch, lim, k, c)}}
====

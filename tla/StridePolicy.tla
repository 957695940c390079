---- MODULE StridePolicy ----
(***************************************************************************)
(* train/sft/eviction_policy.py and models/vllm/memory_qwen3/chunking.py:  *)
(* how a token sequence is cut into chunks and which window a prompt gets. *)
(*                                                                         *)
(* A prompt is a record [len, im]: its token count and the set of          *)
(* positions that hold <|im_start|>.                                       *)
(***************************************************************************)
EXTENDS EvictionSchedule, Sequences

CONSTANTS
    PageSize,      \* PAGE_SIZE, the kernel page
    RuleTable      \* RULE_TABLE: records [lo, hi, chunk, window, maxNew]

\* The two asserts below RULE_TABLE, and what makes resolve_params total.
ASSUME PolicyAssumption ==
    /\ PageSize \in Nat \ {0}
    /\ RuleTable \in Seq([lo : Nat, hi : Nat, chunk : Nat \ {0}, window : Nat, maxNew : Nat])
    /\ Len(RuleTable) > 0
    /\ \A k \in 1 .. Len(RuleTable) : RuleTable[k].chunk % PageSize = 0

CeilDiv(a, b) == (a + b - 1) \div b

-----------------------------------------------------------------------------
\* The stride rule: chunk 0 is the sink, every later chunk holds S tokens.

FitsRow(row, promptLen) ==
    row.lo <= promptLen + row.maxNew /\ promptLen + row.maxNew < row.hi

\* in_range
InRange(promptLen) == \E k \in 1 .. Len(RuleTable) : FitsRow(RuleTable[k], promptLen)

\* resolve_params: the first row that fits; off the table, the nearest end.
ResolveParams(promptLen) ==
    LET first == RuleTable[1]
        fits == {k \in 1 .. Len(RuleTable) : FitsRow(RuleTable[k], promptLen)}
    IN  IF fits # {} THEN RuleTable[Min(fits)]
        ELSE IF promptLen + first.maxNew < first.lo THEN first
        ELSE RuleTable[Len(RuleTable)]

\* sink_end_from_ids
SinkEnd(p) ==
    LET later == {k \in p.im : k > 0}
    IN  PageSize * CeilDiv(IF later = {} THEN PageSize ELSE Min(later), PageSize)

\* n_chunks_at
NChunksAt(seqLen, sinkEnd, S) ==
    IF seqLen <= 0 THEN 0
    ELSE IF seqLen <= sinkEnd THEN 1
    ELSE 1 + CeilDiv(seqLen - sinkEnd, S)

\* frontier_chunk
FrontierChunk(seqLen, sinkEnd, S) == NChunksAt(seqLen, sinkEnd, S) - 1

\* The virtual spans of stride_evict_at: every chunk is counted at full size.
StrideChunking(n, sinkEnd, S) ==
    [n |-> n, bound |-> [k \in 0 .. n |-> IF k = 0 THEN 0 ELSE sinkEnd + (k - 1) * S]]

StrideLimits(window) == [chunks |-> 1073741824, tokens |-> window, sink |-> 1]

\* per_token_stride: the tokens token t attends to in training, all of them in
\* chunks that are not yet evicted when t's own chunk is the frontier.
StrideTrainingView(t, sinkEnd, S, window) ==
    LET c == FrontierChunk(t + 1, sinkEnd, S)
    IN  (0 .. t) \ EvictedTokens(StrideChunking(c + 1, sinkEnd, S), StrideLimits(window), c)

-----------------------------------------------------------------------------
\* The message rule: a chunk starts at every message and, inside a message,
\* after every S tokens.

MessageBounds(p, S) ==
    LET starts == {0} \cup p.im
        msg(t) == Max({a \in starts : a <= t})
    IN  {t \in 0 .. p.len - 1 : (t - msg(t)) % S = 0} \cup {p.len}

\* compute_chunk_spans
MessageChunking(p, S) ==
    LET B == MessageBounds(p, S)
        nth(k) == CHOOSE t \in B : Cardinality({u \in B : u < t}) = k
    IN  [n |-> Cardinality(B) - 1, bound |-> [k \in 0 .. Cardinality(B) - 1 |-> nth(k)]]

\* ReqEvict.frontier_chunk: the rightmost chunk that starts at or before the
\* last token, the last chunk when that token lies past the prompt.
MessageFrontier(ch, seqLen) ==
    Max({0} \cup {k \in 0 .. ch.n - 1 : ch.bound[k] <= seqLen - 1})

\* chunk_msg and per_token_eviction: the same view over the message chunks.
MessageTrainingView(t, ch, lim) ==
    (0 .. t) \ EvictedTokens(ch, lim, MessageFrontier(ch, t + 1))
====

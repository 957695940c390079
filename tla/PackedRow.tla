---- MODULE PackedRow ----
(***************************************************************************)
(* Several sequences in one training row: train/sft/collator.py builds the *)
(* row for SFT, models/stride_glue.py cuts one up again for RL, and        *)
(* modeling_memory_qwen3.py turns either into an attention mask and the    *)
(* points where the side branch starts from an empty state.                *)
(*                                                                         *)
(* A document is a record [len, chunk, step]: per token its chunk_id and   *)
(* evict_step, as sequences.  A row adds seq, pos and cu: seq_ids,         *)
(* position_ids and the set of cu_seqlens, empty where the code has None.  *)
(* Token t of the code stands at place t + 1.                              *)
(***************************************************************************)
EXTENDS StridePolicy, SequencesExt, Lists

CONSTANTS
    SystemLen,     \* tokens of the injected system sink, 0 for none
    PadMultiple,   \* mem_rl_pad_multiple, 0 for none
    PadFloor       \* the 128 below which the padding quantum never falls

Inf == 1073741824
HeaderLen == 3     \* _GEN_HEADER_LEN

ASSUME RowAssumption ==
    /\ SystemLen \in Nat /\ PadMultiple \in Nat
    /\ PadFloor \in Nat \ {0}

\* torch.full and torch.arange
Fill(n, value) == [k \in 1 .. n |-> value]
Count(n) == [k \in 1 .. n |-> k - 1]

-----------------------------------------------------------------------------
\* Documents.

ChunkOf(ch, t) == Max({k \in 0 .. ch.n - 1 : ch.bound[k] <= t})

\* per_token_eviction
PerToken(ch, lim) ==
    LET n == ch.bound[ch.n]
        at == EvictAt(ch, lim)
    IN  [len |-> n,
         chunk |-> [t \in 1 .. n |-> ChunkOf(ch, t - 1)],
         step |-> [t \in 1 .. n |-> at[ChunkOf(ch, t - 1)]]]

\* The system prompt goes in front as chunk 0.
WithSystem(ch) ==
    IF SystemLen = 0 THEN ch
    ELSE [n |-> ch.n + 1,
          bound |-> [k \in 0 .. ch.n + 1 |-> IF k = 0 THEN 0 ELSE SystemLen + ch.bound[k - 1]]]

\* The limits _get_one schedules an example [spans, limits, qa] by: its own, or
\* those of W=0 when the W-curriculum drew it; the injected sink stays.
LimitsOf(e, w0) ==
    LET sink == IF SystemLen = 0 THEN e.limits.sink ELSE Max({e.limits.sink, 1})
    IN  IF w0 THEN [chunks |-> Max({1, Cardinality(e.qa)}), tokens |-> 0, sink |-> sink]
        ELSE [e.limits EXCEPT !.sink = sink]

\* MixedArrowDataset._get_one
Document(e, w0) == PerToken(WithSystem(e.spans), LimitsOf(e, w0))

\* _prompt_len_from_ids, of a sequence [len, im]
PromptLen(s) == IF s.im = {} THEN s.len ELSE Min({Max(s.im) + HeaderLen, s.len})

\* per_token_stride with the parameters derive_stride_eviction resolves
StrideDocument(s) ==
    LET sink == SinkEnd(s)
        row == ResolveParams(PromptLen(s))
        at == EvictAt(StrideChunking(NChunksAt(s.len, sink, row.chunk), sink, row.chunk),
                      StrideLimits(row.window))
        chunk(t) == FrontierChunk(t, sink, row.chunk)
    IN  [len |-> s.len,
         chunk |-> [t \in 1 .. s.len |-> chunk(t)],
         step |-> [t \in 1 .. s.len |-> at[chunk(t)]]]

-----------------------------------------------------------------------------
\* Rows.

\* build_row: the pad span is a sequence of its own.
RowOf(docs, total) ==
    LET n == Len(docs)
        pad == total - Used(docs)
    IN  [len |-> total,
         seq |-> FlattenSeq([i \in 1 .. n |-> Fill(docs[i].len, i - 1)]) \o Fill(pad, n),
         pos |-> FlattenSeq([i \in 1 .. n |-> Count(docs[i].len)]) \o Count(pad),
         chunk |-> FlattenSeq([i \in 1 .. n |-> docs[i].chunk]) \o Fill(pad, 0),
         step |-> FlattenSeq([i \in 1 .. n |-> docs[i].step]) \o Fill(pad, Inf),
         cu |-> {Offset(docs, i) : i \in 1 .. n + 1} \cup {total}]

\* Mutant: the pad span goes on with the last document's sequence.
CollatedPadJoined(docs, target) ==
    LET row == RowOf(docs, target)
    IN  [row EXCEPT !.cu = @ \ {Used(docs)},
                    !.seq = [t \in DOMAIN @ |-> Min({@[t], Len(docs) - 1})]]

\* collate_memory_packed, one row: the documents padded to the target.
CollatedRow(docs, target) == RowOf(docs, target)

\* verl's rmpad row: the micro-batch's sequences one after the other, no pad.
\* It carries nothing but tokens and positions.
FlatRow(seqs) ==
    [len |-> Used(seqs),
     im |-> UNION {{Offset(seqs, i) + t : t \in seqs[i].im} : i \in DOMAIN seqs},
     pos |-> FlattenSeq([i \in DOMAIN seqs |-> Count(seqs[i].len)])]

\* derive_stride_eviction: a sequence starts at every position 0.
Segments(flat) ==
    LET starts == {t \in 0 .. flat.len - 1 : flat.pos[t + 1] = 0}
        ends == (starts \ {0}) \cup {flat.len}
        nth(S, i) == CHOOSE t \in S : Cardinality({u \in S : u < t}) = i - 1
        segment(a, b) == [len |-> b - a, im |-> {t - a : t \in flat.im \cap (a .. b - 1)}]
    IN  [i \in 1 .. Cardinality(starts) |-> segment(nth(starts, i), nth(ends, i))]

\* The schedules of a row's sequences.
StrideDocuments(flat) ==
    LET segments == Segments(flat)
    IN  [i \in DOMAIN segments |-> StrideDocument(segments[i])]

\* Mutant: attention is isolated, the scan runs on from sequence to sequence.
RlRowScansOn(flat) ==
    [RowOf(StrideDocuments(flat), flat.len) EXCEPT !.cu = {0, flat.len}]

\* How far the row is padded: up to the multiple, above it by an eighth.
PadLen(n) ==
    LET quantum == IF n <= PadMultiple THEN PadMultiple
                   ELSE Max({PadMultiple \div 8, PadFloor})
    IN  IF PadMultiple = 0 THEN 0 ELSE CeilDiv(n, quantum) * quantum - n

\* MemoryQwen3Model.forward on a row without a schedule, mem_stride_policy on:
\* seq_ids only from the second sequence on, cu_seqlens only with seq_ids, and
\* both are made up where the pad span needs them.
RlRow(flat) ==
    LET docs == StrideDocuments(flat)
        pad == PadLen(flat.len)
        row == RowOf(docs, flat.len + pad)
    IN  IF Len(docs) = 1 /\ pad = 0 THEN [row EXCEPT !.cu = {}] ELSE row

-----------------------------------------------------------------------------
\* What the token at place q of a row gets to see, as places.

\* make_memory_and_mask and the causal mask, for eviction and documents.
Visible(row, q) ==
    {kv \in 1 .. q : row.step[kv] > row.chunk[q] /\ row.seq[kv] = row.seq[q]}

\* MemoryGatedDeltaNet2.forward: the scan restarts at every cu_seqlens entry.
Scanned(row, q) == Max({0} \cup {c \in row.cu : c < q}) + 1 .. q
====

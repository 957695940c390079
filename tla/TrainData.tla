---- MODULE TrainData ----
(***************************************************************************)
(* The training rows: tools/data_process/tokenize_train.py cuts one sample *)
(* into chunks, train/sft/train_sft.py filters and samples the rows of a   *)
(* mixture.                                                                *)
(*                                                                         *)
(* Texts are their token counts.  A sample comes from a record             *)
(*   [docs, ask, answer, cfg]                                              *)
(* (the memory documents, the query with the turn's frame, the assistant's *)
(* text) under cfg = [mode, size, chunks, tokens], an entry of             *)
(* CHUNK_CONFIG; tokens is 0 for no token_limit.                           *)
(***************************************************************************)
EXTENDS PackedRow

CONSTANTS
    OpenLen,       \* tokens of USER_OPEN, put before the first document
    MaxLen         \* MAX_LEN: longer samples are filtered

\* n tokens in pieces of at most size.
Cut(n, size) ==
    [k \in 1 .. CeilDiv(n, size) |-> Min({size, n - (k - 1) * size})]

\* The memory chunks of unit mode: size documents each, an oversized one cut
\* again at half the token limit.
UnitChunks(raw) ==
    LET size == raw.cfg.size
        group(k) == SubSeq(raw.docs, (k - 1) * size + 1, Min({k * size, Len(raw.docs)}))
        tokens(k) == Total(group(k)) + (IF k = 1 THEN OpenLen ELSE 0)
        pieces(k) == IF raw.cfg.tokens > 0 /\ tokens(k) > raw.cfg.tokens
                     THEN Cut(tokens(k), raw.cfg.tokens \div 2)
                     ELSE << tokens(k) >>
    IN  FlattenSeq([k \in 1 .. CeilDiv(Len(raw.docs), size) |-> pieces(k)])

\* build_sample: an example [spans, limits, qa, labels, len].  In unit mode the
\* query and the answer are a chunk of their own; in token mode the cut runs
\* through memory and tail alike and a chunk may hold the end of one and the
\* start of the other.
BuildSample(raw) ==
    LET tail == raw.ask + raw.answer
        memory == OpenLen + Total(raw.docs)
        chunks == IF raw.cfg.mode = "unit" THEN Append(UnitChunks(raw), tail)
                  ELSE Cut(memory + tail, raw.cfg.size)
        n == Len(chunks)
    IN  [spans |-> [n |-> n, bound |-> [k \in 0 .. n |-> Total(SubSeq(chunks, 1, k))]],
         limits |-> [chunks |-> raw.cfg.chunks, tokens |-> raw.cfg.tokens, sink |-> 0],
         qa |-> IF raw.cfg.mode = "unit" THEN {n - 1}
                ELSE (memory \div raw.cfg.size) .. n - 1,
         memory |-> memory,
         labels |-> raw.answer,
         len |-> memory + tail]

\* What a row of a file says of itself: its chunks cover it, the query and the
\* answer are some of them.
IsExample(e) ==
    /\ e.len \in Nat /\ e.labels \in Nat
    /\ IsChunking(e.spans) /\ e.spans.n > 0 /\ e.spans.bound[e.spans.n] = e.len
    /\ e.qa \subseteq 0 .. e.spans.n - 1
    /\ e.limits \in [chunks : Nat, tokens : Nat, sink : Nat]

\* write_arrow over build_sample: samples above MAX_LEN are left out.
TrainFile(raws) ==
    LET built == [k \in DOMAIN raws |-> BuildSample(raws[k])]
    IN  Kept(built, {k \in DOMAIN raws : built[k].len <= MaxLen})

\* Mutant: the filter forgets that the system sink will come on top.
FilteredWithoutSink(rows, maxLen, minLen) ==
    Kept(rows, {k \in DOMAIN rows : rows[k].len <= maxLen /\ rows[k].len >= minLen})

\* The length filter of build_mixture, as build_dataset calls it.
Filtered(rows, maxLen, minLen) ==
    Kept(rows, {k \in DOMAIN rows : rows[k].len <= maxLen - SystemLen /\ rows[k].len >= minLen})

\* sample_table: count rows in their order, all of them when there are no more.
\* The seed fixes which.
SampleTable(rows, count) ==
    IF count >= Len(rows) THEN rows
    ELSE Kept(rows, CHOOSE S \in kSubset(count, DOMAIN rows) : TRUE)

\* build_mixture, of items [rows, count]
BuildMixture(items, maxLen, minLen) ==
    FlattenSeq([k \in DOMAIN items |->
                   SampleTable(Filtered(items[k].rows, maxLen, minLen), items[k].count)])
====

---- MODULE MemoryUnits ----
(***************************************************************************)
(* How the baselines cut a memory into the units they read or retrieve      *)
(* (eval/baselines_common.py).  A memory is given by the token counts of    *)
(* its documents; its tokens are numbered 1, 2, ... in order, and a piece   *)
(* or a unit is the sequence of the tokens it holds.  The separators        *)
(* between documents are no tokens here.                                    *)
(***************************************************************************)
EXTENDS Naturals, Sequences, SequencesExt, FiniteSetsExt

Numbered(from, n) == [i \in 1..n |-> from + i - 1]

\* The tokens of the first i documents.
TokensUpTo(docs) ==
    LET sum[i \in 0..Len(docs)] == IF i = 0 THEN 0 ELSE sum[i - 1] + docs[i] IN sum

\* split_by_doc_lens and split_on_sep: the documents, the blank ones left out.
Split(docs) ==
    FlattenSeq([i \in 1..Len(docs) |->
        IF docs[i] = 0 THEN <<>> ELSE <<Numbered(TokensUpTo(docs)[i - 1] + 1, docs[i])>>])

HardSplit(piece, window) ==
    [i \in 1..((Len(piece) + window - 1) \div window) |->
        SubSeq(piece, (i - 1) * window + 1, Min({i * window, Len(piece)}))]

Flush(acc) == IF acc.buf = <<>> THEN acc.units ELSE Append(acc.units, acc.buf)

\* One round of _pack_pieces' loop.
AddPiece(acc, piece, window, pack) ==
    CASE Len(piece) > window ->
            [units |-> Flush(acc) \o HardSplit(piece, window), buf |-> <<>>]
      [] Len(piece) <= window /\ pack ->
            IF Len(acc.buf) + Len(piece) <= window
            THEN [acc EXCEPT !.buf = @ \o piece]
            ELSE [units |-> Append(acc.units, acc.buf), buf |-> piece]
      [] OTHER -> [acc EXCEPT !.units = Append(@, piece)]

Units(docs, window, pack) ==
    LET pieces == Split(docs)
        packed[i \in 0..Len(pieces)] ==
            IF i = 0 THEN [units |-> <<>>, buf |-> <<>>]
            ELSE AddPiece(packed[i - 1], pieces[i], window, pack)
    IN  Flush(packed[Len(pieces)])

\* rag_topk: how many units a question is answered from.
TopK(n, threshold) == Min({n, IF n <= threshold THEN 1 ELSE 3})
====

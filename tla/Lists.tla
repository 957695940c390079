---- MODULE Lists ----
(***************************************************************************)
(* Helpers on lists, of the training data and of the scores.                *)
(***************************************************************************)
EXTENDS Integers, SequencesExt

\* The sum of a list of numbers.
Total(lengths) ==
    LET upTo[k \in 0 .. Len(lengths)] == IF k = 0 THEN 0 ELSE upTo[k - 1] + lengths[k]
    IN  upTo[Len(lengths)]

\* The tokens before document i of a pack.
Offset(docs, i) ==
    LET upTo[j \in 0 .. Len(docs)] == IF j = 0 THEN 0 ELSE upTo[j - 1] + docs[j].len
    IN  upTo[i - 1]

\* The tokens of a pack.
Used(docs) == Offset(docs, Len(docs) + 1)

\* The elements of s at some of its places, in their order.
Kept(s, places) ==
    FlattenSeq([k \in DOMAIN s |-> IF k \in places THEN << s[k] >> ELSE << >>])
====

---- MODULE MCMemoryServers ----
(***************************************************************************)
(* a1, a2, a3 ask about memory A, b1 about B, p brings no prefix_chars.     *)
(***************************************************************************)
EXTENDS MemoryServers, TLC

CONSTANTS a1, a2, a3, b1, p, A, B

MCMemOf == [r \in Requests |-> IF r = p THEN NoMemory ELSE IF r = b1 THEN B ELSE A]

\* Of A's documents one is blank; to be read, two are packed together and the
\* third does not fit; to be indexed, the third is split.  All of B is blank.
MCDocs == (A :> <<1, 0, 1, 2>>) @@ (B :> <<0, 0>>)

MCLength == (A :> 3) @@ (B :> 2)

\* a2 and b1 are packs of questions, and B's adapter is trained on examples
\* directly.
MCGroupOf == [r \in Requests |-> IF r = p THEN 0 ELSE IF r = b1 THEN 1 ELSE 2]
MCQuestions == [r \in Requests |-> IF r \in {a2, b1} THEN 2 ELSE 1]
====

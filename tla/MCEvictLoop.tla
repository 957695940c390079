---- MODULE MCEvictLoop ----
(***************************************************************************)
(* Every call of compute_evict_at with at most MaxChunks chunks of 1 to    *)
(* MaxSize tokens and small limits.                                        *)
(***************************************************************************)
EXTENDS EvictLoop

MaxChunks == 4
MaxSize == 3

\* Chunk boundaries from chunk sizes.
Boundaries(size) ==
    [k \in 0 .. Cardinality(DOMAIN size) |->
        MapThenSumSet(LAMBDA j : size[j], 1 .. k)]

Chunkings ==
    UNION {{[n |-> n, bound |-> Boundaries(size)] : size \in [1 .. n -> 1 .. MaxSize]}
              : n \in 0 .. MaxChunks}

MCInputs ==
    {[ch |-> c, lim |-> [chunks |-> k, tokens |-> t, sink |-> s]] :
        c \in Chunkings, k \in {2, 99}, t \in 0 .. 7, s \in 0 .. 2}
====

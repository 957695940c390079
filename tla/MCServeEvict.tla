---- MODULE MCServeEvict ----
(***************************************************************************)
(* Two requests on a server with pages of 2 tokens, blocks of 2 pages and  *)
(* a two-row rule table.                                                   *)
(***************************************************************************)
EXTENDS ServeEvict, TLC

MCRuleTable ==
    << [lo |-> 4,  hi |-> 16, chunk |-> 2, window |-> 6, maxNew |-> 1],
       [lo |-> 16, hi |-> 40, chunk |-> 4, window |-> 8, maxNew |-> 2] >>

\* A system message of one token, then user messages; the first 8 tokens are
\* the memory that all prompts share.
Short == [len |-> 9, im |-> {0, 1, 8}]
Long == [len |-> 14, im |-> {0, 1, 9, 11}]

\* verl gives the worker a process of its own.
StrideServer ==
    [mode |-> "stride", clamp |-> TRUE, decodeEvict |-> TRUE, physical |-> TRUE,
     oneProcess |-> FALSE, tokenPrefill |-> TRUE, chunkSize |-> 4, tokenLimit |-> 6,
     nSink |-> 1, sinkLen |-> 4, keepRecent |-> 6]

FrozenServer == [StrideServer EXCEPT !.decodeEvict = FALSE]

\* vLLM runs a tensor-parallel size of 1 in one process; nothing keeps
\* MEM_EVICT_MODE=stride from being set there.
SharedServer == [StrideServer EXCEPT !.oneProcess = TRUE]

\* scripts/serve_livemem.sh in state mode sets no MEM_EVICT_MODE.
MessageServer ==
    [StrideServer EXCEPT !.mode = "message", !.clamp = FALSE, !.oneProcess = TRUE]

MCConfigs == {StrideServer, FrozenServer, SharedServer, MessageServer}

\* One prompt on either side of the table's inner border.
MCPrompts == {Short, Long}

\* The recurrent states, which eviction does not touch: on a vLLM that counts a
\* first token alone in its slice as a prefill, and on one that decodes it.
MCStateConfigs ==
    {[c EXCEPT !.tokenPrefill = t] : c \in {StrideServer, MessageServer}, t \in BOOLEAN}
MCStatePrompts == {Short}

Symmetry == Permutations(Reqs)
====

---- MODULE MCTraining ----
(***************************************************************************)
(* Two ranks train on a mixture of two small files, one or two optimizer   *)
(* steps to the epoch; then come the actor's forward passes of RL.         *)
(***************************************************************************)
EXTENDS SftTraining, RlForward

UnitCfg == [mode |-> "unit", size |-> 1, chunks |-> 2, tokens |-> 4]
TokenCfg == [mode |-> "token", size |-> 2, chunks |-> 2, tokens |-> 0]

Raw(docs, ask, answer, c) == [docs |-> docs, ask |-> ask, answer |-> answer, cfg |-> c]

UnitFile ==
    TrainFile(<< Raw(<<2, 2>>, 1, 2, UnitCfg), Raw(<<6>>, 1, 1, UnitCfg),
                 Raw(<<1>>, 1, 1, UnitCfg), Raw(<<1, 1>>, 1, 2, UnitCfg),
                 Raw(<<4>>, 1, 3, UnitCfg), Raw(<<5, 4>>, 1, 1, UnitCfg),
                 Raw(<<9, 4>>, 1, 1, UnitCfg) >>)

TokenFile ==
    TrainFile(<< Raw(<<3>>, 1, 3, TokenCfg), Raw(<<2>>, 1, 1, TokenCfg),
                 Raw(<<1>>, 1, 1, TokenCfg), Raw(<<4>>, 2, 2, TokenCfg),
                 Raw(<<5>>, 1, 4, TokenCfg), Raw(<<4, 1>>, 1, 2, TokenCfg),
                 Raw(<<3>>, 1, 1, TokenCfg) >>)

MCItems == << [rows |-> UnitFile, count |-> 9], [rows |-> TokenFile, count |-> 6] >>

MCRuleTable ==
    << [lo |-> 4,  hi |-> 16, chunk |-> 2, window |-> 6, maxNew |-> 1],
       [lo |-> 16, hi |-> 40, chunk |-> 4, window |-> 8, maxNew |-> 2] >>

MCShapes == {[ga |-> 2, mb |-> 1], [ga |-> 1, mb |-> 2], [ga |-> 2, mb |-> 2]}

\* The k-th shuffle of a generator is a rotation; a generator is how far its
\* first one rotates.
MCShuffle(rng, k, s) == [i \in DOMAIN s |-> s[((i - 1 + rng + k) % Len(s)) + 1]]

MCDraws == [0 .. 3 -> {0, 3}] \cup {[e \in 0 .. 3 |-> 5 + e]}

\* Examples drawn for W=0.
MCW0 == {2, 7, 8}

Served(prompt, out) == [prompt |-> prompt, out |-> out]

\* One sequence on either side of the table's inner border, one that crosses
\* it while it answers.
RlSeqs == {Served([len |-> 6, im |-> {0, 3}], 5), Served([len |-> 13, im |-> {0, 2, 10}], 4),
           Served([len |-> 15, im |-> {0, 1, 12}], 1)}

MCMicroBatches == UNION {[1 .. k -> RlSeqs] : k \in 1 .. 3}

MCInit == Init /\ RlInit

TrainedAll == \A r \in Ranks : pc[r] = "done"

MCNext ==
    \/ Next /\ UNCHANGED actor
    \/ TrainedAll /\ RlNext /\ UNCHANGED vars

MCSpec ==
    /\ MCInit /\ [][MCNext]_<<vars, actor>>
    /\ \A r \in Ranks : WF_vars(RankStep(r))
    /\ WF_vars(Update) /\ WF_vars(LogLoss)
====

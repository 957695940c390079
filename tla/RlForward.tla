---- MODULE RlForward ----
(***************************************************************************)
(* The training forward pass of RL: verl hands the model a flat row of     *)
(* tokens and positions, and MemoryQwen3Model.forward rebuilds from it the *)
(* eviction schedule that vLLM applied while it sampled the response.      *)
(*                                                                         *)
(* A sequence is a record [prompt, out]: the prompt as serving saw it,     *)
(* which ends with the 3 tokens of the generation header, and the number   *)
(* of tokens sampled, none of them <|im_start|>.  verl is external.        *)
(***************************************************************************)
EXTENDS PackedRow

CONSTANT MicroBatchesOfRl      \* the micro-batches rearrange_micro_batches may form

\* What a prompt of serving looks like, and the number of tokens sampled.
ASSUME RlAssumption ==
    \A m \in MicroBatchesOfRl :
        /\ m \in Seq(ToSet(m))
        /\ \A i \in DOMAIN m :
              LET p == m[i].prompt
              IN  /\ m[i].out \in Nat /\ p.len \in Nat
                  /\ p.im # {} /\ p.im \subseteq 0 .. p.len - 1
                  /\ Max(p.im) + HeaderLen = p.len

VARIABLE actor     \* [seqs, row]: the micro-batch and what the layers hold of it

NoMicroBatch == [seqs |-> << >>, row |-> << >>]

RlInit == actor = NoMicroBatch

Tokens(s) == [len |-> s.prompt.len + s.out, im |-> s.prompt.im]

\* One forward pass; the control of the last one is overwritten.
ActorForward(m) ==
    actor' = [seqs |-> m, row |-> RlRow(FlatRow([i \in DOMAIN m |-> Tokens(m[i])]))]

RlNext == \E m \in MicroBatchesOfRl : ActorForward(m)

RlSpec == RlInit /\ [][RlNext]_actor

\* stride_glue.py: "the exact per-request eviction schedule that vllm serve
\* applied during rollout"; modeling_memory_qwen3.py: "the side branch therefore
\* needs per-sequence state resets".  Every token of every sequence of a row
\* sees the tokens its request showed it when it was served, scans its own
\* sequence from the start, and the pad span reaches none of them.
SequencesAsServed ==
    LET docs == [i \in DOMAIN actor.seqs |-> Tokens(actor.seqs[i])]
    IN  /\ \A i \in DOMAIN docs :
              LET off == Offset(docs, i)
                  p == actor.seqs[i].prompt
                  row == ResolveParams(p.len)
              IN  \A t \in 0 .. docs[i].len - 1 :
                     LET q == off + t + 1
                     IN  /\ {u - off - 1 : u \in Visible(actor.row, q)}
                               = StrideTrainingView(t, SinkEnd(p), row.chunk, row.window)
                         /\ Scanned(actor.row, q) = off + 1 .. q
        /\ actor.seqs # << >> =>
              \A q \in Used(docs) + 1 .. actor.row.len :
                  (Visible(actor.row, q) \cup Scanned(actor.row, q)) \cap (1 .. Used(docs)) = {}
====

---- MODULE MCWeights ----
(***************************************************************************)
(* Two layers and two stages of SFT; the first stage may give a memory      *)
(* branch to one layer only.  The forms are those of the shipped            *)
(* configurations and mixtures of full, lora and frozen.                    *)
(***************************************************************************)
EXTENDS Weights
Form(r, a, f, n) == [rnn |-> r, attn |-> a, ffn |-> f, norms |-> n]
MCSpecs == {Form("full", "frozen", "frozen", FALSE), Form("lora", "frozen", "frozen", FALSE),
            Form("full", "full", "frozen", FALSE), Form("full", "lora", "lora", FALSE),
            Form("frozen", "full", "frozen", TRUE), Tier("L1", "adapter")}
\* The stages have the default of training; the export has the same, its own
\* default, or another alpha.
MCAdapters == {[r |-> 16, alpha |-> 32]}
MCExportAdapters == MCAdapters \cup {[r |-> 64, alpha |-> 128], [r |-> 16, alpha |-> 64]}
MCExportSpecs == {Form("lora", "frozen", "frozen", FALSE), Form("full", "lora", "lora", FALSE)}
====

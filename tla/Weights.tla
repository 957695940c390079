---- MODULE Weights ----
(***************************************************************************)
(* The way of the weights from Qwen3 through the SFT stages, the export and *)
(* RL to the server.  A stage builds a model, chooses what it trains, may    *)
(* resume from the file of the stage before, and saves only what it         *)
(* trained; the export puts the file onto a base that it builds anew; the   *)
(* server and the RL actor load the export, and the actor's weights are     *)
(* sent to the server.  On every hop tensors find their places by name.     *)
(*                                                                          *)
(* A name is the path of a parameter.  PEFT puts "peft" before it, and      *)
(* splits a projection it adapts in "base_layer" and "lora".  A tensor is   *)
(* the set of what went into it: where it comes from and the stages that    *)
(* trained it; an adapter that is folded in adds what is in it, with the     *)
(* factor it is folded with.  The rank is a shape: tensors of another rank  *)
(* are refused, another alpha is not noticed.                               *)
(***************************************************************************)
EXTENDS Naturals, Sequences, FiniteSets, SequencesExt

CONSTANTS
    Layers,
    MemLayerChoices,   \* model.mem_layers of the first stage: the layers with a memory branch
    Specs,             \* train.trainable and train_norms, or a Tier: [rnn, attn, ffn, norms]
    ExportSpecs,       \* the SPEC given to the export
    Adapters,          \* lora.r and lora.alpha of a stage or of RL: [r, alpha]
    ExportAdapters,    \* LORA_R and LORA_ALPHA of the export
    Stages             \* bound: SFT stages

\* What a layer has: v_proj is left out, it is treated as k_proj is, and of the
\* parameters that are no projections one stands for all.
Attn == {"q_proj", "k_proj", "o_proj", "q_norm"}
Mem == {"q_proj", "o_proj", "A_log"}
Mlp == {"gate_proj", "up_proj", "down_proj"}
Linear == (Attn \cup Mem \cup Mlp) \ {"q_norm", "A_log"}

VARIABLES
    stage,      \* SFT stages begun
    model,      \* the model of the running stage, or none
    file,       \* trainable.pt of the last stage that saved, or none
    merged,     \* the exported checkpoint, or none
    actor,      \* the RL actor, or none
    served      \* what the server runs, or none

vars == <<stage, model, file, merged, actor, served>>

None == [none |-> TRUE]

Has(n, part) == \E i \in DOMAIN n : n[i] = part

\* What a parameter is, whatever it is called: the name of the merged model
\* without the wrapper of the main attention.
Bare(n) == SelectSeq(n, LAMBDA part : part \notin {"peft", "base_layer", "lora"})
Role(n) == LET b == Bare(n) IN IF Has(b, "mem") THEN b ELSE SelectSeq(b, LAMBDA part : part # "attn")

\* normalize_peft_param_name and merge_and_unload: adapters are folded in, times
\* alpha / r.
Part(w, n, lora) == IF Has(n, "lora") THEN {x \o <<lora.alpha>> : x \in w[n]} ELSE w[n]
Merge(w, lora) ==
    LET bare == [n \in DOMAIN w |-> Bare(n)]
    IN  [b \in {bare[n] : n \in DOMAIN w} |->
            UNION {Part(w, n, lora) : n \in {m \in DOMAIN w : bare[m] = b}}]

\* What a model computes with: a branch whose o_proj is zero adds nothing.
Effect(w, lora) ==
    LET m == Merge(w, lora)
        closed(n) == Has(n, "mem") /\ m[[n EXCEPT ![Len(n)] = "o_proj"]] = {<<"zero">>}
    IN  {<<Role(n), m[n]>> : n \in {k \in DOMAIN m : ~closed(k)}}

-----------------------------------------------------------------------------

BaseNames ==
    {<<l, "self_attn", x>> : l \in Layers, x \in Attn}
        \cup {<<l, "mlp", x>> : l \in Layers, x \in Mlp} \cup {<<"embed_tokens">>, <<"norm">>}

\* _remap_base_state_dict
Remapped(n, memLayers) ==
    IF Len(n) = 3 /\ n[2] = "self_attn" /\ n[1] \in memLayers
    THEN <<n[1], "self_attn", "attn", n[3]>> ELSE n

\* from_qwen3 with copy_init_side_branch: what the copy does not fill is drawn
\* anew by every build (the export is build 0).
FromQwen3(memLayers, build) ==
    [n \in {Remapped(b, memLayers) : b \in BaseNames} |-> {<<"qwen3">>}]
        @@ [n \in {<<l, "self_attn", "mem", x>> : l \in memLayers, x \in Mem} |->
              CASE Last(n) = "o_proj" -> {<<"zero">>}
                [] Last(n) = "q_proj" -> {<<"copy">>}
                [] OTHER -> {<<"drawn", build>>}]

\* GROUP_PATTERNS
InGroup(n, g) ==
    CASE g = "rnn" -> Has(n, "mem") [] g = "attn" -> Has(n, "attn") [] g = "ffn" -> Has(n, "mlp")
InSome(n, spec, form) == \E g \in {"rnn", "attn", "ffn"} : spec[g] = form /\ InGroup(n, g)

Peft(n) == <<"peft">> \o n

\* The older form of a configuration: train.tier with lora.enable or without.
\* An adapted tier trains its adapters only, not the rest of its groups.
Tier(tier, form) ==
    [rnn |-> form, attn |-> IF tier \in {"L2", "L3"} THEN form ELSE "frozen",
     ffn |-> IF tier = "L3" THEN form ELSE "frozen", norms |-> FALSE]

\* The nn.Linear that get adapters.
LinearNames(w, spec) ==
    {n \in DOMAIN w : Last(n) \in Linear /\ (InSome(n, spec, "lora") \/ InSome(n, spec, "adapter"))}

\* get_peft_model
Wrapped(w, targets) ==
    LET names == {Peft(n) : n \in DOMAIN w \ targets}
                     \cup {Peft(n) \o <<part>> : n \in targets, part \in {"base_layer", "lora"}}
    IN  [n \in names |-> IF Has(n, "lora") THEN {} ELSE w[Bare(n)]]

\* apply_trainable_spec: the model, what it trains, and the shape of its adapters.
ApplySpec(w, spec, lora) ==
    LET targets == LinearNames(w, spec)
        all == IF targets # {} THEN Wrapped(w, targets) ELSE w
        trains(n) == \/ Has(n, "lora")
                     \/ InSome(n, spec, "full")
                     \/ InSome(n, spec, "lora") /\ ~Has(n, "base_layer")
                     \/ spec.norms /\ \E part \in {"norm", "q_norm"} : Has(n, part)
    IN  [w |-> all, trainable |-> {n \in DOMAIN all : trains(n)},
         lora |-> IF targets # {} THEN lora ELSE None]

\* load_state_dict raises when a tensor has another shape, also with strict=False.
Fits(state, m) ==
    \A n \in DOMAIN state.w \cap DOMAIN m.w : Has(n, "lora") => state.lora.r = m.lora.r

\* load_state_dict with strict=False.
LoadInto(w, state) == [n \in DOMAIN w |-> IF n \in DOMAIN state THEN state[n] ELSE w[n]]

Train(m, by) == [m EXCEPT !.w = [n \in DOMAIN @ |-> IF n \in m.trainable THEN @[n] \cup {by} ELSE @[n]]]

-----------------------------------------------------------------------------

Init ==
    /\ stage = 0
    /\ model = None /\ file = None /\ merged = None /\ actor = None /\ served = None

\* The forms a spec needs: it trains something.
Trains(spec) == \E g \in {"rnn", "attn", "ffn"} : spec[g] # "frozen"

\* build_model: from Qwen3 or, with init_from_merged, from the last export.
Bases ==
    {[w |-> FromQwen3(memLayers, stage + 1), from |-> None] : memLayers \in MemLayerChoices}
        \cup {[w |-> m.w, from |-> m] : m \in {merged} \ {None}}

\* build_model and apply_trainable_spec; resume is resume_trainable_from.  Serving
\* and RL come last here.
BuildModel(spec, lora) ==
    /\ model = None /\ served = None /\ actor = None /\ stage < Stages
    /\ Trains(spec)
    /\ stage' = stage + 1
    /\ \E base \in Bases :
          LET m == ApplySpec(base.w, spec, lora)
          IN  \E resume \in BOOLEAN :
                  model' = m @@ [from |-> base.from, resume |-> resume, earlier |-> {}]
    /\ UNCHANGED <<file, merged, actor, served>>

\* load_trainable_checkpoint: it raises when a tensor to be trained is not in
\* the file; what the file has beyond those is loaded too.  What the file had
\* lost already is lost again, but for a model that comes from an export.
LoadTrainable ==
    /\ model # None /\ model.resume
    /\ model' = IF file # None /\ model.trainable \subseteq DOMAIN file.w /\ Fits(file, model)
                THEN [model EXCEPT !.w = LoadInto(@, file.w), !.resume = FALSE,
                                   !.earlier = {Role(n) : n \in DOMAIN file.w}
                                       \cup IF model.from = None THEN file.lost ELSE {}]
                ELSE None
    /\ UNCHANGED <<stage, file, merged, actor, served>>

\* train, and save_checkpoint at its end.
TrainAndSave ==
    /\ model # None /\ ~model.resume
    /\ LET m == Train(model, <<"stage", stage>>)
           drawn == IF m.from # None THEN {}
                    ELSE {n \in DOMAIN m.w : \E origin \in m.w[n] : origin[1] = "drawn"}
       IN  file' = [w |-> [n \in m.trainable |-> m.w[n]], lora |-> m.lora,
                    of |-> Effect(m.w, m.lora), from |-> m.from,
                    lost |-> (m.earlier \ {Role(n) : n \in m.trainable})
                                \cup {Role(n) : n \in drawn \ m.trainable}]
    /\ model' = None
    /\ UNCHANGED <<stage, merged, actor, served>>

\* export_checkpoint.py: the base is BASE_MERGED or Qwen3 with a memory branch
\* on all layers; the assertion on unexpected keys stops it, as do adapters of
\* another rank.  With another alpha they are folded in all the same.
Export(spec, lora) ==
    /\ model = None /\ served = None /\ actor = None /\ file # None
    /\ \E from \in {None, merged} :
          LET base == IF from = None THEN FromQwen3(Layers, 0) ELSE from.w
              adapted == {n \in DOMAIN file.w : Has(n, "lora")}
              m == IF adapted # {} THEN ApplySpec(base, spec, lora)
                   ELSE [w |-> base, lora |-> None]
          IN  /\ DOMAIN file.w \subseteq DOMAIN m.w /\ Fits(file, m)
              /\ merged' = [w |-> Merge(LoadInto(m.w, file.w), m.lora), of |-> file.of,
                            lost |-> file.lost \cup
                                        IF m.lora # file.lora THEN {Role(n) : n \in adapted} ELSE {},
                            rebased |-> from # file.from]
    /\ UNCHANGED <<stage, model, file, actor, served>>

-----------------------------------------------------------------------------

\* The tensors of vLLM's stacked projections.
Shard == [q_proj |-> <<"qkv_proj", "q">>, k_proj |-> <<"qkv_proj", "k">>,
          gate_proj |-> <<"gate_up_proj", "0">>, up_proj |-> <<"gate_up_proj", "1">>]

\* The module tree of the server, by role: every layer has a memory branch.
ServerName(role) ==
    IF Len(role) = 1 THEN role
    ELSE IF Has(role, "mem") THEN <<role[1], "mem", "mem", Last(role)>>
    ELSE Front(role) \o (IF Last(role) \in DOMAIN Shard THEN Shard[Last(role)] ELSE <<Last(role)>>)
Roles == BaseNames \cup {<<l, "self_attn", "mem", x>> : l \in Layers, x \in Mem}
ServerParams == {ServerName(r) : r \in Roles}

\* Mutant: the memory branch goes through the stacked projections as well.
TargetNameStacked(n) ==
    LET u == SelectSeq(n, LAMBDA part : part # "attn")
        stacked == Front(u) \o (IF Last(u) \in DOMAIN Shard THEN Shard[Last(u)] ELSE <<>>)
    IN  IF stacked \in ServerParams THEN stacked ELSE u

\* Where load_weights puts a tensor of that name.
TargetName(n) ==
    IF Has(n, "mem") THEN <<n[1], "mem", "mem", Last(n)>>
    ELSE LET u == SelectSeq(n, LAMBDA part : part # "attn")
             stacked == Front(u) \o (IF Last(u) \in DOMAIN Shard THEN Shard[Last(u)] ELSE <<>>)
         IN  IF stacked \in ServerParams THEN stacked ELSE u

\* load_weights: a name that has no place is passed over, a place that no name
\* fills keeps what it has.
LoadWeights(params, w) ==
    [p \in ServerParams |->
        LET names == {n \in DOMAIN w : TargetName(n) = p}
        IN  IF names = {} THEN params[p] ELSE UNION {w[n] : n \in names}]

\* vllm serve.
Serve ==
    /\ model = None /\ merged # None /\ served = None
    /\ served' = [params |-> LoadWeights([p \in ServerParams |-> {<<"unset">>}], merged.w),
                  of |-> merged.of, lost |-> merged.lost, rebased |-> merged.rebased]
    /\ UNCHANGED <<stage, model, file, merged, actor>>

\* from_pretrained with mem_freeze_main_path: the memory branch trains.
MemoryActor == [w |-> merged.w, trainable |-> {n \in DOMAIN merged.w : Has(n, "mem")}, lora |-> None]

\* verl adapts the projections of the main path, which freezes all else, and
\* mainlora_patch thaws the memory branch again.
MainLoraActor(lora) ==
    LET targets == {n \in DOMAIN merged.w : (Has(n, "attn") \/ Has(n, "mlp")) /\ Last(n) \in Linear}
        all == Wrapped(merged.w, targets)
    IN  [w |-> all, trainable |-> {n \in DOMAIN all : Has(n, "lora") \/ Has(n, "mem")}, lora |-> lora]

\* The actor loads the export.
BuildActor ==
    /\ model = None /\ merged # None /\ actor = None
    /\ actor' \in {MemoryActor} \cup {MainLoraActor(lora) : lora \in Adapters}
    /\ UNCHANGED <<stage, model, file, merged, served>>

\* One round of RL: the update, then with lora.merge all weights are sent to
\* the replicas, whose server has loaded the export before.
UpdateAndSync ==
    /\ actor # None /\ served # None
    /\ actor' = Train(actor, <<"rl">>)
    /\ served' = [params |-> LoadWeights(served.params, Merge(actor'.w, actor.lora)),
                  of |-> Effect(actor'.w, actor.lora), lost |-> {}, rebased |-> FALSE]
    /\ UNCHANGED <<stage, model, file, merged>>

Next ==
    \/ \E spec \in Specs, lora \in Adapters : BuildModel(spec, lora)
    \/ LoadTrainable \/ TrainAndSave
    \/ \E spec \in ExportSpecs, lora \in ExportAdapters : Export(spec, lora)
    \/ Serve \/ BuildActor \/ UpdateAndSync

Spec == Init /\ [][Next]_vars

-----------------------------------------------------------------------------

ServedEffect ==
    LET value(r) == served.params[ServerName(r)]
        closed(r) == Has(r, "mem") /\ value([r EXCEPT ![Len(r)] = "o_proj"]) = {<<"zero">>}
    IN  {<<r, value(r)>> : r \in {q \in Roles : ~closed(q)}}

\* README.md: "Write the fully trained memory branch back onto the frozen
\* backbone and export a complete checkpoint loadable by Hugging Face and
\* vLLM".  The server computes with exactly what was trained, whatever forms
\* the stages chose, also after RL, with three exceptions: an export onto another
\* base than the stage began from (BASE_MERGED); parameters that the last stage
\* froze although an earlier one had trained them or the build had drawn them at
\* random: they are in no file and another build has others; and parameters whose
\* adapters are folded in with another alpha than the stage's (LORA_ALPHA).
ServedIsTrained ==
    served # None /\ ~served.rebased =>
        LET differ == (ServedEffect \ served.of) \cup (served.of \ ServedEffect)
        IN  {d[1] : d \in differ} \subseteq served.lost
====

---- MODULE EvalPipeline ----
(***************************************************************************)
(* eval/pipeline.py: one run of the evaluation pipeline over one server    *)
(* pool, killed and restarted.  The producer groups what is not generated  *)
(* yet, the router admits groups to servers, a worker per server generates *)
(* and appends to generations.jsonl, the evaluators score and append to    *)
(* records.jsonl, and whoever completes the run writes its summaries.      *)
(*                                                                         *)
(* asyncio runs one task up to its next await, so a step is what a task    *)
(* does between two awaits; only a kill comes between its file operations. *)
(***************************************************************************)
EXTENDS Integers, Sequences, FiniteSets, SequencesExt

CONSTANTS
    Groups,          \* requests in groups of one memory, each in its order
    Servers,
    Evaluators,
    Kinds,           \* kinds of server to consider: "hf", "vllm"
    GroupCaps,       \* values of group_cap to consider; 0: groups are not split
    Concurrency,     \* c_vllm
    DHigh,           \* admission limit of a server
    Retries,         \* attempts per request
    PoolCap, GenCap, \* capacities of pool_q and gen_q
    MaxStarts,       \* bound: starts of the process
    None, Torn

Requests == UNION {ToSet(g) : g \in Groups}

ASSUME PipelineAssumption ==
    /\ IsFiniteSet(Groups) /\ Groups \subseteq Seq(Requests)
    /\ \A g \in Groups : IsInjective(g) /\ g # <<>>
    /\ None \notin Requests \cup Seq(Requests)
    /\ \A g, h \in Groups : g # h => ToSet(g) \cap ToSet(h) = {}
    /\ Servers # {} /\ Evaluators # {} /\ Kinds \subseteq {"hf", "vllm"}
    /\ GroupCaps \subseteq Nat /\ MaxStarts \in Nat
    /\ \A n \in {Concurrency, DHigh, Retries, PoolCap, GenCap} : n \in Nat \ {0}

VARIABLES
    kind,            \* of the servers
    groupCap,
    \* files
    generations,     \* per request, the kinds of its rows: "output", "error"
    records,         \* per request, the number of its rows in records.jsonl
    summary,         \* the run's summary.json: None, Torn, [records, failed]
    modelSummary,    \* the model's summary.json: the run summary it contains
    \* the process
    starts,
    main,            \* off, run, stop, ended
    finishing,       \* maybe_finish_run: no, open, write, model
    producer,        \* load, rescore, groups, done
    rescore,         \* generated requests the producer has yet to send to gen_q
    todo,            \* groups the producer has yet to put into pool_q
    poolQ,           \* groups, None at the end
    router,          \* get, place, wait, done
    routed,          \* the group it holds
    serverQ, outstanding,        \* of each server
    stopped,         \* servers whose worker has met the None
    phase,           \* of each request: see Phases
    batch,           \* the group the request was sent in
    at,              \* its server
    tries,           \* its failed attempts
    genQ,
    holds,           \* per evaluator, the request it scores, or None
    scored, genFailed

files == <<generations, records, summary, modelSummary>>
feed == <<producer, rescore, todo>>
routing == <<router, routed, outstanding>>
work == <<batch, at, tries>>
eval == <<holds, scored>>
vars == <<kind, groupCap, files, starts, main, finishing, feed, poolQ, routing, serverQ,
          stopped, phase, work, genQ, eval, genFailed>>

\* queued: on its server's queue; behind: its group was taken; ready: may ask for
\* the server; calling; notify: its row is written; put: its output goes to genQ.
Phases == {"idle", "queued", "behind", "ready", "calling", "notify", "put", "done"}

-----------------------------------------------------------------------------

\* A new process: everything but the files is gone.
Fresh ==
    /\ finishing' = "no" /\ producer' = "load" /\ rescore' = {} /\ todo' = {}
    /\ poolQ' = <<>> /\ router' = "get" /\ routed' = <<>>
    /\ serverQ' = [s \in Servers |-> <<>>] /\ outstanding' = [s \in Servers |-> 0]
    /\ stopped' = {}
    /\ phase' = [r \in Requests |-> "idle"]
    /\ batch' = [r \in Requests |-> <<>>]
    /\ at' = [r \in Requests |-> None]
    /\ tries' = [r \in Requests |-> 0]
    /\ genQ' = <<>> /\ holds' = [e \in Evaluators |-> None]
    /\ genFailed' = {}

Init ==
    /\ kind \in Kinds /\ groupCap \in GroupCaps
    /\ generations = [r \in Requests |-> {}] /\ records = [r \in Requests |-> 0]
    /\ summary = None /\ modelSummary = None
    /\ starts = 0 /\ main = "off"
    /\ finishing = "no" /\ producer = "load" /\ rescore = {} /\ todo = {}
    /\ poolQ = <<>> /\ router = "get" /\ routed = <<>>
    /\ serverQ = [s \in Servers |-> <<>>] /\ outstanding = [s \in Servers |-> 0]
    /\ stopped = {}
    /\ phase = [r \in Requests |-> "idle"]
    /\ batch = [r \in Requests |-> <<>>]
    /\ at = [r \in Requests |-> None]
    /\ tries = [r \in Requests |-> 0]
    /\ genQ = <<>> /\ holds = [e \in Evaluators |-> None]
    /\ scored = {} /\ genFailed = {}

\* Mutant: records of an earlier process are not read.
StartForgets ==
    /\ main \in {"off", "ended"} /\ starts < MaxStarts
    /\ main' = "run" /\ starts' = starts + 1
    /\ Fresh
    /\ scored' = {}
    /\ UNCHANGED <<kind, groupCap, files>>

\* main_async reads records.jsonl; a failed or killed run is started again.
Start ==
    /\ main \in {"off", "ended"} /\ starts < MaxStarts
    /\ main' = "run" /\ starts' = starts + 1
    /\ Fresh
    /\ scored' = {r \in Requests : records[r] > 0}
    /\ UNCHANGED <<kind, groupCap, files>>

\* The process is killed between any two steps.
Kill ==
    /\ main \in {"run", "stop"}
    /\ main' = "off"
    /\ Fresh
    /\ scored' = {}
    /\ UNCHANGED <<kind, groupCap, files, starts>>

\* Mutant: one request too few, failures not counted.
FinishedScored(done, failed) == Cardinality(done) >= Cardinality(Requests) - 1

\* RunState.finished
Finished(done, failed) ==
    Cardinality(done) + Cardinality(failed) >= Cardinality(Requests)

\* maybe_finish_run, called at the end of a step.
MaybeFinish ==
    /\ IF Finished(scored', genFailed') THEN finishing' = "open" ELSE UNCHANGED finishing
    /\ UNCHANGED summary

\* Opening summary.json for writing empties it.
OpenSummary ==
    /\ finishing = "open"
    /\ summary' = Torn
    /\ finishing' = "write"
    /\ UNCHANGED <<kind, groupCap, generations, records, modelSummary, starts, main, feed,
                   poolQ, routing, serverQ, stopped, phase, work, genQ, eval, genFailed>>

WriteSummary ==
    /\ finishing = "write"
    /\ summary' = [records |-> Cardinality({r \in Requests : records[r] > 0}),
                   failed |-> Cardinality(genFailed)]
    /\ finishing' = "model"
    /\ UNCHANGED <<kind, groupCap, generations, records, modelSummary, starts, main,
                   feed, poolQ,
                   routing, serverQ, stopped, phase, work, genQ, eval, genFailed>>

\* write_model_summary
WriteModelSummary ==
    /\ finishing = "model"
    /\ modelSummary' = summary
    /\ finishing' = "no"
    /\ UNCHANGED <<kind, groupCap, generations, records, summary, starts, main, feed,
                   poolQ,
                   routing, serverQ, stopped, phase, work, genQ, eval, genFailed>>

-----------------------------------------------------------------------------
(* The producer *)

Generated == {r \in Requests : "output" \in generations[r]}

\* Groups larger than group_cap are split.
Split(g) ==
    IF groupCap = 0 THEN {g}
    ELSE {SubSeq(g, i, IF i + groupCap - 1 < Len(g) THEN i + groupCap - 1 ELSE Len(g)) :
              i \in {j \in 1 .. Len(g) : (j - 1) % groupCap = 0}}

\* The requests of S, which are g's, in the order of g.
InOrder(S, g) ==
    CHOOSE h \in SetToSeqs(S) : \A i, j \in DOMAIN h :
        i < j => \E k, l \in DOMAIN g : k < l /\ g[k] = h[i] /\ g[l] = h[j]

\* Mutant: a row with an error counts as generated.
MissingNoError(g) == InOrder({r \in ToSet(g) : generations[r] = {}}, g)

\* Rows with errors are incomplete and generated again.
Missing(g) == InOrder(ToSet(g) \ Generated, g)

Load ==
    /\ producer = "load"
    /\ rescore' = Generated \ scored
    /\ todo' = UNION {Split(Missing(g)) : g \in {h \in Groups : Missing(h) # <<>>}}
    /\ producer' = "rescore"
    /\ UNCHANGED <<kind, groupCap, files, starts, main, finishing, poolQ, routing,
                   serverQ,
                   stopped, phase, work, genQ, eval, genFailed>>

\* Generated but unscored requests go straight to evaluation.
Rescore ==
    /\ producer = "rescore"
    /\ Len(genQ) < GenCap
    /\ \E r \in rescore :
         /\ rescore' = rescore \ {r}
         /\ genQ' = Append(genQ, r)
    /\ UNCHANGED <<kind, groupCap, files, starts, main, finishing, producer, todo,
                   poolQ, routing,
                   serverQ, stopped, phase, work, eval, genFailed>>

\* A run that is complete already gets the summary it lacks.
Rescored ==
    /\ producer = "rescore"
    /\ rescore = {}
    /\ producer' = "groups"
    /\ UNCHANGED <<kind, groupCap, generations, records, modelSummary, starts, main,
                   rescore, todo,
                   poolQ, routing, serverQ, stopped, phase, work, genQ, eval, genFailed>>
    /\ IF todo = {} /\ summary = None THEN MaybeFinish ELSE UNCHANGED <<finishing, summary>>

\* The requests of g's group that this process has to generate: those it dealt
\* with have left "idle".
LoadedWith(g) ==
    {r \in UNION {ToSet(h) : h \in {f \in Groups : Head(g) \in ToSet(f)}} :
        r \notin Generated \/ phase[r] # "idle"}

\* Large groups first, each with all its parts and in its order.
FedBefore(g, h) ==
    LET size(p) == Cardinality(LoadedWith(p))
        begun(p) == \E r \in LoadedWith(p) : \A q \in todo : r \notin ToSet(q)
    IN  IF LoadedWith(g) = LoadedWith(h)
        THEN \E f \in Groups : \E i, j \in DOMAIN f : i < j /\ f[i] = Head(g) /\ f[j] = Head(h)
        ELSE \/ size(g) > size(h)
             \/ size(g) = size(h) /\ ~begun(h)

\* None when there are no more.
Feed ==
    /\ producer = "groups"
    /\ Len(poolQ) < PoolCap
    /\ \/ /\ todo = {}
          /\ poolQ' = Append(poolQ, None)
          /\ producer' = "done"
          /\ UNCHANGED todo
       \/ \E g \in todo :
            /\ \A h \in todo \ {g} : FedBefore(g, h)
            /\ todo' = todo \ {g}
            /\ poolQ' = Append(poolQ, g)
            /\ UNCHANGED producer
    /\ UNCHANGED <<kind, groupCap, files, starts, main, finishing, rescore, routing,
                   serverQ,
                   stopped, phase, work, genQ, eval, genFailed>>

-----------------------------------------------------------------------------
(* The router and the workers *)

RouterGet ==
    /\ router = "get"
    /\ poolQ # <<>>
    /\ poolQ' = Tail(poolQ)
    /\ IF Head(poolQ) = None
       THEN /\ router' = "done"
            /\ serverQ' = [s \in Servers |-> Append(serverQ[s], None)]
            /\ UNCHANGED routed
       ELSE /\ router' = "place"
            /\ routed' = Head(poolQ)
            /\ UNCHANGED serverQ
    /\ UNCHANGED <<kind, groupCap, files, starts, main, finishing, feed, outstanding,
                   stopped,
                   phase, work, genQ, eval, genFailed>>

\* Mutant: the accounting unit is the group.
LoadedByGroup(s) == outstanding[s] + 1

\* The accounting unit is the request.
Loaded(s) == outstanding[s] + Len(routed)

\* The least loaded server below DHigh gets the group.
Admit ==
    /\ router = "place"
    /\ \E s \in Servers :
         /\ outstanding[s] < DHigh
         /\ \A t \in Servers : outstanding[s] <= outstanding[t]
         /\ outstanding' = [outstanding EXCEPT ![s] = Loaded(s)]
         /\ serverQ' = [serverQ EXCEPT ![s] = Append(@, routed)]
         /\ at' = [r \in Requests |-> IF r \in ToSet(routed) THEN s ELSE at[r]]
    /\ phase' = [r \in Requests |-> IF r \in ToSet(routed) THEN "queued" ELSE phase[r]]
    /\ batch' = [r \in Requests |-> IF r \in ToSet(routed) THEN routed ELSE batch[r]]
    /\ router' = "get" /\ routed' = <<>>
    /\ UNCHANGED <<kind, groupCap, files, starts, main, finishing, feed, poolQ,
                   stopped, tries,
                   genQ, eval, genFailed>>

\* All are full: it waits on the condition.  The look at the servers and the entry
\* into the condition's queue are one step: nothing is awaited between them.
AdmitWait ==
    /\ router = "place"
    /\ \A s \in Servers : outstanding[s] >= DHigh
    /\ router' = "wait"
    /\ UNCHANGED <<kind, groupCap, files, starts, main, finishing, feed, poolQ, routed,
                   outstanding, serverQ, stopped, phase, work, genQ, eval, genFailed>>

\* Requests a worker has taken and not finished.
Busy(s) == {r \in Requests : at[r] = s /\ phase[r] \notin {"idle", "queued", "done"}}

\* A worker takes a group; with hf it has finished the one before.
TakeGroup(s) ==
    /\ s \notin stopped
    /\ serverQ[s] # <<>>
    /\ kind = "hf" => Busy(s) = {}
    /\ serverQ' = [serverQ EXCEPT ![s] = Tail(@)]
    /\ LET g == Head(serverQ[s]) IN
       IF g = None
       THEN stopped' = stopped \cup {s} /\ UNCHANGED phase
       ELSE /\ phase' = [r \in Requests |-> IF r \notin ToSet(g) THEN phase[r]
                                            ELSE IF r = Head(g) THEN "ready" ELSE "behind"]
            /\ UNCHANGED stopped
    /\ UNCHANGED <<kind, groupCap, files, starts, main, finishing, feed, poolQ,
                   routing, work, genQ,
                   eval, genFailed>>

\* The phases after request r of its group has been dealt with: with hf the next
\* one starts, with vllm all that waited for the first.
After(r) ==
    LET g == batch[r]
        next == {q \in ToSet(g) :
                    /\ phase[q] = "behind"
                    /\ kind = "vllm" \/ \A p \in ToSet(g) : phase[p] = "behind" =>
                          \E i, j \in DOMAIN g : g[i] = q /\ g[j] = p /\ i <= j}
    IN [q \in Requests |-> IF q = r THEN "done"
                            ELSE IF q \in next THEN "ready" ELSE phase[q]]

Limit == IF kind = "hf" THEN 1 ELSE Concurrency

Call(r) ==
    /\ phase[r] = "ready"
    /\ Cardinality({q \in Requests : at[q] = at[r] /\ phase[q] = "calling"}) < Limit
    /\ phase' = [phase EXCEPT ![r] = "calling"]
    /\ UNCHANGED <<kind, groupCap, files, starts, main, finishing, feed, poolQ,
                   routing, serverQ,
                   stopped, work, genQ, eval, genFailed>>

\* A failed attempt that is not the last.
Retry(r) ==
    /\ phase[r] = "calling"
    /\ tries[r] < Retries - 1
    /\ tries' = [tries EXCEPT ![r] = @ + 1]
    /\ phase' = [phase EXCEPT ![r] = "ready"]
    /\ UNCHANGED <<kind, groupCap, files, starts, main, finishing, feed, poolQ,
                   routing, serverQ,
                   stopped, batch, at, genQ, eval, genFailed>>

\* The row is appended and the request no longer counts as outstanding.
Respond(r, row) ==
    /\ phase[r] = "calling"
    /\ row = "error" => tries[r] = Retries - 1
    /\ generations' = [generations EXCEPT ![r] = @ \cup {row}]
    /\ outstanding' = [outstanding EXCEPT ![at[r]] = @ - 1]
    /\ phase' = [phase EXCEPT ![r] = "notify"]
    /\ UNCHANGED <<kind, groupCap, records, summary, modelSummary, starts, main,
                   finishing, feed,
                   poolQ, router, routed, serverQ, stopped, work, genQ, eval, genFailed>>

\* Mutant: a failed request returns before it notifies.
WokenByOutput(r) == IF router = "wait" /\ r \in Generated THEN "place" ELSE router

\* notify_all: a router that waits looks again.
Woken(r) == IF router = "wait" THEN "place" ELSE router

\* The router looks again; a failed request is done, another one goes to genQ.
Notify(r) ==
    /\ phase[r] = "notify"
    /\ router' = Woken(r)
    /\ UNCHANGED <<kind, groupCap, generations, records, modelSummary, starts, main,
                   feed, poolQ,
                   routed, outstanding, serverQ, stopped, work, genQ, eval>>
    /\ IF r \in Generated
       THEN /\ phase' = [phase EXCEPT ![r] = "put"]
            /\ UNCHANGED <<genFailed, finishing, summary>>
       ELSE /\ phase' = After(r)
            /\ genFailed' = genFailed \cup {r}
            /\ MaybeFinish

PutGen(r) ==
    /\ phase[r] = "put"
    /\ Len(genQ) < GenCap
    /\ genQ' = Append(genQ, r)
    /\ phase' = After(r)
    /\ UNCHANGED <<kind, groupCap, files, starts, main, finishing, feed, poolQ,
                   routing, serverQ,
                   stopped, work, eval, genFailed>>

-----------------------------------------------------------------------------
(* The evaluators and the end *)

EvalGet(e) ==
    /\ holds[e] = None
    /\ genQ # <<>>
    /\ holds' = [holds EXCEPT ![e] = Head(genQ)]
    /\ genQ' = Tail(genQ)
    /\ UNCHANGED <<kind, groupCap, files, starts, main, finishing, feed, poolQ,
                   routing, serverQ,
                   stopped, phase, work, scored, genFailed>>

\* A judge that fails scores zero: the record is written in any case, once.
Score(e) ==
    /\ holds[e] # None
    /\ holds' = [holds EXCEPT ![e] = None]
    /\ UNCHANGED <<kind, groupCap, generations, modelSummary, starts, main, feed,
                   poolQ, routing,
                   serverQ, stopped, phase, work, genQ, genFailed>>
    /\ IF holds[e] \in scored
       THEN UNCHANGED <<records, scored, finishing, summary>>
       ELSE /\ records' = [records EXCEPT ![holds[e]] = @ + 1]
            /\ scored' = scored \cup {holds[e]}
            /\ MaybeFinish

\* Producer, router and workers are done; genQ is drained before the evaluators
\* are stopped, and these finish what they hold.
Drained ==
    /\ main = "run"
    /\ producer = "done" /\ router = "done" /\ stopped = Servers
    /\ \A r \in Requests : phase[r] \in {"idle", "done"}
    /\ genQ = <<>>
    /\ main' = "stop"
    /\ UNCHANGED <<kind, groupCap, files, starts, finishing, feed, poolQ, routing,
                   serverQ, stopped,
                   phase, work, genQ, eval, genFailed>>

End ==
    /\ main = "stop"
    /\ \A e \in Evaluators : holds[e] = None
    /\ main' = "ended"
    /\ UNCHANGED <<kind, groupCap, files, starts, finishing, feed, poolQ, routing,
                   serverQ, stopped,
                   phase, work, genQ, eval, genFailed>>

\* A step of a task of the process.
Task ==
    \/ Load \/ Rescore \/ Rescored \/ Feed
    \/ RouterGet \/ Admit \/ AdmitWait
    \/ \E s \in Servers : TakeGroup(s)
    \/ \E r \in Requests :
         \/ Call(r) \/ Retry(r) \/ Notify(r) \/ PutGen(r)
         \/ \E row \in {"output", "error"} : Respond(r, row)
    \/ \E e \in Evaluators : EvalGet(e) \/ Score(e)
    \/ Drained \/ End

\* maybe_finish_run awaits nothing while it writes: no other task runs.
Process ==
    /\ main \in {"run", "stop"}
    /\ \/ finishing = "no" /\ Task
       \/ OpenSummary \/ WriteSummary \/ WriteModelSummary

Next == Start \/ Kill \/ Process

\* The event loop runs what is ready, and every request to a server or a judge
\* ends, by its answer or by the client's timeout.
Spec == Init /\ [][Next]_vars /\ WF_vars(Process)

-----------------------------------------------------------------------------

TypeOK ==
    /\ kind \in Kinds /\ groupCap \in GroupCaps
    /\ generations \in [Requests -> SUBSET {"output", "error"}]
    /\ records \in [Requests -> Nat]
    /\ \/ summary \in {None, Torn}
       \/ summary \in [records : 0 .. Cardinality(Requests),
                       failed : 0 .. Cardinality(Requests)]
    /\ \/ modelSummary = None
       \/ modelSummary \in [records : 0 .. Cardinality(Requests),
                            failed : 0 .. Cardinality(Requests)]
    /\ starts \in 0 .. MaxStarts /\ main \in {"off", "run", "stop", "ended"}
    /\ finishing \in {"no", "open", "write", "model"}
    /\ producer \in {"load", "rescore", "groups", "done"}
    /\ rescore \subseteq Requests
    /\ todo \subseteq Seq(Requests) /\ poolQ \in Seq(Seq(Requests) \cup {None})
    /\ Len(poolQ) <= PoolCap
    /\ router \in {"get", "place", "wait", "done"} /\ routed \in Seq(Requests)
    /\ \A s \in Servers : serverQ[s] \in Seq(Seq(Requests) \cup {None})
    /\ outstanding \in [Servers -> Nat] /\ stopped \subseteq Servers
    /\ phase \in [Requests -> Phases]
    /\ batch \in [Requests -> Seq(Requests)]
    /\ at \in [Requests -> Servers \cup {None}]
    /\ tries \in [Requests -> 0 .. Retries - 1]
    /\ genQ \in Seq(Requests) /\ Len(genQ) <= GenCap
    /\ holds \in [Evaluators -> Requests \cup {None}]
    /\ scored \subseteq Requests /\ genFailed \subseteq Requests

\* "Resume safely: append generations/records one at a time and filter by ID on
\* restart": however often the process is killed, a request has at most one record,
\* and a record only of an output that was generated.
RecordedOnce ==
    \A r \in Requests : /\ records[r] <= 1
                        /\ records[r] = 1 => r \in Generated

\* A process that ends has dealt with every request: scored, or failed in this
\* process although an earlier one may have left an error row.
EndedComplete ==
    main = "ended" => \A r \in Requests : records[r] = 1 \/ r \in genFailed

\* A summary that could be read stands for the whole run.
SummaryCoversRun ==
    \A f \in {summary, modelSummary} :
        f \in {None, Torn} \/ f.records + f.failed = Cardinality(Requests)

\* A server's outstanding count is the requests it was given and did not answer,
\* and admission bounds it.
OutstandingExact ==
    \A s \in Servers :
        /\ outstanding[s] = Cardinality({r \in Requests :
               at[r] = s /\ phase[r] \in {"queued", "behind", "ready", "calling"}})
        /\ groupCap > 0 => outstanding[s] <= DHigh - 1 + groupCap

\* A process that is not killed ends: no wakeup of the router is lost and no
\* bounded queue blocks the others for good.
Ends == main = "run" ~> main \in {"off", "ended"}
====

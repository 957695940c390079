---- MODULE EvalPipeline_proofs ----
(***************************************************************************)
(* For any groups, servers, evaluators and limits, and however often the    *)
(* process is killed: a request is recorded at most once and only after an  *)
(* output was generated for it; a process that ends has dealt with every    *)
(* request; a summary is of the whole run; and the count a server is        *)
(* admitted by is exact and bounded.                                        *)
(*                                                                         *)
(* IInv is about the files and what is on its way to the evaluators, RunInv *)
(* about the groups on their way to the servers and their requests.  RunInv *)
(* is inductive with IInv: LineInv (the queues are closed once, by the None  *)
(* at their end), WaitInv and ServeInv (a request is in one group, in one    *)
(* place), AdmitInv, FailInv, CoverInv (none is lost), EndInv, SummaryInv.   *)
(***************************************************************************)
EXTENDS EvalPipeline, SequenceTheorems, FiniteSetTheorems, TLAPS

\* Whatever is on its way to an evaluator has an output in generations.jsonl.
FlowInv ==
    /\ DOMAIN generations = Requests /\ DOMAIN phase = Requests /\ DOMAIN holds = Evaluators
    /\ rescore \subseteq Generated
    /\ \A r \in Requests : phase[r] = "put" => r \in Generated
    /\ genQ \in Seq(Generated)
    /\ \A e \in Evaluators : holds[e] \in Generated \cup {None}

\* A process knows from its start, and keeps knowing, what records.jsonl holds.
RecordInv ==
    /\ records \in [Requests -> {0, 1}]
    /\ \A r \in Requests : records[r] = 1 => r \in Generated
    /\ main # "off" => scored = {r \in Requests : records[r] = 1}

IInv == FlowInv /\ RecordInv

-----------------------------------------------------------------------------

LEMMA RecordsKept ==
    ASSUME RecordInv, UNCHANGED <<records, scored>>, Generated \subseteq Generated',
           main' # "off" => main # "off"
    PROVE  RecordInv'
BY DEF RecordInv

LEMMA FlowKept ==
    ASSUME FlowInv, UNCHANGED <<generations, holds>>, DOMAIN phase' = Requests,
           rescore' \subseteq Generated, genQ' \in Seq(Generated),
           \A r \in Requests : phase'[r] = "put" => phase[r] = "put" \/ r \in Generated
    PROVE  FlowInv' /\ Generated' = Generated
<1>1. Generated' = Generated
    BY DEF Generated
<1> QED
    BY <1>1 DEF FlowInv

LEMMA QueueGrows ==
    ASSUME genQ \in Seq(Generated), NEW r \in Generated
    PROVE  Append(genQ, r) \in Seq(Generated)
BY AppendProperties

\* The requests that follow r do not come to their output by that.
LEMMA AfterMoves ==
    ASSUME NEW r \in Requests
    PROVE  /\ DOMAIN After(r) = Requests
           /\ \A q \in Requests : After(r)[q] = "put" => phase[q] = "put"
<1> DEFINE g == batch[r]
           next == {q \in ToSet(g) :
                       /\ phase[q] = "behind"
                       /\ kind = "vllm" \/ \A p \in ToSet(g) : phase[p] = "behind" =>
                             \E i, j \in DOMAIN g : g[i] = q /\ g[j] = p /\ i <= j}
<1>1. After(r) = [q \in Requests |-> IF q = r THEN "done"
                                     ELSE IF q \in next THEN "ready" ELSE phase[q]]
    BY DEF After
<1> HIDE DEF next
<1> QED
    BY <1>1

-----------------------------------------------------------------------------
(* The steps *)

LEMMA InitIInv == Init => IInv
<1> SUFFICES ASSUME Init PROVE IInv
    OBVIOUS
<1>1. genQ \in Seq(Generated)
    BY EmptySeq DEF Init
<1>2. FlowInv
    BY <1>1 DEF Init, FlowInv
<1>3. RecordInv
    BY DEF Init, RecordInv
<1> QED
    BY <1>2, <1>3 DEF IInv

\* A new process starts from the files; a killed one leaves them.
LEMMA FreshIInv ==
    ASSUME IInv, Start \/ Kill
    PROVE  IInv'
<1>1. Fresh /\ UNCHANGED <<generations, records>>
    BY DEF Start, Kill, files
<1>2. Generated' = Generated
    BY <1>1 DEF Generated
<1>3. genQ' \in Seq(Generated)
    BY <1>1, EmptySeq DEF Fresh
<1>4. FlowInv'
    BY <1>1, <1>2, <1>3 DEF Fresh, IInv, FlowInv
<1>5. main' # "off" => scored' = {r \in Requests : records[r] = 1}
  <2>1. CASE Start
    <3>1. scored' = {r \in Requests : records[r] > 0}
      BY <2>1 DEF Start
    <3>2. \A r \in Requests : records[r] > 0 <=> records[r] = 1
      BY DEF IInv, RecordInv
    <3> QED
      BY <3>1, <3>2
  <2>2. CASE Kill
    BY <2>2 DEF Kill
  <2> QED
    BY <2>1, <2>2
<1>6. RecordInv'
    BY <1>1, <1>2, <1>5 DEF IInv, RecordInv
<1> QED
    BY <1>4, <1>6 DEF IInv

LEMMA ProducerIInv ==
    ASSUME IInv, Load \/ Rescore \/ Rescored \/ Feed
    PROVE  IInv'
<1>1. UNCHANGED <<generations, records, scored, holds, phase, main>>
    BY DEF Load, Rescore, Rescored, Feed, files, eval
<1>2. rescore' \subseteq Generated /\ genQ' \in Seq(Generated)
  <2>1. CASE Rescore
    <3>1. PICK r \in rescore : rescore' = rescore \ {r} /\ genQ' = Append(genQ, r)
      BY <2>1 DEF Rescore
    <3> QED
      BY <3>1, QueueGrows DEF IInv, FlowInv
  <2>2. CASE Load
    BY <2>2 DEF Load, IInv, FlowInv
  <2>3. CASE Rescored \/ Feed
    BY <2>3 DEF Rescored, Feed, IInv, FlowInv
  <2> QED
    BY <2>1, <2>2, <2>3
<1>3. FlowInv' /\ Generated' = Generated
    BY <1>1, <1>2, FlowKept DEF IInv, FlowInv
<1>4. RecordInv'
    BY <1>1, <1>3, RecordsKept DEF IInv
<1> QED
    BY <1>3, <1>4 DEF IInv

\* The steps that neither write files nor touch what goes to the evaluators.
LEMMA RouteIInv ==
    ASSUME IInv,
           \/ RouterGet \/ Admit \/ AdmitWait \/ Drained \/ End
           \/ OpenSummary \/ WriteSummary \/ WriteModelSummary
           \/ \E s \in Servers : TakeGroup(s)
           \/ \E r \in Requests : Call(r) \/ Retry(r)
    PROVE  IInv'
<1>1. UNCHANGED <<generations, records, scored, holds, rescore, genQ>>
    BY DEF RouterGet, Admit, AdmitWait, Drained, End, OpenSummary, WriteSummary, WriteModelSummary,
           TakeGroup, Call, Retry, files, eval, feed
<1>2. DOMAIN phase' = Requests /\ \A q \in Requests : phase'[q] = "put" => phase[q] = "put"
  <2>1. CASE Admit
    BY <2>1 DEF Admit
  <2>2. ASSUME NEW s \in Servers, TakeGroup(s)
        PROVE  /\ DOMAIN phase' = Requests
               /\ \A q \in Requests : phase'[q] = "put" => phase[q] = "put"
    BY <2>2 DEF TakeGroup, IInv, FlowInv
  <2>3. ASSUME NEW r \in Requests, Call(r) \/ Retry(r)
        PROVE  /\ DOMAIN phase' = Requests
               /\ \A q \in Requests : phase'[q] = "put" => phase[q] = "put"
    BY <2>3 DEF Call, Retry, IInv, FlowInv
  <2>4. CASE RouterGet \/ AdmitWait \/ Drained \/ End \/ OpenSummary \/ WriteSummary \/ WriteModelSummary
    <3>1. phase' = phase
      BY <2>4 DEF RouterGet, AdmitWait, Drained, End, OpenSummary, WriteSummary, WriteModelSummary
    <3> QED
      BY <3>1 DEF IInv, FlowInv
  <2> QED
    BY <2>1, <2>2, <2>3, <2>4
<1>3. FlowInv' /\ Generated' = Generated
    BY <1>1, <1>2, FlowKept DEF IInv, FlowInv
<1>4. main' # "off" => main # "off"
    BY DEF RouterGet, Admit, AdmitWait, Drained, End, OpenSummary, WriteSummary, WriteModelSummary,
           TakeGroup, Call, Retry
<1>5. RecordInv'
    BY <1>1, <1>3, <1>4, RecordsKept DEF IInv
<1> QED
    BY <1>3, <1>5 DEF IInv

LEMMA RespondIInv ==
    ASSUME IInv, NEW r \in Requests, NEW row \in {"output", "error"}, Respond(r, row)
    PROVE  IInv'
<1>1. /\ generations' = [generations EXCEPT ![r] = @ \cup {row}]
      /\ phase' = [phase EXCEPT ![r] = "notify"]
      /\ UNCHANGED <<records, scored, holds, rescore, genQ, main>>
    BY DEF Respond, eval, feed
<1>2. DOMAIN generations' = Requests /\ Generated \subseteq Generated'
    BY <1>1 DEF Generated, IInv, FlowInv
<1>3. genQ' \in Seq(Generated')
    BY <1>1, <1>2, SeqMonotonic DEF IInv, FlowInv
<1>4. FlowInv'
    BY <1>1, <1>2, <1>3 DEF IInv, FlowInv
<1>5. RecordInv'
    BY <1>1, <1>2, RecordsKept DEF IInv
<1> QED
    BY <1>4, <1>5 DEF IInv

LEMMA NotifyIInv ==
    ASSUME IInv, NEW r \in Requests, Notify(r)
    PROVE  IInv'
<1>1. UNCHANGED <<generations, records, scored, holds, rescore, genQ, main>>
    BY DEF Notify, eval, feed
<1>2. /\ DOMAIN phase' = Requests
      /\ \A q \in Requests : phase'[q] = "put" => phase[q] = "put" \/ q \in Generated
  <2>1. CASE r \in Generated
    BY <2>1 DEF Notify, IInv, FlowInv
  <2>2. CASE r \notin Generated
    BY <2>2, AfterMoves DEF Notify
  <2> QED
    BY <2>1, <2>2
<1>3. FlowInv' /\ Generated' = Generated
    BY <1>1, <1>2, FlowKept DEF IInv, FlowInv
<1>4. RecordInv'
    BY <1>1, <1>3, RecordsKept DEF IInv
<1> QED
    BY <1>3, <1>4 DEF IInv

LEMMA PutGenIInv ==
    ASSUME IInv, NEW r \in Requests, PutGen(r)
    PROVE  IInv'
<1>1. UNCHANGED <<generations, records, scored, holds, rescore, main>>
    BY DEF PutGen, files, eval, feed
<1>2. genQ' \in Seq(Generated)
    BY QueueGrows DEF PutGen, IInv, FlowInv
<1>3. DOMAIN phase' = Requests /\ \A q \in Requests : phase'[q] = "put" => phase[q] = "put"
    BY AfterMoves DEF PutGen
<1>4. FlowInv' /\ Generated' = Generated
    BY <1>1, <1>2, <1>3, FlowKept DEF IInv, FlowInv
<1>5. RecordInv'
    BY <1>1, <1>4, RecordsKept DEF IInv
<1> QED
    BY <1>4, <1>5 DEF IInv

LEMMA EvalGetIInv ==
    ASSUME IInv, NEW e \in Evaluators, EvalGet(e)
    PROVE  IInv'
<1>1. UNCHANGED <<generations, records, scored, rescore, phase, main>>
    BY DEF EvalGet, files, feed
<1>2. Generated' = Generated
    BY <1>1 DEF Generated
<1>3. Head(genQ) \in Generated /\ Tail(genQ) \in Seq(Generated)
    BY HeadTailProperties DEF EvalGet, IInv, FlowInv
<1>4. FlowInv'
    BY <1>1, <1>2, <1>3 DEF EvalGet, IInv, FlowInv
<1>5. RecordInv'
    BY <1>1, <1>2, RecordsKept DEF IInv
<1> QED
    BY <1>4, <1>5 DEF IInv

\* An evaluator writes a record of a request that has none: scored says so.
LEMMA ScoreIInv ==
    ASSUME IInv, NEW e \in Evaluators, Score(e), main \in {"run", "stop"}
    PROVE  IInv'
<1> DEFINE r == holds[e]
<1>1. r \in Generated /\ r \in Requests
    BY DEF Score, IInv, FlowInv, Generated
<1>2. /\ holds' = [holds EXCEPT ![e] = None]
      /\ UNCHANGED <<generations, rescore, phase, main, genQ>>
    BY DEF Score, feed
<1>3. Generated' = Generated
    BY <1>2 DEF Generated
<1>4. FlowInv'
    BY <1>2, <1>3 DEF IInv, FlowInv
<1>5. RecordInv'
  <2>1. CASE r \in scored
    BY <1>2, <1>3, <2>1, RecordsKept DEF Score, IInv
  <2>2. CASE r \notin scored
    <3>1. records' = [records EXCEPT ![r] = @ + 1] /\ scored' = scored \cup {r}
      BY <2>2 DEF Score
    <3>2. records[r] = 0 /\ scored = {q \in Requests : records[q] = 1}
      BY <1>1, <2>2 DEF IInv, RecordInv
    <3>3. \A q \in Requests : records'[q] = IF q = r THEN 1 ELSE records[q]
      <4>1. records'[r] = records[r] + 1
        BY <1>1, <3>1 DEF IInv, RecordInv
      <4>2. records'[r] = 1
        BY <3>2, <4>1
      <4>3. \A q \in Requests : q # r => records'[q] = records[q]
        BY <3>1 DEF IInv, RecordInv
      <4> QED
        BY <4>2, <4>3
    <3>4. records' \in [Requests -> {0, 1}]
      <4>1. records' = [q \in Requests |-> records'[q]]
        BY <3>1 DEF IInv, RecordInv
      <4>2. \A q \in Requests : records'[q] \in {0, 1}
        BY <3>3 DEF IInv, RecordInv
      <4> QED
        BY <4>1, <4>2
    <3> HIDE DEF r
    <3> QED
      BY <1>1, <1>3, <3>1, <3>2, <3>3, <3>4 DEF IInv, RecordInv
  <2> QED
    BY <2>1, <2>2
<1> QED
    BY <1>4, <1>5 DEF IInv

LEMMA StutterIInv == IInv /\ UNCHANGED vars => IInv'
<1> SUFFICES ASSUME IInv, UNCHANGED vars PROVE IInv'
    OBVIOUS
<1>1. UNCHANGED <<generations, records, scored, holds, rescore, genQ, phase, main>>
    BY DEF vars, files, eval, feed
<1>2. FlowInv' /\ Generated' = Generated
    BY <1>1, FlowKept DEF IInv, FlowInv
<1>3. RecordInv'
    BY <1>1, <1>2, RecordsKept DEF IInv
<1> QED
    BY <1>2, <1>3 DEF IInv

LEMMA Invariance == Spec => []IInv
<1>1. Init => IInv
    BY InitIInv
<1>2. IInv /\ [Next]_vars => IInv'
  <2> SUFFICES ASSUME IInv, [Next]_vars PROVE IInv'
    OBVIOUS
  <2>1. CASE Start \/ Kill
    BY <2>1, FreshIInv
  <2>2. ASSUME main \in {"run", "stop"}, Task PROVE IInv'
    BY <2>2, ProducerIInv, RouteIInv, RespondIInv, NotifyIInv, PutGenIInv, EvalGetIInv,
       ScoreIInv
    DEF Task
  <2>3. CASE Process
    BY <2>2, <2>3, RouteIInv DEF Process
  <2> QED
    BY <2>1, <2>3, StutterIInv DEF Next
<1> QED
    BY <1>1, <1>2, PTL DEF Spec
-----------------------------------------------------------------------------
(* Queues *)

LEMMA AppendNew ==
    ASSUME NEW S, NEW q \in Seq(S), NEW x \in S, IsInjective(q), x \notin ToSet(q)
    PROVE  /\ Append(q, x) \in Seq(S) /\ IsInjective(Append(q, x))
           /\ ToSet(Append(q, x)) = ToSet(q) \cup {x}
           /\ Append(q, x) # <<>> /\ Append(q, x)[Len(Append(q, x))] = x
<1> DEFINE d == Append(q, x)
           n == Len(q)
<1>1. /\ n \in Nat /\ DOMAIN q = 1 .. n /\ Len(d) = n + 1 /\ DOMAIN d = 1 .. n + 1
      /\ d \in Seq(S) /\ d[n + 1] = x /\ \A i \in 1 .. n : d[i] = q[i]
    BY AppendProperties, LenProperties
<1> HIDE DEF d, n
<1>2. IsInjective(d)
  <2> SUFFICES ASSUME NEW a \in 1 .. n + 1, NEW b \in 1 .. n + 1, d[a] = d[b] PROVE a = b
      BY <1>1 DEF IsInjective
  <2>1. \A i \in 1 .. n : q[i] # x
      BY <1>1 DEF ToSet
  <2>2. CASE a = n + 1 /\ b = n + 1
      BY <2>2
  <2>3. CASE a \in 1 .. n /\ b \in 1 .. n
      BY <1>1, <2>3 DEF IsInjective
  <2> QED
      BY <1>1, <2>1, <2>2, <2>3
<1>3. ToSet(d) = ToSet(q) \cup {x}
  <2>1. ToSet(d) = {d[i] : i \in 1 .. n + 1} /\ ToSet(q) = {q[i] : i \in 1 .. n}
      BY <1>1 DEF ToSet
  <2>2. \A i \in 1 .. n + 1 : i \in 1 .. n \/ i = n + 1
      BY <1>1
  <2>3. \A i \in 1 .. n : i \in 1 .. n + 1
      BY <1>1
  <2>4. n + 1 \in 1 .. n + 1
      BY <1>1
  <2> QED
      BY <1>1, <2>1, <2>2, <2>3, <2>4
<1>4. d # <<>> /\ d[Len(d)] = x
    BY <1>1, EmptySeq
<1> QED
    BY <1>1, <1>2, <1>3, <1>4 DEF d

LEMMA TakeFirst ==
    ASSUME NEW S, NEW q \in Seq(S), IsInjective(q), q # <<>>
    PROVE  /\ Head(q) \in ToSet(q) /\ Head(q) \in S /\ q[Len(q)] \in ToSet(q)
           /\ Tail(q) \in Seq(S) /\ IsInjective(Tail(q))
           /\ ToSet(Tail(q)) = ToSet(q) \ {Head(q)}
           /\ IF q[Len(q)] = Head(q) THEN Tail(q) = <<>>
              ELSE Tail(q) # <<>> /\ Tail(q)[Len(Tail(q))] = q[Len(q)]
<1> DEFINE d == Tail(q)
           n == Len(q)
<1>1. /\ n \in Nat \ {0} /\ DOMAIN q = 1 .. n /\ Len(d) = n - 1 /\ DOMAIN d = 1 .. n - 1
      /\ d \in Seq(S) /\ Head(q) = q[1] /\ \A i \in 1 .. n - 1 : d[i] = q[i + 1]
      /\ \A i \in 1 .. n : q[i] \in S
  <2>1. n \in Nat \ {0} /\ DOMAIN q = 1 .. n /\ \A i \in 1 .. n : q[i] \in S
      BY EmptySeq, LenProperties, ElementOfSeq
  <2>2. Len(d) = n - 1 /\ d \in Seq(S) /\ \A i \in 1 .. n - 1 : d[i] = q[i + 1]
      BY HeadTailProperties
  <2>3. DOMAIN d = 1 .. n - 1
      BY <2>2, LenProperties
  <2> QED
      BY <2>1, <2>2, <2>3, HeadTailProperties
<1>2. d = <<>> <=> n = 1
    BY <1>1, EmptySeq
<1> HIDE DEF d, n
<1>3. IsInjective(d)
  <2> SUFFICES ASSUME NEW a \in 1 .. n - 1, NEW b \in 1 .. n - 1, d[a] = d[b] PROVE a = b
      BY <1>1 DEF IsInjective
  <2>1. a + 1 \in 1 .. n /\ b + 1 \in 1 .. n /\ a \in Int /\ b \in Int
      BY <1>1
  <2>2. q[a + 1] = q[b + 1]
      BY <1>1
  <2>3. a + 1 = b + 1
      BY <1>1, <2>1, <2>2 DEF IsInjective
  <2> QED
      BY <2>1, <2>3
<1>4. ToSet(d) = ToSet(q) \ {Head(q)}
  <2>1. ToSet(d) = {d[i] : i \in 1 .. n - 1} /\ ToSet(q) = {q[i] : i \in 1 .. n}
      BY <1>1 DEF ToSet
  <2>2. ASSUME NEW i \in 1 .. n - 1 PROVE d[i] \in ToSet(q) /\ d[i] # Head(q)
    <3>1. i + 1 \in 1 .. n /\ 1 \in 1 .. n /\ i + 1 # 1 /\ d[i] = q[i + 1]
        BY <1>1
    <3>2. q[i + 1] # q[1]
        BY <1>1, <3>1 DEF IsInjective
    <3> QED
        BY <1>1, <2>1, <3>1, <3>2
  <2>3. ASSUME NEW i \in 1 .. n, q[i] # Head(q) PROVE q[i] \in ToSet(d)
    <3>1. i - 1 \in 1 .. n - 1 /\ (i - 1) + 1 = i
        BY <1>1, <2>3
    <3>2. d[i - 1] = q[i]
        BY <1>1, <3>1
    <3> QED
        BY <2>1, <3>1, <3>2
  <2> QED
      BY <2>1, <2>2, <2>3
<1>5. 1 \in 1 .. n /\ n \in 1 .. n
    BY <1>1
<1>6. q[n] = Head(q) <=> n = 1
    BY <1>1, <1>5 DEF IsInjective
<1>7. n # 1 => d[Len(d)] = q[n]
  <2> SUFFICES ASSUME n # 1 PROVE d[Len(d)] = q[n]
      OBVIOUS
  <2>1. n - 1 \in 1 .. n - 1 /\ (n - 1) + 1 = n
      BY <1>1
  <2> QED
      BY <1>1, <2>1
<1> QED
    BY <1>1, <1>2, <1>3, <1>4, <1>5, <1>6, <1>7 DEF d, n, ToSet

\* As many requests as places in the group.
LEMMA SizeOfGroup ==
    ASSUME NEW S, NEW g \in Seq(S), IsInjective(g)
    PROVE  IsFiniteSet(ToSet(g)) /\ Cardinality(ToSet(g)) = Len(g)
<1>1. Len(g) \in Nat /\ DOMAIN g = 1 .. Len(g) /\ g \in [1 .. Len(g) -> S]
    BY LenProperties
<1>2. g \in Bijection(1 .. Len(g), ToSet(g))
    BY <1>1 DEF Bijection, Injection, Surjection, IsInjective, ToSet
<1>3. IsFiniteSet(1 .. Len(g)) /\ Cardinality(1 .. Len(g)) = Len(g)
    BY <1>1, FS_Interval, SMTT(30)
<1> QED
    BY <1>2, <1>3, FS_Bijection DEF ExistsBijection
-----------------------------------------------------------------------------
(* What the producer loads *)

\* S has an enumeration in the order of g: a member's rank is the number of
\* members up to its place.
LEMMA OrderExists ==
    ASSUME NEW T, NEW g \in Seq(T), IsInjective(g), NEW S \in SUBSET ToSet(g)
    PROVE  \E h \in SetToSeqs(S) : \A i, j \in DOMAIN h :
               i < j => \E k, l \in DOMAIN g : k < l /\ g[k] = h[i] /\ g[l] = h[j]
<1> DEFINE n == Len(g)
           P == {k \in 1 .. n : g[k] \in S}
           N == Cardinality(S)
           Up(k) == P \cap (1 .. k)
           rank == [k \in P |-> Cardinality(Up(k))]
<1>1. n \in Nat /\ DOMAIN g = 1 .. n /\ \A i \in 1 .. n : g[i] \in T
    BY LenProperties, ElementOfSeq
<1>2. \A a, b \in 1 .. n : g[a] = g[b] => a = b
    BY <1>1 DEF IsInjective
<1>3. \A r \in S : \E k \in P : g[k] = r
    BY <1>1 DEF ToSet
<1> HIDE DEF n
<1>4. P \subseteq 1 .. n /\ P \subseteq Nat /\ IsFiniteSet(P)
  <2>1. IsFiniteSet(1 .. n)
      BY <1>1, FS_Interval
  <2>2. P \subseteq 1 .. n /\ P \subseteq Nat
      BY <1>1
  <2> HIDE DEF P
  <2> QED
      BY <2>1, <2>2, FS_Subset
<1>5. IsFiniteSet(S) /\ Cardinality(P) = N /\ N \in Nat
  <2> DEFINE f == [k \in P |-> g[k]]
  <2>1. f \in Bijection(P, S)
    <3>1. f \in [P -> S] /\ \A a, b \in P : f[a] = f[b] => a = b
        BY <1>2
    <3>2. \A r \in S : \E k \in P : f[k] = r
        BY <1>3
    <3> HIDE DEF P, f
    <3> QED
        BY <3>1, <3>2 DEF Bijection, Injection, Surjection, IsInjective
  <2> HIDE DEF P, f
  <2>2. IsFiniteSet(S) /\ Cardinality(S) = Cardinality(P)
      BY <1>4, <2>1, FS_Bijection DEF ExistsBijection
  <2> QED
      BY <2>2, FS_CardinalityType
<1>6. \A k \in P : Up(k) \subseteq P /\ k \in Up(k)
    BY <1>4
<1>7. \A j, k \in P : j < k => Up(j) \subseteq Up(k) /\ k \notin Up(j)
    BY <1>4
<1>8. \A k \in P : rank[k] = Cardinality(Up(k))
    OBVIOUS
<1>9. DOMAIN rank = P
    OBVIOUS
<1> HIDE DEF P, Up, rank, N
<1>10. \A k \in P : IsFiniteSet(Up(k)) /\ Cardinality(Up(k)) \in Nat
    BY <1>4, <1>6, FS_Subset, FS_CardinalityType
<1>11. \A k \in P : rank[k] \in 1 .. N
  <2> SUFFICES ASSUME NEW k \in P PROVE rank[k] \in 1 .. N
      OBVIOUS
  <2>1. Cardinality(Up(k)) <= Cardinality(P)
      BY <1>4, <1>6, FS_Subset
  <2>2. Cardinality(Up(k)) # 0
      BY <1>6, <1>10, FS_EmptySet
  <2> QED
      BY <1>5, <1>8, <1>10, <2>1, <2>2
<1>12. \A j, k \in P : j < k => rank[j] < rank[k]
  <2> SUFFICES ASSUME NEW j \in P, NEW k \in P, j < k PROVE rank[j] < rank[k]
      OBVIOUS
  <2>1. Up(j) \subseteq Up(k) /\ Up(j) # Up(k)
      BY <1>6, <1>7
  <2>2. Cardinality(Up(j)) <= Cardinality(Up(k))
        /\ (Cardinality(Up(j)) = Cardinality(Up(k)) => Up(j) = Up(k))
      BY <1>10, <2>1, FS_Subset
  <2> QED
      BY <1>8, <1>10, <2>1, <2>2
<1>13. \A j, k \in P : rank[j] = rank[k] => j = k
  <2> SUFFICES ASSUME NEW j \in P, NEW k \in P, rank[j] = rank[k] PROVE j = k
      OBVIOUS
  <2>1. j \in Nat /\ k \in Nat /\ rank[j] \in Int /\ rank[k] \in Int
      BY <1>4, <1>11, <1>5
  <2>2. ~(rank[j] < rank[k]) /\ ~(rank[k] < rank[j])
      BY <2>1
  <2>3. ~(j < k) /\ ~(k < j)
      BY <1>12, <2>2
  <2> QED
      BY <2>1, <2>3
<1>14. \A m \in 1 .. N : \E k \in P : rank[k] = m
  <2>1. IsFiniteSet(1 .. N) /\ Cardinality(1 .. N) = N
      BY <1>5, FS_Interval
  <2>2. rank = [k \in P |-> rank[k]]
      BY <1>9 DEF rank
  <2>3. rank \in [P -> 1 .. N]
      BY <1>11, <2>2
  <2>4. rank \in Injection(P, 1 .. N)
      BY <1>13, <2>3 DEF Injection, IsInjective
  <2>5. rank \in Surjection(P, 1 .. N)
      BY <1>4, <1>5, <2>1, <2>4, FS_Injection
  <2> QED
      BY <2>5 DEF Surjection
<1> DEFINE place == [m \in 1 .. N |-> CHOOSE k \in P : rank[k] = m]
           h == [m \in 1 .. N |-> g[place[m]]]
<1>15. \A m \in 1 .. N : place[m] \in P /\ rank[place[m]] = m
    BY <1>14
<1> HIDE DEF place
<1>16. \A m \in 1 .. N : h[m] = g[place[m]] /\ place[m] \in 1 .. n /\ h[m] \in S
    BY <1>4, <1>15 DEF P
<1>17. DOMAIN h = 1 .. N /\ h \in [1 .. N -> S]
    BY <1>16
<1> HIDE DEF h
<1>18. h \in SetToSeqs(S)
  <2>1. ASSUME NEW i \in 1 .. N, NEW j \in 1 .. N, i # j PROVE h[i] # h[j]
      BY <1>2, <1>15, <1>16, <2>1
  <2> QED
      BY <1>17, <2>1 DEF SetToSeqs, N
<1>19. ASSUME NEW i \in DOMAIN h, NEW j \in DOMAIN h, i < j
       PROVE  \E k, l \in DOMAIN g : k < l /\ g[k] = h[i] /\ g[l] = h[j]
  <2>1. i \in 1 .. N /\ j \in 1 .. N
      BY <1>17
  <2>2. place[i] \in P /\ place[j] \in P /\ rank[place[i]] = i /\ rank[place[j]] = j
      BY <1>15, <2>1
  <2>3. place[i] \in Nat /\ place[j] \in Nat /\ i \in Nat /\ j \in Nat
    <3>1. i \in Nat /\ j \in Nat
        BY <1>5, <2>1
    <3> QED
        BY <1>4, <2>2, <3>1
  <2>4. place[i] < place[j]
    <3>1. ~(place[j] < place[i])
        BY <1>12, <1>19, <2>2, <2>3
    <3>2. place[i] # place[j]
        BY <1>19, <2>2, <2>3
    <3> QED
        BY <2>3, <3>1, <3>2
  <2> QED
      BY <1>1, <1>16, <2>1, <2>4
<1> QED
    BY <1>18, <1>19

LEMMA Enumerates ==
    ASSUME NEW S, IsFiniteSet(S), NEW h \in SetToSeqs(S)
    PROVE  h \in Seq(S) /\ IsInjective(h) /\ ToSet(h) = S
<1> DEFINE N == Cardinality(S)
<1>1. h \in [1 .. N -> S] /\ \A i, j \in 1 .. N : i # j => h[i] # h[j]
    BY DEF SetToSeqs
<1>2. N \in Nat
    BY FS_CardinalityType
<1> HIDE DEF N
<1>3. h \in Injection(1 .. N, S) /\ IsInjective(h)
    BY <1>1 DEF Injection, IsInjective
<1>4. IsFiniteSet(1 .. N) /\ Cardinality(1 .. N) = N
    BY <1>2, FS_Interval
<1>5. h \in Surjection(1 .. N, S)
    BY <1>3, <1>4, FS_Injection DEF N
<1>6. ToSet(h) = S
    BY <1>1, <1>5 DEF Surjection, ToSet
<1> QED
    BY <1>1, <1>2, <1>3, <1>6, SeqDef

\* What is missing of a group, in its order.
LEMMA MissingIs ==
    ASSUME NEW g \in Groups
    PROVE  /\ Missing(g) \in Seq(Requests) /\ IsInjective(Missing(g))
           /\ ToSet(Missing(g)) = ToSet(g) \ Generated
<1> DEFINE S == ToSet(g) \ Generated
           h == Missing(g)
<1>1. g \in Seq(Requests) /\ IsInjective(g)
    BY PipelineAssumption
<1>2. S \subseteq ToSet(g)
    OBVIOUS
<1>3. IsFiniteSet(ToSet(g)) /\ ToSet(g) \subseteq Requests
  <2>1. \A i \in DOMAIN g : g[i] \in Requests
      BY <1>1, LenProperties, ElementOfSeq
  <2> QED
      BY <1>1, <2>1, SizeOfGroup DEF ToSet
<1> HIDE DEF S
<1>4. h \in SetToSeqs(S)
  <2>1. \E k \in SetToSeqs(S) : \A i, j \in DOMAIN k :
           i < j => \E a, b \in DOMAIN g : a < b /\ g[a] = k[i] /\ g[b] = k[j]
      BY <1>1, <1>2, OrderExists
  <2>2. h = InOrder(S, g)
      BY DEF Missing, S
  <2> QED
      BY <2>1, <2>2, Zenon DEF InOrder
<1>5. IsFiniteSet(S) /\ S \subseteq Requests
    BY <1>2, <1>3, FS_Subset
<1> HIDE DEF h
<1>6. h \in Seq(S) /\ IsInjective(h) /\ ToSet(h) = S
    BY <1>4, <1>5, Enumerates
<1>7. h \in Seq(Requests)
    BY <1>5, <1>6, SeqMonotonic
<1> QED
    BY <1>6, <1>7 DEF h, S

LEMMA Remainder ==
    ASSUME NEW a \in Nat, NEW k \in Nat \ {0}
    PROVE  \E q \in Nat : a = k * q + (a % k) /\ (a % k) \in 0 .. k - 1
<1> DEFINE q == a \div k
           r == a % k
<1>1. a = k * q + r /\ q \in Nat /\ r \in 0 .. k - 1
    OBVIOUS
<1> HIDE DEF q, r
<1>2. \E p \in Nat : a = k * p + r /\ r \in 0 .. k - 1
    BY <1>1
<1> QED
    BY <1>2 DEF r

\* A multiple of k has the remainder 0.
LEMMA Multiple ==
    ASSUME NEW k \in Nat \ {0}, NEW q \in Nat
    PROVE  (k * q) % k = 0
<1> DEFINE a == k * q
<1>1. a \in Nat
    OBVIOUS
<1>2. PICK p \in Nat : a = k * p + (a % k) /\ (a % k) \in 0 .. k - 1
    BY <1>1, Remainder
<1> DEFINE r == a % k
<1> HIDE DEF r
<1>3. r = k * (q - p) /\ r \in 0 .. k - 1
    BY <1>2 DEF r
<1>4. q - p \in Int
    OBVIOUS
<1>5. ~(q - p >= 1)
  <2> SUFFICES ASSUME q - p >= 1 PROVE FALSE
      OBVIOUS
  <2>1. k * ((q - p) - 1) \in Nat
      OBVIOUS
  <2>2. k * (q - p) = k * ((q - p) - 1) + k
      OBVIOUS
  <2> QED
      BY <1>3, <2>1, <2>2
<1>6. ~(q - p <= -1)
  <2> SUFFICES ASSUME q - p <= -1 PROVE FALSE
      OBVIOUS
  <2>1. k * ((p - q) - 1) \in Nat
      OBVIOUS
  <2>2. k * (q - p) = -(k * ((p - q) - 1)) - k
      OBVIOUS
  <2> QED
      BY <1>3, <2>1, <2>2
<1>7. q - p = 0
    BY <1>4, <1>5, <1>6
<1> QED
    BY <1>3, <1>7 DEF r

\* Different multiples of k are at least k apart.
LEMMA Apart ==
    ASSUME NEW k \in Nat \ {0}, NEW a \in Nat, NEW b \in Nat, a % k = 0, b % k = 0, a < b
    PROVE  a + k <= b
<1>1. PICK p \in Nat : a = k * p
  <2>1. PICK p \in Nat : a = k * p + (a % k) /\ (a % k) \in 0 .. k - 1
      BY Remainder
  <2>2. k * p \in Nat
      OBVIOUS
  <2> QED
      BY <2>1, <2>2
<1>2. PICK q \in Nat : b = k * q
  <2>1. PICK q \in Nat : b = k * q + (b % k) /\ (b % k) \in 0 .. k - 1
      BY Remainder
  <2>2. k * q \in Nat
      OBVIOUS
  <2> QED
      BY <2>1, <2>2
<1>3. p < q
  <2> SUFFICES ASSUME q <= p PROVE FALSE
      OBVIOUS
  <2>1. k * (p - q) \in Nat /\ k * p = k * q + k * (p - q)
      OBVIOUS
  <2> QED
      BY <1>1, <1>2, <2>1
<1>4. k * (q - p - 1) \in Nat /\ k * q = k * p + k + k * (q - p - 1)
    BY <1>3
<1> QED
    BY <1>1, <1>2, <1>4

Parts == Seq(Requests) \ {<<>>}

LEMMA Slice ==
    ASSUME NEW S, NEW g \in Seq(S), IsInjective(g), NEW i \in 1 .. Len(g), NEW e \in i .. Len(g)
    PROVE  /\ SubSeq(g, i, e) \in Seq(S) /\ SubSeq(g, i, e) # <<>>
           /\ IsInjective(SubSeq(g, i, e)) /\ Len(SubSeq(g, i, e)) = e - i + 1
           /\ ToSet(SubSeq(g, i, e)) = {g[k] : k \in i .. e}
<1> DEFINE p == SubSeq(g, i, e)
           n == Len(g)
<1>1. n \in Nat /\ DOMAIN g = 1 .. n /\ \A k \in 1 .. n : g[k] \in S
    BY LenProperties, ElementOfSeq
<1>2. i \in Nat \ {0} /\ e \in Nat /\ i <= e /\ e <= n /\ i .. e \subseteq 1 .. n
    BY <1>1
<1> HIDE DEF n
<1>3. \A k \in i .. e : g[k] \in S
    BY <1>1, <1>2
<1>4. p \in Seq(S) /\ Len(p) = e - i + 1 /\ \A k \in 1 .. e - i + 1 : p[k] = g[i + k - 1]
    BY <1>2, <1>3, SubSeqProperties
<1> HIDE DEF p
<1>5. DOMAIN p = 1 .. e - i + 1 /\ e - i + 1 \in Nat \ {0}
    BY <1>2, <1>4, LenProperties
<1>6. p # <<>>
    BY <1>4, <1>5, EmptySeq
<1>7. IsInjective(p)
  <2> SUFFICES ASSUME NEW a \in 1 .. e - i + 1, NEW b \in 1 .. e - i + 1, p[a] = p[b]
               PROVE  a = b
      BY <1>5 DEF IsInjective
  <2>1. i + a - 1 \in 1 .. n /\ i + b - 1 \in 1 .. n /\ a \in Int /\ b \in Int
      BY <1>1, <1>2
  <2>2. i + a - 1 = i + b - 1
      BY <1>1, <1>4, <2>1 DEF IsInjective
  <2> QED
      BY <1>2, <2>1, <2>2
<1>8. ToSet(p) = {g[k] : k \in i .. e}
  <2>1. ToSet(p) = {p[k] : k \in 1 .. e - i + 1}
      BY <1>5 DEF ToSet
  <2>2. ASSUME NEW k \in 1 .. e - i + 1 PROVE i + k - 1 \in i .. e /\ p[k] = g[i + k - 1]
      BY <1>2, <1>4
  <2>3. ASSUME NEW k \in i .. e
        PROVE  k - i + 1 \in 1 .. e - i + 1 /\ p[k - i + 1] = g[k]
    <3>1. k - i + 1 \in 1 .. e - i + 1 /\ i + (k - i + 1) - 1 = k
        BY <1>2
    <3>2. p[k - i + 1] = g[i + (k - i + 1) - 1]
        BY <1>4, <3>1
    <3> QED
        BY <3>1, <3>2
  <2>4. ASSUME NEW x \in ToSet(p) PROVE x \in {g[k] : k \in i .. e}
      BY <2>1, <2>2
  <2>5. ASSUME NEW x \in {g[k] : k \in i .. e} PROVE x \in ToSet(p)
    <3>1. PICK k \in i .. e : x = g[k]
        OBVIOUS
    <3>2. k - i + 1 \in 1 .. e - i + 1 /\ p[k - i + 1] = x
        BY <2>3, <3>1
    <3> QED
        BY <2>1, <3>2
  <2> QED
      BY <2>4, <2>5
<1> QED
    BY <1>4, <1>6, <1>7, <1>8 DEF p

\* A group is split into parts of at most group_cap requests, none lost and none in
\* two of them.
LEMMA SplitIs ==
    ASSUME groupCap \in Nat, NEW g \in Seq(Requests), IsInjective(g), g # <<>>
    PROVE  /\ \A p \in Split(g) : /\ p \in Parts /\ IsInjective(p)
                                  /\ ToSet(p) \subseteq ToSet(g)
                                  /\ groupCap > 0 => Len(p) <= groupCap
           /\ \A p, q \in Split(g) : p # q => ToSet(p) \cap ToSet(q) = {}
           /\ \A r \in ToSet(g) : \E p \in Split(g) : r \in ToSet(p)
<1> DEFINE n == Len(g)
           Starts == {j \in 1 .. n : (j - 1) % groupCap = 0}
           last(i) == IF i + groupCap - 1 < n THEN i + groupCap - 1 ELSE n
<1>1. CASE groupCap = 0
    BY <1>1 DEF Split, Parts
<1>2. CASE groupCap \in Nat \ {0}
  <2>1. Split(g) = {SubSeq(g, i, last(i)) : i \in Starts}
      BY <1>2 DEF Split
  <2>2. n \in Nat /\ DOMAIN g = 1 .. n
      BY LenProperties
  <2>3. Starts \subseteq 1 .. n /\ \A i \in Starts : (i - 1) % groupCap = 0
      OBVIOUS
  <2>4. ASSUME NEW i \in 1 .. n
        PROVE  /\ last(i) \in i .. n /\ last(i) - i + 1 <= groupCap
               /\ \A k \in i .. n : k < i + groupCap => k <= last(i)
      BY <1>2, <2>2
  <2>5. \A k \in 1 .. n : \E i \in Starts : i <= k /\ k < i + groupCap
    <3> SUFFICES ASSUME NEW k \in 1 .. n PROVE \E i \in Starts : i <= k /\ k < i + groupCap
        OBVIOUS
    <3>1. k - 1 \in Nat
        BY <2>2
    <3>2. PICK q \in Nat : /\ k - 1 = groupCap * q + ((k - 1) % groupCap)
                           /\ ((k - 1) % groupCap) \in 0 .. groupCap - 1
        BY <1>2, <3>1, Remainder
    <3> DEFINE m == groupCap * q
    <3>3. m \in Nat /\ m % groupCap = 0
        BY <1>2, Multiple
    <3> HIDE DEF m
    <3>4. m <= k - 1 /\ k - 1 < m + groupCap
        BY <1>2, <3>1, <3>2, <3>3 DEF m
    <3>5. m + 1 \in 1 .. n /\ (m + 1) - 1 = m
        BY <2>2, <3>3, <3>4
    <3>6. m + 1 \in Starts
        BY <3>3, <3>5
    <3>7. m + 1 <= k /\ k < (m + 1) + groupCap
        BY <1>2, <3>1, <3>3, <3>4
    <3> HIDE DEF Starts
    <3> QED
        BY <3>6, <3>7
  <2>6. \A i, j \in Starts : i < j => i + groupCap <= j
    <3> SUFFICES ASSUME NEW i \in Starts, NEW j \in Starts, i < j PROVE i + groupCap <= j
        OBVIOUS
    <3>1. i - 1 \in Nat /\ j - 1 \in Nat /\ i - 1 < j - 1
        BY <2>2
    <3>2. (i - 1) + groupCap <= j - 1
        BY <1>2, <2>3, <3>1, Apart
    <3> QED
        BY <1>2, <3>1, <3>2
  <2> HIDE DEF n, Starts, last
  <2>7. \A i \in Starts : /\ SubSeq(g, i, last(i)) \in Seq(Requests)
                          /\ SubSeq(g, i, last(i)) # <<>>
                          /\ IsInjective(SubSeq(g, i, last(i)))
                          /\ Len(SubSeq(g, i, last(i))) = last(i) - i + 1
                          /\ ToSet(SubSeq(g, i, last(i))) = {g[k] : k \in i .. last(i)}
    <3> SUFFICES ASSUME NEW i \in Starts
                 PROVE  /\ SubSeq(g, i, last(i)) \in Seq(Requests)
                        /\ SubSeq(g, i, last(i)) # <<>>
                        /\ IsInjective(SubSeq(g, i, last(i)))
                        /\ Len(SubSeq(g, i, last(i))) = last(i) - i + 1
                        /\ ToSet(SubSeq(g, i, last(i))) = {g[k] : k \in i .. last(i)}
        OBVIOUS
    <3>1. i \in 1 .. Len(g) /\ last(i) \in i .. Len(g)
        BY <2>3, <2>4 DEF n
    <3> QED
        BY <3>1, Slice
  <2>8. ASSUME NEW p \in Split(g)
        PROVE  /\ p \in Parts /\ IsInjective(p) /\ ToSet(p) \subseteq ToSet(g)
               /\ Len(p) <= groupCap
    <3>1. PICK i \in Starts : p = SubSeq(g, i, last(i))
        BY <2>1
    <3>2. \A k \in i .. last(i) : k \in 1 .. n
        BY <2>2, <2>3, <2>4
    <3>3. ToSet(p) \subseteq ToSet(g)
        BY <2>2, <2>7, <3>1, <3>2 DEF ToSet
    <3> QED
        BY <2>3, <2>4, <2>7, <3>1, <3>3 DEF Parts
  <2>9. ASSUME NEW p \in Split(g), NEW q \in Split(g), NEW r \in ToSet(p) \cap ToSet(q)
        PROVE  p = q
    <3>1. PICK i \in Starts : p = SubSeq(g, i, last(i))
        BY <2>1
    <3>2. PICK j \in Starts : q = SubSeq(g, j, last(j))
        BY <2>1
    <3>3. PICK k \in i .. last(i) : g[k] = r
        BY <2>7, <3>1
    <3>4. PICK l \in j .. last(j) : g[l] = r
        BY <2>7, <3>2
    <3>5. /\ i \in Nat /\ j \in Nat /\ last(i) \in i .. n /\ last(j) \in j .. n
          /\ last(i) - i + 1 <= groupCap /\ last(j) - j + 1 <= groupCap
        BY <2>2, <2>3, <2>4
    <3>6. k = l
      <4>1. k \in 1 .. n /\ l \in 1 .. n
          BY <2>2, <2>3, <3>5
      <4> QED
          BY <2>2, <3>3, <3>4, <4>1 DEF IsInjective
    <3>7. ~(i < j) /\ ~(j < i)
        BY <1>2, <2>2, <2>6, <3>5, <3>6
    <3>8. i = j
        BY <3>5, <3>7
    <3> QED
        BY <3>1, <3>2, <3>8
  <2>10. ASSUME NEW r \in ToSet(g) PROVE \E p \in Split(g) : r \in ToSet(p)
    <3>1. PICK k \in 1 .. n : g[k] = r
        BY <2>2 DEF ToSet
    <3>2. PICK i \in Starts : i <= k /\ k < i + groupCap
        BY <2>5
    <3>3. k \in i .. last(i)
        BY <2>2, <2>3, <2>4, <3>2
    <3>4. r \in ToSet(SubSeq(g, i, last(i)))
        BY <2>7, <3>1, <3>3
    <3> QED
        BY <2>1, <3>4
  <2> QED
      BY <2>8, <2>9, <2>10
<1> QED
    BY <1>1, <1>2

\* Everything not generated is in one part of what is loaded.
LEMMA LoadIs ==
    ASSUME groupCap \in Nat, Load
    PROVE  /\ todo' \subseteq Parts
           /\ \A p \in todo' : IsInjective(p) /\ (groupCap > 0 => Len(p) <= groupCap)
           /\ \A p, q \in todo' : p # q => ToSet(p) \cap ToSet(q) = {}
           /\ \A r \in Requests \ Generated : \E p \in todo' : r \in ToSet(p)
<1> DEFINE Left == {h \in Groups : Missing(h) # <<>>}
<1>1. todo' = UNION {Split(Missing(g)) : g \in Left}
    BY DEF Load
<1>2. \A g \in Left : /\ g \in Groups /\ Missing(g) # <<>>
                      /\ Missing(g) \in Seq(Requests) /\ IsInjective(Missing(g))
                      /\ ToSet(Missing(g)) \subseteq ToSet(g)
    BY MissingIs
<1>3. ASSUME NEW r \in Requests \ Generated
      PROVE  \E g \in Left : r \in ToSet(Missing(g))
  <2>1. PICK g \in Groups : r \in ToSet(g)
      BY DEF Requests
  <2>2. r \in ToSet(Missing(g))
      BY <2>1, MissingIs
  <2>3. Missing(g) # <<>>
      BY <2>2 DEF ToSet
  <2> QED
      BY <2>2, <2>3
<1> HIDE DEF Left
<1>4. \A p \in todo' : \E g \in Left : p \in Split(Missing(g))
    BY <1>1
<1>5. ASSUME NEW p \in todo'
      PROVE  p \in Parts /\ IsInjective(p) /\ (groupCap > 0 => Len(p) <= groupCap)
    BY <1>2, <1>4, SplitIs
<1>6. ASSUME NEW p \in todo', NEW q \in todo', NEW r \in ToSet(p) \cap ToSet(q)
      PROVE  p = q
  <2>1. PICK g \in Left : p \in Split(Missing(g))
      BY <1>4
  <2>2. PICK h \in Left : q \in Split(Missing(h))
      BY <1>4
  <2>3. r \in ToSet(Missing(g)) /\ r \in ToSet(Missing(h))
      BY <1>2, <2>1, <2>2, SplitIs
  <2>4. g = h
      BY <1>2, <2>3, PipelineAssumption
  <2> QED
      BY <1>2, <2>1, <2>2, <2>4, SplitIs
<1>7. ASSUME NEW r \in Requests \ Generated PROVE \E p \in todo' : r \in ToSet(p)
  <2>1. PICK g \in Left : r \in ToSet(Missing(g))
      BY <1>3
  <2>2. PICK p \in Split(Missing(g)) : r \in ToSet(p)
      BY <1>2, <2>1, SplitIs
  <2> QED
      BY <1>1, <2>2
<1> QED
    BY <1>5, <1>6, <1>7

-----------------------------------------------------------------------------
(* The invariant of a process *)

\* A queue of groups: None is put at its end once, when no more will come.
Line(q, closed) ==
    /\ q \in Seq(Parts \cup {None}) /\ IsInjective(q)
    /\ IF closed THEN q # <<>> /\ q[Len(q)] = None ELSE None \notin ToSet(q)

\* The groups no server has been given yet.
Waiting ==
    todo \cup (ToSet(poolQ) \ {None}) \cup (IF routed = <<>> THEN {} ELSE {routed})

LineInv ==
    /\ groupCap \in Nat
    /\ Line(poolQ, producer = "done" /\ router # "done")
    /\ todo \subseteq Parts /\ routed \in Seq(Requests)
    /\ todo \cap ToSet(poolQ) = {} /\ routed \notin todo \cup ToSet(poolQ)
    /\ producer = "load" => Waiting = {} /\ \A r \in Requests : phase[r] = "idle"
    /\ producer \in {"groups", "done"} => rescore = {}
    /\ producer = "done" => todo = {}
    /\ router \in {"place", "wait"} <=> routed # <<>>
    /\ router = "done" => producer = "done" /\ poolQ = <<>>
    /\ DOMAIN serverQ = Servers
    /\ \A s \in Servers : Line(serverQ[s], router = "done" /\ s \notin stopped)
    /\ \A s \in stopped : router = "done" /\ serverQ[s] = <<>>

\* What waits is in one group, and nothing has been done for it.
WaitInv ==
    /\ \A g \in Waiting :
          /\ IsInjective(g) /\ (groupCap > 0 => Len(g) <= groupCap)
          /\ \A r \in ToSet(g) : phase[r] = "idle"
    /\ \A g, h \in Waiting : g # h => ToSet(g) \cap ToSet(h) = {}

\* What a server has on its queue nobody has begun.
ServeInv ==
    /\ phase \in [Requests -> Phases] /\ DOMAIN batch = Requests /\ DOMAIN at = Requests
    /\ \A r \in Requests : phase[r] # "idle" => at[r] \in Servers
    /\ \A s \in Servers : \A g \in ToSet(serverQ[s]) \ {None} : \A r \in ToSet(g) :
          phase[r] = "queued" /\ at[r] = s /\ batch[r] = g

\* What server s has been given and has not answered.
Under(s) ==
    {r \in Requests : at[r] = s /\ phase[r] \in {"queued", "behind", "ready", "calling"}}

AdmitInv ==
    /\ DOMAIN outstanding = Servers
    /\ \A s \in Servers : /\ outstanding[s] = Cardinality(Under(s))
                          /\ groupCap > 0 => outstanding[s] <= DHigh - 1 + groupCap

\* A failure is final in its process.
FailInv ==
    /\ genFailed \subseteq Requests
    /\ \A r \in genFailed : phase[r] = "done" /\ r \notin Generated

\* No request is lost on its way.
Scoring(r) == r \in scored \cup rescore \cup ToSet(genQ) \/ \E e \in Evaluators : holds[e] = r

CoverInv ==
    \A r \in Requests :
       /\ phase[r] = "idle" /\ producer # "load" =>
             Scoring(r) \/ \E g \in Waiting : r \in ToSet(g)
       /\ phase[r] = "done" => Scoring(r) \/ r \in genFailed

EndInv ==
    /\ main \in {"stop", "ended"} =>
          /\ producer = "done" /\ router = "done" /\ stopped = Servers /\ genQ = <<>>
          /\ \A r \in Requests : phase[r] \in {"idle", "done"}
    /\ main = "ended" => \A e \in Evaluators : holds[e] = None

SummaryInv ==
    /\ finishing \in {"open", "write"} => Finished(scored, genFailed)
    /\ SummaryCoversRun

RunInv ==
    LineInv /\ WaitInv /\ ServeInv /\ AdmitInv /\ FailInv /\ CoverInv /\ EndInv /\ SummaryInv

-----------------------------------------------------------------------------
(* Steps on queues *)

LEMMA NoneIsNoGroup == None \notin Parts /\ None \notin Requests
BY PipelineAssumption DEF Parts

LEMMA LinePut ==
    ASSUME NEW q, Line(q, FALSE), NEW g \in Parts, g \notin ToSet(q)
    PROVE  Line(Append(q, g), FALSE) /\ ToSet(Append(q, g)) = ToSet(q) \cup {g}
<1>1. /\ Append(q, g) \in Seq(Parts \cup {None}) /\ IsInjective(Append(q, g))
      /\ ToSet(Append(q, g)) = ToSet(q) \cup {g}
    BY AppendNew DEF Line
<1> QED
    BY <1>1, NoneIsNoGroup DEF Line

LEMMA LineClose ==
    ASSUME NEW q, Line(q, FALSE)
    PROVE  Line(Append(q, None), TRUE) /\ ToSet(Append(q, None)) = ToSet(q) \cup {None}
BY AppendNew DEF Line

LEMMA LineTake ==
    ASSUME NEW q, NEW closed \in BOOLEAN, Line(q, closed), q # <<>>
    PROVE  /\ Head(q) \in ToSet(q) /\ ToSet(Tail(q)) = ToSet(q) \ {Head(q)}
           /\ Head(q) = None => closed /\ Tail(q) = <<>>
           /\ Head(q) # None => Head(q) \in Parts /\ Line(Tail(q), closed)
<1>1. /\ Head(q) \in ToSet(q) /\ Head(q) \in Parts \cup {None} /\ q[Len(q)] \in ToSet(q)
      /\ Tail(q) \in Seq(Parts \cup {None}) /\ IsInjective(Tail(q))
      /\ ToSet(Tail(q)) = ToSet(q) \ {Head(q)}
      /\ IF q[Len(q)] = Head(q) THEN Tail(q) = <<>>
         ELSE Tail(q) # <<>> /\ Tail(q)[Len(Tail(q))] = q[Len(q)]
    BY TakeFirst DEF Line
<1>2. CASE closed
    BY <1>1, <1>2 DEF Line
<1>3. CASE ~closed
    BY <1>1, <1>3 DEF Line
<1> QED
    BY <1>2, <1>3

LEMMA LineEmpty == Line(<<>>, FALSE) /\ ToSet(<<>>) = {}
<1>1. <<>> \in Seq(Parts \cup {None}) /\ DOMAIN <<>> = {}
    BY EmptySeq
<1> QED
    BY <1>1 DEF Line, IsInjective, ToSet

-----------------------------------------------------------------------------
(* What steps have in common *)

\* A process that has just been started, or killed.
Blank ==
    /\ main \in {"off", "run"} /\ finishing = "no" /\ producer = "load"
    /\ rescore = {} /\ todo = {} /\ poolQ = <<>> /\ router = "get" /\ routed = <<>>
    /\ serverQ = [s \in Servers |-> <<>>] /\ outstanding = [s \in Servers |-> 0]
    /\ stopped = {} /\ phase = [r \in Requests |-> "idle"]
    /\ batch = [r \in Requests |-> <<>>] /\ DOMAIN at = Requests
    /\ genFailed = {}

LEMMA BlankRun ==
    groupCap \in Nat /\ Blank /\ SummaryCoversRun => RunInv
<1> SUFFICES ASSUME groupCap \in Nat, Blank, SummaryCoversRun
             PROVE  RunInv
    OBVIOUS
<1>1. Waiting = {}
    BY LineEmpty DEF Blank, Waiting
<1>2. LineInv
  <2>1. Line(poolQ, producer = "done" /\ router # "done")
      BY LineEmpty DEF Blank
  <2>2. \A s \in Servers : Line(serverQ[s], router = "done" /\ s \notin stopped)
      BY LineEmpty DEF Blank
  <2>3. \A r \in Requests : phase[r] = "idle"
      BY DEF Blank
  <2>4. routed \in Seq(Requests)
      BY EmptySeq DEF Blank
  <2>5. ToSet(poolQ) = {}
      BY LineEmpty DEF Blank
  <2> QED
      BY <1>1, <2>1, <2>2, <2>3, <2>4, <2>5 DEF Blank, LineInv
<1>3. WaitInv
    BY <1>1 DEF WaitInv
<1>4. ServeInv
  <2>1. \A s \in Servers : ToSet(serverQ[s]) = {}
      BY LineEmpty DEF Blank
  <2>2. phase \in [Requests -> Phases] /\ DOMAIN batch = Requests /\ DOMAIN at = Requests
        /\ \A r \in Requests : phase[r] = "idle"
      BY DEF Blank, Phases
  <2> QED
      BY <2>1, <2>2 DEF ServeInv
<1>5. AdmitInv
  <2>1. \A s \in Servers : Under(s) = {}
      BY DEF Under, Blank
  <2>2. \A s \in Servers : outstanding[s] = 0
      BY DEF Blank
  <2>3. DHigh \in Nat \ {0}
      BY PipelineAssumption
  <2>4. \A s \in Servers : outstanding[s] = Cardinality(Under(s))
      BY <2>1, <2>2, FS_EmptySet
  <2>5. \A s \in Servers : outstanding[s] <= DHigh - 1 + groupCap
      BY <2>2, <2>3
  <2> QED
      BY <2>4, <2>5 DEF Blank, AdmitInv
<1>6. FailInv /\ CoverInv /\ EndInv
    BY DEF Blank, FailInv, CoverInv, EndInv
<1>7. SummaryInv
    BY DEF Blank, SummaryInv
<1> QED
    BY <1>2, <1>3, <1>4, <1>5, <1>6, <1>7 DEF RunInv

LEMMA BlankNext ==
    (groupCap \in Nat /\ Blank /\ SummaryCoversRun)' => RunInv'
BY BlankRun, PTL

Forth ==
    {<<"behind", "ready">>, <<"ready", "calling">>, <<"calling", "ready">>,
     <<"calling", "notify">>, <<"notify", "put">>, <<"notify", "done">>, <<"put", "done">>}

\* How the phases of requests under way go on; what waits is left alone.
Moves ==
    /\ phase' \in [Requests -> Phases]
    /\ \A q \in Requests : phase'[q] = phase[q] \/ <<phase[q], phase'[q]>> \in Forth

LEMMA MovesFix ==
    ASSUME Moves, NEW q \in Requests
    PROVE  /\ phase'[q] = "idle" <=> phase[q] = "idle"
           /\ phase'[q] = "queued" <=> phase[q] = "queued"
           /\ phase[q] = "done" => phase'[q] = "done"
BY DEF Moves, Forth

LEMMA Unmoved ==
    ASSUME ServeInv, phase' = phase
    PROVE  Moves
BY DEF ServeInv, Moves

LEMMA QueuesKept ==
    ASSUME LineInv, WaitInv, ServeInv, Moves,
           UNCHANGED <<groupCap, todo, poolQ, routed, serverQ, stopped, at, batch>>,
           producer' = "done" <=> producer = "done", producer' = "load" => producer = "load",
           producer' \in {"groups", "done"} => rescore' = {},
           router' = "done" <=> router = "done",
           router' \in {"place", "wait"} <=> router \in {"place", "wait"}
    PROVE  LineInv' /\ WaitInv' /\ ServeInv' /\ Waiting' = Waiting
<1>1. Waiting' = Waiting
    BY DEF Waiting
<1>3. LineInv'
  <2>1. Line(poolQ', producer' = "done" /\ router' # "done")
    <3>1. (producer' = "done" /\ router' # "done") <=> (producer = "done" /\ router # "done")
        OBVIOUS
    <3> QED
        BY <3>1 DEF LineInv, Line
  <2>2. \A s \in Servers : Line(serverQ'[s], router' = "done" /\ s \notin stopped')
    <3>1. \A s : (router' = "done" /\ s \notin stopped') <=> (router = "done" /\ s \notin stopped)
        OBVIOUS
    <3> QED
        BY <3>1 DEF LineInv, Line
  <2>3. producer' = "load" => \A r \in Requests : phase'[r] = "idle"
      BY MovesFix DEF LineInv
  <2> QED
      BY <1>1, <2>1, <2>2, <2>3 DEF LineInv
<1>4. WaitInv'
  <2>1. \A g \in Waiting : \A r \in ToSet(g) : r \in Requests
    <3> SUFFICES ASSUME NEW g \in Waiting PROVE g \in Seq(Requests)
        BY LenProperties, ElementOfSeq DEF ToSet
    <3>1. \A x \in ToSet(poolQ) : x \in Parts \cup {None}
        BY LenProperties, ElementOfSeq DEF LineInv, Line, ToSet
    <3> QED
        BY <3>1 DEF Waiting, LineInv, Parts
  <2> QED
      BY <1>1, <2>1, MovesFix DEF WaitInv
<1>5. ServeInv'
  <2>1. \A r \in Requests : phase'[r] # "idle" => at'[r] \in Servers
      BY MovesFix DEF ServeInv
  <2>2. \A s \in Servers : \A g \in ToSet(serverQ[s]) \ {None} : \A r \in ToSet(g) : r \in Requests
    <3> SUFFICES ASSUME NEW s \in Servers, NEW g \in ToSet(serverQ[s]) \ {None}
                 PROVE g \in Seq(Requests)
        BY LenProperties, ElementOfSeq DEF ToSet
    <3>1. serverQ[s] \in Seq(Parts \cup {None})
        BY DEF LineInv, Line
    <3> QED
        BY <3>1, LenProperties, ElementOfSeq DEF ToSet, Parts
  <2>3. \A s \in Servers : \A g \in ToSet(serverQ'[s]) \ {None} : \A r \in ToSet(g) :
           phase'[r] = "queued" /\ at'[r] = s /\ batch'[r] = g
      BY <2>2, MovesFix DEF ServeInv
  <2> QED
      BY <2>1, <2>3 DEF ServeInv, Moves
<1> QED
    BY <1>1, <1>3, <1>4, <1>5

\* There are finitely many requests.
LEMMA RequestsFinite == IsFiniteSet(Requests)
<1>1. \A g \in Groups : IsFiniteSet(ToSet(g))
    BY PipelineAssumption, SizeOfGroup
<1> DEFINE S == {ToSet(g) : g \in Groups}
           f == [g \in Groups |-> ToSet(g)]
<1>2. IsFiniteSet(S)
  <2>1. f \in Surjection(Groups, S)
      BY DEF Surjection
  <2> HIDE DEF f, S
  <2> QED
      BY <2>1, PipelineAssumption, FS_Surjection
<1>3. \A x \in S : IsFiniteSet(x)
    BY <1>1
<1> HIDE DEF S
<1>4. IsFiniteSet(UNION S)
    BY <1>2, <1>3, FS_UNION
<1> QED
    BY <1>4 DEF S, Requests

LEMMA AdmitKept ==
    ASSUME AdmitInv, UNCHANGED <<outstanding, at, groupCap>>,
           \A q \in Requests :
              phase'[q] \in {"queued", "behind", "ready", "calling"} <=>
              phase[q] \in {"queued", "behind", "ready", "calling"}
    PROVE  AdmitInv'
<1>1. \A s \in Servers : Under(s)' = Under(s)
    BY DEF Under
<1> QED
    BY <1>1 DEF AdmitInv

LEMMA FailKept ==
    ASSUME FailInv, UNCHANGED <<genFailed, generations>>,
           \A q \in Requests : phase[q] = "done" => phase'[q] = "done"
    PROVE  FailInv'
<1>1. Generated' = Generated
    BY DEF Generated
<1> QED
    BY <1>1 DEF FailInv

LEMMA CoverKept ==
    ASSUME CoverInv, producer' = "load" \/ producer # "load",
           \A g \in Waiting : g \in Waiting',
           \A r \in Requests : Scoring(r) => Scoring(r)',
           genFailed \subseteq genFailed',
           \A r \in Requests : phase'[r] = "idle" => phase[r] = "idle",
           \A r \in Requests :
              phase'[r] = "done" => phase[r] = "done" \/ Scoring(r)' \/ r \in genFailed'
    PROVE  CoverInv'
<1> SUFFICES ASSUME NEW r \in Requests
             PROVE  /\ phase'[r] = "idle" /\ producer' # "load" =>
                         Scoring(r)' \/ \E g \in Waiting' : r \in ToSet(g)
                    /\ phase'[r] = "done" => Scoring(r)' \/ r \in genFailed'
    BY DEF CoverInv
<1>1. ASSUME phase'[r] = "idle", producer' # "load"
      PROVE  Scoring(r)' \/ \E g \in Waiting' : r \in ToSet(g)
  <2>1. Scoring(r) \/ \E g \in Waiting : r \in ToSet(g)
      BY <1>1 DEF CoverInv
  <2> QED
      BY <2>1
<1>2. ASSUME phase'[r] = "done" PROVE Scoring(r)' \/ r \in genFailed'
  <2>1. CASE phase[r] = "done"
      BY <2>1 DEF CoverInv
  <2> QED
      BY <1>2, <2>1
<1> QED
    BY <1>1, <1>2

LEMMA ScoringSame ==
    ASSUME UNCHANGED <<scored, rescore, genQ, holds>>, NEW r
    PROVE  Scoring(r)' <=> Scoring(r)
BY DEF Scoring

LEMMA SummaryKept ==
    ASSUME SummaryInv, finishing = "no", modelSummary' = modelSummary,
           UNCHANGED <<finishing, summary>> \/ MaybeFinish
    PROVE  SummaryInv'
<1>1. CASE UNCHANGED <<finishing, summary>>
    BY <1>1 DEF SummaryInv, SummaryCoversRun
<1>2. CASE MaybeFinish
  <2>1. CASE Finished(scored', genFailed')
    <3>1. finishing' = "open" /\ summary' = summary
        BY <1>2, <2>1 DEF MaybeFinish
    <3>2. Finished(scored, genFailed)'
        BY <2>1 DEF Finished
    <3> QED
        BY <3>1, <3>2 DEF SummaryInv, SummaryCoversRun
  <2>2. CASE ~Finished(scored', genFailed')
    <3>1. UNCHANGED <<finishing, summary>>
        BY <1>2, <2>2 DEF MaybeFinish
    <3> QED
        BY <1>1, <3>1
  <2> QED
      BY <2>1, <2>2
<1> QED
    BY <1>1, <1>2

\* When the pipeline is drained, nothing but the scoring of what is held goes on.
LEMMA StillRuns ==
    ASSUME LineInv, WaitInv, ServeInv, EndInv, main \in {"run", "stop"},
           \/ Load \/ Rescore \/ Rescored \/ Feed \/ RouterGet \/ Admit \/ AdmitWait
           \/ \E s \in Servers : TakeGroup(s)
           \/ \E r \in Requests :
                 \/ Call(r) \/ Retry(r) \/ Notify(r) \/ PutGen(r)
                 \/ \E row \in {"output", "error"} : Respond(r, row)
           \/ \E e \in Evaluators : EvalGet(e)
    PROVE  EndInv'
<1>1. main = "run"
  <2> SUFFICES ASSUME main = "stop" PROVE FALSE
      OBVIOUS
  <2>1. /\ producer = "done" /\ router = "done" /\ stopped = Servers /\ genQ = <<>>
        /\ \A r \in Requests : phase[r] \in {"idle", "done"}
      BY DEF EndInv
  <2>2. CASE Load \/ Rescore \/ Rescored \/ Feed \/ RouterGet \/ Admit \/ AdmitWait
      BY <2>1, <2>2 DEF Load, Rescore, Rescored, Feed, RouterGet, Admit, AdmitWait
  <2>3. CASE \E s \in Servers : TakeGroup(s)
      BY <2>1, <2>3 DEF TakeGroup
  <2>4. CASE \E r \in Requests : Call(r) \/ Retry(r) \/ Notify(r) \/ PutGen(r)
      BY <2>1, <2>4 DEF Call, Retry, Notify, PutGen
  <2>5. CASE \E r \in Requests, row \in {"output", "error"} : Respond(r, row)
      BY <2>1, <2>5 DEF Respond
  <2>6. CASE \E e \in Evaluators : EvalGet(e)
      BY <2>1, <2>6 DEF EvalGet
  <2> QED
      BY <2>2, <2>3, <2>4, <2>5, <2>6
<1>2. main' = main
    BY DEF Load, Rescore, Rescored, Feed, RouterGet, Admit, AdmitWait, TakeGroup, Call, Retry,
           Notify, PutGen, Respond, EvalGet
<1> QED
    BY <1>1, <1>2 DEF EndInv

-----------------------------------------------------------------------------
(* The steps of the evaluators and of the end *)

LEMMA AppendSet ==
    ASSUME NEW S, NEW q \in Seq(S), NEW x \in S
    PROVE  ToSet(q) \cup {x} \subseteq ToSet(Append(q, x))
<1> DEFINE d == Append(q, x)
           n == Len(q)
<1>1. /\ n \in Nat /\ DOMAIN q = 1 .. n /\ Len(d) = n + 1 /\ DOMAIN d = 1 .. n + 1
      /\ d[n + 1] = x /\ \A i \in 1 .. n : d[i] = q[i]
    BY AppendProperties, LenProperties
<1> HIDE DEF d, n
<1>2. \A i \in 1 .. n : i \in 1 .. n + 1
    BY <1>1
<1>3. n + 1 \in 1 .. n + 1
    BY <1>1
<1>4. \A y \in ToSet(q) : y \in ToSet(d)
    BY <1>1, <1>2 DEF ToSet
<1>5. x \in ToSet(d)
    BY <1>1, <1>3 DEF ToSet
<1> QED
    BY <1>4, <1>5 DEF d

LEMMA HeadOrTail ==
    ASSUME NEW S, NEW q \in Seq(S), q # <<>>, NEW x \in ToSet(q), x # Head(q)
    PROVE  x \in ToSet(Tail(q))
<1> DEFINE d == Tail(q)
           n == Len(q)
<1>1. n \in Nat \ {0} /\ DOMAIN q = 1 .. n
    BY EmptySeq, LenProperties
<1>2. /\ d \in Seq(S) /\ Len(d) = n - 1 /\ Head(q) = q[1]
      /\ \A i \in 1 .. n - 1 : d[i] = q[i + 1]
    BY HeadTailProperties
<1>3. DOMAIN d = 1 .. n - 1
    BY <1>2, LenProperties
<1> HIDE DEF d, n
<1>4. PICK i \in 1 .. n : x = q[i]
    BY <1>1 DEF ToSet
<1>5. i - 1 \in 1 .. n - 1 /\ (i - 1) + 1 = i
    BY <1>1, <1>2, <1>4
<1>6. d[i - 1] = x
    BY <1>2, <1>4, <1>5
<1> QED
    BY <1>3, <1>5, <1>6 DEF ToSet, d

Going == IInv /\ RunInv /\ main \in {"run", "stop"} /\ finishing = "no"

\* The steps that move no request through the servers.
LEMMA StillKept ==
    ASSUME RunInv,
           UNCHANGED <<groupCap, todo, poolQ, routed, serverQ, stopped, at, batch, phase,
                       outstanding, genFailed, generations>>,
           producer' = producer \/ (producer = "rescore" /\ producer' = "groups" /\ rescore' = {}),
           rescore' \subseteq rescore,
           router' = router \/ (router = "place" /\ router' = "wait"),
           \A r \in Requests : Scoring(r) => Scoring(r)'
    PROVE  LineInv' /\ WaitInv' /\ ServeInv' /\ AdmitInv' /\ FailInv' /\ CoverInv'
<1>1. Moves
    BY Unmoved DEF RunInv
<1>2. producer' \in {"groups", "done"} => rescore' = {}
    BY DEF RunInv, LineInv
<1>3. LineInv' /\ WaitInv' /\ ServeInv' /\ Waiting' = Waiting
    BY <1>1, <1>2, QueuesKept DEF RunInv
<1>4. AdmitInv'
    BY AdmitKept DEF RunInv
<1>5. FailInv'
    BY FailKept DEF RunInv
<1>6. CoverInv'
    BY <1>3, CoverKept DEF RunInv
<1> QED
    BY <1>3, <1>4, <1>5, <1>6

LEMMA RescoreRun ==
    ASSUME Going, Rescore \/ Rescored \/ AdmitWait
    PROVE  RunInv'
<1>1. /\ UNCHANGED <<groupCap, todo, poolQ, routed, serverQ, stopped, at, batch, phase,
                     outstanding, genFailed, generations, modelSummary, scored, holds>>
      /\ producer' = producer \/ (producer = "rescore" /\ producer' = "groups" /\ rescore' = {})
      /\ router' = router \/ (router = "place" /\ router' = "wait")
  <2>1. CASE Rescore
      BY <2>1 DEF Rescore, files, routing, work, eval
  <2>2. CASE Rescored
      BY <2>2 DEF Rescored, routing, work, eval
  <2>3. CASE AdmitWait
      BY <2>3 DEF AdmitWait, files, feed, work, eval
  <2> QED
      BY <2>1, <2>2, <2>3
<1>2. rescore' \subseteq rescore /\ \A r \in Requests : Scoring(r) => Scoring(r)'
  <2>1. CASE Rescore
    <3>1. PICK r \in rescore : rescore' = rescore \ {r} /\ genQ' = Append(genQ, r)
        BY <2>1 DEF Rescore
    <3>2. genQ \in Seq(Generated) /\ r \in Generated
        BY DEF Going, IInv, FlowInv
    <3>3. ToSet(genQ) \cup {r} \subseteq ToSet(genQ')
        BY <3>1, <3>2, AppendSet
    <3> QED
        BY <1>1, <3>1, <3>3 DEF Scoring
  <2>2. CASE Rescored \/ AdmitWait
    <3>1. UNCHANGED <<scored, rescore, genQ, holds>>
        BY <2>2 DEF Rescored, AdmitWait, eval, feed
    <3> QED
        BY <3>1, ScoringSame
  <2> QED
      BY <2>1, <2>2
<1>3. LineInv' /\ WaitInv' /\ ServeInv' /\ AdmitInv' /\ FailInv' /\ CoverInv'
    BY <1>1, <1>2, StillKept DEF Going
<1>4. EndInv'
    BY StillRuns DEF Going, RunInv
<1>5. UNCHANGED <<finishing, summary>> \/ MaybeFinish
    BY DEF Rescore, Rescored, AdmitWait, files
<1>6. SummaryInv'
    BY <1>1, <1>5, SummaryKept DEF Going, RunInv
<1> QED
    BY <1>3, <1>4, <1>6 DEF RunInv

LEMMA EvalGetRun ==
    ASSUME Going, NEW e \in Evaluators, EvalGet(e)
    PROVE  RunInv'
<1>1. /\ UNCHANGED <<groupCap, todo, poolQ, routed, serverQ, stopped, at, batch, phase,
                     outstanding, genFailed, generations, modelSummary, scored, rescore,
                     producer, router, finishing, summary>>
      /\ holds' = [holds EXCEPT ![e] = Head(genQ)] /\ holds[e] = None
      /\ genQ' = Tail(genQ) /\ genQ # <<>>
    BY DEF EvalGet, files, routing, feed, work
<1>2. ASSUME NEW r \in Requests, Scoring(r) PROVE Scoring(r)'
  <2>1. holds'[e] = Head(genQ) /\ \A d \in Evaluators : d # e => holds'[d] = holds[d]
      BY <1>1 DEF Going, IInv, FlowInv
  <2>2. r # None
      BY NoneIsNoGroup
  <2>3. CASE r \in ToSet(genQ)
    <3>1. r = Head(genQ) \/ r \in ToSet(genQ')
        BY <1>1, <2>3, HeadOrTail DEF Going, IInv, FlowInv
    <3> QED
        BY <2>1, <3>1 DEF Scoring
  <2>4. CASE \E d \in Evaluators : holds[d] = r
    <3>1. PICK d \in Evaluators : holds[d] = r
        BY <2>4
    <3>2. d # e
        BY <1>1, <2>2, <3>1
    <3>3. holds'[d] = r
        BY <2>1, <3>1, <3>2
    <3> QED
        BY <3>3 DEF Scoring
  <2>5. CASE r \in scored \cup rescore
      BY <1>1, <2>5 DEF Scoring
  <2> QED
      BY <1>2, <2>3, <2>4, <2>5 DEF Scoring
<1>3. LineInv' /\ WaitInv' /\ ServeInv' /\ AdmitInv' /\ FailInv' /\ CoverInv'
    BY <1>1, <1>2, StillKept DEF Going
<1>4. EndInv'
    BY StillRuns DEF Going, RunInv
<1>5. SummaryInv'
    BY <1>1, SummaryKept DEF Going, RunInv
<1> QED
    BY <1>3, <1>4, <1>5 DEF RunInv

LEMMA ScoreRun ==
    ASSUME Going, NEW e \in Evaluators, Score(e)
    PROVE  RunInv'
<1>1. /\ UNCHANGED <<groupCap, todo, poolQ, routed, serverQ, stopped, at, batch, phase,
                     outstanding, genFailed, generations, modelSummary, rescore,
                     producer, router, genQ, main>>
      /\ holds' = [holds EXCEPT ![e] = None] /\ scored' = scored \cup {holds[e]}
      /\ UNCHANGED <<finishing, summary>> \/ MaybeFinish
    BY DEF Score, routing, feed, work
<1>2. \A d \in Evaluators : holds'[d] = holds[d] \/ holds[d] \in scored'
    BY <1>1 DEF Going, IInv, FlowInv
<1>3. ASSUME NEW r \in Requests, Scoring(r) PROVE Scoring(r)'
    BY <1>1, <1>2, <1>3 DEF Scoring
<1>4. LineInv' /\ WaitInv' /\ ServeInv' /\ AdmitInv' /\ FailInv' /\ CoverInv'
    BY <1>1, <1>3, StillKept DEF Going
<1>5. EndInv'
    BY <1>1 DEF Going, RunInv, EndInv
<1>6. SummaryInv'
    BY <1>1, SummaryKept DEF Going, RunInv
<1> QED
    BY <1>4, <1>5, <1>6 DEF RunInv

LEMMA EndRun ==
    ASSUME Going, Drained \/ End
    PROVE  RunInv'
<1>1. UNCHANGED <<groupCap, todo, poolQ, routed, serverQ, stopped, at, batch, phase,
                  outstanding, genFailed, generations, modelSummary, rescore,
                  producer, router, genQ, scored, holds, finishing, summary>>
    BY DEF Drained, End, files, routing, feed, work, eval
<1>2. LineInv' /\ WaitInv' /\ ServeInv' /\ AdmitInv' /\ FailInv' /\ CoverInv'
    BY <1>1, ScoringSame, StillKept DEF Going
<1>3. EndInv'
    BY <1>1 DEF Drained, End, Going, RunInv, EndInv
<1>4. SummaryInv'
    BY <1>1, SummaryKept DEF Going, RunInv
<1> QED
    BY <1>2, <1>3, <1>4 DEF RunInv

\* A run is complete when every request is scored or has failed, and none is both:
\* the summary counts each once.
LEMMA SummariesRun ==
    ASSUME IInv, RunInv, main \in {"run", "stop"},
           OpenSummary \/ WriteSummary \/ WriteModelSummary
    PROVE  RunInv'
<1>1. UNCHANGED <<groupCap, todo, poolQ, routed, serverQ, stopped, at, batch, phase,
                  outstanding, genFailed, generations, rescore, records,
                  producer, router, genQ, scored, holds, main>>
    BY DEF OpenSummary, WriteSummary, WriteModelSummary, routing, feed, work, eval
<1>2. LineInv' /\ WaitInv' /\ ServeInv' /\ AdmitInv' /\ FailInv' /\ CoverInv'
    BY <1>1, ScoringSame, StillKept
<1>3. EndInv'
    BY <1>1 DEF RunInv, EndInv
<1>4. CASE WriteSummary
  <2>1. {r \in Requests : records[r] > 0} = scored
    <3>1. \A r \in Requests : records[r] > 0 <=> records[r] = 1
        BY DEF IInv, RecordInv
    <3> QED
        BY <3>1 DEF IInv, RecordInv
  <2>2. scored \subseteq Requests /\ genFailed \subseteq Requests /\ scored \cap genFailed = {}
      BY DEF IInv, RecordInv, RunInv, FailInv
  <2>3. IsFiniteSet(Requests)
      BY RequestsFinite
  <2>4. /\ Cardinality(scored) \in Nat /\ Cardinality(genFailed) \in Nat
        /\ Cardinality(scored) + Cardinality(genFailed) <= Cardinality(Requests)
    <3>1. IsFiniteSet(scored) /\ IsFiniteSet(genFailed)
        BY <2>2, <2>3, FS_Subset
    <3>2. Cardinality(scored \cap genFailed) = 0
        BY <2>2, FS_EmptySet
    <3>3. Cardinality(scored \cup genFailed) = Cardinality(scored) + Cardinality(genFailed)
      <4>1. /\ Cardinality(scored \cup genFailed)
                 = Cardinality(scored) + Cardinality(genFailed) - Cardinality(scored \cap genFailed)
          BY <3>1, FS_Union
      <4>2. Cardinality(scored) \in Nat /\ Cardinality(genFailed) \in Nat
          BY <3>1, FS_CardinalityType
      <4> QED
          BY <3>2, <4>1, <4>2
    <3>4. Cardinality(scored \cup genFailed) <= Cardinality(Requests)
        BY <2>2, <2>3, FS_Subset
    <3> QED
        BY <3>1, <3>3, <3>4, FS_CardinalityType
  <2>5. Cardinality(scored) + Cardinality(genFailed) >= Cardinality(Requests)
      BY <1>4 DEF WriteSummary, RunInv, SummaryInv, Finished
  <2>6. Cardinality(Requests) \in Nat
      BY <2>3, FS_CardinalityType
  <2>7. /\ summary' = [records |-> Cardinality(scored), failed |-> Cardinality(genFailed)]
        /\ finishing' = "model" /\ modelSummary' = modelSummary
      BY <1>4, <2>1 DEF WriteSummary
  <2>8. summary'.records + summary'.failed = Cardinality(Requests)
      BY <2>4, <2>5, <2>6, <2>7
  <2> QED
      BY <1>2, <1>3, <2>7, <2>8 DEF RunInv, SummaryInv, SummaryCoversRun
<1>5. CASE WriteModelSummary
  <2>1. SummaryInv'
      BY <1>5 DEF WriteModelSummary, RunInv, SummaryInv, SummaryCoversRun
  <2> QED
      BY <1>2, <1>3, <2>1 DEF RunInv
<1>6. CASE OpenSummary
  <2>1. SummaryInv'
      BY <1>1, <1>6 DEF OpenSummary, RunInv, SummaryInv, SummaryCoversRun, Finished
  <2> QED
      BY <1>2, <1>3, <2>1 DEF RunInv
<1> QED
    BY <1>4, <1>5, <1>6

-----------------------------------------------------------------------------
(* The steps of a request at its server *)

LEMMA AfterForth ==
    ASSUME ServeInv, NEW r \in Requests, phase[r] \in {"notify", "put"}
    PROVE  /\ After(r) \in [Requests -> Phases]
           /\ \A q \in Requests : /\ After(r)[q] = phase[q] \/ <<phase[q], After(r)[q]>> \in Forth
                                  /\ After(r)[q] = "done" => phase[q] = "done" \/ q = r
                                  /\ phase[q] = "calling" => After(r)[q] = "calling"
<1> DEFINE g == batch[r]
           next == {q \in ToSet(g) :
                       /\ phase[q] = "behind"
                       /\ kind = "vllm" \/ \A p \in ToSet(g) : phase[p] = "behind" =>
                             \E i, j \in DOMAIN g : g[i] = q /\ g[j] = p /\ i <= j}
<1>1. After(r) = [q \in Requests |-> IF q = r THEN "done"
                                     ELSE IF q \in next THEN "ready" ELSE phase[q]]
    BY DEF After
<1>2. \A q \in next : phase[q] = "behind"
    OBVIOUS
<1> HIDE DEF next
<1> QED
    BY <1>1, <1>2 DEF ServeInv, Phases, Forth

LEMMA RequestMoves ==
    ASSUME Going, NEW r \in Requests,
           \/ Call(r) \/ Retry(r) \/ Notify(r) \/ PutGen(r)
           \/ \E row \in {"output", "error"} : Respond(r, row)
    PROVE  Moves
<1>1. phase \in [Requests -> Phases]
    BY DEF Going, RunInv, ServeInv
<1>2. CASE Call(r) \/ Retry(r)
    BY <1>1, <1>2 DEF Call, Retry, Moves, Phases, Forth
<1>3. CASE \E row \in {"output", "error"} : Respond(r, row)
    BY <1>1, <1>3 DEF Respond, Moves, Phases, Forth
<1>4. CASE Notify(r) \/ PutGen(r)
  <2>1. phase[r] \in {"notify", "put"}
      BY <1>4 DEF Notify, PutGen
  <2>2. phase' = After(r) \/ (phase[r] = "notify" /\ phase' = [phase EXCEPT ![r] = "put"])
      BY <1>4 DEF Notify, PutGen
  <2>3. CASE phase' = After(r)
      BY <2>1, <2>3, AfterForth DEF Going, RunInv, Moves
  <2>4. CASE phase[r] = "notify" /\ phase' = [phase EXCEPT ![r] = "put"]
      BY <1>1, <2>4 DEF Moves, Phases, Forth
  <2> QED
      BY <2>2, <2>3, <2>4
<1> QED
    BY <1>2, <1>3, <1>4

LEMMA RequestKept ==
    ASSUME Going, NEW r \in Requests,
           \/ Call(r) \/ Retry(r) \/ Notify(r) \/ PutGen(r)
           \/ \E row \in {"output", "error"} : Respond(r, row)
    PROVE  LineInv' /\ WaitInv' /\ ServeInv' /\ Waiting' = Waiting /\ EndInv' /\ SummaryInv'
<1>1. Moves
    BY RequestMoves
<1>2. /\ UNCHANGED <<groupCap, todo, poolQ, routed, serverQ, stopped, at, batch, producer,
                     rescore, modelSummary>>
      /\ router' = router \/ (router = "wait" /\ router' = "place")
      /\ UNCHANGED <<finishing, summary>> \/ MaybeFinish
  <2>1. CASE Call(r)
      BY <2>1 DEF Call, files, routing, feed, work
  <2>2. CASE Retry(r)
      BY <2>2 DEF Retry, files, routing, feed
  <2>3. CASE Notify(r)
    <3>1. UNCHANGED <<finishing, summary>> \/ MaybeFinish
        BY <2>3 DEF Notify
    <3> QED
        BY <2>3, <3>1 DEF Notify, Woken, feed, work
  <2>4. CASE PutGen(r)
      BY <2>4 DEF PutGen, files, routing, feed, work
  <2>5. CASE \E row \in {"output", "error"} : Respond(r, row)
      BY <2>5 DEF Respond, feed, work
  <2> QED
      BY <2>1, <2>2, <2>3, <2>4, <2>5
<1>3. producer' \in {"groups", "done"} => rescore' = {}
    BY <1>2 DEF Going, RunInv, LineInv
<1>4. LineInv' /\ WaitInv' /\ ServeInv' /\ Waiting' = Waiting
    BY <1>1, <1>2, <1>3, QueuesKept DEF Going, RunInv
<1>5. EndInv'
    BY StillRuns DEF Going, RunInv
<1>6. SummaryInv'
    BY <1>2, SummaryKept DEF Going, RunInv
<1> QED
    BY <1>4, <1>5, <1>6

LEMMA CallRun ==
    ASSUME Going, NEW r \in Requests, Call(r) \/ Retry(r)
    PROVE  RunInv'
<1>1. LineInv' /\ WaitInv' /\ ServeInv' /\ Waiting' = Waiting /\ EndInv' /\ SummaryInv'
    BY RequestKept
<1>2. Moves
    BY RequestMoves
<1>3. /\ UNCHANGED <<outstanding, at, groupCap, genFailed, generations, producer,
                     scored, rescore, genQ, holds>>
      /\ phase' = [phase EXCEPT ![r] = "calling"] \/ phase' = [phase EXCEPT ![r] = "ready"]
      /\ phase[r] \in {"ready", "calling"}
    BY DEF Call, Retry, files, routing, feed, work, eval
<1>4. phase \in [Requests -> Phases]
    BY DEF Going, RunInv, ServeInv
<1>5. AdmitInv'
    BY <1>3, <1>4, AdmitKept DEF Going, RunInv
<1>6. FailInv'
    BY <1>2, <1>3, MovesFix, FailKept DEF Going, RunInv
<1>7. CoverInv'
  <2>1. \A q \in Requests : phase'[q] = "idle" => phase[q] = "idle"
      BY <1>2, MovesFix
  <2>2. \A q \in Requests : phase'[q] = "done" => phase[q] = "done"
      BY <1>3, <1>4
  <2>3. \A q \in Requests : Scoring(q) => Scoring(q)'
      BY <1>3, ScoringSame
  <2> QED
      BY <1>1, <1>3, <2>1, <2>2, <2>3, CoverKept DEF Going, RunInv
<1> QED
    BY <1>1, <1>5, <1>6, <1>7 DEF RunInv

LEMMA NotifyRun ==
    ASSUME Going, NEW r \in Requests, Notify(r)
    PROVE  RunInv'
<1>1. LineInv' /\ WaitInv' /\ ServeInv' /\ Waiting' = Waiting /\ EndInv' /\ SummaryInv'
    BY RequestKept
<1>2. Moves
    BY RequestMoves
<1>3. /\ UNCHANGED <<outstanding, at, groupCap, generations, producer,
                     scored, rescore, genQ, holds>>
      /\ phase[r] = "notify"
    BY DEF Notify, feed, work, eval
<1>4. \/ r \in Generated /\ phase' = [phase EXCEPT ![r] = "put"] /\ genFailed' = genFailed
      \/ r \notin Generated /\ phase' = After(r) /\ genFailed' = genFailed \cup {r}
    BY DEF Notify
<1>5. phase \in [Requests -> Phases] /\ ServeInv
    BY DEF Going, RunInv, ServeInv
<1>6. \A q \in Requests : /\ phase'[q] = "done" => phase[q] = "done" \/ (q = r /\ r \in genFailed')
                          /\ phase[q] = "calling" => phase'[q] = "calling"
    BY <1>3, <1>4, <1>5, AfterForth
<1>7. AdmitInv'
  <2>1. \A q \in Requests :
           phase'[q] \in {"queued", "behind", "ready", "calling"} <=>
           phase[q] \in {"queued", "behind", "ready", "calling"}
      BY <1>2, <1>6 DEF Moves, Forth
  <2> QED
      BY <1>3, <2>1, AdmitKept DEF Going, RunInv
<1>8. FailInv'
  <2>1. Generated' = Generated
      BY <1>3 DEF Generated
  <2>2. r \notin Generated => phase'[r] = "done"
      BY <1>4 DEF After
  <2>3. \A q \in genFailed : q \in Requests /\ phase'[q] = "done"
      BY <1>2, MovesFix DEF Going, RunInv, FailInv
  <2> QED
      BY <1>4, <2>1, <2>2, <2>3 DEF Going, RunInv, FailInv
<1>9. CoverInv'
  <2>1. \A q \in Requests : phase'[q] = "idle" => phase[q] = "idle"
      BY <1>2, MovesFix
  <2>2. genFailed \subseteq genFailed'
      BY <1>4
  <2>3. \A q \in Requests : Scoring(q) => Scoring(q)'
      BY <1>3, ScoringSame
  <2>4. \A q \in Requests :
           phase'[q] = "done" => phase[q] = "done" \/ Scoring(q)' \/ q \in genFailed'
      BY <1>6
  <2> QED
      BY <1>1, <1>3, <2>1, <2>2, <2>3, <2>4, CoverKept DEF Going, RunInv
<1> QED
    BY <1>1, <1>7, <1>8, <1>9 DEF RunInv

LEMMA PutGenRun ==
    ASSUME Going, NEW r \in Requests, PutGen(r)
    PROVE  RunInv'
<1>1. LineInv' /\ WaitInv' /\ ServeInv' /\ Waiting' = Waiting /\ EndInv' /\ SummaryInv'
    BY RequestKept
<1>2. Moves
    BY RequestMoves
<1>3. /\ UNCHANGED <<outstanding, at, groupCap, genFailed, generations, producer,
                     scored, rescore, holds>>
      /\ phase[r] = "put" /\ phase' = After(r) /\ genQ' = Append(genQ, r)
    BY DEF PutGen, files, routing, feed, work, eval
<1>4. ServeInv
    BY DEF Going, RunInv
<1>5. \A q \in Requests : /\ phase'[q] = "done" => phase[q] = "done" \/ q = r
                          /\ phase[q] = "calling" => phase'[q] = "calling"
    BY <1>3, <1>4, AfterForth
<1>6. AdmitInv'
  <2>1. \A q \in Requests :
           phase'[q] \in {"queued", "behind", "ready", "calling"} <=>
           phase[q] \in {"queued", "behind", "ready", "calling"}
      BY <1>2, <1>5 DEF Moves, Forth
  <2> QED
      BY <1>3, <2>1, AdmitKept DEF Going, RunInv
<1>7. FailInv'
    BY <1>2, <1>3, MovesFix, FailKept DEF Going, RunInv
<1>8. CoverInv'
  <2>1. \A q \in Requests : phase'[q] = "idle" => phase[q] = "idle"
      BY <1>2, MovesFix
  <2>2. ToSet(genQ) \cup {r} \subseteq ToSet(genQ')
    <3>1. genQ \in Seq(Generated) /\ r \in Generated
        BY <1>3 DEF Going, IInv, FlowInv
    <3> QED
        BY <1>3, <3>1, AppendSet
  <2>3. \A q \in Requests : Scoring(q) => Scoring(q)'
      BY <1>3, <2>2 DEF Scoring
  <2>4. Scoring(r)'
      BY <2>2 DEF Scoring
  <2>5. \A q \in Requests :
           phase'[q] = "done" => phase[q] = "done" \/ Scoring(q)' \/ q \in genFailed'
      BY <1>5, <2>4
  <2> QED
      BY <1>1, <1>3, <2>1, <2>3, <2>5, CoverKept DEF Going, RunInv
<1> QED
    BY <1>1, <1>6, <1>7, <1>8 DEF RunInv

\* The answered request is the one that no longer counts at its server.
LEMMA RespondRun ==
    ASSUME Going, NEW r \in Requests, NEW row \in {"output", "error"}, Respond(r, row)
    PROVE  RunInv'
<1>1. LineInv' /\ WaitInv' /\ ServeInv' /\ Waiting' = Waiting /\ EndInv' /\ SummaryInv'
    BY RequestKept
<1>2. Moves
    BY RequestMoves
<1>3. /\ UNCHANGED <<at, groupCap, genFailed, producer, scored, rescore, genQ, holds>>
      /\ phase[r] = "calling" /\ phase' = [phase EXCEPT ![r] = "notify"]
      /\ generations' = [generations EXCEPT ![r] = @ \cup {row}]
      /\ outstanding' = [outstanding EXCEPT ![at[r]] = @ - 1]
    BY DEF Respond, files, feed, work, eval
<1>4. phase \in [Requests -> Phases] /\ at[r] \in Servers
    BY <1>3 DEF Going, RunInv, ServeInv
<1>5. AdmitInv'
  <2>1. Under(at[r])' = Under(at[r]) \ {r}
      BY <1>3, <1>4 DEF Under
  <2>2. \A s \in Servers : s # at[r] => Under(s)' = Under(s)
      BY <1>3, <1>4 DEF Under
  <2>3. PICK s \in Servers : at[r] = s
      BY <1>4
  <2>4. r \in Under(s) /\ Under(s)' = Under(s) \ {r}
      BY <1>3, <2>1, <2>3 DEF Under
  <2>5. IsFiniteSet(Under(s))
      BY RequestsFinite, FS_Subset DEF Under
  <2>6. Cardinality(Under(s)') = Cardinality(Under(s)) - 1 /\ Cardinality(Under(s)) \in Nat
      BY <2>4, <2>5, FS_RemoveElement, FS_CardinalityType
  <2>7. /\ DOMAIN outstanding' = Servers /\ outstanding'[s] = outstanding[s] - 1
        /\ \A t \in Servers : t # s => outstanding'[t] = outstanding[t]
      BY <1>3, <2>3 DEF Going, RunInv, AdmitInv
  <2>8. groupCap \in Nat /\ DHigh \in Nat
      BY PipelineAssumption DEF Going, RunInv, LineInv
  <2>9. /\ outstanding'[s] = Cardinality(Under(s)')
        /\ groupCap' > 0 => outstanding'[s] <= DHigh - 1 + groupCap'
      BY <1>3, <2>6, <2>7, <2>8 DEF Going, RunInv, AdmitInv
  <2>10. \A t \in Servers : t # s =>
            /\ outstanding'[t] = Cardinality(Under(t)')
            /\ groupCap' > 0 => outstanding'[t] <= DHigh - 1 + groupCap'
      BY <1>3, <2>2, <2>3, <2>7 DEF Going, RunInv, AdmitInv
  <2> QED
      BY <2>7, <2>9, <2>10 DEF AdmitInv
<1>6. FailInv'
  <2>1. r \notin genFailed
      BY <1>3 DEF Going, RunInv, FailInv
  <2>2. \A q \in Requests : q # r => (q \in Generated' <=> q \in Generated)
      BY <1>3 DEF Generated, Going, IInv, FlowInv
  <2> QED
      BY <1>2, <1>3, <2>1, <2>2, MovesFix DEF Going, RunInv, FailInv
<1>7. CoverInv'
  <2>1. \A q \in Requests : phase'[q] = "idle" => phase[q] = "idle"
      BY <1>2, MovesFix
  <2>2. \A q \in Requests : phase'[q] = "done" => phase[q] = "done"
      BY <1>3, <1>4
  <2>3. \A q \in Requests : Scoring(q) => Scoring(q)'
      BY <1>3, ScoringSame
  <2> QED
      BY <1>1, <1>3, <2>1, <2>2, <2>3, CoverKept DEF Going, RunInv
<1> QED
    BY <1>1, <1>5, <1>6, <1>7 DEF RunInv

-----------------------------------------------------------------------------
(* The steps of groups *)

LEMMA GroupMembers ==
    ASSUME NEW g \in Seq(Requests)
    PROVE  ToSet(g) \subseteq Requests
BY LenProperties, ElementOfSeq DEF ToSet

LEMMA InLine ==
    ASSUME NEW q, NEW closed, Line(q, closed), NEW g \in ToSet(q) \ {None}
    PROVE  g \in Parts /\ ToSet(g) \subseteq Requests /\ ToSet(g) # {}
<1>1. g \in Parts
  <2>1. q \in Seq(Parts \cup {None})
      BY DEF Line
  <2> QED
      BY <2>1, LenProperties, ElementOfSeq DEF ToSet
<1>2. g \in Seq(Requests) /\ g # <<>>
    BY <1>1 DEF Parts
<1>3. 1 \in DOMAIN g
    BY <1>2, EmptySeq, LenProperties
<1> QED
    BY <1>1, <1>2, <1>3, GroupMembers DEF ToSet

LEMMA WaitingParts ==
    ASSUME LineInv, NEW g \in Waiting
    PROVE  g \in Parts /\ ToSet(g) \subseteq Requests
<1>1. g \in Parts
  <2>1. CASE g \in ToSet(poolQ) \ {None}
      BY <2>1, InLine DEF LineInv
  <2> QED
      BY <2>1 DEF Waiting, LineInv, Parts
<1> QED
    BY <1>1, GroupMembers DEF Parts

LEMMA LoadRun ==
    ASSUME Going, Load
    PROVE  RunInv'
<1>1. /\ UNCHANGED <<groupCap, poolQ, routed, router, serverQ, stopped, at, batch, phase,
                     outstanding, genFailed, generations, modelSummary, genQ, holds, scored,
                     finishing, summary>>
      /\ producer = "load" /\ producer' = "rescore" /\ rescore' = Generated \ scored
    BY DEF Load, files, routing, work, eval
<1>2. Waiting = {} /\ \A r \in Requests : phase[r] = "idle"
    BY <1>1 DEF Going, RunInv, LineInv
<1>3. groupCap \in Nat
    BY DEF Going, RunInv, LineInv
<1>4. /\ todo' \subseteq Parts
      /\ \A p \in todo' : IsInjective(p) /\ (groupCap > 0 => Len(p) <= groupCap)
      /\ \A p, q \in todo' : p # q => ToSet(p) \cap ToSet(q) = {}
      /\ \A r \in Requests \ Generated : \E p \in todo' : r \in ToSet(p)
    BY <1>3, LoadIs
<1>5. ToSet(poolQ) = {} /\ routed = <<>>
  <2>1. None \notin ToSet(poolQ)
      BY <1>1 DEF Going, RunInv, LineInv, Line
  <2> QED
      BY <1>2, <2>1 DEF Waiting
<1>6. Waiting' = todo'
    BY <1>1, <1>5 DEF Waiting
<1>7. LineInv'
  <2>1. Line(poolQ', producer' = "done" /\ router' # "done")
      BY <1>1 DEF Going, RunInv, LineInv, Line
  <2>2. \A s \in Servers : Line(serverQ'[s], router' = "done" /\ s \notin stopped')
      BY <1>1 DEF Going, RunInv, LineInv, Line
  <2>3. routed' \notin todo' \cup ToSet(poolQ') /\ todo' \cap ToSet(poolQ') = {}
      BY <1>1, <1>4, <1>5 DEF Parts
  <2> QED
      BY <1>1, <1>4, <2>1, <2>2, <2>3 DEF Going, RunInv, LineInv
<1>8. WaitInv'
  <2>1. \A g \in todo' : \A r \in ToSet(g) : phase'[r] = "idle"
      BY <1>1, <1>2, <1>4, GroupMembers DEF Parts
  <2> QED
      BY <1>1, <1>4, <1>6, <2>1 DEF WaitInv
<1>9. ServeInv' /\ AdmitInv' /\ FailInv'
  <2>1. Generated' = Generated /\ \A s \in Servers : Under(s)' = Under(s)
      BY <1>1 DEF Generated, Under
  <2> QED
      BY <1>1, <2>1 DEF Going, RunInv, ServeInv, AdmitInv, FailInv
<1>10. CoverInv'
  <2> SUFFICES ASSUME NEW r \in Requests
               PROVE  phase'[r] = "idle" /\
                         (Scoring(r)' \/ \E g \in Waiting' : r \in ToSet(g))
      BY DEF CoverInv
  <2>1. CASE r \in Generated
      BY <1>1, <1>2, <2>1 DEF Scoring
  <2>2. CASE r \notin Generated
      BY <1>1, <1>2, <1>4, <1>6, <2>2
  <2> QED
      BY <2>1, <2>2
<1>11. EndInv'
    BY StillRuns DEF Going, RunInv
<1>12. SummaryInv'
    BY <1>1, SummaryKept DEF Going, RunInv
<1> QED
    BY <1>7, <1>8, <1>9, <1>10, <1>11, <1>12 DEF RunInv

\* The steps that move groups on before a server has them.
LEMMA WaitingKept ==
    ASSUME Going, Feed \/ RouterGet, LineInv', Waiting' = Waiting,
           \A s \in Servers : ToSet(serverQ'[s]) \ {None} = ToSet(serverQ[s]) \ {None}
    PROVE  RunInv'
<1>1. /\ UNCHANGED <<groupCap, at, batch, phase, rescore,
                     outstanding, genFailed, generations, modelSummary, genQ, holds, scored,
                     finishing, summary>>
      /\ producer' = "load" \/ producer # "load"
  <2>1. CASE Feed
      BY <2>1 DEF Feed, files, routing, work, eval
  <2>2. CASE RouterGet
      BY <2>2 DEF RouterGet, files, feed, work, eval
  <2> QED
      BY <2>1, <2>2
<1>2. WaitInv'
    BY <1>1 DEF Going, RunInv, WaitInv
<1>3. ServeInv'
    BY <1>1 DEF Going, RunInv, ServeInv
<1>4. AdmitInv'
    BY <1>1, AdmitKept DEF Going, RunInv
<1>5. FailInv'
    BY <1>1, FailKept DEF Going, RunInv
<1>6. CoverInv'
    BY <1>1, ScoringSame, CoverKept DEF Going, RunInv
<1>7. EndInv'
    BY StillRuns DEF Going, RunInv
<1>8. SummaryInv'
    BY <1>1, SummaryKept DEF Going, RunInv
<1> QED
    BY <1>2, <1>3, <1>4, <1>5, <1>6, <1>7, <1>8 DEF RunInv

LEMMA FeedRun ==
    ASSUME Going, Feed
    PROVE  RunInv'
<1>1. /\ UNCHANGED <<groupCap, rescore, router, routed, serverQ, stopped, phase>>
      /\ producer = "groups"
    BY DEF Feed, routing, work
<1>2. Line(poolQ, FALSE) /\ router # "done"
    BY <1>1 DEF Going, RunInv, LineInv
<1>3. routed # None
    BY PipelineAssumption DEF Going, RunInv, LineInv
<1>4. \A s \in Servers : Line(serverQ'[s], router' = "done" /\ s \notin stopped')
    BY <1>1 DEF Going, RunInv, LineInv, Line
<1>5. LineInv' /\ Waiting' = Waiting
  <2>1. CASE todo = {} /\ poolQ' = Append(poolQ, None) /\ producer' = "done" /\ todo' = todo
    <3>1. Line(poolQ', TRUE) /\ ToSet(poolQ') = ToSet(poolQ) \cup {None}
        BY <1>2, <2>1, LineClose
    <3>2. Waiting' = Waiting
        BY <1>1, <2>1, <3>1 DEF Waiting
    <3>3. producer' = "done" /\ router' # "done"
        BY <1>1, <1>2, <2>1
    <3>4. Line(poolQ', producer' = "done" /\ router' # "done")
        BY <3>1, <3>3
    <3>5. routed' \notin todo' \cup ToSet(poolQ')
        BY <1>1, <1>3, <2>1, <3>1 DEF Going, RunInv, LineInv
    <3> QED
        BY <1>1, <1>2, <1>4, <2>1, <3>2, <3>4, <3>5 DEF Going, RunInv, LineInv
  <2>2. ASSUME NEW g \in todo, todo' = todo \ {g}, poolQ' = Append(poolQ, g),
               producer' = producer
        PROVE  LineInv' /\ Waiting' = Waiting
    <3>1. g \in Parts /\ g \notin ToSet(poolQ) /\ g # routed
        BY DEF Going, RunInv, LineInv
    <3>2. Line(poolQ', FALSE) /\ ToSet(poolQ') = ToSet(poolQ) \cup {g}
        BY <1>2, <2>2, <3>1, LinePut
    <3>3. Waiting' = Waiting
        BY <1>1, <2>2, <3>1, <3>2, NoneIsNoGroup DEF Waiting
    <3>4. Line(poolQ', producer' = "done" /\ router' # "done")
        BY <1>1, <2>2, <3>2
    <3>5. /\ routed' \notin todo' \cup ToSet(poolQ') /\ todo' \cap ToSet(poolQ') = {}
          /\ todo' \subseteq Parts
        BY <1>1, <2>2, <3>1, <3>2 DEF Going, RunInv, LineInv
    <3> QED
        BY <1>1, <1>2, <1>4, <2>2, <3>3, <3>4, <3>5 DEF Going, RunInv, LineInv
  <2> QED
      BY <2>1, <2>2 DEF Feed
<1> QED
    BY <1>1, <1>5, WaitingKept

LEMMA RouterGetRun ==
    ASSUME Going, RouterGet
    PROVE  RunInv'
<1>1. /\ UNCHANGED <<groupCap, rescore, producer, todo, stopped, phase>>
      /\ router = "get" /\ poolQ # <<>> /\ poolQ' = Tail(poolQ)
    BY DEF RouterGet, feed, work
<1> DEFINE closed == producer = "done" /\ router # "done"
           g == Head(poolQ)
<1>2. /\ g \in ToSet(poolQ) /\ ToSet(poolQ') = ToSet(poolQ) \ {g}
      /\ g = None => closed /\ poolQ' = <<>>
      /\ g # None => g \in Parts /\ Line(poolQ', closed)
    BY <1>1, LineTake DEF Going, RunInv, LineInv
<1>3. routed = <<>> /\ stopped = {}
    BY <1>1 DEF Going, RunInv, LineInv
<1>4. CASE g = None
  <2>1. /\ router' = "done" /\ routed' = routed
        /\ serverQ' = [s \in Servers |-> Append(serverQ[s], None)]
      BY <1>4 DEF RouterGet
  <2>2. \A s \in Servers : /\ Line(serverQ'[s], TRUE)
                           /\ ToSet(serverQ'[s]) = ToSet(serverQ[s]) \cup {None}
    <3> SUFFICES ASSUME NEW s \in Servers
                 PROVE  /\ Line(serverQ'[s], TRUE)
                        /\ ToSet(serverQ'[s]) = ToSet(serverQ[s]) \cup {None}
        OBVIOUS
    <3>1. Line(serverQ[s], FALSE)
        BY <1>1 DEF Going, RunInv, LineInv
    <3> QED
        BY <2>1, <3>1, LineClose
  <2>3. poolQ' = <<>> /\ producer = "done"
      BY <1>2, <1>4
  <2>4. ToSet(poolQ') = {} /\ Line(poolQ', FALSE)
      BY <2>3, LineEmpty
  <2>5. Waiting' = Waiting
      BY <1>1, <1>2, <1>4, <2>1 DEF Waiting
  <2>6. LineInv'
    <3>1. Line(poolQ', producer' = "done" /\ router' # "done")
        BY <2>1, <2>4
    <3>2. \A s \in Servers : Line(serverQ'[s], router' = "done" /\ s \notin stopped')
        BY <1>1, <1>3, <2>1, <2>2
    <3>3. DOMAIN serverQ' = Servers
        BY <2>1
    <3>4. routed' \notin todo' \cup ToSet(poolQ') /\ todo' \cap ToSet(poolQ') = {}
        BY <1>1, <2>1, <2>4 DEF Going, RunInv, LineInv
    <3> QED
        BY <1>1, <1>3, <2>1, <2>3, <2>5, <3>1, <3>2, <3>3, <3>4 DEF Going, RunInv, LineInv
  <2> QED
      BY <2>2, <2>5, <2>6, WaitingKept
<1>5. CASE g # None
  <2>1. router' = "place" /\ routed' = g /\ serverQ' = serverQ
      BY <1>5 DEF RouterGet
  <2>2. g \in Parts /\ Line(poolQ', closed) /\ g # <<>> /\ g \in Seq(Requests)
      BY <1>2, <1>5 DEF Parts
  <2>3. Waiting' = Waiting
    <3>1. Waiting = todo \cup (ToSet(poolQ) \ {None})
        BY <1>3 DEF Waiting
    <3>2. Waiting' = todo \cup (ToSet(poolQ') \ {None}) \cup {g}
        BY <1>1, <2>1, <2>2 DEF Waiting
    <3> HIDE DEF g
    <3> QED
        BY <1>2, <1>5, <3>1, <3>2
  <2>4. LineInv'
    <3>1. Line(poolQ', producer' = "done" /\ router' # "done")
      <4>1. (producer' = "done" /\ router' # "done") <=> closed
          BY <1>1, <2>1
      <4> QED
          BY <2>2, <4>1 DEF Line
    <3>2. \A s \in Servers : Line(serverQ'[s], router' = "done" /\ s \notin stopped')
        BY <1>1, <2>1 DEF Going, RunInv, LineInv
    <3>3. routed' \notin todo' \cup ToSet(poolQ') /\ todo' \cap ToSet(poolQ') = {}
        BY <1>1, <1>2, <2>1 DEF Going, RunInv, LineInv
    <3> QED
        BY <1>1, <1>3, <2>1, <2>2, <2>3, <3>1, <3>2, <3>3 DEF Going, RunInv, LineInv
  <2> QED
      BY <2>1, <2>3, <2>4, WaitingKept
<1> QED
    BY <1>4, <1>5

\* The group goes to one server, which counts its requests.
LEMMA AdmitRun ==
    ASSUME Going, Admit
    PROVE  RunInv'
<1> DEFINE g == routed
           G == ToSet(routed)
<1>1. /\ UNCHANGED <<groupCap, rescore, producer, todo, poolQ, stopped, generations, genFailed,
                     modelSummary, genQ, holds, scored, finishing, summary>>
      /\ router = "place" /\ router' = "get" /\ routed' = <<>>
      /\ phase' = [r \in Requests |-> IF r \in G THEN "queued" ELSE phase[r]]
      /\ batch' = [r \in Requests |-> IF r \in G THEN g ELSE batch[r]]
    BY DEF Admit, files, feed, eval
<1>2. PICK s \in Servers :
         /\ outstanding[s] < DHigh
         /\ outstanding' = [outstanding EXCEPT ![s] = Loaded(s)]
         /\ serverQ' = [serverQ EXCEPT ![s] = Append(@, g)]
         /\ at' = [r \in Requests |-> IF r \in G THEN s ELSE at[r]]
    BY DEF Admit
<1>3. /\ g \in Parts /\ g \in Waiting /\ G \subseteq Requests /\ G # {}
      /\ \A r \in G : phase[r] = "idle"
      /\ IsInjective(g) /\ (groupCap > 0 => Len(g) <= groupCap)
  <2>1. g # <<>> /\ g \in Seq(Requests)
      BY <1>1 DEF Going, RunInv, LineInv
  <2>2. g \in Waiting
      BY <2>1 DEF Waiting
  <2>3. 1 \in DOMAIN g
      BY <2>1, EmptySeq, LenProperties
  <2> QED
      BY <2>1, <2>2, <2>3, GroupMembers DEF Parts, Going, RunInv, WaitInv, ToSet
<1>4. /\ \A t \in Servers : t # s => serverQ'[t] = serverQ[t]
      /\ serverQ'[s] = Append(serverQ[s], g) /\ DOMAIN serverQ' = Servers
    BY <1>2 DEF Going, RunInv, LineInv
<1>5. g \notin ToSet(serverQ[s])
    BY <1>3, NoneIsNoGroup DEF Going, RunInv, ServeInv
<1> HIDE DEF g, G
<1>6. Line(serverQ'[s], FALSE) /\ ToSet(serverQ'[s]) = ToSet(serverQ[s]) \cup {g}
  <2>1. Line(serverQ[s], FALSE)
      BY <1>1 DEF Going, RunInv, LineInv
  <2>2. g \in Parts
      BY <1>3
  <2>3. /\ Line(Append(serverQ[s], g), FALSE)
        /\ ToSet(Append(serverQ[s], g)) = ToSet(serverQ[s]) \cup {g}
      BY <1>5, <2>1, <2>2, LinePut
  <2> QED
      BY <1>4, <2>3
<1>7. Waiting = Waiting' \cup {g} /\ g \notin Waiting' /\ Waiting' = todo \cup (ToSet(poolQ) \ {None})
  <2>1. g = routed /\ routed # <<>> /\ g \notin todo \cup ToSet(poolQ)
      BY <1>1, <1>3 DEF g, Going, RunInv, LineInv, Parts
  <2>2. Waiting' = todo \cup (ToSet(poolQ) \ {None})
      BY <1>1 DEF Waiting
  <2> QED
      BY <2>1, <2>2 DEF Waiting
<1>8. LineInv'
  <2>1. \A t \in Servers : Line(serverQ'[t], router' = "done" /\ t \notin stopped')
    <3> SUFFICES ASSUME NEW t \in Servers PROVE Line(serverQ'[t], FALSE)
        BY <1>1
    <3>1. CASE t = s
        BY <1>6, <3>1
    <3>2. CASE t # s
        BY <1>1, <1>4, <3>2 DEF Going, RunInv, LineInv
    <3> QED
        BY <3>1, <3>2
  <2>2. Line(poolQ', producer' = "done" /\ router' # "done")
      BY <1>1 DEF Going, RunInv, LineInv
  <2>3. producer' # "load" /\ stopped = {}
      BY <1>1, <1>3 DEF Going, RunInv, LineInv
  <2>4. /\ routed' \notin todo' \cup ToSet(poolQ') /\ routed' \in Seq(Requests)
    <3>1. <<>> \notin todo
        BY DEF Going, RunInv, LineInv, Parts
    <3>2. \A x \in ToSet(poolQ) \ {None} : x # <<>>
        BY InLine DEF Going, RunInv, LineInv, Parts
    <3>3. <<>> # None /\ <<>> \in Seq(Requests)
        BY PipelineAssumption, EmptySeq
    <3> QED
        BY <1>1, <3>1, <3>2, <3>3
  <2> QED
      BY <1>1, <1>4, <2>1, <2>2, <2>3, <2>4 DEF Going, RunInv, LineInv
<1>9. ASSUME NEW r \in Requests, r \notin G
      PROVE  phase'[r] = phase[r] /\ at'[r] = at[r] /\ batch'[r] = batch[r]
    BY <1>1, <1>2, <1>9
<1>10. ASSUME NEW r \in G PROVE phase'[r] = "queued" /\ at'[r] = s /\ batch'[r] = g
    BY <1>1, <1>2, <1>3
<1>11. WaitInv'
  <2>1. \A h \in Waiting' : ToSet(h) \subseteq Requests /\ ToSet(h) \cap G = {}
    <3> SUFFICES ASSUME NEW h \in Waiting' PROVE ToSet(h) \subseteq Requests /\ ToSet(h) \cap G = {}
        OBVIOUS
    <3>1. h \in Waiting /\ h # g
        BY <1>7
    <3>2. ToSet(h) \cap ToSet(g) = {}
        BY <1>3, <3>1 DEF Going, RunInv, WaitInv
    <3> QED
        BY <3>1, <3>2, WaitingParts DEF G, g, Going, RunInv
  <2>2. \A h \in Waiting' : \A r \in ToSet(h) : phase'[r] = "idle"
      BY <1>7, <1>9, <2>1 DEF Going, RunInv, WaitInv
  <2> QED
      BY <1>1, <1>7, <2>2 DEF Going, RunInv, WaitInv
<1>12. ServeInv'
  <2>1. \A r \in Requests : phase'[r] # "idle" => at'[r] \in Servers
      BY <1>9, <1>10 DEF Going, RunInv, ServeInv
  <2>2. phase' \in [Requests -> Phases] /\ DOMAIN batch' = Requests /\ DOMAIN at' = Requests
      BY <1>1, <1>2 DEF Phases, Going, RunInv, ServeInv
  <2>3. ASSUME NEW t \in Servers, NEW h \in ToSet(serverQ'[t]) \ {None}, NEW r \in ToSet(h)
        PROVE  phase'[r] = "queued" /\ at'[r] = t /\ batch'[r] = h
    <3>1. CASE h = g /\ t = s
        BY <1>10, <3>1 DEF G, g
    <3>2. CASE h \in ToSet(serverQ[t])
      <4>1. phase[r] = "queued" /\ at[r] = t /\ batch[r] = h
          BY <3>2 DEF Going, RunInv, ServeInv
      <4>2. r \in Requests
        <5>1. Line(serverQ[t], FALSE)
            BY <1>1 DEF Going, RunInv, LineInv
        <5> QED
            BY <3>2, <5>1, InLine
      <4>3. r \notin G
          BY <1>3, <4>1
      <4> QED
          BY <1>9, <4>1, <4>2, <4>3
    <3> QED
        BY <1>4, <1>6, <3>1, <3>2
  <2> QED
      BY <2>1, <2>2, <2>3 DEF ServeInv
<1>13. AdmitInv'
  <2>1. Under(s)' = Under(s) \cup G
      BY <1>3, <1>9, <1>10 DEF Under
  <2>2. Under(s) \cap G = {}
      BY <1>3 DEF Under
  <2>3. \A t \in Servers : t # s => Under(t)' = Under(t)
      BY <1>3, <1>9, <1>10 DEF Under
  <2>4. IsFiniteSet(Under(s))
      BY RequestsFinite, FS_Subset DEF Under
  <2>5. IsFiniteSet(G) /\ Cardinality(G) = Len(g) /\ Len(g) \in Nat
      BY <1>3, SizeOfGroup, LenProperties DEF G, g, Parts
  <2>6. Cardinality(Under(s)') = Cardinality(Under(s)) + Len(g)
    <3>1. Cardinality(Under(s) \cap G) = 0
        BY <2>2, FS_EmptySet
    <3>2. Cardinality(Under(s) \cup G)
             = Cardinality(Under(s)) + Cardinality(G) - Cardinality(Under(s) \cap G)
        BY <2>4, <2>5, FS_Union
    <3>3. Cardinality(Under(s)) \in Nat
        BY <2>4, FS_CardinalityType
    <3> QED
        BY <2>1, <2>5, <3>1, <3>2, <3>3
  <2>7. /\ DOMAIN outstanding' = Servers /\ outstanding'[s] = outstanding[s] + Len(g)
        /\ \A t \in Servers : t # s => outstanding'[t] = outstanding[t]
      BY <1>2 DEF g, Loaded, Going, RunInv, AdmitInv
  <2>8. outstanding[s] = Cardinality(Under(s)) /\ Cardinality(Under(s)) \in Nat
      BY <2>4, FS_CardinalityType DEF Going, RunInv, AdmitInv
  <2>9. groupCap \in Nat /\ DHigh \in Nat
      BY PipelineAssumption DEF Going, RunInv, LineInv
  <2>10. groupCap > 0 => outstanding'[s] <= DHigh - 1 + groupCap
      BY <1>2, <1>3, <2>5, <2>7, <2>8, <2>9
  <2>11. \A t \in Servers : t # s =>
            /\ outstanding'[t] = Cardinality(Under(t)')
            /\ groupCap' > 0 => outstanding'[t] <= DHigh - 1 + groupCap'
      BY <1>1, <2>3, <2>7 DEF Going, RunInv, AdmitInv
  <2> QED
      BY <1>1, <2>6, <2>7, <2>8, <2>10, <2>11 DEF AdmitInv
<1>14. FailInv'
  <2>1. Generated' = Generated
      BY <1>1 DEF Generated
  <2>2. \A r \in genFailed : r \notin G
      BY <1>3 DEF Going, RunInv, FailInv
  <2> QED
      BY <1>1, <1>9, <2>1, <2>2 DEF Going, RunInv, FailInv
<1>15. CoverInv'
  <2> SUFFICES ASSUME NEW r \in Requests
               PROVE  /\ phase'[r] = "idle" => Scoring(r) \/ \E h \in Waiting' : r \in ToSet(h)
                      /\ phase'[r] = "done" => Scoring(r) \/ r \in genFailed
      BY <1>1, ScoringSame DEF CoverInv
  <2>1. CASE r \in G
      BY <1>10, <2>1
  <2>2. CASE r \notin G
    <3>1. phase'[r] = phase[r]
        BY <1>9, <2>2
    <3>2. producer # "load"
        BY <1>3 DEF Going, RunInv, LineInv
    <3>3. phase[r] = "done" => Scoring(r) \/ r \in genFailed
        BY DEF Going, RunInv, CoverInv
    <3>4. ASSUME phase[r] = "idle" PROVE Scoring(r) \/ \E h \in Waiting' : r \in ToSet(h)
      <4>1. Scoring(r) \/ \E h \in Waiting : r \in ToSet(h)
          BY <3>2, <3>4 DEF Going, RunInv, CoverInv
      <4>2. r \notin ToSet(g)
          BY <2>2 DEF G, g
      <4> QED
          BY <1>7, <4>1, <4>2
    <3> QED
        BY <3>1, <3>3, <3>4
  <2> QED
      BY <2>1, <2>2
<1>16. EndInv'
    BY StillRuns DEF Going, RunInv
<1>17. SummaryInv'
    BY <1>1, SummaryKept DEF Going, RunInv
<1> QED
    BY <1>8, <1>11, <1>12, <1>13, <1>14, <1>15, <1>16, <1>17 DEF RunInv

\* The worker takes the group off its queue; all of it still counts.
LEMMA TakeGroupRun ==
    ASSUME Going, NEW s \in Servers, TakeGroup(s)
    PROVE  RunInv'
<1> DEFINE g == Head(serverQ[s])
           G == ToSet(g)
           closed == router = "done" /\ s \notin stopped
<1>1. /\ UNCHANGED <<groupCap, rescore, producer, todo, poolQ, router, routed, generations,
                     genFailed, modelSummary, genQ, holds, scored, finishing, summary,
                     outstanding, at, batch>>
      /\ s \notin stopped /\ serverQ[s] # <<>>
      /\ serverQ' = [serverQ EXCEPT ![s] = Tail(@)]
    BY DEF TakeGroup, files, feed, routing, work, eval
<1>2. /\ \A t \in Servers : t # s => serverQ'[t] = serverQ[t]
      /\ serverQ'[s] = Tail(serverQ[s]) /\ DOMAIN serverQ' = Servers
    BY <1>1 DEF Going, RunInv, LineInv
<1>3. /\ g \in ToSet(serverQ[s]) /\ ToSet(serverQ'[s]) = ToSet(serverQ[s]) \ {g}
      /\ g = None => closed /\ serverQ'[s] = <<>>
      /\ g # None => g \in Parts /\ Line(serverQ'[s], closed)
  <2>1. Line(serverQ[s], closed)
      BY DEF Going, RunInv, LineInv
  <2> QED
      BY <1>1, <1>2, <2>1, LineTake
<1>4. Waiting' = Waiting
    BY <1>1 DEF Waiting
<1>5. EndInv'
    BY StillRuns DEF Going, RunInv
<1>6. SummaryInv'
    BY <1>1, SummaryKept DEF Going, RunInv
<1>7. /\ producer' # "load" \/ producer = "load"
      /\ Line(poolQ', producer' = "done" /\ router' # "done")
    BY <1>1 DEF Going, RunInv, LineInv
<1>8. CASE g = None
  <2>1. stopped' = stopped \cup {s} /\ phase' = phase
      BY <1>8 DEF TakeGroup
  <2>2. serverQ'[s] = <<>> /\ router = "done" /\ ToSet(serverQ'[s]) = {}
      BY <1>3, <1>8, LineEmpty
  <2>3. LineInv'
    <3>1. \A t \in Servers : Line(serverQ'[t], router' = "done" /\ t \notin stopped')
      <4> SUFFICES ASSUME NEW t \in Servers
                   PROVE  Line(serverQ'[t], router' = "done" /\ t \notin stopped')
          OBVIOUS
      <4>1. CASE t = s
        <5>1. Line(serverQ'[s], FALSE)
            BY <2>2, LineEmpty
        <5> QED
            BY <2>1, <4>1, <5>1
      <4>2. CASE t # s
        <5>1. serverQ'[t] = serverQ[t]
            BY <1>2, <4>2
        <5>2. (router' = "done" /\ t \notin stopped') <=> (router = "done" /\ t \notin stopped)
            BY <1>1, <2>1, <4>2
        <5>3. Line(serverQ[t], router = "done" /\ t \notin stopped)
            BY DEF Going, RunInv, LineInv
        <5> QED
            BY <5>1, <5>2, <5>3 DEF Line
      <4> QED
          BY <4>1, <4>2
    <3>2. \A t \in stopped' : router' = "done" /\ serverQ'[t] = <<>>
      <4>1. \A t \in stopped : t \in DOMAIN serverQ /\ t # s => serverQ'[t] = serverQ[t]
          BY <1>1
      <4>2. \A t \in stopped : t # s => serverQ'[t] = serverQ[t]
          BY <1>1
      <4> QED
          BY <1>1, <2>1, <2>2, <4>2 DEF Going, RunInv, LineInv
    <3> QED
        BY <1>1, <1>2, <1>4, <1>7, <2>1, <3>1, <3>2 DEF Going, RunInv, LineInv
  <2>4. WaitInv'
      BY <1>1, <1>4, <2>1 DEF Going, RunInv, WaitInv
  <2>5. ServeInv'
    <3>1. \A t \in Servers : ToSet(serverQ'[t]) \subseteq ToSet(serverQ[t])
        BY <1>2, <2>2
    <3>2. ASSUME NEW t \in Servers, NEW h \in ToSet(serverQ'[t]) \ {None}, NEW r \in ToSet(h)
          PROVE  phase'[r] = "queued" /\ at'[r] = t /\ batch'[r] = h
      <4>1. h \in ToSet(serverQ[t]) \ {None}
          BY <3>1
      <4>2. phase[r] = "queued" /\ at[r] = t /\ batch[r] = h
          BY <4>1 DEF Going, RunInv, ServeInv
      <4> QED
          BY <1>1, <2>1, <4>2
    <3> QED
        BY <1>1, <2>1, <3>2 DEF Going, RunInv, ServeInv
  <2>6. AdmitInv' /\ FailInv'
      BY <1>1, <2>1, AdmitKept, FailKept DEF Going, RunInv
  <2>7. CoverInv'
      BY <1>1, <1>4, <2>1, ScoringSame, CoverKept DEF Going, RunInv
  <2> QED
      BY <1>5, <1>6, <2>3, <2>4, <2>5, <2>6, <2>7 DEF RunInv
<1>9. CASE g # None
  <2>1. /\ stopped' = stopped
        /\ phase' = [r \in Requests |-> IF r \notin G THEN phase[r]
                                        ELSE IF r = Head(g) THEN "ready" ELSE "behind"]
      BY <1>9 DEF TakeGroup
  <2>2. \A r \in G : phase[r] = "queued" /\ at[r] = s /\ batch[r] = g
      BY <1>3, <1>9 DEF Going, RunInv, ServeInv
  <2>3. G \subseteq Requests /\ G # {}
      BY <1>3, <1>9, InLine DEF Going, RunInv, LineInv
  <2> HIDE DEF g, G
  <2>4. \A r \in Requests : r \notin G => phase'[r] = phase[r]
      BY <2>1
  <2>5. \A r \in G : phase'[r] \in {"ready", "behind"}
      BY <2>1, <2>3
  <2>6. producer # "load"
    <3>1. PICK r \in G : TRUE
        BY <2>3
    <3>2. phase[r] = "queued" /\ r \in Requests
        BY <2>2, <2>3
    <3> QED
        BY <3>2 DEF Going, RunInv, LineInv
  <2>7. LineInv'
    <3>1. \A t \in Servers : Line(serverQ'[t], router' = "done" /\ t \notin stopped')
      <4> SUFFICES ASSUME NEW t \in Servers
                   PROVE  Line(serverQ'[t], router = "done" /\ t \notin stopped)
          BY <1>1, <2>1
      <4>1. CASE t = s
          BY <1>3, <1>9, <4>1
      <4>2. CASE t # s
          BY <1>2, <4>2 DEF Going, RunInv, LineInv
      <4> QED
          BY <4>1, <4>2
    <3>2. \A t \in stopped' : router' = "done" /\ serverQ'[t] = <<>>
        BY <1>1, <2>1 DEF Going, RunInv, LineInv
    <3> QED
        BY <1>1, <1>2, <1>4, <1>7, <2>1, <2>6, <3>1, <3>2 DEF Going, RunInv, LineInv
  <2>8. WaitInv'
    <3>1. \A h \in Waiting : \A r \in ToSet(h) : r \in Requests /\ phase[r] = "idle"
        BY WaitingParts DEF Going, RunInv, WaitInv
    <3>2. \A h \in Waiting : \A r \in ToSet(h) : r \notin G
        BY <2>2, <3>1
    <3> QED
        BY <1>1, <1>4, <2>4, <3>1, <3>2 DEF Going, RunInv, WaitInv
  <2>9. ServeInv'
    <3>1. phase' \in [Requests -> Phases]
        BY <2>1, <2>4, <2>5 DEF Phases, Going, RunInv, ServeInv
    <3>2. \A r \in Requests : phase'[r] # "idle" => at'[r] \in Servers
      <4>1. \A r \in Requests : phase'[r] # "idle" => phase[r] # "idle"
          BY <2>2, <2>4
      <4> QED
          BY <1>1, <4>1 DEF Going, RunInv, ServeInv
    <3>3. ASSUME NEW t \in Servers, NEW h \in ToSet(serverQ'[t]) \ {None}, NEW r \in ToSet(h)
          PROVE  phase'[r] = "queued" /\ at'[r] = t /\ batch'[r] = h
      <4>1. h \in ToSet(serverQ[t]) /\ (t = s => h # g)
          BY <1>2, <1>3
      <4>2. phase[r] = "queued" /\ at[r] = t /\ batch[r] = h
          BY <4>1 DEF Going, RunInv, ServeInv
      <4>3. r \notin G
          BY <2>2, <4>1, <4>2
      <4>4. r \in Requests
        <5>1. Line(serverQ[t], router = "done" /\ t \notin stopped)
            BY DEF Going, RunInv, LineInv
        <5> QED
            BY <4>1, <5>1, InLine
      <4> QED
          BY <1>1, <2>4, <4>2, <4>3, <4>4
    <3> QED
        BY <1>1, <3>1, <3>2, <3>3 DEF Going, RunInv, ServeInv
  <2>10. AdmitInv'
    <3>1. \A q \in Requests :
             phase'[q] \in {"queued", "behind", "ready", "calling"} <=>
             phase[q] \in {"queued", "behind", "ready", "calling"}
        BY <2>2, <2>4, <2>5
    <3> QED
        BY <1>1, <3>1, AdmitKept DEF Going, RunInv
  <2>11. FailInv'
    <3>1. \A q \in Requests : phase[q] = "done" => phase'[q] = "done"
        BY <2>2, <2>4
    <3> QED
        BY <1>1, <3>1, FailKept DEF Going, RunInv
  <2>12. CoverInv'
    <3>1. \A q \in Requests : /\ phase'[q] = "idle" => phase[q] = "idle"
                              /\ phase'[q] = "done" => phase[q] = "done"
        BY <2>4, <2>5
    <3>2. \A q \in Requests : Scoring(q) => Scoring(q)'
        BY <1>1, ScoringSame
    <3> QED
        BY <1>1, <1>4, <2>6, <3>1, <3>2, CoverKept DEF Going, RunInv
  <2> QED
      BY <1>5, <1>6, <2>7, <2>8, <2>9, <2>10, <2>11, <2>12 DEF RunInv
<1> QED
    BY <1>8, <1>9

-----------------------------------------------------------------------------

LEMMA RestartRun ==
    ASSUME RunInv, Start \/ Kill
    PROVE  RunInv'
<1>1. /\ UNCHANGED <<groupCap, summary, modelSummary>> /\ Fresh /\ main' \in {"off", "run"}
    BY DEF Start, Kill, files
<1>2. groupCap' \in Nat
    BY <1>1 DEF RunInv, LineInv
<1>3. SummaryCoversRun'
    BY <1>1 DEF RunInv, SummaryInv, SummaryCoversRun
<1>4. Blank'
    BY <1>1 DEF Fresh, Blank
<1>5. (groupCap \in Nat /\ Blank /\ SummaryCoversRun)'
    BY <1>2, <1>3, <1>4
<1> QED
    BY <1>5, BlankNext

LEMMA RunInvariance == Spec => []RunInv
<1>1. Init => RunInv
  <2> SUFFICES ASSUME Init PROVE RunInv
      OBVIOUS
  <2>1. groupCap \in Nat
      BY PipelineAssumption DEF Init
  <2>2. Blank /\ SummaryCoversRun
      BY DEF Init, Blank, SummaryCoversRun
  <2> QED
      BY <2>1, <2>2, BlankRun
<1>2. IInv /\ RunInv /\ [Next]_vars => RunInv'
  <2> SUFFICES ASSUME IInv, RunInv, [Next]_vars PROVE RunInv'
      OBVIOUS
  <2>1. CASE Start \/ Kill
      BY <2>1, RestartRun
  <2>2. ASSUME main \in {"run", "stop"}, finishing = "no", Task PROVE RunInv'
    <3>1. Going
        BY <2>2 DEF Going
    <3>2. CASE Load \/ Rescore \/ Rescored \/ Feed \/ RouterGet \/ Admit \/ AdmitWait
        BY <3>1, <3>2, LoadRun, RescoreRun, FeedRun, RouterGetRun, AdmitRun
    <3>3. CASE \E s \in Servers : TakeGroup(s)
        BY <3>1, <3>3, TakeGroupRun
    <3>4. CASE \E r \in Requests :
                 \/ Call(r) \/ Retry(r) \/ Notify(r) \/ PutGen(r)
                 \/ \E row \in {"output", "error"} : Respond(r, row)
        BY <3>1, <3>4, CallRun, NotifyRun, PutGenRun, RespondRun
    <3>5. CASE \E e \in Evaluators : EvalGet(e) \/ Score(e)
        BY <3>1, <3>5, EvalGetRun, ScoreRun
    <3>6. CASE Drained \/ End
        BY <3>1, <3>6, EndRun
    <3> QED
        BY <2>2, <3>2, <3>3, <3>4, <3>5, <3>6 DEF Task
  <2>3. CASE Process
      BY <2>2, <2>3, SummariesRun DEF Process
  <2>4. CASE UNCHANGED vars
    <3>1. UNCHANGED <<groupCap, todo, poolQ, routed, serverQ, stopped, at, batch, phase,
                      outstanding, genFailed, generations, rescore, modelSummary, summary,
                      finishing, producer, router, genQ, scored, holds, main>>
        BY <2>4 DEF vars, files, feed, routing, work, eval
    <3>2. LineInv' /\ WaitInv' /\ ServeInv' /\ AdmitInv' /\ FailInv' /\ CoverInv'
        BY <3>1, ScoringSame, StillKept
    <3>3. EndInv' /\ SummaryInv'
        BY <3>1 DEF RunInv, EndInv, SummaryInv, SummaryCoversRun, Finished
    <3> QED
        BY <3>2, <3>3 DEF RunInv
  <2> QED
      BY <2>1, <2>3, <2>4 DEF Next
<1> QED
    BY Invariance, <1>1, <1>2, PTL DEF Spec

-----------------------------------------------------------------------------

\* "append generations/records one at a time and filter by ID on restart": no
\* kill between two steps makes a request be recorded twice, nor before its
\* output is in generations.jsonl.
THEOREM RecordsOnce == Spec => []RecordedOnce
<1>1. IInv => RecordedOnce
    BY DEF IInv, RecordInv, RecordedOnce
<1> QED
    BY Invariance, <1>1, PTL

\* No request is lost between the producer, the router, the workers, the queues and
\* the evaluators: a process that ends has a record or a failure of each.
THEOREM EndsComplete == Spec => []EndedComplete
<1>1. IInv /\ RunInv => EndedComplete
  <2> SUFFICES ASSUME IInv, RunInv, main = "ended", NEW r \in Requests
               PROVE  records[r] = 1 \/ r \in genFailed
      BY DEF EndedComplete
  <2>1. /\ producer = "done" /\ router = "done" /\ genQ = <<>>
        /\ phase[r] \in {"idle", "done"} /\ \A e \in Evaluators : holds[e] = None
      BY DEF RunInv, EndInv
  <2>2. r # None
      BY NoneIsNoGroup
  <2>3. Waiting = {}
    <3>1. todo = {} /\ poolQ = <<>> /\ routed = <<>>
        BY <2>1 DEF RunInv, LineInv
    <3> QED
        BY <3>1, LineEmpty DEF Waiting
  <2>4. Scoring(r) => r \in scored
    <3>1. rescore = {}
        BY <2>1 DEF RunInv, LineInv
    <3>2. ToSet(genQ) = {}
        BY <2>1, LineEmpty
    <3>3. \A e \in Evaluators : holds[e] # r
        BY <2>1, <2>2
    <3> QED
        BY <3>1, <3>2, <3>3 DEF Scoring
  <2>5. Scoring(r) \/ r \in genFailed
      BY <2>1, <2>3 DEF RunInv, CoverInv
  <2>6. scored = {q \in Requests : records[q] = 1}
      BY DEF IInv, RecordInv
  <2> QED
      BY <2>4, <2>5, <2>6
<1> QED
    BY Invariance, RunInvariance, <1>1, PTL

\* A request never both fails and is scored in a process, so the count that triggers
\* the summary counts each once, and the summary is of all of them.
THEOREM SummaryOfRun == Spec => []SummaryCoversRun
<1>1. RunInv => SummaryCoversRun
    BY DEF RunInv, SummaryInv
<1> QED
    BY RunInvariance, <1>1, PTL

\* The count admission relies on is that of the requests given and not answered; a
\* server gets at most one group beyond its limit.
THEOREM OutstandingCounted == Spec => []OutstandingExact
<1>1. RunInv => OutstandingExact
    BY DEF RunInv, AdmitInv, OutstandingExact, Under
<1> QED
    BY RunInvariance, <1>1, PTL
====

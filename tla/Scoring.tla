---- MODULE Scoring ----
(***************************************************************************)
(* What is asked and how answers are scored: eval/materialize.py and        *)
(* eval/prompt.py make requests of the rows of a test set, data_process/    *)
(* format.py and eval/extract.py find the answers in a model's output,      *)
(* eval/pipeline.py scores them and eval/metrics.py aggregates;             *)
(* train/rl/reward.py scores the same outputs for RL.                       *)
(*                                                                          *)
(* A row has a memory and questions [q, cat]; q stands for the question and *)
(* for its gold answer.  An output is a sequence of lines [at, no, is]: a   *)
(* fence ("open" is ```text), a line with a marker ("Answer:", "A<no>:",    *)
(* "L<no>:") or plain text, and what the line says; no marked line is empty. *)
(***************************************************************************)
EXTENDS Integers, Sequences, FiniteSets, SequencesExt, FiniteSetsExt, Lists

CONSTANTS
    Configs,      \* test sets: [kind, prompt, dynamic, drop, judge, limit, filter, rows, origins],
                  \* origins[i] the source that row i came from
    MaxPack,      \* max_pack_questions
    Outputs(_)    \* what a model may answer to a request

VARIABLES
    cfg,
    requests,     \* of the test set, once they are materialized
    records,      \* per request asked so far its record, or Failed
    rewards,      \* what RL would give the same output, in units of 1/2n
    report        \* the run's aggregate, or None

scoringVars == <<cfg, requests, records, rewards, report>>

None == [none |-> TRUE]
Failed == [failed |-> TRUE]

-----------------------------------------------------------------------------
(* Requests *)

\* The rows that are read: all, or those of the sources a configuration keeps.
RowsOf(c) == Kept(c.rows, {i \in DOMAIN c.rows : c.filter = {} \/ c.origins[i] \in c.filter})

\* Mutant: a row that is too long is truncated.
SplitPackTruncates(row) == << [row EXCEPT !.qa = SubSeq(@, 1, Min({Len(@), MaxPack}))] >>

\* _split_pack: split, not truncate.
SplitPack(row) ==
    IF Len(row.qa) <= MaxPack THEN << row >>
    ELSE [k \in 1 .. (Len(row.qa) + MaxPack - 1) \div MaxPack |->
            [id |-> row.id \o <<"pack", k - 1>>, memory |-> row.memory,
             qa |-> SubSeq(row.qa, (k - 1) * MaxPack + 1, Min({k * MaxPack, Len(row.qa)}))]]

\* _dynamic_pack_rows: the rows of one memory become one, in the order of their
\* first.
FirstRows(rows) == {i \in DOMAIN rows : \A j \in 1 .. i - 1 : rows[j].memory # rows[i].memory}
DynamicPackRows(rows) ==
    LET memories == Kept([i \in DOMAIN rows |-> rows[i].memory], FirstRows(rows))
        of(m) == Kept([i \in DOMAIN rows |-> rows[i].qa], {i \in DOMAIN rows : rows[i].memory = m})
    IN  [k \in DOMAIN memories |->
            [id |-> <<"dynpack", k - 1>>, memory |-> memories[k], qa |-> FlattenSeq(of(memories[k]))]]

\* The questions of a row that are not of an excluded category.
Asked(c, row) == Kept(row.qa, {j \in DOMAIN row.qa : row.qa[j].cat \notin c.drop})

Request(row, id, kind, asked) ==
    [id |-> row.id \o id, kind |-> kind, asked |-> [i \in DOMAIN asked |-> asked[i].q],
     group |-> row.id, memory |-> row.memory]

\* One request for each question.
Each(c, row, kind) ==
    [i \in DOMAIN Asked(c, row) |-> Request(row, <<i - 1>>, kind, << Asked(c, row)[i] >>)]

\* build_official_requests
BuildOfficialRequests(c, row) ==
    IF c.prompt = "raw_pack" THEN << Request(row, <<"pack">>, "official_pack", Asked(c, row)) >>
    ELSE Each(c, row, "raw")

\* build_requests: the pack as one request, or its questions.
BuildRequests(c, row) ==
    CASE Asked(c, row) = <<>> -> <<>>
      [] Asked(c, row) # <<>> /\ c.kind = "official_single" -> BuildOfficialRequests(c, row)
      [] Asked(c, row) # <<>> /\ c.kind \in {"multi", "recsys_multi"} ->
            << Request(row, <<>>, "multi", Asked(c, row)) >>
      [] Asked(c, row) # <<>> /\ c.kind = "ttl_multi" -> << Request(row, <<>>, "ttl", Asked(c, row)) >>
      [] Asked(c, row) # <<>> /\ c.kind \in {"single", "ttl_single", "recsys_single"} ->
            Each(c, row, "single")

\* materialize_requests: the rows that are read in packs that fit, the requests they make, as many
\* as the limit lets; a limit of 0 is none.
PackRows(c) ==
    LET packed == IF c.dynamic THEN DynamicPackRows(RowsOf(c)) ELSE RowsOf(c)
    IN  FlattenSeq([i \in DOMAIN packed |-> SplitPack(packed[i])])
AllRequests(c) == FlattenSeq([i \in DOMAIN PackRows(c) |-> BuildRequests(c, PackRows(c)[i])])
MaterializeRequests(c) ==
    IF c.limit = 0 THEN AllRequests(c) ELSE SubSeq(AllRequests(c), 1, Min({c.limit, Len(AllRequests(c))}))

\* What is read of the parquet files of a test set: every row asks something, has an id of
\* its own, and no question, gold answer and all, is twice asked of one memory.
Qas == [q : STRING \ {""}, cat : Nat]
IsTestSet(rows) ==
    /\ rows \in Seq([id : Seq(STRING), memory : STRING, qa : Seq(Qas)])
    /\ \A i \in DOMAIN rows : Len(rows[i].id) = 1 /\ rows[i].qa # <<>>
    /\ \A i, k \in DOMAIN rows :
          /\ rows[i].id = rows[k].id => i = k
          /\ rows[i].memory = rows[k].memory =>
                \A j \in DOMAIN rows[i].qa, l \in DOMAIN rows[k].qa :
                    rows[i].qa[j].q = rows[k].qa[l].q => i = k /\ j = l

Kinds == {"official_single", "multi", "recsys_multi", "ttl_multi", "single", "ttl_single", "recsys_single"}
Lines == [at : {"open", "close", "Answer", "A", "L", "text"}, no : Nat, is : STRING]

ASSUME ScoringAssumption ==
    /\ MaxPack \in Nat \ {0}
    /\ \A c \in Configs :
          /\ c.kind \in Kinds /\ c.judge \in {"em", "contains", "lm"} /\ c.limit \in Nat
          /\ IsTestSet(RowsOf(c))
          /\ \A req \in ToSet(MaterializeRequests(c)) : Outputs(req) \subseteq Seq(Lines)

-----------------------------------------------------------------------------
(* Answers *)

Plain(is) == [at |-> "text", no |-> 0, is |-> is]
Fence(at) == [at |-> at, no |-> 0, is |-> ""]
Blank(lines) == \A i \in DOMAIN lines : lines[i] = Plain("")
At(lines, mark) == {i \in DOMAIN lines : lines[i].at = mark}

\* Mutant: the first block counts.
FirstTextBlock(out) ==
    LET from == Min(At(out, "open")) + 1
        closes == {i \in At(out, "close") : i >= from}
    IN  SubSeq(out, from, IF closes = {} THEN Len(out) ELSE Min(closes) - 1)

\* _last_text_block, of an output that has one; a block may lack its end.
LastTextBlock(out) ==
    LET from == Max(At(out, "open")) + 1
        closes == {i \in At(out, "close") : i >= from}
    IN  SubSeq(out, from, IF closes = {} THEN Len(out) ELSE Min(closes) - 1)

Marker == [multi |-> "A", ttl |-> "L"]

\* gold_single, gold_multi, gold_ttl: what SFT trains as the answer to a request.
Gold(req) ==
    LET line(i) == IF req.kind = "single" THEN [at |-> "Answer", no |-> 0, is |-> req.asked[i]]
                   ELSE [at |-> Marker[req.kind], no |-> i, is |-> req.asked[i]]
    IN  << Fence("open") >> \o [i \in DOMAIN req.asked |-> line(i)] \o << Fence("close") >>

\* The answers to packs: an answer goes up to the next marker, and the last one of
\* a number counts.
Numbered(block, marker) ==
    LET marks == At(block, marker)
        last(n) == Max({i \in marks : block[i].no = n})
        next(i) == Min({j \in marks : j > i} \cup {Len(block) + 1})
        text(i) == << Plain(block[i].is) >> \o SubSeq(block, i + 1, next(i) - 1)
    IN  [n \in {block[i].no : i \in marks} |-> text(last(n))]

\* The answer to a single question: the first "Answer:" line or the whole block.
Only(block) ==
    LET marks == At(block, "Answer")
    IN  IF marks = {} THEN block ELSE << Plain(block[Min(marks)].is) >>

\* parse_answers: [answers, block].
ParseAnswers(out, kind) ==
    IF At(out, "open") = {} THEN [answers |-> <<>>, block |-> FALSE]
    ELSE LET block == LastTextBlock(out)
         IN  [answers |-> IF kind = "single" THEN << Only(block) >> ELSE Numbered(block, Marker[kind]),
              block |-> TRUE]

\* The official protocols have no block: every numbered line, or the output as a
\* whole without an echoed "Answer:".
OfficialPack(out) ==
    LET said == At(out, "A")
        found == [n \in {out[i].no : i \in said} |->
                    << Plain(out[Max({i \in said : out[i].no = n})].is) >>]
    IN  [answers |-> found, block |-> said # {}]
Raw(out) ==
    LET pred == IF 1 \in At(out, "Answer") THEN << Plain(out[1].is) >> \o Tail(out) ELSE out
    IN  IF Blank(pred) THEN [answers |-> <<>>, block |-> FALSE]
        ELSE [answers |-> << pred >>, block |-> TRUE]

\* extract: a single answer without a block is the whole output.
Extract(out, kind, n) ==
    CASE kind = "official_pack" -> OfficialPack(out)
      [] kind = "raw" -> Raw(out)
      [] OTHER ->
            LET parsed == ParseAnswers(out, kind)
            IN  IF DOMAIN parsed.answers = {} /\ kind = "single" /\ n = 1 /\ ~Blank(out)
                THEN [answers |-> << out >>, block |-> parsed.block] ELSE parsed

-----------------------------------------------------------------------------
(* Scores *)

\* What a language model may say to each question, yes or no; "none" to all when
\* there is no service.
Verdicts(judge) ==
    IF judge = "lm" THEN [1 .. MaxPack -> {"yes", "no"}] \cup [1 .. MaxPack -> {"none"}]
    ELSE [1 .. MaxPack -> {"no"}]

\* judge_answer for em, contains and lm.
JudgeAnswer(judge, q, pred, verdict) ==
    /\ ~Blank(pred)
    /\ CASE judge = "em" -> pred = << Plain(q) >>
         [] judge = "contains" -> \E i \in DOMAIN pred : pred[i].is = q
         [] judge = "lm" -> verdict = "yes"

\* score_one: the record of a request, each of its questions judged by itself.  A
\* judge that fails scores zero.
ScoreOne(c, req, out, verdicts) ==
    LET parsed == Extract(out, req.kind, Len(req.asked))
        pred(i) == IF i \in DOMAIN parsed.answers THEN parsed.answers[i] ELSE <<>>
    IN  [group |-> req.group,
         correct |-> [i \in DOMAIN req.asked |-> JudgeAnswer(c.judge, req.asked[i], pred(i), verdicts[i])],
         block |-> parsed.block,
         format |-> Cardinality(DOMAIN parsed.answers) = Len(req.asked),
         raw |-> out]

\* _judge of the reward: what matches exactly is not shown to the language model,
\* and without one "contains" is used.
RewardJudge(judge, q, pred, verdict) ==
    IF judge # "lm" THEN JudgeAnswer(judge, q, pred, verdict)
    ELSE \/ JudgeAnswer("em", q, pred, verdict)
         \/ verdict = "none" /\ JudgeAnswer("contains", q, pred, verdict)
         \/ JudgeAnswer("lm", q, pred, verdict)

\* compute_score: the share of correct answers, half a point more for all of them,
\* half a point less for another number of answers, minus half a point for none.
ComputeScore(c, req, out, verdicts) ==
    LET n == Len(req.asked)
        parsed == Extract(out, req.kind, n)
        correct == Cardinality({i \in DOMAIN req.asked : i \in DOMAIN parsed.answers /\
                                    RewardJudge(c.judge, req.asked[i], parsed.answers[i], verdicts[i])})
    IN  IF ~parsed.block \/ DOMAIN parsed.answers = {} THEN -n
        ELSE 2 * correct + (IF correct = n THEN n ELSE 0)
                - (IF Cardinality(DOMAIN parsed.answers) = n THEN 0 ELSE n)

AllTrue(flags) == \A i \in DOMAIN flags : flags[i]

\* aggregate, of the records there are.
Aggregate(recs) ==
    LET groups == {r.group : r \in ToSet(recs)}
        right(g) == \A i \in DOMAIN recs : recs[i].group = g => recs[i].format /\ AllTrue(recs[i].correct)
        trues(flags) == Cardinality({i \in DOMAIN flags : flags[i]})
    IN  [items |-> Total([i \in DOMAIN recs |-> Len(recs[i].correct)]),
         correct |-> Total([i \in DOMAIN recs |-> trues(recs[i].correct)]),
         groups |-> Cardinality(groups),
         groupsRight |-> Cardinality({g \in groups : right(g)})]

-----------------------------------------------------------------------------

ScoringInit ==
    /\ cfg \in Configs
    /\ requests = MaterializeRequests(cfg)
    /\ records = <<>> /\ rewards = <<>> /\ report = None

\* The output of the next request is scored, or its generation fails.
Score(out, verdicts) ==
    /\ Len(records) < Len(requests)
    /\ LET req == requests[Len(records) + 1]
       IN  /\ out \in Outputs(req)
           /\ records' = Append(records, ScoreOne(cfg, req, out, verdicts))
           /\ rewards' = Append(rewards, ComputeScore(cfg, req, out, verdicts))
    /\ UNCHANGED <<cfg, requests, report>>

GenerationFails ==
    /\ Len(records) < Len(requests)
    /\ records' = Append(records, Failed)
    /\ rewards' = Append(rewards, None)
    /\ UNCHANGED <<cfg, requests, report>>

Report ==
    /\ Len(records) = Len(requests) /\ report = None
    /\ report' = Aggregate(Kept(records, {i \in DOMAIN records : records[i] # Failed}))
    /\ UNCHANGED <<cfg, requests, records, rewards>>

ScoringNext ==
    \/ \E verdicts \in Verdicts(cfg.judge), out \in UNION {Outputs(r) : r \in ToSet(requests)} :
          Score(out, verdicts)
    \/ GenerationFails \/ Report

ScoringSpec == ScoringInit /\ [][ScoringNext]_scoringVars

-----------------------------------------------------------------------------

\* "This is intentionally split-not-truncate: no questions are discarded": however
\* rows are regrouped and split, every question that is not excluded is asked once,
\* about its own memory, in packs that fit, under an id no other request has.  A
\* limit drops whole requests.
AskedOnce ==
    LET rows == RowsOf(cfg)
        wanted == UNION {{<<rows[i].memory, rows[i].qa[j].q>> :
                             j \in {k \in DOMAIN rows[i].qa : rows[i].qa[k].cat \notin cfg.drop}} :
                         i \in DOMAIN rows}
        asks(w) == {p \in (DOMAIN requests) \X (1 .. MaxPack) :
                       /\ p[2] \in DOMAIN requests[p[1]].asked
                       /\ w = <<requests[p[1]].memory, requests[p[1]].asked[p[2]]>>}
    IN  /\ \A w \in wanted : IF cfg.limit = 0 THEN Cardinality(asks(w)) = 1 ELSE Cardinality(asks(w)) <= 1
        /\ \A i \in DOMAIN requests :
              /\ Len(requests[i].asked) \in 1 .. MaxPack
              /\ \A j \in DOMAIN requests[i].asked : <<requests[i].memory, requests[i].asked[j]>> \in wanted
        /\ \A i, j \in DOMAIN requests : requests[i].id = requests[j].id => i = j

\* Full marks of an output: one that ends with what SFT trains gets them from RL
\* under every judge, and from the evaluation where no language model judges;
\* exact match credits an answer only when it stands under its own number after
\* the last fence; and where no language model judges RL and evaluation give them
\* to the same fenced outputs.
OutputMarks ==
    \A i \in DOMAIN records :
        LET r == records[i]
            req == requests[i]
            n == Len(req.asked)
            full == r.format /\ AllTrue(r.correct)
        IN  r # Failed /\ req.kind \in {"single", "multi", "ttl"} =>
              /\ IsSuffix(Gold(req), r.raw) =>
                    /\ rewards[i] = 3 * n
                    /\ cfg.judge # "lm" => full
              /\ cfg.judge = "em" => \A j \in DOMAIN req.asked :
                    r.correct[j] => \E k \in DOMAIN r.raw :
                        /\ r.raw[k].is = req.asked[j]
                        /\ req.kind # "single" => r.raw[k].no = j
                        /\ \A o \in At(r.raw, "open") : o < k
              /\ cfg.judge # "lm" => (rewards[i] = 3 * n <=> full /\ r.block)

\* Full marks of a test set: unless generations failed, all groups are right exactly
\* when every question was answered right and in form.
GroupMarks ==
    report # None /\ ~Contains(records, Failed) =>
        /\ report.items = Total([i \in DOMAIN requests |-> Len(requests[i].asked)])
        /\ report.groupsRight = report.groups <=>
              report.correct = report.items /\ AllTrue([i \in DOMAIN records |-> records[i].format])

\* "Data processing, evaluation, and RL share this behavior" (format.py) and
\* "Group-level accuracy requires every question in the same memory/pack group to
\* be correct" (metrics.py).
FullMarks == OutputMarks /\ GroupMarks
====

---- MODULE MCScoring ----
(***************************************************************************)
(* Test sets with one and two memories, a row longer than a pack and a row  *)
(* with a question of an excluded category, and outputs of every shape the  *)
(* extraction tells apart.                                                  *)
(***************************************************************************)
EXTENDS Scoring

Row(id, memory, qs) == [id |-> <<id>>, memory |-> memory, qa |-> qs]
Qa(q, cat) == [q |-> q, cat |-> cat]

Long == << Row("r", "m", <<Qa("a", 1), Qa("b", 1), Qa("c", 5)>>) >>
Two == << Row("r", "m", <<Qa("a", 1)>>), Row("s", "n", <<Qa("b", 1)>>),
          Row("t", "m", <<Qa("c", 5)>>), Row("u", "m", <<Qa("d", 2)>>) >>

\* The rows come from one source, or from two by turns.
Config(kind, prompt, dynamic, drop, judge, limit, rows) ==
    [kind |-> kind, prompt |-> prompt, dynamic |-> dynamic, drop |-> drop, judge |-> judge,
     limit |-> limit, filter |-> {}, rows |-> rows, origins |-> [i \in DOMAIN rows |-> "x"]]
Filtered(config) ==
    [config EXCEPT !.filter = {"x"}, !.origins = [i \in DOMAIN @ |-> IF i % 2 = 1 THEN "x" ELSE "y"]]

MCConfigs ==
    {Config("single", "", FALSE, {}, "em", 0, Long), Config("single", "", FALSE, {5}, "lm", 0, Long),
     Config("multi", "", FALSE, {}, "em", 0, Long), Config("multi", "", FALSE, {}, "lm", 0, Long),
     Config("multi", "", TRUE, {5}, "contains", 0, Two),
     Filtered(Config("multi", "", TRUE, {}, "contains", 0, Two)), Config("ttl_multi", "", FALSE, {}, "em", 0, Long),
     Config("ttl_single", "", FALSE, {}, "em", 2, Two),
     Config("official_single", "raw_pack", FALSE, {}, "contains", 0, Long),
     Config("official_single", "official_locomo", FALSE, {5}, "contains", 0, Long)}

Line(at, no, is) == [at |-> at, no |-> no, is |-> is]
Fenced(lines) == << Line("open", 0, "") >> \o lines \o << Line("close", 0, "") >>

\* Right, wrong, swapped, doubled, missing and surplus answers, with text after
\* them, fenced or not, with a draft before them.
MCOutputs(req) ==
    LET n == Len(req.asked)
        mark == IF req.kind = "ttl" THEN "L" ELSE IF req.kind = "single" THEN "Answer" ELSE "A"
        answer(i, is) == Line(mark, IF mark = "Answer" THEN 0 ELSE i, is)
        right == [i \in 1 .. n |-> answer(i, req.asked[i])]
        wrong == [i \in 1 .. n |-> answer(i, "x")]
        swapped == [i \in 1 .. n |-> answer(n + 1 - i, req.asked[i])]
    IN  {Fenced(right), Fenced(wrong), Fenced(swapped), Fenced(wrong \o right), Fenced(right \o wrong),
         Fenced(Front(right)), Fenced(Append(right, answer(n + 1, "x"))), Fenced(Append(right, Plain("x"))),
         right, Front(Fenced(right)), Fenced(wrong) \o Fenced(right), Fenced(right) \o Fenced(wrong),
         << Plain(req.asked[1]) >>, <<>>}
====

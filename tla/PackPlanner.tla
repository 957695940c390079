---- MODULE PackPlanner ----
(***************************************************************************)
(* PackPlanner of train/sft/data.py: which examples share a row, and which *)
(* rows an optimizer step trains on.  Every rank computes the same plan    *)
(* from the same seed and takes its own slice of every step.               *)
(*                                                                         *)
(* A planner is a record [lengths, labels], what the dataset says of every *)
(* example; a pack is a record [members, labels].                          *)
(***************************************************************************)
EXTENDS TrainData

CONSTANTS
    Target,             \* tokens of a row
    World,              \* number of ranks
    Shuffle(_, _, _)    \* the k-th shuffle, of a sequence, by a generator

ASSUME PlannerAssumption == Target \in Nat \ {0} /\ World \in Nat \ {0}

\* What a sequence of places weighs.
Weight(weights, s) == Total([i \in DOMAIN s |-> weights[s[i]]])

\* list.sort of places by descending weight, stable.
Descending(s, weights) ==
    LET before(i, j) == \/ weights[s[i]] > weights[s[j]]
                        \/ (weights[s[i]] = weights[s[j]] /\ i < j)
        rank(j) == Cardinality({i \in DOMAIN s : before(i, j)}) + 1
    IN  [k \in DOMAIN s |-> s[CHOOSE j \in DOMAIN s : rank(j) = k]]

\* The examples that fit a row, longest first.
ByLength(pl) ==
    LET all == [i \in DOMAIN pl.lengths |-> i]
    IN  Descending(Kept(all, {i \in DOMAIN all : pl.lengths[i] <= Target}), pl.lengths)

\* _bin_pack: the lo-th bin starts with the lo-th longest example and takes from
\* the short end, at hi, what still fits, until lo and hi have met.
Bins(pl) ==
    LET order == ByLength(pl)
        bin(lo, hi, k) == << order[lo] >> \o [m \in 1 .. k |-> order[hi - m + 1]]
        fits(lo, hi, k) == Weight(pl.lengths, bin(lo, hi, k)) <= Target
        filled(lo, hi) == Max({k \in 0 .. hi - lo : fits(lo, hi, k)})
        pack(members) == [members |-> members, labels |-> Weight(pl.labels, members)]
        with(before, lo) ==
            LET most == filled(lo, before.hi)
            IN  [bins |-> Append(before.bins, pack(bin(lo, before.hi, most))),
                 hi |-> before.hi - most]
        after[lo \in 0 .. Len(order)] ==
            IF lo = 0 THEN [bins |-> << >>, hi |-> Len(order)]
            ELSE LET before == after[lo - 1]
                 IN  IF lo > before.hi THEN before ELSE with(before, lo)
    IN  after[Len(order)].bins

LabelsOf(packs) == [p \in DOMAIN packs |-> packs[p].labels]
StepLabels(packs, step) == Weight(LabelsOf(packs), step)

\* Mutant: the steps are filled one after the other.
PlaceInOrder(packs, steps, p, n) ==
    [steps EXCEPT ![Min({s \in DOMAIN steps : Len(steps[s]) < n})] = Append(@, p)]

\* One pop of the heap: the step with the fewest labels that is not full yet
\* (the lower number among equals) takes the pack.
Place(packs, steps, p, n) ==
    LET open == {s \in DOMAIN steps : Len(steps[s]) < n}
        load(s) == StepLabels(packs, steps[s])
        lightest == CHOOSE s \in open :
            \A t \in open : load(s) < load(t) \/ (load(s) = load(t) /\ s <= t)
    IN  [steps EXCEPT ![lightest] = Append(@, p)]

\* _plan: n packs a step; the packs that fill no step are dropped, the others
\* are dealt out heaviest first, then packs and steps are shuffled.
Plan(pl, n, rng) ==
    LET packs == Bins(pl)
        nSteps == Len(packs) \div n
        kept == SubSeq(Shuffle(rng, 0, [p \in DOMAIN packs |-> p]), 1, nSteps * n)
        heaviest == Descending(kept, LabelsOf(packs))
        after[k \in 0 .. nSteps * n] ==
            IF k = 0 THEN [s \in 1 .. nSteps |-> << >>]
            ELSE Place(packs, after[k - 1], heaviest[k], n)
        dealt == after[nSteps * n]
    IN  [packs |-> packs,
         steps |-> Shuffle(rng, nSteps + 1, [s \in 1 .. nSteps |-> Shuffle(rng, s, dealt[s])])]

\* A rank's part of a step.
RankPacks(step, r, ga, mb) == SubSeq(step, r * ga * mb + 1, (r + 1) * ga * mb)

\* __iter__: the micro-batches a rank gets in one epoch.
MicroBatches(steps, r, ga, mb) ==
    [k \in 1 .. Len(steps) * ga |->
        LET own == RankPacks(steps[(k - 1) \div ga + 1], r, ga, mb)
            i == (k - 1) % ga
        IN  SubSeq(own, i * mb + 1, (i + 1) * mb)]
====

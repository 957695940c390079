---- MODULE Training_proofs ----
(***************************************************************************)
(* SFT training for any dataset, number of ranks, shape of a step, seed and *)
(* number of epochs, provided that shuffling permutes: the packs of a plan  *)
(* hold every example once, its steps take a pack once and carry even       *)
(* labels, every update sums over the packs of its planned step, and an     *)
(* epoch covers its examples.                                               *)
(*                                                                         *)
(* First comes the planner: the deal of packs to steps (IsPlanned), the     *)
(* packing of documents (Holds), the dataset.  PlansInv says that every     *)
(* rank works with a plan the planner made; StepsInv, inductive with it,    *)
(* that what a rank has summed over is what its plans, read in order, put   *)
(* into the steps behind it; RowsInv, that a forward pass has the rows of   *)
(* its own micro-batch, in which no token reaches another document.         *)
(*                                                                         *)
(* Last comes the row of RL: its sequences are found again, their schedules *)
(* are the stride rule's, and every token sees what serving showed it.      *)
(***************************************************************************)
EXTENDS SftTraining, RlForward, Lists_proofs

-----------------------------------------------------------------------------
\* Sorting and shuffling.

\* What the k-th shuffle returns of a list is the list in another order.
IsShuffle(t, s) ==
    \A n \in Nat : DOMAIN s = 1 .. n =>
        \E p \in Bijection(1 .. n, 1 .. n) : t = [i \in 1 .. n |-> s[p[i]]]

ShufflePermutes == \A rng, k, s : IsShuffle(Shuffle(rng, k, s), s)

\* A stable sort: every element once, in descending order.
LEMMA DescendingIs ==
    ASSUME NEW n \in Nat, NEW s, DOMAIN s = 1 .. n,
           NEW w, \A i \in 1 .. n : w[s[i]] \in Nat
    PROVE  \E d \in Bijection(1 .. n, 1 .. n) :
              /\ Descending(s, w) = [k \in 1 .. n |-> s[d[k]]]
              /\ \A j, k \in 1 .. n : j <= k => w[s[d[j]]] >= w[s[d[k]]]
<1> DEFINE before(i, j) == \/ w[s[i]] > w[s[j]]
                           \/ (w[s[i]] = w[s[j]] /\ i < j)
           lower(j) == {i \in 1 .. n : before(i, j)}
           rank(j) == Cardinality(lower(j)) + 1
<1>1. ASSUME NEW j \in 1 .. n
      PROVE  /\ IsFiniteSet(lower(j)) /\ Cardinality(lower(j)) \in Nat /\ j \notin lower(j)
             /\ rank(j) \in 1 .. n
  <2>1. IsFiniteSet(1 .. n) /\ Cardinality(1 .. n) = n
    BY FS_Interval
  <2>2. j \notin lower(j)
    OBVIOUS
  <2>3. lower(j) \subseteq 1 .. n
    OBVIOUS
  <2> HIDE DEF lower
  <2>4. /\ IsFiniteSet(lower(j)) /\ Cardinality(lower(j)) <= n
        /\ n = Cardinality(lower(j)) => 1 .. n = lower(j)
    BY <2>1, <2>3, FS_Subset
  <2>5. Cardinality(lower(j)) \in Nat
    BY <2>4, FS_CardinalityType
  <2> QED
    BY <2>2, <2>4, <2>5
<1>2. ASSUME NEW i \in 1 .. n, NEW j \in 1 .. n, before(i, j)
      PROVE  rank(i) < rank(j)
  <2>1. \A x \in 1 .. n : w[s[x]] \in Nat
    OBVIOUS
  <2>2. lower(i) \subseteq lower(j) /\ i \in lower(j) /\ i \notin lower(i)
    BY <1>2, <2>1
  <2>3. IsFiniteSet(lower(j)) /\ Cardinality(lower(j)) \in Nat /\ Cardinality(lower(i)) \in Nat
    BY <1>1
  <2> HIDE DEF lower
  <2>4. Cardinality(lower(i)) <= Cardinality(lower(j))
        /\ (Cardinality(lower(j)) = Cardinality(lower(i)) => lower(j) = lower(i))
    BY <2>2, <2>3, FS_Subset
  <2> QED
    BY <2>2, <2>3, <2>4
<1>3. ASSUME NEW i \in 1 .. n, NEW j \in 1 .. n, i # j PROVE before(i, j) \/ before(j, i)
  <2>1. w[s[i]] \in Nat /\ w[s[j]] \in Nat
    OBVIOUS
  <2> QED
    BY <1>3, <2>1
<1> DEFINE f == [j \in 1 .. n |-> rank(j)]
<1>4. f \in [1 .. n -> 1 .. n]
  BY <1>1
<1>5. ASSUME NEW i \in 1 .. n, NEW j \in 1 .. n, f[i] = f[j] PROVE i = j
  <2> SUFFICES ASSUME i # j PROVE FALSE
    OBVIOUS
  <2>1. rank(i) < rank(j) \/ rank(j) < rank(i)
    <3> HIDE DEF before, rank
    <3> QED
      BY <1>2, <1>3
  <2>2. rank(i) \in Nat /\ rank(j) \in Nat /\ rank(i) = rank(j)
    <3>1. f[i] = rank(i) /\ f[j] = rank(j)
      OBVIOUS
    <3>2. rank(i) \in 1 .. n /\ rank(j) \in 1 .. n
      BY <1>1
    <3> HIDE DEF f, rank
    <3>3. rank(i) = rank(j)
      BY <1>5, <3>1, Zenon
    <3> QED
      BY <3>2, <3>3
  <2> HIDE DEF rank
  <2> QED
    BY <2>1, <2>2
<1>6. \A k \in 1 .. n : \E j \in 1 .. n : f[j] = k
  <2> HIDE DEF f
  <2> QED
    BY <1>4, <1>5, SegmentInjection
<1> DEFINE d == [k \in 1 .. n |-> CHOOSE j \in 1 .. n : rank(j) = k]
<1>7. ASSUME NEW k \in 1 .. n PROVE d[k] \in 1 .. n /\ rank(d[k]) = k
  <2>1. \E j \in 1 .. n : rank(j) = k
    <3>1. PICK j \in 1 .. n : f[j] = k
      BY <1>6
    <3>2. rank(j) = k
      BY <3>1
    <3> HIDE DEF rank
    <3> QED
      BY <3>2
  <2> HIDE DEF rank
  <2> QED
    BY <2>1
<1>8. Descending(s, w) = [k \in 1 .. n |-> s[d[k]]]
  <2>1. Descending(s, w) = [k \in 1 .. n |-> s[CHOOSE j \in 1 .. n : rank(j) = k]]
    BY DEF Descending
  <2> QED
    BY <2>1
<1>9. d \in Bijection(1 .. n, 1 .. n)
  <2>1. d \in [1 .. n -> 1 .. n]
    <3> HIDE DEF rank
    <3>1. d = [k \in 1 .. n |-> d[k]]
      OBVIOUS
    <3> HIDE DEF d
    <3> QED
      BY <1>7, <3>1
  <2>2. ASSUME NEW i \in 1 .. n, NEW j \in 1 .. n, d[i] = d[j] PROVE i = j
    <3> HIDE DEF d, rank
    <3> QED
      BY <1>7, <2>2
  <2> HIDE DEF d
  <2>3. d \in Injection(1 .. n, 1 .. n)
    BY <2>1, <2>2 DEF Injection, IsInjective
  <2>4. \A k \in 1 .. n : \E j \in 1 .. n : d[j] = k
    BY <2>1, <2>2, SegmentInjection
  <2>5. d \in Surjection(1 .. n, 1 .. n)
    BY <2>1, <2>4 DEF Surjection
  <2> QED
    BY <2>3, <2>5 DEF Bijection
<1>10. ASSUME NEW j \in 1 .. n, NEW k \in 1 .. n, j <= k PROVE w[s[d[j]]] >= w[s[d[k]]]
  <2>1. d[j] \in 1 .. n /\ d[k] \in 1 .. n /\ rank(d[j]) = j /\ rank(d[k]) = k
    BY <1>7
  <2> HIDE DEF d
  <2>2. ~before(d[k], d[j])
    <3> SUFFICES ASSUME before(d[k], d[j]) PROVE FALSE
      OBVIOUS
    <3>1. rank(d[k]) < rank(d[j])
      BY <1>2, <2>1
    <3> HIDE DEF rank
    <3> QED
      BY <1>10, <2>1, <3>1
  <2>3. w[s[d[j]]] \in Nat /\ w[s[d[k]]] \in Nat
    BY <2>1
  <2> QED
    BY <2>2, <2>3
<1> HIDE DEF d
<1> QED
  BY <1>8, <1>9, <1>10

-----------------------------------------------------------------------------
\* The plan: packs are dealt to steps.

\* What a sequence of packs is, and that of its labels.
PackSet(m) == [members : Seq(1 .. m), labels : Nat]

\* The labels of a step are a number.
LEMMA StepLabelsType ==
    ASSUME NEW m \in Nat, NEW packs \in Seq(PackSet(m)), NEW st \in Seq(1 .. Len(packs))
    PROVE  StepLabels(packs, st) \in Nat
<1> DEFINE lab == [i \in DOMAIN st |-> LabelsOf(packs)[st[i]]]
<1>1. lab \in Seq(Nat)
  <2>1. \A i \in 1 .. Len(st) : st[i] \in 1 .. Len(packs)
    OBVIOUS
  <2>2. \A p \in 1 .. Len(packs) : packs[p] \in PackSet(m)
    OBVIOUS
  <2>3. \A p \in 1 .. Len(packs) : LabelsOf(packs)[p] = packs[p].labels /\ packs[p].labels \in Nat
    BY <2>2 DEF LabelsOf, PackSet
  <2>4. \A i \in 1 .. Len(st) : LabelsOf(packs)[st[i]] \in Nat
    BY <2>1, <2>3
  <2> QED
    <3>1. lab = [i \in 1 .. Len(st) |-> LabelsOf(packs)[st[i]]] /\ Len(st) \in Nat
      OBVIOUS
    <3> HIDE DEF lab
    <3> QED
      BY <2>4, <3>1
<1>2. Total(lab) \in Nat
  <2> HIDE DEF lab
  <2> QED
    BY <1>1, TotalNat
<1> QED
  BY <1>2 DEF StepLabels, Weight

\* Step l of c, not full and with the fewest labels, takes pack p.
TakenBy(l, packs, steps, p, n, c) ==
    /\ l \in 1 .. c
    /\ Len(steps[l]) < n
    /\ \A t \in 1 .. c : Len(steps[t]) < n =>
          StepLabels(packs, steps[l]) <= StepLabels(packs, steps[t])
    /\ Place(packs, steps, p, n) = [steps EXCEPT ![l] = Append(@, p)]

\* One pop of the heap takes a step that is not full and holds the fewest labels.
LEMMA PlaceIs ==
    ASSUME NEW m \in Nat, NEW packs \in Seq(PackSet(m)), NEW c \in Nat, NEW n \in Nat,
           NEW steps \in [1 .. c -> Seq(1 .. Len(packs))], NEW p \in 1 .. Len(packs),
           \E s \in 1 .. c : Len(steps[s]) < n
    PROVE  \E l : TakenBy(l, packs, steps, p, n, c)
<1> DEFINE open == {s \in DOMAIN steps : Len(steps[s]) < n}
           load(s) == StepLabels(packs, steps[s])
           best(s) == \A t \in open : load(s) < load(t) \/ (load(s) = load(t) /\ s <= t)
           loads == {load(s) : s \in open}
           light == {s \in open : load(s) = Min(loads)}
           lightest == CHOOSE s \in open : best(s)
<1>1. open \subseteq 1 .. c /\ open # {} /\ open \subseteq Nat
  <2>1. PICK s \in 1 .. c : Len(steps[s]) < n
    OBVIOUS
  <2>2. DOMAIN steps = 1 .. c
    OBVIOUS
  <2>3. s \in open
    BY <2>1, <2>2
  <2>4. open \subseteq 1 .. c
    BY <2>2
  <2> HIDE DEF open
  <2> QED
    BY <2>3, <2>4
<1>2. \A s \in open : load(s) \in Nat
  BY <1>1, StepLabelsType
<1>3. Min(loads) \in loads /\ \A x \in loads : Min(loads) <= x
  <2>1. loads \subseteq Nat /\ loads # {}
    <3> HIDE DEF open, load
    <3> QED
      BY <1>1, <1>2
  <2> HIDE DEF loads
  <2> QED
    BY <2>1, MinOf
<1>4. light # {} /\ light \subseteq Nat /\ light \subseteq open
  <2> HIDE DEF open, load
  <2> QED
    BY <1>1, <1>3
<1>5. Min(light) \in light /\ \A x \in light : Min(light) <= x
  <2> HIDE DEF light
  <2> QED
    BY <1>4, MinOf
<1>6. Min(light) \in open /\ best(Min(light))
  <2> DEFINE a == Min(light)
  <2>1. a \in open /\ load(a) = Min(loads)
    BY <1>5
  <2>2. ASSUME NEW t \in open PROVE load(a) < load(t) \/ (load(a) = load(t) /\ a <= t)
    <3>1. load(t) \in loads /\ load(t) \in Nat /\ load(a) \in Nat
      BY <1>2, <2>1
    <3>2. load(a) <= load(t)
      BY <1>3, <2>1, <3>1
    <3>3. load(a) = load(t) => t \in light
      BY <2>1
    <3>4. load(a) = load(t) => a <= t
      BY <1>5, <3>3
    <3> HIDE DEF load, a
    <3> QED
      BY <3>1, <3>2, <3>4
  <2> HIDE DEF a, load, open
  <2>3. best(a)
    BY <2>2
  <2> QED
    BY <2>1, <2>3 DEF a
<1>7. lightest \in open /\ best(lightest)
  <2> HIDE DEF open, best, light
  <2> QED
    BY <1>6
<1>8. Place(packs, steps, p, n) = [steps EXCEPT ![lightest] = Append(@, p)]
  BY DEF Place
<1> HIDE DEF lightest
<1>9. ASSUME NEW t \in 1 .. c, Len(steps[t]) < n PROVE load(lightest) <= load(t)
  <2>1. t \in open
    BY <1>9
  <2>2. load(t) \in Nat /\ load(lightest) \in Nat
    BY <1>2, <1>7, <2>1
  <2>3. load(lightest) < load(t) \/ load(lightest) = load(t)
    BY <1>7, <2>1
  <2> HIDE DEF load
  <2> QED
    BY <2>2, <2>3
<1>10. TakenBy(lightest, packs, steps, p, n, c)
  <2> HIDE DEF load
  <2>1. lightest \in 1 .. c /\ Len(steps[lightest]) < n
    BY <1>1, <1>7
  <2> QED
    BY <1>8, <1>9, <2>1 DEF TakenBy, load
<1> QED
  BY <1>10

-----------------------------------------------------------------------------
\* Dealing keeps the steps even.

\* Of c steps, step s holds C[s] packs and L[s] labels, F[s] of them in its first
\* pack; a step takes at most n packs, and the packs still to come hold at most v
\* labels.  A step leads any step that still takes packs by no more than its
\* first pack, and one that has as many packs by less than that: by v less for
\* every pack that one has more.
Leads(ca, cb, la, lb, fa, n, v) ==
    /\ ca = 0 => la = 0
    /\ ca > 0 => v <= fa
    /\ v * cb <= lb
    /\ ca > 0 /\ cb < n => la <= lb + fa
    /\ ca > 0 /\ ca <= cb => la + v * (cb - ca) <= lb + fa

Even(C, L, F, c, n, v) ==
    \A a, b \in 1 .. c : Leads(C[a], C[b], L[a], L[b], F[a], n, v)

\* What of two steps a and b changes when step l takes a pack of v labels and the
\* next one has u.
Takes(a, b, l, n, v, u, ca, cb, la, lb, fa, da, db, ma, mb, ga) ==
    /\ {a, b, l, n, v, u, ca, cb, la, lb, fa, da, db, ma, mb, ga} \subseteq Nat
    /\ u <= v
    /\ a = l => da = ca + 1 /\ ma = la + v /\ ga = (IF ca = 0 THEN v ELSE fa)
    /\ a # l => da = ca /\ ma = la /\ ga = fa
    /\ b = l => db = cb + 1 /\ mb = lb + v /\ cb < n
    /\ b # l => db = cb /\ mb = lb
    /\ (a = l /\ cb < n) => la <= lb
    /\ a = b => ca = cb /\ la = lb /\ da = db /\ ma = mb

\* Two of the steps, a and b, when step l takes a pack of v labels.
LEMMA EvenPair ==
    ASSUME NEW a, NEW b, NEW l, NEW n, NEW v, NEW u,
           NEW Ca, NEW Cb, NEW La, NEW Lb, NEW Fa, NEW Da, NEW Db, NEW Ma, NEW Mb, NEW Ga,
           Leads(Ca, Cb, La, Lb, Fa, n, v),
           Takes(a, b, l, n, v, u, Ca, Cb, La, Lb, Fa, Da, Db, Ma, Mb, Ga)
    PROVE  Leads(Da, Db, Ma, Mb, Ga, n, u)
<1>1. /\ a \in Nat /\ b \in Nat /\ l \in Nat /\ n \in Nat /\ v \in Nat /\ u \in Nat
      /\ Ca \in Nat /\ Cb \in Nat /\ La \in Nat /\ Lb \in Nat /\ Fa \in Nat
      /\ Da \in Nat /\ Db \in Nat /\ Ma \in Nat /\ Mb \in Nat /\ Ga \in Nat
  BY Zenon DEF Takes
<1>2. /\ Ca = 0 => La = 0
      /\ Ca > 0 => v <= Fa
      /\ v * Cb <= Lb
      /\ Ca > 0 /\ Cb < n => La <= Lb + Fa
      /\ Ca > 0 /\ Ca <= Cb => La + v * (Cb - Ca) <= Lb + Fa
  BY DEF Leads
<1>3. /\ a = l => Da = Ca + 1 /\ Ma = La + v /\ Ga = (IF Ca = 0 THEN v ELSE Fa)
      /\ a # l => Da = Ca /\ Ma = La /\ Ga = Fa
      /\ b = l => Db = Cb + 1 /\ Mb = Lb + v /\ Cb < n
      /\ b # l => Db = Cb /\ Mb = Lb
  BY Zenon DEF Takes
<1>4. /\ u <= v
      /\ (a = l /\ Cb < n) => La <= Lb
      /\ a = b => Ca = Cb /\ La = Lb /\ Da = Db /\ Ma = Mb
  BY Zenon DEF Takes
<1> USE <1>1, <1>2, <1>3, <1>4
<1>5. (Da = 0 => Ma = 0) /\ (Da > 0 => v <= Ga)
  OBVIOUS
<1>6. v * Db <= Mb
  <2>1. v * (Cb + 1) = v * Cb + v /\ v * Cb \in Nat
    OBVIOUS
  <2>2. CASE b = l
    <3>1. v * Db = v * Cb + v /\ Mb = Lb + v
      BY <2>1, <2>2
    <3> QED
      BY <2>1, <3>1
  <2>3. CASE b # l
    BY <2>3
  <2> QED
    BY <2>2, <2>3
<1>7. ASSUME Da > 0, Db < n PROVE Ma <= Mb + Ga
  <2>1. Cb < n /\ Lb <= Mb
    BY <1>7
  <2>2. CASE a = l
    <3>1. La <= Lb
      BY <2>1, <2>2
    <3>2. CASE Ca = 0
      BY <2>2, <3>2
    <3>3. CASE Ca # 0
      BY <2>1, <2>2, <3>1, <3>3
    <3> QED
      BY <3>2, <3>3
  <2>3. CASE a # l
    BY <1>7, <2>1, <2>3
  <2> QED
    BY <2>2, <2>3
<1>8. ASSUME Da > 0, Da <= Db PROVE Ma + v * (Db - Da) <= Mb + Ga
  <2>0. /\ v * Cb \in Nat /\ v * Ca \in Nat
        /\ v * (Cb - Ca) = v * Cb - v * Ca
        /\ v * (Cb + 1 - Ca) = v * Cb + v - v * Ca
        /\ v * (Cb - (Ca + 1)) = v * Cb - v * Ca - v
    OBVIOUS
  <2>1. CASE a = l /\ b = l
    <3>1. v * (Db - Da) = 0 /\ Ma = Mb
      <4>1. Db - Da = 0 /\ Ma = Mb
        BY <2>1
      <4>2. v * 0 = 0
        OBVIOUS
      <4> QED
        BY <4>1, <4>2
    <3> QED
      BY <3>1
  <2>2. CASE a = l /\ b # l
    <3>1. /\ Da = Ca + 1 /\ Ma = La + v /\ Db = Cb /\ Mb = Lb
          /\ Ga = IF Ca = 0 THEN v ELSE Fa
      BY <2>2
    <3>2. v * (Db - Da) = v * Cb - v * Ca - v
      BY <2>0, <3>1
    <3>3. CASE Ca = 0
      <4>1. La = 0 /\ Ga = v /\ v * Ca = 0
        BY <3>1, <3>3
      <4> QED
        BY <2>0, <3>1, <3>2, <4>1
    <3>4. CASE Ca # 0
      <4>1. Ga = Fa /\ Ca > 0 /\ Ca <= Cb
        BY <1>8, <3>1, <3>4
      <4>2. La + v * (Cb - Ca) <= Lb + Fa
        BY <4>1
      <4>3. La + (v * Cb - v * Ca) <= Lb + Fa
        BY <2>0, <4>2
      <4> QED
        BY <2>0, <3>1, <3>2, <4>1, <4>3
    <3> QED
      BY <3>3, <3>4
  <2>3. CASE a # l /\ b = l
    <3>1. Da = Ca /\ Ma = La /\ Ga = Fa /\ Db = Cb + 1 /\ Mb = Lb + v /\ Ca > 0
      BY <1>8, <2>3
    <3>2. v * (Db - Da) = v * Cb + v - v * Ca
      BY <2>0, <3>1
    <3>3. CASE Ca <= Cb
      <4>1. La + (v * Cb - v * Ca) <= Lb + Fa
        BY <2>0, <3>1, <3>3
      <4> QED
        BY <2>0, <3>1, <3>2, <4>1
    <3>4. CASE ~(Ca <= Cb)
      <4>1. Db - Da = 0
        BY <1>8, <3>1, <3>4
      <4>2. v * (Db - Da) = 0
        BY <4>1
      <4>3. La <= Lb + Fa
        BY <2>3, <3>1
      <4> QED
        BY <3>1, <4>2, <4>3
    <3> QED
      BY <3>3, <3>4
  <2>4. CASE a # l /\ b # l
    <3>1. Da = Ca /\ Ma = La /\ Ga = Fa /\ Db = Cb /\ Mb = Lb
      BY <2>4
    <3> QED
      BY <1>8, <3>1
  <2> QED
    BY <2>1, <2>2, <2>3, <2>4
<1>9. u * Db <= Mb /\ (Da > 0 => u <= Ga)
  <2>1. Db * u <= Db * v
    BY MulMono
  <2>2. Db * u = u * Db /\ Db * v = v * Db /\ u * Db \in Nat /\ v * Db \in Nat
    OBVIOUS
  <2> QED
    BY <1>5, <1>6, <2>1, <2>2
<1>10. ASSUME Da > 0, Da <= Db PROVE Ma + u * (Db - Da) <= Mb + Ga
  <2> DEFINE k == Db - Da
  <2>1. k \in Nat
    BY <1>10
  <2>2. Ma + v * k <= Mb + Ga
    BY <1>8, <1>10
  <2> HIDE DEF k
  <2>3. k * u <= k * v
    BY <2>1, MulMono
  <2>4. k * u = u * k /\ k * v = v * k /\ u * k \in Nat /\ v * k \in Nat
    BY <2>1
  <2>5. Ma + u * k <= Mb + Ga
    BY <2>2, <2>3, <2>4
  <2> QED
    BY <2>5 DEF k
<1> QED
  BY <1>5, <1>7, <1>9, <1>10 DEF Leads

\* The lightest open step takes a pack of v labels.
LEMMA EvenKept ==
    ASSUME NEW c \in Nat, NEW n \in Nat, NEW v \in Nat, NEW u \in Nat, u <= v,
           NEW C \in [1 .. c -> Nat], NEW L \in [1 .. c -> Nat], NEW F \in [1 .. c -> Nat],
           NEW D \in [1 .. c -> Nat], NEW M \in [1 .. c -> Nat], NEW G \in [1 .. c -> Nat],
           NEW l \in 1 .. c, C[l] < n, \A t \in 1 .. c : C[t] < n => L[l] <= L[t],
           \A s \in 1 .. c : s # l => D[s] = C[s] /\ M[s] = L[s] /\ G[s] = F[s],
           D[l] = C[l] + 1, M[l] = L[l] + v, G[l] = (IF C[l] = 0 THEN v ELSE F[l]),
           Even(C, L, F, c, n, v)
    PROVE  Even(D, M, G, c, n, u)
<1> SUFFICES ASSUME NEW a \in 1 .. c, NEW b \in 1 .. c
             PROVE  Leads(D[a], D[b], M[a], M[b], G[a], n, u)
  BY DEF Even
<1>1. /\ C[a] \in Nat /\ C[b] \in Nat /\ L[a] \in Nat /\ L[b] \in Nat /\ F[a] \in Nat
      /\ D[a] \in Nat /\ D[b] \in Nat /\ M[a] \in Nat /\ M[b] \in Nat /\ G[a] \in Nat
  OBVIOUS
<1>0. a \in Nat /\ b \in Nat /\ l \in Nat
  OBVIOUS
<1>2. Leads(C[a], C[b], L[a], L[b], F[a], n, v)
  BY DEF Even
<1>3. Takes(a, b, l, n, v, u, C[a], C[b], L[a], L[b], F[a], D[a], D[b], M[a], M[b], G[a])
  <2>1. a = l => D[a] = C[a] + 1 /\ M[a] = L[a] + v /\ G[a] = (IF C[a] = 0 THEN v ELSE F[a])
    OBVIOUS
  <2>2. a # l => D[a] = C[a] /\ M[a] = L[a] /\ G[a] = F[a]
    OBVIOUS
  <2>3. b = l => D[b] = C[b] + 1 /\ M[b] = L[b] + v /\ C[b] < n
    OBVIOUS
  <2>4. b # l => D[b] = C[b] /\ M[b] = L[b]
    OBVIOUS
  <2>5. (a = l /\ C[b] < n) => L[a] <= L[b]
    OBVIOUS
  <2>6. a = b => C[a] = C[b] /\ L[a] = L[b] /\ D[a] = D[b] /\ M[a] = M[b]
    OBVIOUS
  <2>7. {a, b, l, n, v, u, C[a], C[b], L[a], L[b], F[a], D[a], D[b], M[a], M[b], G[a]} \subseteq Nat
    BY <1>0, <1>1
  <2> QED
    BY <2>1, <2>2, <2>3, <2>4, <2>5, <2>6, <2>7, Zenon DEF Takes
<1> QED
  BY <1>2, <1>3, EvenPair

\* A step that takes a pack holds its labels more.
LEMMA StepLabelsAppend ==
    ASSUME NEW m \in Nat, NEW packs \in Seq(PackSet(m)), NEW st \in Seq(1 .. Len(packs)),
           NEW p \in 1 .. Len(packs)
    PROVE  StepLabels(packs, Append(st, p)) = StepLabels(packs, st) + packs[p].labels
<1> DEFINE n == Len(st)
           longer == Append(st, p)
           lab == LabelsOf(packs)
           s == [i \in 1 .. n + 1 |-> lab[longer[i]]]
<1>1. \A q \in 1 .. Len(packs) : lab[q] \in Nat /\ lab[q] = packs[q].labels
  <2>1. \A q \in 1 .. Len(packs) : packs[q] \in PackSet(m)
    OBVIOUS
  <2> QED
    BY <2>1, SMTT(30) DEF LabelsOf, PackSet
<1> HIDE DEF lab
<1>2. /\ n \in Nat /\ DOMAIN longer = 1 .. n + 1 /\ DOMAIN st = 1 .. n
      /\ longer[n + 1] = p
      /\ \A i \in 1 .. n : longer[i] = st[i] /\ st[i] \in 1 .. Len(packs)
  <2>1. n \in Nat /\ DOMAIN st = 1 .. n /\ \A i \in 1 .. n : st[i] \in 1 .. Len(packs)
    OBVIOUS
  <2>2. longer \in Seq(1 .. Len(packs)) /\ Len(longer) = n + 1
        /\ (\A i \in 1 .. n : longer[i] = st[i]) /\ longer[n + 1] = p
    BY AppendProperties
  <2> QED
    BY <2>1, <2>2
<1> HIDE DEF longer, n
<1>3. s \in [1 .. n + 1 -> Nat]
  <2>1. ASSUME NEW i \in 1 .. n + 1 PROVE lab[longer[i]] \in Nat
    <3>1. CASE i = n + 1
      BY <1>1, <1>2, <3>1
    <3>2. CASE i # n + 1
      <4>1. i \in 1 .. n
        BY <1>2, <3>2
      <4> QED
        BY <1>1, <1>2, <4>1
    <3> QED
      BY <3>1, <3>2
  <2> QED
    BY <2>1
<1>4. StepLabels(packs, longer) = Total(s)
  BY <1>2 DEF StepLabels, Weight, lab
<1>5. StepLabels(packs, st) = Total([i \in 1 .. n |-> lab[st[i]]])
  BY <1>2 DEF StepLabels, Weight, lab
<1>6. [i \in 1 .. n |-> lab[st[i]]] = [i \in 1 .. n |-> s[i]]
  <2>1. \A i \in 1 .. n : i \in 1 .. n + 1
    BY <1>2
  <2> QED
    BY <1>2, <2>1
<1>7. s[n + 1] = packs[p].labels
  BY <1>1, <1>2
<1> HIDE DEF s
<1>8. Total(s) = Total([i \in 1 .. n |-> s[i]]) + s[n + 1]
  BY <1>2, <1>3, TotalLast
<1>9. StepLabels(packs, longer) = StepLabels(packs, st) + packs[p].labels
  BY <1>4, <1>5, <1>6, <1>7, <1>8, Zenon
<1> QED
  BY <1>9 DEF longer

\* The first k packs of the order are dealt to c steps of at most n packs: b says
\* where each stands.
StandAt(b, st, order, k, c, n) ==
    /\ b \in [1 .. k -> (1 .. c) \X (1 .. n)]
    /\ \A i, j \in 1 .. k : b[i] = b[j] => i = j
    /\ \A j \in 1 .. k : b[j][2] <= Len(st[b[j][1]]) /\ st[b[j][1]][b[j][2]] = order[j]
    /\ \A s \in 1 .. c : \A i \in 1 .. Len(st[s]) : \E j \in 1 .. k : b[j] = <<s, i>>

Dealt(st, order, k, c, n, m) ==
    /\ st \in [1 .. c -> Seq(1 .. m)]
    /\ \A s \in 1 .. c : Len(st[s]) <= n
    /\ \E b : StandAt(b, st, order, k, c, n)

\* c steps of n packs have c * n places.
LEMMA PlacesCounted ==
    ASSUME NEW c \in Nat, NEW n \in Nat
    PROVE  /\ IsFiniteSet((1 .. c) \X (1 .. n))
           /\ Cardinality((1 .. c) \X (1 .. n)) = c * n
<1> DEFINE S == 1 .. c
           T == 1 .. n
<1>1. IsFiniteSet(S) /\ Cardinality(S) = c /\ IsFiniteSet(T) /\ Cardinality(T) = n
  <2>1. Cardinality(1 .. c) = IF 1 > c THEN 0 ELSE c - 1 + 1
    BY FS_Interval
  <2>2. Cardinality(1 .. n) = IF 1 > n THEN 0 ELSE n - 1 + 1
    BY FS_Interval
  <2> QED
    BY <2>1, <2>2, FS_Interval
<1> HIDE DEF S, T
<1>2. IsFiniteSet(S \X T) /\ Cardinality(S \X T) = Cardinality(S) * Cardinality(T)
  BY <1>1, FS_Product
<1> QED
  BY <1>1, <1>2 DEF S, T

\* While packs are left a step still takes one.
LEMMA DealtOpen ==
    ASSUME NEW c \in Nat, NEW n \in Nat, NEW k \in Nat, k < c * n,
           NEW m \in Nat, NEW st, NEW order, Dealt(st, order, k, c, n, m)
    PROVE  \E s \in 1 .. c : Len(st[s]) < n
<1> SUFFICES ASSUME \A s \in 1 .. c : ~(Len(st[s]) < n) PROVE FALSE
  OBVIOUS
<1>1. st \in [1 .. c -> Seq(1 .. m)] /\ \A s \in 1 .. c : Len(st[s]) <= n
  BY DEF Dealt
<1>2. \A s \in 1 .. c : Len(st[s]) = n
  <2>1. \A s \in 1 .. c : Len(st[s]) \in Nat
    BY <1>1
  <2> QED
    BY <1>1, <2>1
<1>3. PICK b : StandAt(b, st, order, k, c, n)
  BY DEF Dealt
<1> DEFINE All == (1 .. c) \X (1 .. n)
<1>4. b \in Surjection(1 .. k, All)
  <2>1. ASSUME NEW x \in All PROVE \E j \in 1 .. k : b[j] = x
    <3>1. PICK s \in 1 .. c, i \in 1 .. n : x = <<s, i>>
      OBVIOUS
    <3>2. i \in 1 .. Len(st[s])
      BY <1>2
    <3>3. \E j \in 1 .. k : b[j] = <<s, i>>
      BY <1>3, <3>2 DEF StandAt
    <3> QED
      BY <3>1, <3>3
  <2>2. b \in [1 .. k -> All]
    BY <1>3 DEF StandAt
  <2> HIDE DEF All
  <2> QED
    BY <2>1, <2>2 DEF Surjection
<1>5. Cardinality(All) = c * n
  BY PlacesCounted
<1>6. IsFiniteSet(1 .. k) /\ Cardinality(1 .. k) = k
  BY FS_Interval
<1> HIDE DEF All
<1>7. Cardinality(All) <= Cardinality(1 .. k)
  BY <1>4, <1>6, FS_Surjection
<1>8. c * n \in Nat
  OBVIOUS
<1> QED
  BY <1>5, <1>6, <1>7, <1>8

\* When all are dealt every step is full.
LEMMA DealtFull ==
    ASSUME NEW c \in Nat, NEW n \in Nat,
           NEW m \in Nat, NEW st, NEW order, Dealt(st, order, c * n, c, n, m)
    PROVE  \A s \in 1 .. c : Len(st[s]) = n
<1> DEFINE k == c * n
           All == (1 .. c) \X (1 .. n)
<1>0. k \in Nat
  OBVIOUS
<1> HIDE DEF k
<1>1. st \in [1 .. c -> Seq(1 .. m)] /\ \A s \in 1 .. c : Len(st[s]) <= n
  BY DEF Dealt
<1>2. PICK b : StandAt(b, st, order, k, c, n)
  BY DEF Dealt, k
<1>3. b \in Injection(1 .. k, All)
  BY <1>2 DEF StandAt, Injection, IsInjective
<1>4. Cardinality(All) = k /\ IsFiniteSet(All)
  BY PlacesCounted DEF k
<1>5. IsFiniteSet(1 .. k) /\ Cardinality(1 .. k) = k
  BY <1>0, FS_Interval
<1>6. b \in Surjection(1 .. k, All)
  <2> HIDE DEF All
  <2> QED
    BY <1>3, <1>4, <1>5, FS_Injection
<1>7. ASSUME NEW s \in 1 .. c PROVE Len(st[s]) = n
  <2>1. Len(st[s]) \in Nat /\ Len(st[s]) <= n
    BY <1>1
  <2>2. CASE n = 0
    BY <2>1, <2>2
  <2>3. CASE n # 0
    <3>1. <<s, n>> \in All
      BY <2>3
    <3>2. PICK j \in 1 .. k : b[j] = <<s, n>>
      <4> HIDE DEF All
      <4> QED
        BY <1>6, <3>1 DEF Surjection
    <3>3. b[j][2] <= Len(st[b[j][1]])
      BY <1>2 DEF StandAt
    <3>4. n <= Len(st[s])
      BY <3>2, <3>3
    <3> QED
      BY <2>1, <3>4
  <2> QED
    BY <2>2, <2>3
<1> QED
  BY <1>7

\* A pack more is dealt.
LEMMA DealtOneMore ==
    ASSUME NEW c \in Nat, NEW n \in Nat, NEW k \in Nat, NEW m \in Nat, NEW st, NEW order,
           Dealt(st, order, k, c, n, m), order[k + 1] \in 1 .. m,
           NEW l \in 1 .. c, Len(st[l]) < n
    PROVE  Dealt([st EXCEPT ![l] = Append(@, order[k + 1])], order, k + 1, c, n, m)
<1> DEFINE p == order[k + 1]
           more == [st EXCEPT ![l] = Append(@, p)]
           q == Len(st[l]) + 1
<1>1. st \in [1 .. c -> Seq(1 .. m)] /\ \A s \in 1 .. c : Len(st[s]) <= n /\ Len(st[s]) \in Nat
  <2>1. st \in [1 .. c -> Seq(1 .. m)] /\ \A s \in 1 .. c : Len(st[s]) <= n
    BY DEF Dealt
  <2> QED
    BY <2>1
<1>2. PICK b : StandAt(b, st, order, k, c, n)
  BY DEF Dealt
<1>3. /\ b \in [1 .. k -> (1 .. c) \X (1 .. n)]
      /\ \A i, j \in 1 .. k : b[i] = b[j] => i = j
      /\ \A j \in 1 .. k : b[j][2] <= Len(st[b[j][1]]) /\ st[b[j][1]][b[j][2]] = order[j]
      /\ \A s \in 1 .. c : \A i \in 1 .. Len(st[s]) : \E j \in 1 .. k : b[j] = <<s, i>>
  BY <1>2 DEF StandAt
<1>4. /\ more[l] = Append(st[l], p)
      /\ \A s \in 1 .. c : s # l => more[s] = st[s]
      /\ more \in [1 .. c -> Seq(1 .. m)]
  <2>1. p \in 1 .. m
    OBVIOUS
  <2> HIDE DEF p
  <2> QED
    BY <1>1, <2>1
<1>5. /\ Len(more[l]) = q /\ more[l][q] = p /\ q \in 1 .. n
      /\ \A i \in 1 .. Len(st[l]) : more[l][i] = st[l][i]
  <2>1. st[l] \in Seq(1 .. m) /\ p \in 1 .. m
    BY <1>1
  <2> HIDE DEF p, more
  <2>2. /\ Len(Append(st[l], p)) = q /\ Append(st[l], p)[q] = p
        /\ \A i \in 1 .. Len(st[l]) : Append(st[l], p)[i] = st[l][i]
    BY <2>1, AppendProperties
  <2> QED
    BY <1>1, <1>4, <2>2
<1> HIDE DEF more, p, q
<1> DEFINE b2 == [j \in 1 .. k + 1 |-> IF j = k + 1 THEN <<l, q>> ELSE b[j]]
<1>6. /\ b2[k + 1] = <<l, q>>
      /\ \A j \in 1 .. k : b2[j] = b[j] /\ j \in 1 .. k + 1
      /\ b2 \in [1 .. k + 1 -> (1 .. c) \X (1 .. n)]
      /\ \A j \in 1 .. k + 1 : j = k + 1 \/ j \in 1 .. k
  <2>1. b2[k + 1] = <<l, q>>
    OBVIOUS
  <2>2. \A j \in 1 .. k : b2[j] = b[j] /\ j \in 1 .. k + 1
    OBVIOUS
  <2>3. \A j \in 1 .. k + 1 : j = k + 1 \/ j \in 1 .. k
    OBVIOUS
  <2>4. <<l, q>> \in (1 .. c) \X (1 .. n)
    BY <1>5
  <2>5. b2 \in [1 .. k + 1 -> (1 .. c) \X (1 .. n)]
    <3>1. \A j \in 1 .. k + 1 : b2[j] \in (1 .. c) \X (1 .. n)
      <4>1. \A j \in 1 .. k : b[j] \in (1 .. c) \X (1 .. n)
        BY <1>3
      <4> HIDE DEF b2
      <4> QED
        BY <2>1, <2>2, <2>3, <2>4, <4>1, Zenon
    <3> QED
      BY <3>1
  <2> QED
    BY <2>1, <2>2, <2>3, <2>5
<1> HIDE DEF b2
<1>7. \A j \in 1 .. k : b[j] # <<l, q>>
  <2> SUFFICES ASSUME NEW j \in 1 .. k, b[j] = <<l, q>> PROVE FALSE
    OBVIOUS
  <2>1. b[j][2] <= Len(st[b[j][1]])
    BY <1>3
  <2>2. q <= Len(st[l])
    BY <2>1
  <2> QED
    BY <1>1, <2>2 DEF q
<1>8. ASSUME NEW i \in 1 .. k + 1, NEW j \in 1 .. k + 1, b2[i] = b2[j] PROVE i = j
  BY <1>3, <1>6, <1>7, <1>8
<1>9. ASSUME NEW j \in 1 .. k + 1
      PROVE  b2[j][2] <= Len(more[b2[j][1]]) /\ more[b2[j][1]][b2[j][2]] = order[j]
  <2>1. CASE j = k + 1
    <3>1. b2[j][1] = l /\ b2[j][2] = q /\ q \in Nat
      BY <1>5, <1>6, <2>1
    <3> QED
      BY <1>5, <2>1, <3>1 DEF p
  <2>2. CASE j \in 1 .. k
    <3>0. b[j] \in (1 .. c) \X (1 .. n)
      BY <1>3, <2>2
    <3>1. PICK s \in 1 .. c, i \in 1 .. n : b[j] = <<s, i>>
      BY <3>0, SMTT(30)
    <3>2. b2[j][1] = s /\ b2[j][2] = i /\ i <= Len(st[s]) /\ st[s][i] = order[j]
      <4>1. b[j][2] <= Len(st[b[j][1]]) /\ st[b[j][1]][b[j][2]] = order[j]
        BY <1>3, <2>2
      <4>2. b2[j] = b[j]
        BY <1>6, <2>2
      <4>3. b[j][1] = s /\ b[j][2] = i
        BY <3>1
      <4> QED
        BY <4>1, <4>2, <4>3, Zenon
    <3>3. CASE s = l
      <4>1. i \in 1 .. Len(st[l]) /\ i <= q
        BY <1>1, <3>2, <3>3 DEF q
      <4> QED
        BY <1>5, <3>2, <3>3, <4>1
    <3>4. CASE s # l
      BY <1>4, <3>2, <3>4
    <3> QED
      BY <3>3, <3>4
  <2> QED
    BY <1>6, <2>1, <2>2
<1>10. ASSUME NEW s \in 1 .. c, NEW i \in 1 .. Len(more[s])
       PROVE  \E j \in 1 .. k + 1 : b2[j] = <<s, i>>
  <2>1. CASE s = l /\ i = q
    <3>1. k + 1 \in 1 .. k + 1
      OBVIOUS
    <3> QED
      BY <1>6, <2>1, <3>1
  <2>2. CASE ~(s = l /\ i = q)
    <3>1. i \in 1 .. Len(st[s])
      <4>1. CASE s = l
        <5>1. i \in 1 .. q /\ i # q
          BY <1>5, <2>2, <4>1
        <5> QED
          BY <1>1, <4>1, <5>1 DEF q
      <4>2. CASE s # l
        BY <1>4, <4>2
      <4> QED
        BY <4>1, <4>2
    <3>2. PICK j \in 1 .. k : b[j] = <<s, i>>
      BY <1>3, <3>1
    <3> QED
      BY <1>6, <3>2
  <2> QED
    BY <2>1, <2>2
<1>11. StandAt(b2, more, order, k + 1, c, n)
  BY <1>6, <1>8, <1>9, <1>10 DEF StandAt
<1>12. \A s \in 1 .. c : Len(more[s]) <= n
  <2> SUFFICES ASSUME NEW s \in 1 .. c PROVE Len(more[s]) <= n
    OBVIOUS
  <2>1. CASE s = l
    BY <1>5, <2>1
  <2>2. CASE s # l
    BY <1>1, <1>4, <2>2
  <2> QED
    BY <2>1, <2>2
<1>13. Dealt(more, order, k + 1, c, n, m)
  BY <1>4, <1>11, <1>12 DEF Dealt
<1> QED
  BY <1>13 DEF more, p

\* A sequence that is not empty has a first element.
LEMMA FirstIn ==
    ASSUME NEW S, NEW y \in Seq(S), Len(y) # 0
    PROVE  y[1] \in S
<1>1. 1 \in 1 .. Len(y)
  <2>1. Len(y) \in Nat
    OBVIOUS
  <2> QED
    BY <2>1
<1> QED
  BY <1>1

\* How even the steps are while packs of at most v labels are left.
Level(st, packs, c, n, v) ==
    Even([s \in 1 .. c |-> Len(st[s])],
         [s \in 1 .. c |-> StepLabels(packs, st[s])],
         [s \in 1 .. c |-> IF Len(st[s]) = 0 THEN 0 ELSE packs[st[s][1]].labels],
         c, n, v)

\* Dealing a pack to the lightest open step keeps the steps even.
LEMMA LevelOneMore ==
    ASSUME NEW m \in Nat, NEW packs \in Seq(PackSet(m)), NEW c \in Nat, NEW n \in Nat,
           NEW st \in [1 .. c -> Seq(1 .. Len(packs))], NEW p \in 1 .. Len(packs),
           NEW l \in 1 .. c, Len(st[l]) < n,
           \A t \in 1 .. c : Len(st[t]) < n => StepLabels(packs, st[l]) <= StepLabels(packs, st[t]),
           NEW u \in Nat, u <= packs[p].labels,
           Level(st, packs, c, n, packs[p].labels)
    PROVE  Level([st EXCEPT ![l] = Append(@, p)], packs, c, n, u)
<1> DEFINE more == [st EXCEPT ![l] = Append(@, p)]
           v == packs[p].labels
           C == [s \in 1 .. c |-> Len(st[s])]
           L == [s \in 1 .. c |-> StepLabels(packs, st[s])]
           F == [s \in 1 .. c |-> IF Len(st[s]) = 0 THEN 0 ELSE packs[st[s][1]].labels]
           D == [s \in 1 .. c |-> Len(more[s])]
           M == [s \in 1 .. c |-> StepLabels(packs, more[s])]
           G == [s \in 1 .. c |-> IF Len(more[s]) = 0 THEN 0 ELSE packs[more[s][1]].labels]
<1>1. \A q \in 1 .. Len(packs) : packs[q].labels \in Nat
  <2>1. \A q \in 1 .. Len(packs) : packs[q] \in PackSet(m)
    OBVIOUS
  <2> QED
    BY <2>1 DEF PackSet
<1>2. /\ more[l] = Append(st[l], p)
      /\ \A s \in 1 .. c : s # l => more[s] = st[s]
      /\ more \in [1 .. c -> Seq(1 .. Len(packs))]
  OBVIOUS
<1>3. /\ Len(more[l]) = Len(st[l]) + 1
      /\ more[l][Len(st[l]) + 1] = p
      /\ \A i \in 1 .. Len(st[l]) : more[l][i] = st[l][i]
  <2>1. st[l] \in Seq(1 .. Len(packs))
    OBVIOUS
  <2> HIDE DEF more
  <2> QED
    BY <1>2, <2>1, AppendProperties
<1>4. Even(C, L, F, c, n, v)
  BY DEF Level
<1>5. StepLabels(packs, more[l]) = StepLabels(packs, st[l]) + v
  <2>1. StepLabels(packs, Append(st[l], p)) = StepLabels(packs, st[l]) + v
    BY StepLabelsAppend
  <2> HIDE DEF more
  <2> QED
    BY <1>2, <2>1
<1>6. ASSUME NEW x \in [1 .. c -> Seq(1 .. Len(packs))], NEW s \in 1 .. c
      PROVE  /\ Len(x[s]) \in Nat /\ StepLabels(packs, x[s]) \in Nat
             /\ (IF Len(x[s]) = 0 THEN 0 ELSE packs[x[s][1]].labels) \in Nat
  <2>1. x[s] \in Seq(1 .. Len(packs)) /\ Len(x[s]) \in Nat
    OBVIOUS
  <2>2. StepLabels(packs, x[s]) \in Nat
    BY <2>1, StepLabelsType
  <2>3. Len(x[s]) # 0 => x[s][1] \in 1 .. Len(packs)
    BY <2>1, FirstIn
  <2> QED
    BY <1>1, <2>1, <2>2, <2>3
<1> HIDE DEF more
<1>7. /\ C \in [1 .. c -> Nat] /\ L \in [1 .. c -> Nat] /\ F \in [1 .. c -> Nat]
      /\ D \in [1 .. c -> Nat] /\ M \in [1 .. c -> Nat] /\ G \in [1 .. c -> Nat]
  BY <1>2, <1>6
<1>8. \A s \in 1 .. c : s # l => D[s] = C[s] /\ M[s] = L[s] /\ G[s] = F[s]
  BY <1>2
<1>9. D[l] = C[l] + 1 /\ M[l] = L[l] + v /\ C[l] < n
      /\ \A t \in 1 .. c : C[t] < n => L[l] <= L[t]
  BY <1>3, <1>5
<1>10. G[l] = IF C[l] = 0 THEN v ELSE F[l]
  <2>1. Len(st[l]) \in Nat /\ C[l] = Len(st[l])
    OBVIOUS
  <2>2. CASE C[l] = 0
    <3>1. Len(st[l]) = 0 /\ Len(more[l]) = 1 /\ more[l][1] = p
      BY <1>3, <2>1, <2>2
    <3>2. G[l] = IF Len(more[l]) = 0 THEN 0 ELSE packs[more[l][1]].labels
      OBVIOUS
    <3> HIDE DEF G
    <3> QED
      BY <2>2, <3>1, <3>2
  <2>3. CASE C[l] # 0
    <3>1. Len(st[l]) # 0 /\ 1 \in 1 .. Len(st[l])
      BY <2>1, <2>3
    <3>2. more[l][1] = st[l][1] /\ Len(more[l]) # 0
      BY <1>3, <3>1
    <3>3. G[l] = packs[st[l][1]].labels
      BY <3>2
    <3>4. F[l] = packs[st[l][1]].labels
      BY <3>1
    <3> QED
      BY <2>3, <3>3, <3>4
  <2> QED
    BY <2>2, <2>3
<1>11. v \in Nat /\ u <= v
  BY <1>1
<1> HIDE DEF C, L, F, D, M, G, v
<1>12. Even(D, M, G, c, n, u)
  BY <1>4, <1>7, <1>8, <1>9, <1>10, <1>11, EvenKept
<1> QED
  BY <1>12 DEF Level, D, M, G, more

\* Dealing the packs out, heaviest first, fills c steps of n packs and leaves
\* them even.
LEMMA DealsEvenly ==
    ASSUME NEW m \in Nat, NEW packs \in Seq(PackSet(m)), NEW c \in Nat, NEW n \in Nat,
           NEW order \in [1 .. c * n -> 1 .. Len(packs)],
           \A j, k \in 1 .. c * n : j <= k => packs[order[j]].labels >= packs[order[k]].labels,
           NEW f, f[0] = [s \in 1 .. c |-> << >>],
           \A k \in 1 .. c * n : f[k] = Place(packs, f[k - 1], order[k], n)
    PROVE  /\ Dealt(f[c * n], order, c * n, c, n, Len(packs))
           /\ Level(f[c * n], packs, c, n, 0)
<1> DEFINE K == c * n
           P == Len(packs)
           wt(k) == IF k = K THEN 0 ELSE packs[order[k + 1]].labels
           T == {k \in 0 .. K : Dealt(f[k], order, k, c, n, P) /\ Level(f[k], packs, c, n, wt(k))}
<1>0. K \in Nat /\ P \in Nat
  OBVIOUS
<1>1. \A q \in 1 .. P : packs[q].labels \in Nat
  <2>1. \A q \in 1 .. P : packs[q] \in PackSet(m)
    OBVIOUS
  <2> QED
    BY <2>1 DEF PackSet
<1>2. \A k \in 0 .. K - 1 : k + 1 \in 1 .. K /\ order[k + 1] \in 1 .. P /\ wt(k) = packs[order[k + 1]].labels
  <2> SUFFICES ASSUME NEW k \in 0 .. K - 1
               PROVE  k + 1 \in 1 .. K /\ order[k + 1] \in 1 .. P /\ k # K
    OBVIOUS
  <2>1. k + 1 \in 1 .. K /\ k # K
    BY <1>0
  <2> QED
    BY <2>1
<1>3. \A k \in 0 .. K : wt(k) \in Nat
  <2> SUFFICES ASSUME NEW k \in 0 .. K PROVE wt(k) \in Nat
    OBVIOUS
  <2>1. CASE k = K
    BY <2>1
  <2>2. CASE k # K
    <3>1. k \in 0 .. K - 1
      BY <1>0, <2>2
    <3> QED
      BY <1>1, <1>2, <3>1
  <2> QED
    BY <2>1, <2>2
<1>4. 0 \in T
  <2> DEFINE none == [s \in 1 .. c |-> << >>]
  <2>1. none \in [1 .. c -> Seq(1 .. P)] /\ \A s \in 1 .. c : none[s] = << >> /\ Len(none[s]) = 0
    <3>1. << >> \in Seq(1 .. P) /\ Len(<< >>) = 0
      OBVIOUS
    <3> QED
      BY <3>1
  <2>2. \A s \in 1 .. c : StepLabels(packs, none[s]) = 0
    <3>1. [i \in DOMAIN << >> |-> LabelsOf(packs)[<< >>[i]]] \in [1 .. 0 -> Nat]
      <4>1. DOMAIN << >> = 1 .. 0
        OBVIOUS
      <4>2. \A i \in 1 .. 0 : FALSE
        OBVIOUS
      <4> QED
        BY <4>1, <4>2
    <3>2. StepLabels(packs, << >>) = 0
      BY <3>1, TotalEmpty DEF StepLabels, Weight
    <3> HIDE DEF none
    <3> QED
      BY <2>1, <3>2
  <2> HIDE DEF none
  <2>3. Dealt(none, order, 0, c, n, P)
    <3>1. StandAt(<< >>, none, order, 0, c, n)
      <4>1. \A i \in 1 .. 0 : FALSE
        OBVIOUS
      <4>2. << >> \in [1 .. 0 -> (1 .. c) \X (1 .. n)]
        <5>1. DOMAIN << >> = 1 .. 0
          OBVIOUS
        <5> QED
          BY <4>1, <5>1
      <4>3. \A s \in 1 .. c : \A i \in 1 .. Len(none[s]) : FALSE
        BY <2>1
      <4> QED
        BY <4>1, <4>2, <4>3 DEF StandAt
    <3>2. \A s \in 1 .. c : Len(none[s]) <= n
      BY <2>1
    <3> QED
      BY <2>1, <3>1, <3>2 DEF Dealt
  <2>4. Level(none, packs, c, n, wt(0))
    <3>1. wt(0) \in Nat
      BY <1>0, <1>3
    <3> HIDE DEF wt
    <3>2. Leads(0, 0, 0, 0, 0, n, wt(0))
      BY <3>1 DEF Leads
    <3> QED
      BY <2>1, <2>2, <3>2 DEF Level, Even
  <2>5. f[0] = none
    BY DEF none
  <2> HIDE DEF wt
  <2> QED
    BY <1>0, <2>3, <2>4, <2>5
<1>5. ASSUME NEW k \in 0 .. K - 1, k \in T PROVE k + 1 \in T
  <2> DEFINE st == f[k]
             p == order[k + 1]
  <2>1. Dealt(st, order, k, c, n, P) /\ Level(st, packs, c, n, packs[p].labels)
    BY <1>2, <1>5
  <2>2. k < K /\ k \in Nat /\ k + 1 \in 1 .. K /\ p \in 1 .. P
    BY <1>0, <1>2
  <2>3. f[k + 1] = Place(packs, st, p, n)
    <3>1. (k + 1) - 1 = k
      OBVIOUS
    <3> QED
      BY <2>2, <3>1
  <2>4. wt(k + 1) \in Nat /\ wt(k + 1) <= packs[p].labels
    <3>1. wt(k + 1) \in Nat
      <4>1. k + 1 \in 0 .. K
        BY <2>2
      <4> HIDE DEF wt
      <4> QED
        BY <1>3, <4>1
    <3>2. CASE k + 1 = K
      BY <1>1, <2>2, <3>2
    <3>3. CASE k + 1 # K
      <4>1. k + 1 \in 0 .. K - 1
        BY <1>0, <2>2, <3>3
      <4>2. wt(k + 1) = packs[order[(k + 1) + 1]].labels /\ (k + 1) + 1 \in 1 .. K
        BY <1>2, <4>1
      <4>3. k + 1 <= (k + 1) + 1
        OBVIOUS
      <4>4. packs[order[k + 1]].labels >= packs[order[(k + 1) + 1]].labels
        BY <2>2, <4>2, <4>3
      <4>5. order[(k + 1) + 1] \in 1 .. P
        BY <4>2
      <4> HIDE DEF wt
      <4> QED
        BY <1>1, <2>2, <3>1, <4>2, <4>4, <4>5
    <3> QED
      BY <3>1, <3>2, <3>3
  <2> HIDE DEF p, wt, st
  <2>5. st \in [1 .. c -> Seq(1 .. P)]
    BY <2>1 DEF Dealt
  <2>6. \E s \in 1 .. c : Len(st[s]) < n
    BY <1>0, <2>1, <2>2, DealtOpen
  <2>7. PICK l : TakenBy(l, packs, st, p, n, c)
    BY <2>2, <2>5, <2>6, PlaceIs, Zenon
  <2>8. /\ l \in 1 .. c
        /\ Len(st[l]) < n
        /\ \A t \in 1 .. c : Len(st[t]) < n => StepLabels(packs, st[l]) <= StepLabels(packs, st[t])
        /\ Place(packs, st, p, n) = [st EXCEPT ![l] = Append(@, p)]
    BY <2>7 DEF TakenBy
  <2>9. Dealt(f[k + 1], order, k + 1, c, n, P)
    <3>1. Dealt([st EXCEPT ![l] = Append(@, order[k + 1])], order, k + 1, c, n, P)
      BY <1>0, <2>1, <2>2, <2>8, DealtOneMore DEF p
    <3> QED
      BY <2>3, <2>8, <3>1 DEF p
  <2>10. Level(f[k + 1], packs, c, n, wt(k + 1))
    <3>1. Level([st EXCEPT ![l] = Append(@, p)], packs, c, n, wt(k + 1))
      BY <2>1, <2>2, <2>4, <2>5, <2>8, LevelOneMore
    <3> QED
      BY <2>3, <2>8, <3>1
  <2>11. k + 1 \in 0 .. K
    BY <2>2
  <2> QED
    BY <2>9, <2>10, <2>11
<1>6. \A k \in 0 .. K : k \in T
  <2>1. \A k \in 0 .. K - 1 : k \in T => k + 1 \in T
    BY <1>5
  <2> HIDE DEF T
  <2> QED
    BY <1>0, <1>4, <2>1, UpTo
<1>7. K \in T /\ wt(K) = 0
  <2>1. K \in 0 .. K
    BY <1>0
  <2>2. K \in T
    <3> HIDE DEF T
    <3> QED
      BY <1>6, <2>1
  <2> QED
    BY <2>2
<1> HIDE DEF wt
<1>8. Dealt(f[K], order, K, c, n, P) /\ Level(f[K], packs, c, n, wt(K))
  BY <1>7
<1> QED
  BY <1>7, <1>8

\* In full even steps a step leads another by no more than its first pack.
LEMMA LevelFull ==
    ASSUME NEW c \in Nat, NEW n \in Nat \ {0}, NEW st, NEW packs, Level(st, packs, c, n, 0),
           \A s \in 1 .. c : Len(st[s]) = n /\ StepLabels(packs, st[s]) \in Nat,
           NEW a \in 1 .. c, NEW b \in 1 .. c, packs[st[a][1]].labels \in Nat
    PROVE  StepLabels(packs, st[a]) <= StepLabels(packs, st[b]) + packs[st[a][1]].labels
<1> DEFINE x == StepLabels(packs, st[a])
           y == StepLabels(packs, st[b])
           z == packs[st[a][1]].labels
<1>1. Leads(n, n, x, y, z, n, 0)
  <2>1. Len(st[a]) = n /\ Len(st[b]) = n /\ n # 0
    OBVIOUS
  <2>2. Leads(Len(st[a]), Len(st[b]), x, y, IF Len(st[a]) = 0 THEN 0 ELSE z, n, 0)
    BY DEF Level, Even
  <2> HIDE DEF x, y, z
  <2> QED
    BY <2>1, <2>2
<1>2. x \in Nat /\ y \in Nat /\ z \in Nat
  OBVIOUS
<1> HIDE DEF x, y, z
<1>3. n > 0 /\ n <= n /\ n - n = 0
  OBVIOUS
<1>4. x + 0 * (n - n) <= y + z
  BY <1>1, <1>3 DEF Leads
<1>5. x <= y + z
  BY <1>2, <1>3, <1>4
<1> QED
  BY <1>5 DEF x, y, z

\* Steps of n packs, no pack in two places, the labels even up to one pack.
IsPlanned(packs, steps, c, n) ==
    /\ steps \in [1 .. c -> Seq(1 .. Len(packs))]
    /\ \A s \in 1 .. c : Len(steps[s]) = n
    /\ \A s, t \in 1 .. c : \A i, j \in 1 .. n :
          steps[s][i] = steps[t][j] => s = t /\ i = j
    /\ \A s, t \in 1 .. c : \E i \in 1 .. n :
          StepLabels(packs, steps[s]) <= StepLabels(packs, steps[t]) + packs[steps[s][i]].labels

\* No two places of a plan hold the same pack.
LEMMA PlannedApart ==
    ASSUME NEW packs, NEW steps, NEW c, NEW n, IsPlanned(packs, steps, c, n),
           NEW s \in 1 .. c, NEW t \in 1 .. c, NEW i \in 1 .. n, NEW j \in 1 .. n,
           steps[s][i] = steps[t][j]
    PROVE  s = t /\ i = j
BY SMTT(30) DEF IsPlanned

\* An order of K of the packs.
IsOrder(order, packs, K) ==
    /\ order \in [1 .. K -> 1 .. Len(packs)]
    /\ \A j, k \in 1 .. K : order[j] = order[k] => j = k

\* The dealt steps, before they are shuffled.
LEMMA DealtIsPlanned ==
    ASSUME NEW m \in Nat, NEW packs \in Seq(PackSet(m)), NEW c \in Nat, NEW n \in Nat \ {0},
           NEW order, IsOrder(order, packs, c * n),
           NEW st, Dealt(st, order, c * n, c, n, Len(packs)), Level(st, packs, c, n, 0)
    PROVE  IsPlanned(packs, st, c, n)
<1> DEFINE K == c * n
<1>0. K \in Nat
  OBVIOUS
<1>1. \A q \in 1 .. Len(packs) : packs[q].labels \in Nat
  <2>1. \A q \in 1 .. Len(packs) : packs[q] \in PackSet(m)
    OBVIOUS
  <2> QED
    BY <2>1 DEF PackSet
<1>2. st \in [1 .. c -> Seq(1 .. Len(packs))]
  BY DEF Dealt
<1>3. \A s \in 1 .. c : Len(st[s]) = n
  BY DealtFull
<1>4. PICK b : StandAt(b, st, order, K, c, n)
  BY DEF Dealt
<1>5. ASSUME NEW s \in 1 .. c, NEW t \in 1 .. c, NEW i \in 1 .. n, NEW j \in 1 .. n,
             st[s][i] = st[t][j]
      PROVE  s = t /\ i = j
  <2>1. PICK x \in 1 .. K : b[x] = <<s, i>>
    BY <1>3, <1>4 DEF StandAt
  <2>2. PICK y \in 1 .. K : b[y] = <<t, j>>
    BY <1>3, <1>4 DEF StandAt
  <2>3. st[b[x][1]][b[x][2]] = order[x] /\ st[b[y][1]][b[y][2]] = order[y]
    BY <1>4 DEF StandAt
  <2>4. b[x][1] = s /\ b[x][2] = i /\ b[y][1] = t /\ b[y][2] = j
    BY <2>1, <2>2
  <2>5. order[x] = order[y]
    BY <1>5, <2>3, <2>4, Zenon
  <2>6. x = y
    BY <2>5 DEF IsOrder
  <2> QED
    BY <2>4, <2>6
<1>6. ASSUME NEW s \in 1 .. c, NEW t \in 1 .. c
      PROVE  \E i \in 1 .. n : StepLabels(packs, st[s]) <= StepLabels(packs, st[t]) + packs[st[s][i]].labels
  <2>1. \A x \in 1 .. c : StepLabels(packs, st[x]) \in Nat
    <3> SUFFICES ASSUME NEW x \in 1 .. c PROVE StepLabels(packs, st[x]) \in Nat
      OBVIOUS
    <3>1. st[x] \in Seq(1 .. Len(packs))
      BY <1>2
    <3> QED
      BY <3>1, StepLabelsType
  <2>2. packs[st[s][1]].labels \in Nat
    <3>1. st[s] \in Seq(1 .. Len(packs)) /\ Len(st[s]) # 0
      BY <1>2, <1>3
    <3>2. st[s][1] \in 1 .. Len(packs)
      BY <3>1, FirstIn
    <3> QED
      BY <1>1, <3>2
  <2>3. StepLabels(packs, st[s]) <= StepLabels(packs, st[t]) + packs[st[s][1]].labels
    BY <1>3, <2>1, <2>2, LevelFull
  <2>4. 1 \in 1 .. n
    OBVIOUS
  <2> QED
    BY <2>3, <2>4
<1> QED
  BY <1>2, <1>3, <1>5, <1>6 DEF IsPlanned

\* Reordering a step does not change what it holds.
LEMMA StepLabelsPermuted ==
    ASSUME NEW m \in Nat, NEW packs \in Seq(PackSet(m)), NEW n \in Nat,
           NEW st \in Seq(1 .. Len(packs)), Len(st) = n, NEW p \in Bijection(1 .. n, 1 .. n)
    PROVE  StepLabels(packs, [i \in 1 .. n |-> st[p[i]]]) = StepLabels(packs, st)
<1> DEFINE lab == LabelsOf(packs)
           s == [i \in 1 .. n |-> lab[st[i]]]
           other == [i \in 1 .. n |-> st[p[i]]]
<1>1. \A q \in 1 .. Len(packs) : lab[q] \in Nat
  <2>1. \A q \in 1 .. Len(packs) : packs[q] \in PackSet(m)
    OBVIOUS
  <2> QED
    BY <2>1 DEF LabelsOf, PackSet
<1>2. DOMAIN st = 1 .. n /\ \A i \in 1 .. n : st[i] \in 1 .. Len(packs)
  OBVIOUS
<1>3. \A i \in 1 .. n : p[i] \in 1 .. n
  BY DEF Bijection, Injection
<1> HIDE DEF lab
<1>4. s \in [1 .. n -> Nat]
  BY <1>1, <1>2
<1>5. StepLabels(packs, st) = Total(s)
  BY <1>2 DEF StepLabels, Weight, lab
<1>6. StepLabels(packs, other) = Total([i \in 1 .. n |-> s[p[i]]])
  <2>1. StepLabels(packs, other) = Total([i \in 1 .. n |-> lab[other[i]]])
    BY DEF StepLabels, Weight, lab
  <2>2. [i \in 1 .. n |-> lab[other[i]]] = [i \in 1 .. n |-> s[p[i]]]
    BY <1>3
  <2> QED
    BY <2>1, <2>2
<1> HIDE DEF s
<1>7. Total([i \in 1 .. n |-> s[p[i]]]) = Total(s)
  BY <1>4, TotalPermuted
<1> QED
  BY <1>5, <1>6, <1>7

\* new holds the c steps of st in another order, and each of them in another one.
IsShuffled(new, st, c, n) ==
    \E p, q :
        /\ \A s \in 1 .. c : p[s] \in Bijection(1 .. n, 1 .. n)
        /\ q \in Bijection(1 .. c, 1 .. c)
        /\ new = [s \in 1 .. c |-> [i \in 1 .. n |-> st[q[s]][p[q[s]][i]]]]

\* Shuffling the steps, and each step, keeps the plan a plan.
LEMMA ShuffledIsPlanned ==
    ASSUME NEW m \in Nat, NEW packs \in Seq(PackSet(m)), NEW c \in Nat, NEW n \in Nat,
           NEW st, IsPlanned(packs, st, c, n),
           NEW new, IsShuffled(new, st, c, n)
    PROVE  IsPlanned(packs, new, c, n)
<1>0. PICK p, q :
          /\ \A s \in 1 .. c : p[s] \in Bijection(1 .. n, 1 .. n)
          /\ q \in Bijection(1 .. c, 1 .. c)
          /\ new = [s \in 1 .. c |-> [i \in 1 .. n |-> st[q[s]][p[q[s]][i]]]]
  BY DEF IsShuffled
<1>1. /\ st \in [1 .. c -> Seq(1 .. Len(packs))]
      /\ \A s \in 1 .. c : Len(st[s]) = n
      /\ \A s, t \in 1 .. c : \A i, j \in 1 .. n : st[s][i] = st[t][j] => s = t /\ i = j
      /\ \A s, t \in 1 .. c : \E i \in 1 .. n :
            StepLabels(packs, st[s]) <= StepLabels(packs, st[t]) + packs[st[s][i]].labels
  BY DEF IsPlanned
<1>2. /\ \A s \in 1 .. c : q[s] \in 1 .. c
      /\ \A s, t \in 1 .. c : q[s] = q[t] => s = t
  BY <1>0 DEF Bijection, Injection, IsInjective
<1>3. ASSUME NEW s \in 1 .. c
      PROVE  /\ \A i \in 1 .. n : p[s][i] \in 1 .. n
             /\ \A i, j \in 1 .. n : p[s][i] = p[s][j] => i = j
             /\ \A j \in 1 .. n : \E i \in 1 .. n : p[s][i] = j
  <2>1. p[s] \in Bijection(1 .. n, 1 .. n)
    BY <1>0
  <2> QED
    BY <2>1 DEF Bijection, Injection, Surjection, IsInjective
<1>4. \A s \in 1 .. c : \A i \in 1 .. n : new[s][i] = st[q[s]][p[q[s]][i]]
  BY <1>0
<1>5. ASSUME NEW s \in 1 .. c
      PROVE  /\ new[s] \in Seq(1 .. Len(packs)) /\ Len(new[s]) = n
             /\ StepLabels(packs, new[s]) = StepLabels(packs, st[q[s]])
  <2> DEFINE a == st[q[s]]
             r == p[q[s]]
  <2>1. q[s] \in 1 .. c
    BY <1>2
  <2>2. a \in Seq(1 .. Len(packs)) /\ Len(a) = n /\ r \in Bijection(1 .. n, 1 .. n)
    BY <1>0, <1>1, <2>1
  <2>3. \A i \in 1 .. n : r[i] \in 1 .. n
    BY <1>3, <2>1
  <2>4. new[s] = [i \in 1 .. n |-> a[r[i]]]
    BY <1>0
  <2> HIDE DEF a, r
  <2>5. [i \in 1 .. n |-> a[r[i]]] \in [1 .. n -> 1 .. Len(packs)]
    <3>1. \A i \in 1 .. n : a[r[i]] \in 1 .. Len(packs)
      BY <2>2, <2>3
    <3> QED
      BY <3>1
  <2>6. new[s] \in Seq(1 .. Len(packs)) /\ Len(new[s]) = n
    <3> DEFINE z == [i \in 1 .. n |-> a[r[i]]]
    <3>1. z \in [1 .. n -> 1 .. Len(packs)]
      BY <2>5
    <3> HIDE DEF z
    <3>2. z \in Seq(1 .. Len(packs)) /\ Len(z) = n
      BY <3>1, SegmentSeq
    <3> QED
      BY <2>4, <3>2 DEF z
  <2>7. StepLabels(packs, [i \in 1 .. n |-> a[r[i]]]) = StepLabels(packs, a)
    BY <2>2, StepLabelsPermuted
  <2> QED
    BY <2>4, <2>6, <2>7 DEF a
<1>6. new \in [1 .. c -> Seq(1 .. Len(packs))]
  <2>1. new = [s \in 1 .. c |-> new[s]]
    BY <1>0
  <2> QED
    BY <1>5, <2>1
<1>7. ASSUME NEW s \in 1 .. c, NEW t \in 1 .. c, NEW i \in 1 .. n, NEW j \in 1 .. n,
             new[s][i] = new[t][j]
      PROVE  s = t /\ i = j
  <2>1. q[s] \in 1 .. c /\ q[t] \in 1 .. c
    BY <1>2
  <2>2. p[q[s]][i] \in 1 .. n /\ p[q[t]][j] \in 1 .. n
    BY <1>3, <2>1
  <2>3. st[q[s]][p[q[s]][i]] = st[q[t]][p[q[t]][j]]
    BY <1>4, <1>7
  <2>4. q[s] = q[t] /\ p[q[s]][i] = p[q[t]][j]
    <3> DEFINE x == q[s]
               y == q[t]
               k == p[q[s]][i]
               l == p[q[t]][j]
    <3>1. x \in 1 .. c /\ y \in 1 .. c /\ k \in 1 .. n /\ l \in 1 .. n /\ st[x][k] = st[y][l]
      BY <2>1, <2>2, <2>3
    <3> HIDE DEF x, y, k, l
    <3>2. x = y /\ k = l
      BY <3>1, PlannedApart
    <3> QED
      BY <3>2 DEF x, y, k, l
  <2>5. s = t
    BY <1>2, <2>4
  <2>6. p[q[s]][i] = p[q[s]][j]
    BY <2>4, <2>5
  <2> QED
    BY <1>3, <2>1, <2>5, <2>6
<1>8. ASSUME NEW s \in 1 .. c, NEW t \in 1 .. c
      PROVE  \E i \in 1 .. n : StepLabels(packs, new[s]) <= StepLabels(packs, new[t]) + packs[new[s][i]].labels
  <2>1. q[s] \in 1 .. c /\ q[t] \in 1 .. c
    BY <1>2
  <2>2. PICK j \in 1 .. n : StepLabels(packs, st[q[s]]) <= StepLabels(packs, st[q[t]]) + packs[st[q[s]][j]].labels
    BY <1>1, <2>1
  <2>3. PICK i \in 1 .. n : p[q[s]][i] = j
    BY <1>3, <2>1
  <2>4. new[s][i] = st[q[s]][j]
    BY <1>4, <2>3
  <2>5. StepLabels(packs, new[s]) = StepLabels(packs, st[q[s]]) /\ StepLabels(packs, new[t]) = StepLabels(packs, st[q[t]])
    BY <1>5
  <2>6. StepLabels(packs, new[s]) <= StepLabels(packs, new[t]) + packs[new[s][i]].labels
    BY <2>2, <2>4, <2>5
  <2> QED
    BY <2>6
<1> QED
  BY <1>5, <1>6, <1>7, <1>8 DEF IsPlanned

\* The numbers 1 to c * n fit below P where c is P \div n.
LEMMA StepsFit ==
    ASSUME NEW P \in Nat, NEW n \in Nat \ {0}
    PROVE  /\ P \div n \in Nat
           /\ (P \div n) * n \in 0 .. P
<1>1. P \div n \in Nat /\ n * (P \div n) <= P
  BY Division
<1> DEFINE c == P \div n
<1> HIDE DEF c
<1>2. c \in Nat /\ n * c <= P
  BY <1>1 DEF c
<1>3. n * c = c * n /\ c * n \in Nat
  BY <1>2
<1> QED
  BY <1>2, <1>3 DEF c

\* t is the sequence s of c things in the order p.
Reorders(p, t, s, c) ==
    p \in Bijection(1 .. c, 1 .. c) /\ t = [i \in 1 .. c |-> s[p[i]]]

\* A shuffle of c things is a bijection's reordering of them.
LEMMA ShuffleIs ==
    ASSUME ShufflePermutes, NEW rng, NEW k, NEW c \in Nat, NEW s, DOMAIN s = 1 .. c
    PROVE  \E p : Reorders(p, Shuffle(rng, k, s), s, c)
<1>1. IsShuffle(Shuffle(rng, k, s), s)
  BY DEF ShufflePermutes
<1> QED
  BY <1>1 DEF IsShuffle, Reorders

\* _plan: what comes out of it.
LEMMA PlanIs ==
    ASSUME ShufflePermutes, NEW pl, NEW m \in Nat, Bins(pl) \in Seq(PackSet(m)),
           NEW n \in Nat \ {0}, NEW rng
    PROVE  /\ Plan(pl, n, rng).packs = Bins(pl)
           /\ IsPlanned(Bins(pl), Plan(pl, n, rng).steps, Len(Bins(pl)) \div n, n)
           /\ Plan(pl, n, rng) = [packs |-> Bins(pl), steps |-> Plan(pl, n, rng).steps]
<1> DEFINE packs == Bins(pl)
           P == Len(packs)
           c == P \div n
           K == c * n
           ids == [p \in DOMAIN packs |-> p]
           kept == SubSeq(Shuffle(rng, 0, ids), 1, K)
           heaviest == Descending(kept, LabelsOf(packs))
           none == [s \in 1 .. c |-> << >>]
           IsAfter(f) == f = [k \in 0 .. K |-> IF k = 0 THEN none
                                               ELSE Place(packs, f[k - 1], heaviest[k], n)]
           after == CHOOSE f : IsAfter(f)
           dealt == after[K]
           each == [s \in 1 .. c |-> Shuffle(rng, s, dealt[s])]
           steps == Shuffle(rng, c + 1, each)
<1>1. Plan(pl, n, rng) = [packs |-> packs, steps |-> steps]
  BY Zenon DEF Plan
<1>2. packs \in Seq(PackSet(m)) /\ P \in Nat /\ DOMAIN packs = 1 .. P
  OBVIOUS
<1>3. c \in Nat /\ K \in 0 .. P /\ K \in Nat
  <2>1. c \in Nat /\ K \in 0 .. P
    BY <1>2, StepsFit
  <2> HIDE DEF K
  <2> QED
    BY <1>2, <2>1
<1> HIDE DEF packs, P, c, K
<1>4. \A q \in 1 .. P : LabelsOf(packs)[q] = packs[q].labels /\ packs[q].labels \in Nat
  <2>1. \A q \in 1 .. P : packs[q] \in PackSet(m)
    BY <1>2 DEF P
  <2> QED
    BY <1>2, <2>1 DEF LabelsOf, PackSet
<1>5. PICK a : Reorders(a, Shuffle(rng, 0, ids), ids, P)
  <2>1. DOMAIN ids = 1 .. P
    BY <1>2
  <2> HIDE DEF ids
  <2> QED
    BY <1>2, <2>1, ShuffleIs, Zenon
<1>6. \A i \in 1 .. P : a[i] \in 1 .. P /\ \A j \in 1 .. P : a[i] = a[j] => i = j
  BY <1>5 DEF Reorders, Bijection, Injection, IsInjective
<1>7. kept = [i \in 1 .. K |-> a[i]]
  <2>1. Shuffle(rng, 0, ids) = [i \in 1 .. P |-> a[i]]
    BY <1>2, <1>5, <1>6 DEF Reorders
  <2>2. [i \in 1 .. P |-> a[i]] \in [1 .. P -> 1 .. P]
    BY <1>6
  <2>3. [i \in 1 .. P |-> a[i]] \in Seq(1 .. P) /\ Len([i \in 1 .. P |-> a[i]]) = P
    BY <1>2, <2>2, SegmentSeq
  <2>4. SubSeq([i \in 1 .. P |-> a[i]], 1, K) = [i \in 1 .. K |-> [j \in 1 .. P |-> a[j]][i]]
    BY <1>3, <2>3
  <2>5. \A i \in 1 .. K : [j \in 1 .. P |-> a[j]][i] = a[i]
    BY <1>2, <1>3
  <2> QED
    BY <2>1, <2>4, <2>5, Zenon
<1>8. /\ DOMAIN kept = 1 .. K
      /\ \A i \in 1 .. K : kept[i] \in 1 .. P /\ \A j \in 1 .. K : kept[i] = kept[j] => i = j
  <2>1. \A i \in 1 .. K : i \in 1 .. P /\ kept[i] = a[i]
    BY <1>2, <1>3, <1>7
  <2> QED
    BY <1>6, <1>7, <2>1
<1> HIDE DEF ids, kept
<1>9. PICK d \in Bijection(1 .. K, 1 .. K) :
          /\ heaviest = [k \in 1 .. K |-> kept[d[k]]]
          /\ \A j, k \in 1 .. K : j <= k => LabelsOf(packs)[kept[d[j]]] >= LabelsOf(packs)[kept[d[k]]]
  <2>1. \A i \in 1 .. K : LabelsOf(packs)[kept[i]] \in Nat
    BY <1>4, <1>8
  <2> QED
    BY <1>3, <1>8, <2>1, DescendingIs
<1>10. /\ heaviest \in [1 .. K -> 1 .. P]
       /\ \A j, k \in 1 .. K : heaviest[j] = heaviest[k] => j = k
       /\ \A j, k \in 1 .. K : j <= k => packs[heaviest[j]].labels >= packs[heaviest[k]].labels
  <2>1. /\ \A k \in 1 .. K : d[k] \in 1 .. K
        /\ \A j, k \in 1 .. K : d[j] = d[k] => j = k
    BY DEF Bijection, Injection, IsInjective
  <2>2. \A k \in 1 .. K : heaviest[k] = kept[d[k]]
    BY <1>9
  <2>3. heaviest \in [1 .. K -> 1 .. P]
    <3> HIDE DEF heaviest
    <3> QED
      BY <1>8, <1>9, <2>1
  <2> HIDE DEF heaviest
  <2>4. \A j, k \in 1 .. K : heaviest[j] = heaviest[k] => j = k
    BY <1>8, <2>1, <2>2
  <2>5. ASSUME NEW j \in 1 .. K, NEW k \in 1 .. K, j <= k
        PROVE  packs[heaviest[j]].labels >= packs[heaviest[k]].labels
    <3>1. LabelsOf(packs)[kept[d[j]]] >= LabelsOf(packs)[kept[d[k]]]
      BY <1>9, <2>5
    <3>2. kept[d[j]] \in 1 .. P /\ kept[d[k]] \in 1 .. P
      BY <1>8, <2>1
    <3> QED
      BY <1>4, <2>2, <3>1, <3>2
  <2> QED
    BY <2>3, <2>4, <2>5
<1> HIDE DEF heaviest
<1>11. IsAfter(after)
  <2> DEFINE V == [1 .. c -> Seq(1 .. P)]
             next == [x \in (1 .. K) \X V |-> Place(packs, x[2], heaviest[x[1]], n)]
  <2>1. none \in V
    <3>1. << >> \in Seq(1 .. P)
      OBVIOUS
    <3> QED
      BY <3>1
  <2>2. \A x \in (1 .. K) \X V : Place(packs, x[2], heaviest[x[1]], n) \in V
    <3> SUFFICES ASSUME NEW x \in (1 .. K) \X V PROVE Place(packs, x[2], heaviest[x[1]], n) \in V
      OBVIOUS
    <3> DEFINE st == x[2]
               p == heaviest[x[1]]
    <3>1. st \in V /\ p \in 1 .. P
      BY <1>10
    <3> HIDE DEF st, p
    <3>2. PICK l : Place(packs, st, p, n) = [st EXCEPT ![l] = Append(@, p)]
      BY DEF Place
    <3>3. [st EXCEPT ![l] = Append(@, p)] \in V
      <4>1. CASE l \in 1 .. c
        <5>1. Append(st[l], p) \in Seq(1 .. P)
          BY <3>1, <4>1
        <5> QED
          BY <3>1, <5>1
      <4>2. CASE l \notin 1 .. c
        <5>1. [st EXCEPT ![l] = Append(@, p)] = st
          BY <3>1, <4>2
        <5> QED
          BY <3>1, <5>1
      <4> QED
        BY <4>1, <4>2
    <3> QED
      BY <3>2, <3>3 DEF st, p
  <2>3. next \in [(1 .. K) \X V -> V]
    <3> HIDE DEF V
    <3> QED
      BY <2>2
  <2> HIDE DEF next
  <2>4. PICK f : IsIteration(f, K, V, none, next)
    <3> HIDE DEF V, none
    <3> QED
      BY <1>3, <2>1, <2>3, Iterates, Zenon
  <2>5. f \in [0 .. K -> V] /\ f[0] = none /\ \A j \in 1 .. K : f[j] = next[<<j, f[j - 1]>>]
    BY <2>4 DEF IsIteration
  <2>6. \A j \in 1 .. K : f[j] = Place(packs, f[j - 1], heaviest[j], n)
    <3> SUFFICES ASSUME NEW j \in 1 .. K PROVE f[j] = Place(packs, f[j - 1], heaviest[j], n)
      OBVIOUS
    <3>1. j - 1 \in 0 .. K
      BY <1>3
    <3>2. f[j - 1] \in V
      <4> HIDE DEF V
      <4> QED
        BY <2>5, <3>1
    <3> HIDE DEF V
    <3>3. <<j, f[j - 1]>> \in (1 .. K) \X V
      BY <3>2
    <3>4. next[<<j, f[j - 1]>>] = Place(packs, f[j - 1], heaviest[j], n)
      BY <3>3 DEF next
    <3> QED
      BY <2>5, <3>4
  <2>7. IsAfter(f)
    <3> HIDE DEF V, none
    <3>1. f = [k \in 0 .. K |-> f[k]]
      BY <2>5
    <3>2. ASSUME NEW k \in 0 .. K
          PROVE  f[k] = IF k = 0 THEN none ELSE Place(packs, f[k - 1], heaviest[k], n)
      <4>1. k = 0 \/ k \in 1 .. K
        BY <1>3
      <4> QED
        BY <2>5, <2>6, <4>1
    <3> QED
      BY <3>1, <3>2, Zenon
  <2> HIDE DEF V, none, IsAfter
  <2> QED
    BY <2>7
<1> HIDE DEF after
<1>12. after[0] = none /\ \A k \in 1 .. K : after[k] = Place(packs, after[k - 1], heaviest[k], n)
  <2> HIDE DEF none
  <2>1. \A k \in 0 .. K : after[k] = IF k = 0 THEN none ELSE Place(packs, after[k - 1], heaviest[k], n)
    BY <1>11, Zenon
  <2>2. 0 \in 0 .. K /\ \A k \in 1 .. K : k \in 0 .. K /\ k # 0
    BY <1>3
  <2> QED
    BY <2>1, <2>2, Zenon
<1>13. Dealt(dealt, heaviest, K, c, n, P) /\ Level(dealt, packs, c, n, 0)
  <2>1. heaviest \in [1 .. c * n -> 1 .. Len(packs)]
    BY <1>10 DEF K, P
  <2>2. \A j, k \in 1 .. c * n : j <= k => packs[heaviest[j]].labels >= packs[heaviest[k]].labels
    BY <1>10 DEF K
  <2>3. after[0] = [s \in 1 .. c |-> << >>]
        /\ \A k \in 1 .. c * n : after[k] = Place(packs, after[k - 1], heaviest[k], n)
    BY <1>12 DEF K
  <2>4. /\ Dealt(after[c * n], heaviest, c * n, c, n, Len(packs))
        /\ Level(after[c * n], packs, c, n, 0)
    BY <1>2, <1>3, <2>1, <2>2, <2>3, DealsEvenly
  <2> QED
    BY <2>4 DEF K, P
<1> HIDE DEF dealt
<1>14. IsPlanned(packs, dealt, c, n)
  <2>1. IsOrder(heaviest, packs, c * n)
        /\ Dealt(dealt, heaviest, c * n, c, n, Len(packs))
    BY <1>10, <1>13 DEF K, P, IsOrder
  <2> QED
    BY <1>2, <1>3, <1>13, <2>1, DealtIsPlanned
<1>15. dealt \in [1 .. c -> Seq(1 .. P)] /\ \A s \in 1 .. c : Len(dealt[s]) = n
  BY <1>14 DEF IsPlanned, P
<1>16. \A s \in 1 .. c : \E p : Reorders(p, Shuffle(rng, s, dealt[s]), dealt[s], n)
  <2> SUFFICES ASSUME NEW s \in 1 .. c
               PROVE  \E p : Reorders(p, Shuffle(rng, s, dealt[s]), dealt[s], n)
    OBVIOUS
  <2>1. DOMAIN dealt[s] = 1 .. n /\ n \in Nat
    <3>1. dealt[s] \in Seq(1 .. P) /\ Len(dealt[s]) = n
      BY <1>15
    <3> QED
      BY <3>1
  <2> QED
    BY <2>1, ShuffleIs, Zenon
<1> DEFINE p == [s \in 1 .. c |-> CHOOSE x : Reorders(x, Shuffle(rng, s, dealt[s]), dealt[s], n)]
<1>17. \A s \in 1 .. c : Reorders(p[s], Shuffle(rng, s, dealt[s]), dealt[s], n)
  <2> SUFFICES ASSUME NEW s \in 1 .. c
               PROVE  Reorders(p[s], Shuffle(rng, s, dealt[s]), dealt[s], n)
    OBVIOUS
  <2>1. p[s] = CHOOSE x : Reorders(x, Shuffle(rng, s, dealt[s]), dealt[s], n)
    OBVIOUS
  <2> HIDE DEF p
  <2> QED
    BY <1>16, <2>1, Zenon
<1> HIDE DEF p
<1>18. PICK q : Reorders(q, steps, each, c)
  <2>1. DOMAIN each = 1 .. c
    OBVIOUS
  <2> HIDE DEF each
  <2> QED
    BY <1>3, <2>1, ShuffleIs, Zenon
<1>19. steps = [s \in 1 .. c |-> [i \in 1 .. n |-> dealt[q[s]][p[q[s]][i]]]]
  <2>1. \A s \in 1 .. c : q[s] \in 1 .. c
    BY <1>18 DEF Reorders, Bijection, Injection
  <2>2. \A s \in 1 .. c : each[q[s]] = [i \in 1 .. n |-> dealt[q[s]][p[q[s]][i]]]
    BY <1>17, <2>1 DEF Reorders
  <2> HIDE DEF each
  <2> QED
    BY <1>18, <2>2 DEF Reorders
<1> HIDE DEF steps
<1>20. IsPlanned(packs, steps, c, n)
  <2>1. \A s \in 1 .. c : p[s] \in Bijection(1 .. n, 1 .. n)
    BY <1>17 DEF Reorders
  <2>2. q \in Bijection(1 .. c, 1 .. c)
    BY <1>18 DEF Reorders
  <2>3. IsShuffled(steps, dealt, c, n)
    BY <1>19, <2>1, <2>2 DEF IsShuffled
  <2> QED
    BY <1>2, <1>3, <1>14, <2>3, ShuffledIsPlanned
<1> QED
  BY <1>1, <1>20 DEF packs, c, P

-----------------------------------------------------------------------------
\* Bins: the examples that fit are packed, each of them once.

\* s lists the elements of X, each of them once.
Enumerates(s, X) ==
    /\ s \in Seq(X)
    /\ \A i, j \in 1 .. Len(s) : s[i] = s[j] => i = j
    /\ \A x \in X : \E i \in 1 .. Len(s) : s[i] = x

\* What is kept of a list are the elements at the places named.
LEMMA KeptEnumerates ==
    ASSUME NEW m \in Nat, NEW places
    PROVE  Enumerates(Kept([i \in 1 .. m |-> i], places), {i \in 1 .. m : i \in places})
<1> DEFINE all == [i \in 1 .. m |-> i]
           X == {i \in 1 .. m : i \in places}
           parts == [k \in 1 .. m |-> IF k \in places THEN << k >> ELSE << >>]
           docs == [k \in 1 .. m |-> [len |-> Len(parts[k])]]
           flat == FlattenSeq(parts)
<1>1. Kept(all, places) = flat
  <2>1. [k \in DOMAIN all |-> IF k \in places THEN << all[k] >> ELSE << >>] = parts
    OBVIOUS
  <2> HIDE DEF parts, all
  <2> QED
    BY <2>1 DEF Kept
<1>2. \A k \in 1 .. m : /\ k \in places => parts[k] = << k >> /\ Len(parts[k]) = 1 /\ parts[k][1] = k
                        /\ k \notin places => parts[k] = << >> /\ Len(parts[k]) = 0
                        /\ parts[k] \in Seq(X)
  <2> SUFFICES ASSUME NEW k \in 1 .. m
               PROVE  /\ k \in places => parts[k] = << k >> /\ Len(parts[k]) = 1 /\ parts[k][1] = k
                      /\ k \notin places => parts[k] = << >> /\ Len(parts[k]) = 0
                      /\ parts[k] \in Seq(X)
    OBVIOUS
  <2>1. CASE k \in places
    <3>1. << k >> \in Seq(X) /\ Len(<< k >>) = 1 /\ << k >>[1] = k
      BY <2>1
    <3> QED
      BY <2>1, <3>1
  <2>2. CASE k \notin places
    <3>1. << >> \in Seq(X) /\ Len(<< >>) = 0
      OBVIOUS
    <3> QED
      BY <2>2, <3>1
  <2> QED
    BY <2>1, <2>2
<1>3. parts \in Seq(Seq(X)) /\ Len(parts) = m
  <2>1. parts \in [1 .. m -> Seq(X)]
    <3>1. parts = [k \in 1 .. m |-> parts[k]]
      OBVIOUS
    <3> HIDE DEF parts, X
    <3> QED
      BY <1>2, <3>1
  <2> HIDE DEF parts, X
  <2> QED
    BY <2>1, SegmentSeq
<1>4. /\ Len(docs) = m
      /\ \A k \in 1 .. m : docs[k].len = Len(parts[k])
  <2>1. docs \in [1 .. m -> {[len |-> Len(parts[k])] : k \in 1 .. m}]
    <3> HIDE DEF parts
    <3> QED
      OBVIOUS
  <2>2. \A k \in 1 .. m : docs[k].len = Len(parts[k])
    <3> HIDE DEF parts
    <3> QED
      OBVIOUS
  <2> HIDE DEF docs, parts
  <2> QED
    BY <2>1, <2>2, SegmentSeq
<1>5. \A k \in 1 .. Len(docs) : docs[k].len \in Nat
  BY <1>2, <1>4
<1> HIDE DEF parts, docs, flat
<1>6. /\ flat \in Seq(X) /\ Len(flat) = Used(docs)
      /\ \A k \in 1 .. m : \A t \in 1 .. Len(parts[k]) : flat[Offset(docs, k) + t] = parts[k][t]
  <2>1. Lays(docs, parts)
    BY <1>3, <1>4 DEF Lays
  <2>2. IsFlat(flat, parts, docs, X)
    <3> HIDE DEF X
    <3> QED
      BY <1>3, <2>1, FlattenPlaces DEF flat
  <2> HIDE DEF X
  <2> QED
    BY <1>3, <2>2 DEF IsFlat
<1>7. ASSUME NEW k \in 1 .. m, k \in places
      PROVE  Offset(docs, k) + 1 \in 1 .. Len(flat) /\ flat[Offset(docs, k) + 1] = k
  <2>1. 1 \in 1 .. docs[k].len /\ k \in 1 .. Len(docs)
    <3>1. docs[k].len = Len(parts[k]) /\ Len(parts[k]) = 1
      BY <1>2, <1>4, <1>7
    <3>2. 1 \in 1 .. 1
      OBVIOUS
    <3> QED
      BY <1>4, <3>1, <3>2, Zenon
  <2>2. Len(docs) \in Nat
    BY <1>4
  <2>3. Offset(docs, k) + 1 \in 1 .. Used(docs)
    BY <1>5, <2>1, <2>2, PlaceBound
  <2> QED
    BY <1>2, <1>6, <1>7, <2>3, SMTT(30)
<1>8. ASSUME NEW q \in 1 .. Len(flat)
      PROVE  flat[q] \in 1 .. m /\ flat[q] \in places /\ q = Offset(docs, flat[q]) + 1
  <2>1. Len(docs) \in Nat /\ q \in 1 .. Used(docs)
    BY <1>4, <1>6
  <2>2. PICK k \in 1 .. Len(docs) : \E t \in 1 .. docs[k].len : q = Offset(docs, k) + t
    BY <1>5, <2>1, PlaceIn
  <2>3. PICK t \in 1 .. docs[k].len : q = Offset(docs, k) + t
    BY <2>2
  <2>4. k \in 1 .. m /\ k \in places /\ t = 1
    <3>1. k \in 1 .. m
      BY <1>4
    <3>2. docs[k].len = Len(parts[k])
      BY <1>4, <3>1, Zenon
    <3>3. CASE k \in places
      <4>1. Len(parts[k]) = 1
        BY <1>2, <3>1, <3>3, Zenon
      <4>2. t \in 1 .. 1
        BY <3>2, <4>1, Zenon
      <4> QED
        BY <3>1, <3>3, <4>2
    <3>4. CASE k \notin places
      <4>1. Len(parts[k]) = 0
        BY <1>2, <3>1, <3>4, Zenon
      <4>2. t \in 1 .. 0
        BY <3>2, <4>1, Zenon
      <4> QED
        BY <4>2
    <3> QED
      BY <3>3, <3>4
  <2>5. flat[q] = k
    BY <1>7, <2>3, <2>4
  <2> QED
    BY <2>3, <2>4, <2>5
<1>9. ASSUME NEW i \in 1 .. Len(flat), NEW j \in 1 .. Len(flat), flat[i] = flat[j] PROVE i = j
  BY <1>8, <1>9
<1>10. ASSUME NEW x \in X PROVE \E i \in 1 .. Len(flat) : flat[i] = x
  <2>1. x \in 1 .. m /\ x \in places
    OBVIOUS
  <2> QED
    BY <1>7, <2>1
<1>11. Enumerates(flat, X)
  <2> HIDE DEF X
  <2> QED
    BY <1>6, <1>9, <1>10 DEF Enumerates
<1> QED
  BY <1>1, <1>11

\* A sorted list lists the same.
LEMMA DescendingEnumerates ==
    ASSUME NEW X, NEW s, Enumerates(s, X), NEW w, \A x \in X : w[x] \in Nat
    PROVE  Enumerates(Descending(s, w), X)
<1> DEFINE n == Len(s)
<1>1. /\ s \in Seq(X) /\ n \in Nat /\ DOMAIN s = 1 .. n
      /\ \A i, j \in 1 .. n : s[i] = s[j] => i = j
      /\ \A x \in X : \E i \in 1 .. n : s[i] = x
      /\ \A i \in 1 .. n : s[i] \in X
  <2>1. /\ s \in Seq(X)
        /\ \A i, j \in 1 .. n : s[i] = s[j] => i = j
        /\ \A x \in X : \E i \in 1 .. n : s[i] = x
    BY DEF Enumerates
  <2> QED
    BY <2>1, SMTT(30)
<1> HIDE DEF n
<1>2. \A i \in 1 .. n : w[s[i]] \in Nat
  BY <1>1
<1>3. PICK d \in Bijection(1 .. n, 1 .. n) : Descending(s, w) = [k \in 1 .. n |-> s[d[k]]]
  BY <1>1, <1>2, DescendingIs
<1> DEFINE t == [k \in 1 .. n |-> s[d[k]]]
<1>4. /\ \A k \in 1 .. n : d[k] \in 1 .. n
      /\ \A j, k \in 1 .. n : d[j] = d[k] => j = k
      /\ \A k \in 1 .. n : \E j \in 1 .. n : d[j] = k
  BY DEF Bijection, Injection, Surjection, IsInjective
<1>5. t \in [1 .. n -> X] /\ \A k \in 1 .. n : t[k] = s[d[k]]
  BY <1>1, <1>4
<1> HIDE DEF t
<1>6. t \in Seq(X) /\ Len(t) = n
  BY <1>1, <1>5, SegmentSeq
<1>7. ASSUME NEW i \in 1 .. n, NEW j \in 1 .. n, t[i] = t[j] PROVE i = j
  <2>1. s[d[i]] = s[d[j]]
    BY <1>5, <1>7
  <2>2. d[i] = d[j]
    <3>1. d[i] \in 1 .. n /\ d[j] \in 1 .. n
      BY <1>4
    <3>2. \A x, y \in 1 .. n : s[x] = s[y] => x = y
      BY <1>1
    <3> QED
      BY <2>1, <3>1, <3>2, Zenon
  <2> QED
    BY <1>4, <2>2
<1>8. ASSUME NEW x \in X PROVE \E i \in 1 .. n : t[i] = x
  <2>1. PICK k \in 1 .. n : s[k] = x
    BY <1>1
  <2>2. PICK j \in 1 .. n : d[j] = k
    BY <1>4
  <2> QED
    BY <1>5, <2>1, <2>2
<1>9. Enumerates(t, X)
  BY <1>6, <1>7, <1>8 DEF Enumerates
<1> QED
  BY <1>3, <1>9 DEF t

\* The examples that fit a row.
Fitting(pl) == {i \in DOMAIN pl.lengths : pl.lengths[i] <= Target}

\* The order they are packed in names each of them once.
LEMMA ByLengthEnumerates ==
    ASSUME NEW m \in Nat, NEW pl, pl.lengths \in [1 .. m -> Nat]
    PROVE  Enumerates(ByLength(pl), Fitting(pl)) /\ Fitting(pl) \subseteq 1 .. m
<1> DEFINE places == {i \in 1 .. m : pl.lengths[i] <= Target}
<1>1. DOMAIN pl.lengths = 1 .. m
  OBVIOUS
<1>2. ByLength(pl) = Descending(Kept([i \in 1 .. m |-> i], places), pl.lengths)
  BY <1>1 DEF ByLength
<1>3. Fitting(pl) = {i \in 1 .. m : i \in places}
  BY <1>1 DEF Fitting
<1>4. Fitting(pl) \subseteq 1 .. m /\ \A x \in Fitting(pl) : pl.lengths[x] \in Nat
  BY <1>1 DEF Fitting
<1> HIDE DEF places
<1>5. Enumerates(Kept([i \in 1 .. m |-> i], places), Fitting(pl))
  BY <1>3, KeptEnumerates
<1> QED
  BY <1>2, <1>4, <1>5, DescendingEnumerates

\* Each example of X stands in one place of the bins, and nothing else does.
Holds(bins, X) ==
    /\ \A p \in 1 .. Len(bins) : \A j \in 1 .. Len(bins[p].members) : bins[p].members[j] \in X
    /\ \A x \in X : \E p \in 1 .. Len(bins) : \E j \in 1 .. Len(bins[p].members) :
          bins[p].members[j] = x
    /\ \A p, q \in 1 .. Len(bins) :
          \A i \in 1 .. Len(bins[p].members), j \in 1 .. Len(bins[q].members) :
             bins[p].members[i] = bins[q].members[j] => p = q /\ i = j

\* No two places of the bins hold the same example.
LEMMA HoldsApart ==
    ASSUME NEW bins, NEW X, Holds(bins, X), NEW p \in 1 .. Len(bins), NEW q \in 1 .. Len(bins),
           NEW i \in 1 .. Len(bins[p].members), NEW j \in 1 .. Len(bins[q].members),
           bins[p].members[i] = bins[q].members[j]
    PROVE  p = q /\ i = j
BY DEF Holds

\* One bin more.
LEMMA HoldsOneMore ==
    ASSUME NEW S, NEW bins \in Seq(S), NEW X, Holds(bins, X), NEW pack \in S,
           NEW Y, Enumerates(pack.members, Y), \A x \in X : x \notin Y
    PROVE  Holds(Append(bins, pack), X \cup Y)
<1> DEFINE new == Append(bins, pack)
           n == Len(bins)
           mem(p) == bins[p].members
<1>1. n \in Nat /\ Len(new) = n + 1 /\ new[n + 1] = pack /\ \A p \in 1 .. n : new[p] = bins[p]
  BY AppendProperties
<1>2. \A p \in 1 .. n + 1 : p = n + 1 \/ p \in 1 .. n
  BY <1>1
<1>3. /\ \A p \in 1 .. n : \A j \in 1 .. Len(mem(p)) : mem(p)[j] \in X
      /\ \A x \in X : \E p \in 1 .. n : \E j \in 1 .. Len(mem(p)) : mem(p)[j] = x
      /\ \A p, q \in 1 .. n : \A i \in 1 .. Len(mem(p)), j \in 1 .. Len(mem(q)) :
            mem(p)[i] = mem(q)[j] => p = q /\ i = j
  BY DEF Holds
<1>4. /\ \A j \in 1 .. Len(pack.members) : pack.members[j] \in Y
      /\ \A i, j \in 1 .. Len(pack.members) : pack.members[i] = pack.members[j] => i = j
      /\ \A y \in Y : \E i \in 1 .. Len(pack.members) : pack.members[i] = y
  <2>1. /\ pack.members \in Seq(Y)
        /\ \A i, j \in 1 .. Len(pack.members) : pack.members[i] = pack.members[j] => i = j
        /\ \A y \in Y : \E i \in 1 .. Len(pack.members) : pack.members[i] = y
    BY DEF Enumerates
  <2> DEFINE s == pack.members
  <2> HIDE DEF s
  <2>2. \A j \in 1 .. Len(s) : s[j] \in Y
    BY <2>1 DEF s
  <2> QED
    BY <2>1, <2>2 DEF s
<1> HIDE DEF new, n
<1>5. \A p \in 1 .. n : new[p].members = mem(p)
  BY <1>1
<1>6. new[n + 1].members = pack.members /\ n + 1 \in 1 .. n + 1 /\ \A p \in 1 .. n : p \in 1 .. n + 1 /\ p # n + 1
  BY <1>1
<1> HIDE DEF mem
<1>7. ASSUME NEW p \in 1 .. n + 1, NEW j \in 1 .. Len(new[p].members)
      PROVE  /\ new[p].members[j] \in X \cup Y
             /\ p = n + 1 => new[p].members[j] \in Y /\ new[p].members[j] \notin X
             /\ p # n + 1 => new[p].members[j] \in X /\ new[p].members[j] \notin Y
  <2>1. CASE p = n + 1
    <3>1. new[p].members = pack.members
      BY <1>6, <2>1, Zenon
    <3>2. new[p].members[j] \in Y
      BY <1>4, <3>1, Zenon
    <3> QED
      BY <2>1, <3>2
  <2>2. CASE p # n + 1
    <3>1. p \in 1 .. n /\ new[p].members = mem(p)
      BY <1>2, <1>5, <2>2, Zenon
    <3>2. new[p].members[j] \in X
      BY <1>3, <3>1, Zenon
    <3> QED
      BY <2>2, <3>2
  <2> QED
    BY <2>1, <2>2
<1>8. ASSUME NEW x \in X \cup Y
      PROVE  \E p \in 1 .. n + 1 : \E j \in 1 .. Len(new[p].members) : new[p].members[j] = x
  <2>1. CASE x \in X
    <3>1. PICK p \in 1 .. n : \E j \in 1 .. Len(mem(p)) : mem(p)[j] = x
      BY <1>3, <2>1, Zenon
    <3>2. PICK j \in 1 .. Len(mem(p)) : mem(p)[j] = x
      BY <3>1, Zenon
    <3>3. new[p].members = mem(p) /\ p \in 1 .. n + 1
      BY <1>5, <1>6, Zenon
    <3> QED
      BY <3>2, <3>3, Zenon
  <2>2. CASE x \in Y
    <3>1. PICK j \in 1 .. Len(pack.members) : pack.members[j] = x
      BY <1>4, <2>2, Zenon
    <3> QED
      BY <1>6, <3>1, Zenon
  <2> QED
    BY <2>1, <2>2
<1>9. ASSUME NEW p \in 1 .. n + 1, NEW q \in 1 .. n + 1,
             NEW i \in 1 .. Len(new[p].members), NEW j \in 1 .. Len(new[q].members),
             new[p].members[i] = new[q].members[j]
      PROVE  p = q /\ i = j
  <2>1. CASE p = n + 1
    <3>1. q = n + 1
      BY <1>7, <1>9, <2>1
    <3>2. i \in 1 .. Len(pack.members) /\ j \in 1 .. Len(pack.members) /\ pack.members[i] = pack.members[j]
      BY <1>6, <1>9, <2>1, <3>1, Zenon
    <3>3. i = j
      BY <1>4, <3>2, Zenon
    <3> QED
      BY <2>1, <3>1, <3>3
  <2>2. CASE p # n + 1
    <3>1. q # n + 1
      BY <1>7, <1>9, <2>2
    <3>2. p \in 1 .. n /\ q \in 1 .. n
      BY <1>2, <2>2, <3>1, Zenon
    <3>3. new[p].members = mem(p) /\ new[q].members = mem(q)
      BY <1>5, <3>2, Zenon
    <3>4. i \in 1 .. Len(mem(p)) /\ j \in 1 .. Len(mem(q)) /\ mem(p)[i] = mem(q)[j]
      BY <1>9, <3>3, Zenon
    <3>5. /\ p \in 1 .. Len(bins) /\ q \in 1 .. Len(bins)
          /\ i \in 1 .. Len(bins[p].members) /\ j \in 1 .. Len(bins[q].members)
          /\ bins[p].members[i] = bins[q].members[j]
      BY <3>2, <3>4, Zenon DEF n, mem
    <3> QED
      BY <3>5, HoldsApart
  <2> QED
    BY <2>1, <2>2
<1>10. Holds(new, X \cup Y)
  <2>1. Len(new) = n + 1
    BY <1>1
  <2> QED
    BY <1>7, <1>8, <1>9, <2>1, Zenon DEF Holds
<1> QED
  BY <1>10 DEF new

\* A bin: the example at lo and k from the short end.
LEMMA BinIs ==
    ASSUME NEW X, NEW order, Enumerates(order, X), NEW lo \in Nat \ {0},
           NEW hi \in lo .. Len(order), NEW k \in 0 .. hi - lo
    PROVE  Enumerates(<< order[lo] >> \o [i \in 1 .. k |-> order[hi - i + 1]],
                      {order[j] : j \in {lo} \cup (hi - k + 1 .. hi)})
<1> DEFINE L == Len(order)
           tail == [i \in 1 .. k |-> order[hi - i + 1]]
           head == << order[lo] >>
           s == head \o tail
           J == {lo} \cup (hi - k + 1 .. hi)
           Y == {order[j] : j \in J}
<1>1. /\ order \in Seq(X) /\ L \in Nat
      /\ \A i, j \in 1 .. L : order[i] = order[j] => i = j
  BY DEF Enumerates
<1>2. k \in Nat /\ hi \in Nat /\ lo \in Nat /\ lo >= 1 /\ lo + k <= hi /\ hi <= L
  BY <1>1
<1>3. /\ \A i \in 1 .. k : hi - i + 1 \in J /\ hi - i + 1 # lo
      /\ lo \in J /\ J \subseteq 1 .. L
  BY <1>2
<1> HIDE DEF L
<1>4. \A j \in J : order[j] \in Y
  OBVIOUS
<1> HIDE DEF J, Y
<1>5. tail \in Seq(Y) /\ Len(tail) = k /\ \A i \in 1 .. k : tail[i] = order[hi - i + 1]
  <2>1. \A i \in 1 .. k : tail[i] = order[hi - i + 1]
    OBVIOUS
  <2>2. tail \in [1 .. k -> Y]
    BY <1>3, <1>4
  <2> HIDE DEF tail
  <2> QED
    BY <1>2, <2>1, <2>2, SegmentSeq
<1>6. head \in Seq(Y) /\ Len(head) = 1 /\ head[1] = order[lo]
  <2>1. order[lo] \in Y
    BY <1>3, <1>4
  <2> QED
    BY <2>1
<1> HIDE DEF head, tail
<1>7. /\ s \in Seq(Y) /\ Len(s) = k + 1 /\ s[1] = order[lo]
      /\ \A i \in 1 .. k : s[i + 1] = order[hi - i + 1]
  <2>1. /\ s \in Seq(Y) /\ Len(s) = 1 + k
        /\ \A i \in 1 .. 1 + k : s[i] = IF i <= 1 THEN head[i] ELSE tail[i - 1]
    <3>1. /\ head \o tail \in Seq(Y) /\ Len(head \o tail) = Len(head) + Len(tail)
          /\ \A i \in 1 .. Len(head) + Len(tail) : (head \o tail)[i] =
                IF i <= Len(head) THEN head[i] ELSE tail[i - Len(head)]
      BY <1>5, <1>6, ConcatProperties
    <3>2. Len(head) = 1 /\ Len(tail) = k
      BY <1>5, <1>6
    <3> QED
      BY <3>1, <3>2, Zenon
  <2> HIDE DEF s
  <2>2. s[1] = order[lo]
    BY <1>2, <1>6, <2>1
  <2>3. ASSUME NEW i \in 1 .. k PROVE s[i + 1] = order[hi - i + 1]
    <3>1. i + 1 \in 1 .. 1 + k /\ ~(i + 1 <= 1) /\ (i + 1) - 1 = i
      BY <1>2
    <3> QED
      BY <1>5, <2>1, <3>1
  <2> QED
    BY <1>2, <2>1, <2>2, <2>3
<1> HIDE DEF s
<1>8. \A i \in 1 .. k + 1 : i = 1 \/ (i - 1 \in 1 .. k /\ s[i] = order[hi - (i - 1) + 1])
  <2> SUFFICES ASSUME NEW i \in 1 .. k + 1, i # 1
               PROVE  i - 1 \in 1 .. k /\ s[i] = order[hi - (i - 1) + 1]
    OBVIOUS
  <2>1. i - 1 \in 1 .. k /\ (i - 1) + 1 = i
    BY <1>2
  <2>2. s[(i - 1) + 1] = order[hi - (i - 1) + 1]
    BY <1>7, <2>1
  <2> QED
    BY <2>1, <2>2
<1> DEFINE where(i) == IF i = 1 THEN lo ELSE hi - (i - 1) + 1
<1>9. \A i \in 1 .. k + 1 : where(i) \in 1 .. L /\ s[i] = order[where(i)]
  <2> SUFFICES ASSUME NEW i \in 1 .. k + 1 PROVE where(i) \in 1 .. L /\ s[i] = order[where(i)]
    OBVIOUS
  <2>1. CASE i = 1
    BY <1>3, <1>7, <2>1
  <2>2. CASE i # 1
    BY <1>3, <1>8, <2>2
  <2> QED
    BY <2>1, <2>2
<1>10. \A i, j \in 1 .. k + 1 : where(i) = where(j) => i = j
  BY <1>2
<1>11. ASSUME NEW i \in 1 .. k + 1, NEW j \in 1 .. k + 1, s[i] = s[j] PROVE i = j
  <2> HIDE DEF where
  <2>1. order[where(i)] = order[where(j)] /\ where(i) \in 1 .. L /\ where(j) \in 1 .. L
    BY <1>9, <1>11
  <2>2. where(i) = where(j)
    BY <1>1, <2>1
  <2> QED
    BY <1>10, <2>2
<1>12. ASSUME NEW y \in Y PROVE \E i \in 1 .. k + 1 : s[i] = y
  <2>1. PICK j \in J : y = order[j]
    BY DEF Y
  <2>2. CASE j = lo
    <3>1. 1 \in 1 .. k + 1
      BY <1>2
    <3> QED
      BY <1>7, <2>1, <2>2, <3>1
  <2>3. CASE j # lo
    <3>1. j \in hi - k + 1 .. hi
      BY <2>3 DEF J
    <3> DEFINE i == hi - j + 1
    <3>2. i \in 1 .. k /\ hi - i + 1 = j /\ i + 1 \in 1 .. k + 1
      BY <1>2, <3>1
    <3> HIDE DEF i
    <3>3. s[i + 1] = y
      BY <1>7, <2>1, <3>2
    <3> QED
      BY <3>2, <3>3
  <2> QED
    BY <2>2, <2>3
<1>13. Enumerates(s, Y)
  BY <1>7, <1>11, <1>12 DEF Enumerates
<1> QED
  BY <1>13 DEF s, head, tail, Y, J

\* A sequence over a set is one over a larger set.
LEMMA SeqMono ==
    ASSUME NEW S, NEW T, S \subseteq T, NEW s \in Seq(S)
    PROVE  s \in Seq(T)
OBVIOUS

\* Weights are numbers; one example weighs what it weighs.
LEMMA WeightNat ==
    ASSUME NEW m \in Nat, NEW w \in [1 .. m -> Nat], NEW s \in Seq(1 .. m)
    PROVE  Weight(w, s) \in Nat
<1> DEFINE t == [i \in DOMAIN s |-> w[s[i]]]
           n == Len(s)
<1>1. n \in Nat /\ DOMAIN s = 1 .. n /\ \A i \in 1 .. n : s[i] \in 1 .. m
  OBVIOUS
<1> HIDE DEF n
<1>2. t \in [1 .. n -> Nat]
  BY <1>1
<1> HIDE DEF t
<1>3. Total(t) \in Nat
  BY <1>1, <1>2, TotalSegmentNat
<1> QED
  BY <1>3 DEF Weight, t

\* One example on its own.
LEMMA WeightOne ==
    ASSUME NEW w, NEW x, w[x] \in Nat
    PROVE  Weight(w, << x >>) = w[x]
<1> DEFINE t == [i \in 1 .. 0 + 1 |-> w[x]]
           none == [i \in 1 .. 0 |-> t[i]]
<1>1. Weight(w, << x >>) = Total(t)
  <2>1. DOMAIN << x >> = 1 .. 0 + 1 /\ \A i \in 1 .. 0 + 1 : << x >>[i] = x
    OBVIOUS
  <2>2. [i \in DOMAIN << x >> |-> w[<< x >>[i]]] = t
    BY <2>1
  <2> HIDE DEF t
  <2> QED
    BY <2>2 DEF Weight
<1>2. t \in [1 .. 0 + 1 -> Nat] /\ t[0 + 1] = w[x]
  OBVIOUS
<1> HIDE DEF t
<1>3. none \in [1 .. 0 -> Nat] /\ Total(t) = Total(none) + t[0 + 1]
  BY <1>2, TotalLast
<1>4. Total(none) = 0
  BY <1>3, TotalEmpty
<1> QED
  BY <1>1, <1>2, <1>3, <1>4

\* _bin_pack loses no example that fits, packs none twice, and overfills no bin.
LEMMA BinsAre ==
    ASSUME NEW m \in Nat, NEW pl, pl.lengths \in [1 .. m -> Nat], pl.labels \in [1 .. m -> Nat]
    PROVE  /\ Bins(pl) \in Seq(PackSet(m))
           /\ Holds(Bins(pl), Fitting(pl))
           /\ \A p \in 1 .. Len(Bins(pl)) : Weight(pl.lengths, Bins(pl)[p].members) <= Target
<1> DEFINE X == Fitting(pl)
           order == ByLength(pl)
           L == Len(order)
           bin(lo, hi, k) == << order[lo] >> \o [i \in 1 .. k |-> order[hi - i + 1]]
           fits(lo, hi, k) == Weight(pl.lengths, bin(lo, hi, k)) <= Target
           filled(lo, hi) == Max({k \in 0 .. hi - lo : fits(lo, hi, k)})
           pack(members) == [members |-> members, labels |-> Weight(pl.labels, members)]
           with(before, lo) ==
               LET most == filled(lo, before.hi)
               IN  [bins |-> Append(before.bins, pack(bin(lo, before.hi, most))),
                    hi |-> before.hi - most]
           start == [bins |-> << >>, hi |-> L]
           IsAfter(f) == f = [lo \in 0 .. L |->
               IF lo = 0 THEN start
               ELSE LET before == f[lo - 1]
                    IN  IF lo > before.hi THEN before ELSE with(before, lo)]
           after == CHOOSE f : IsAfter(f)
<1>1. Bins(pl) = after[L].bins
  BY Zenon DEF Bins
<1>2. /\ Enumerates(order, X) /\ X \subseteq 1 .. m
      /\ \A x \in X : pl.lengths[x] \in Nat /\ pl.lengths[x] <= Target
  <2>1. Enumerates(order, X) /\ X \subseteq 1 .. m
    BY ByLengthEnumerates
  <2>2. \A x \in X : pl.lengths[x] <= Target
    BY DEF Fitting
  <2> HIDE DEF X
  <2> QED
    BY <2>1, <2>2
<1> HIDE DEF X, order
<1>3. L \in Nat /\ \A j \in 1 .. L : order[j] \in X
  <2>1. order \in Seq(X)
    BY <1>2 DEF Enumerates
  <2> QED
    BY <2>1
<1> HIDE DEF L
<1> DEFINE Y(lo, hi, k) == {order[j] : j \in {lo} \cup (hi - k + 1 .. hi)}
<1>4. ASSUME NEW lo \in 1 .. L, NEW hi \in lo .. L, NEW k \in 0 .. hi - lo
      PROVE  /\ Enumerates(bin(lo, hi, k), Y(lo, hi, k))
             /\ bin(lo, hi, k) \in Seq(1 .. m)
             /\ pack(bin(lo, hi, k)) \in PackSet(m)
             /\ pack(bin(lo, hi, k)).members = bin(lo, hi, k)
  <2>1. lo \in Nat \ {0} /\ hi \in lo .. Len(order)
    BY <1>3 DEF L
  <2>2. Enumerates(bin(lo, hi, k), Y(lo, hi, k))
    BY <1>2, <2>1, BinIs
  <2>3. Y(lo, hi, k) \subseteq 1 .. m
    <3>1. \A j \in {lo} \cup (hi - k + 1 .. hi) : j \in 1 .. L
      BY <1>3
    <3> QED
      BY <1>2, <1>3, <3>1
  <2> DEFINE b == bin(lo, hi, k)
             y == Y(lo, hi, k)
  <2> HIDE DEF b, y
  <2>4. b \in Seq(y) /\ y \subseteq 1 .. m
    BY <2>2, <2>3 DEF Enumerates, b, y
  <2>5. b \in Seq(1 .. m)
    BY <2>4, SeqMono
  <2>6. Weight(pl.labels, b) \in Nat
    BY <2>5, WeightNat
  <2>7. pack(b) \in PackSet(m) /\ pack(b).members = b
    BY <2>5, <2>6 DEF PackSet
  <2> QED
    BY <2>2, <2>5, <2>7 DEF b
<1> HIDE DEF pack
<1>5. ASSUME NEW lo \in 1 .. L, NEW hi \in lo .. L
      PROVE  filled(lo, hi) \in 0 .. hi - lo /\ fits(lo, hi, filled(lo, hi))
  <2> DEFINE T == {k \in 0 .. hi - lo : fits(lo, hi, k)}
  <2>1. lo \in Nat /\ hi \in Nat /\ hi - lo \in Nat
    BY <1>3
  <2>2. 0 \in T
    <3>1. bin(lo, hi, 0) = << order[lo] >>
      <4>1. [i \in 1 .. 0 |-> order[hi - i + 1]] = << >>
        <5>1. \A i \in 1 .. 0 : FALSE
          OBVIOUS
        <5>2. DOMAIN << >> = 1 .. 0
          OBVIOUS
        <5> QED
          BY <5>1, <5>2
      <4>2. << order[lo] >> \in Seq({order[lo]})
        OBVIOUS
      <4>3. << order[lo] >> \o << >> = << order[lo] >>
        BY <4>2, ConcatEmptySeq
      <4> QED
        BY <4>1, <4>3, Zenon
    <3>2. order[lo] \in X
      BY <1>3
    <3>3. Weight(pl.lengths, << order[lo] >>) <= Target
      BY <1>2, <3>2, WeightOne
    <3>4. fits(lo, hi, 0)
      BY <3>1, <3>3, Zenon
    <3>5. 0 \in 0 .. hi - lo
      BY <2>1
    <3> HIDE DEF fits
    <3> QED
      BY <3>4, <3>5
  <2>3. T \subseteq Nat /\ \A k \in T : k <= hi - lo
    <3> HIDE DEF fits
    <3> QED
      BY <2>1
  <2>4. Max(T) \in T
    <3> HIDE DEF T
    <3> QED
      BY <2>1, <2>2, <2>3, MaxOf
  <2>5. filled(lo, hi) \in T
    BY <2>4, Zenon
  <2> HIDE DEF fits, filled
  <2> QED
    BY <2>5
<1> HIDE DEF filled
<1> DEFINE V == [bins : Seq(PackSet(m)), hi : 0 .. L]
           Taken(st, lo, k) == [bins |-> Append(st.bins, pack(bin(lo, st.hi, k))), hi |-> st.hi - k]
<1>6. ASSUME NEW st \in V, NEW lo \in 1 .. L, ~(lo > st.hi)
      PROVE  \E k \in 0 .. st.hi - lo : with(st, lo) = Taken(st, lo, k) /\ fits(lo, st.hi, k)
  <2>1. st.hi \in lo .. L
    BY <1>3, <1>6
  <2>2. filled(lo, st.hi) \in 0 .. st.hi - lo /\ fits(lo, st.hi, filled(lo, st.hi))
    BY <1>5, <2>1
  <2>3. with(st, lo) = Taken(st, lo, filled(lo, st.hi))
    BY Zenon
  <2> HIDE DEF with, Taken, fits
  <2> QED
    BY <2>2, <2>3
<1> HIDE DEF with
<1>7. ASSUME NEW st \in V, NEW lo \in 1 .. L, ~(lo > st.hi), NEW k \in 0 .. st.hi - lo
      PROVE  /\ Taken(st, lo, k) \in V
             /\ Taken(st, lo, k).hi = st.hi - k
             /\ Taken(st, lo, k).bins = Append(st.bins, pack(bin(lo, st.hi, k)))
             /\ pack(bin(lo, st.hi, k)) \in PackSet(m)
             /\ pack(bin(lo, st.hi, k)).members = bin(lo, st.hi, k)
             /\ Enumerates(bin(lo, st.hi, k), Y(lo, st.hi, k))
             /\ st.hi \in lo .. L /\ st.bins \in Seq(PackSet(m))
  <2>1. st.hi \in lo .. L /\ st.bins \in Seq(PackSet(m))
    BY <1>3, <1>7
  <2>2. /\ pack(bin(lo, st.hi, k)) \in PackSet(m)
        /\ pack(bin(lo, st.hi, k)).members = bin(lo, st.hi, k)
        /\ Enumerates(bin(lo, st.hi, k), Y(lo, st.hi, k))
    BY <1>4, <2>1
  <2> DEFINE p == pack(bin(lo, st.hi, k))
  <2>3. p \in PackSet(m)
    BY <2>2
  <2> HIDE DEF p
  <2>4. Append(st.bins, p) \in Seq(PackSet(m))
    BY <2>1, <2>3
  <2>5. st.hi - k \in 0 .. L
    BY <1>3, <2>1
  <2>6. /\ [bins |-> Append(st.bins, p), hi |-> st.hi - k] \in V
        /\ [bins |-> Append(st.bins, p), hi |-> st.hi - k].hi = st.hi - k
        /\ [bins |-> Append(st.bins, p), hi |-> st.hi - k].bins = Append(st.bins, p)
    BY <2>4, <2>5
  <2> HIDE DEF V, bin, Y
  <2> QED
    BY <2>1, <2>2, <2>6, Zenon DEF p
<1> DEFINE next == [x \in (1 .. L) \X V |-> IF x[1] > x[2].hi THEN x[2] ELSE with(x[2], x[1])]
<1>8. next \in [(1 .. L) \X V -> V]
  <2>1. ASSUME NEW x \in (1 .. L) \X V
        PROVE  (IF x[1] > x[2].hi THEN x[2] ELSE with(x[2], x[1])) \in V
    <3> DEFINE lo == x[1]
               st == x[2]
    <3>1. lo \in 1 .. L /\ st \in V
      OBVIOUS
    <3> HIDE DEF lo, st, V
    <3>2. CASE lo > st.hi
      BY <3>1, <3>2 DEF lo, st
    <3>3. CASE ~(lo > st.hi)
      <4>1. PICK k \in 0 .. st.hi - lo : with(st, lo) = Taken(st, lo, k)
        BY <1>6, <3>1, <3>3
      <4>2. Taken(st, lo, k) \in V
        BY <1>7, <3>1, <3>3
      <4> HIDE DEF Taken
      <4>3. with(st, lo) \in V
        BY <4>1, <4>2, Zenon
      <4> QED
        BY <3>3, <4>3 DEF lo, st
    <3> QED
      BY <3>2, <3>3
  <2> HIDE DEF V
  <2> QED
    BY <2>1
<1> HIDE DEF next
<1>9. start \in V
  <2>1. << >> \in Seq(PackSet(m)) /\ L \in 0 .. L
    BY <1>3
  <2> QED
    BY <2>1
<1>10. PICK f : IsIteration(f, L, V, start, next)
  <2> HIDE DEF V, start
  <2> QED
    BY <1>3, <1>8, <1>9, Iterates, Zenon
<1>11. f \in [0 .. L -> V] /\ f[0] = start /\ \A j \in 1 .. L : f[j] = next[<<j, f[j - 1]>>]
  BY <1>10 DEF IsIteration
<1>12. ASSUME NEW lo \in 1 .. L
       PROVE  f[lo - 1] \in V /\ f[lo] = IF lo > f[lo - 1].hi THEN f[lo - 1] ELSE with(f[lo - 1], lo)
  <2> HIDE DEF V, with
  <2>1. lo - 1 \in 0 .. L
    BY <1>3
  <2>2. f[lo - 1] \in V
    BY <1>11, <2>1
  <2> DEFINE st == f[lo - 1]
  <2>3. <<lo, st>> \in (1 .. L) \X V
    BY <2>2
  <2>4. f[lo] = next[<<lo, st>>]
    BY <1>11
  <2> HIDE DEF st
  <2>5. next[<<lo, st>>] = IF lo > st.hi THEN st ELSE with(st, lo)
    BY <2>3 DEF next
  <2> QED
    BY <2>2, <2>4, <2>5 DEF st
<1>13. IsAfter(f)
  <2> HIDE DEF V, with, start
  <2>1. f = [lo \in 0 .. L |-> f[lo]]
    BY <1>11
  <2>2. ASSUME NEW lo \in 0 .. L
        PROVE  f[lo] = IF lo = 0 THEN start
                       ELSE LET before == f[lo - 1]
                            IN  IF lo > before.hi THEN before ELSE with(before, lo)
    <3>1. lo = 0 \/ lo \in 1 .. L
      BY <1>3
    <3> QED
      BY <1>11, <1>12, <3>1
  <2> QED
    BY <2>1, <2>2, Zenon
<1>14. IsAfter(after)
  <2> HIDE DEF IsAfter
  <2> QED
    BY <1>13
<1> HIDE DEF after
<1>15. /\ after[0] = start
       /\ \A lo \in 1 .. L :
             after[lo] = IF lo > after[lo - 1].hi THEN after[lo - 1] ELSE with(after[lo - 1], lo)
  <2> HIDE DEF start, with
  <2>1. \A lo \in 0 .. L :
            after[lo] = IF lo = 0 THEN start
                        ELSE LET before == after[lo - 1]
                             IN  IF lo > before.hi THEN before ELSE with(before, lo)
    BY <1>14, Zenon
  <2>2. 0 \in 0 .. L /\ \A lo \in 1 .. L : lo \in 0 .. L /\ lo # 0
    BY <1>3
  <2> QED
    BY <2>1, <2>2, Zenon
<1> HIDE DEF IsAfter
<1> DEFINE Done(lo, hi) == {order[j] : j \in {j \in 1 .. L : j <= lo \/ j > hi}}
           Within(bins) == \A p \in 1 .. Len(bins) : Weight(pl.lengths, bins[p].members) <= Target
           Good(lo, st) == st \in V /\ Holds(st.bins, Done(lo, st.hi)) /\ Within(st.bins)
           T == {lo \in 0 .. L : Good(lo, after[lo])}
<1>16. 0 \in T
  <2>1. start.bins = << >> /\ start.hi = L /\ Len(<< >>) = 0
    OBVIOUS
  <2>2. Done(0, L) = {}
    BY <1>3
  <2>3. Holds(<< >>, {})
    <3>1. \A p \in 1 .. 0 : FALSE
      OBVIOUS
    <3> QED
      BY <2>1, <3>1 DEF Holds
  <2>4. Within(<< >>)
    <3>1. \A p \in 1 .. 0 : FALSE
      OBVIOUS
    <3> QED
      BY <2>1, <3>1
  <2> HIDE DEF start, V, Done, Within
  <2>5. Good(0, after[0])
    BY <1>9, <1>15, <2>1, <2>2, <2>3, <2>4
  <2> HIDE DEF Good
  <2> QED
    BY <1>3, <2>5
<1>17. ASSUME NEW x \in 0 .. L - 1, x \in T PROVE x + 1 \in T
  <2> DEFINE st == after[x]
             lo == x + 1
             hi == st.hi
  <2>1. st \in V /\ Holds(st.bins, Done(x, hi)) /\ Within(st.bins)
    BY <1>17
  <2>2. lo \in 1 .. L /\ lo - 1 = x /\ x \in Nat
    BY <1>3
  <2>3. after[lo] = IF lo > hi THEN st ELSE with(st, lo)
    BY <1>15, <2>2
  <2>4. hi \in 0 .. L
    BY <2>1
  <2> HIDE DEF st, hi, Good, V, Done, Within, with, bin
  <2>5. CASE lo > hi
    <3>1. Done(x, hi) = Done(lo, hi)
      BY <1>3, <2>2, <2>4, <2>5 DEF Done
    <3>2. Good(lo, st)
      BY <2>1, <3>1 DEF Good, hi
    <3>3. Good(lo, after[lo])
      BY <2>3, <2>5, <3>2
    <3> QED
      BY <2>2, <3>3
  <2>6. CASE ~(lo > hi)
    <3>1. PICK k \in 0 .. st.hi - lo : with(st, lo) = Taken(st, lo, k) /\ fits(lo, st.hi, k)
      <4> HIDE DEF Taken, fits
      <4> QED
        BY <1>6, <2>1, <2>2, <2>6 DEF hi
    <3> DEFINE new == Taken(st, lo, k)
               p == pack(bin(lo, st.hi, k))
               y == Y(lo, st.hi, k)
               old == Done(x, hi)
    <3>2. /\ new \in V /\ new.hi = st.hi - k /\ new.bins = Append(st.bins, p)
          /\ p \in PackSet(m) /\ p.members = bin(lo, st.hi, k)
          /\ Enumerates(bin(lo, st.hi, k), y) /\ st.hi \in lo .. L /\ st.bins \in Seq(PackSet(m))
      <4> HIDE DEF Taken, Y
      <4> QED
        BY <1>7, <2>1, <2>2, <2>6 DEF hi
    <3>3. Done(lo, hi - k) = old \cup y
      <4>1. {j \in 1 .. L : j <= lo \/ j > hi - k}
                = {j \in 1 .. L : j <= x \/ j > hi} \cup ({lo} \cup (hi - k + 1 .. hi))
        <5> DEFINE h == st.hi
        <5>1. /\ L \in Nat /\ lo \in 1 .. L /\ x = lo - 1 /\ h \in 0 .. L
              /\ lo <= h /\ k \in 0 .. h - lo
          BY <1>3, <2>2, <2>4, <2>6 DEF hi
        <5> HIDE DEF h, lo
        <5>2. {j \in 1 .. L : j <= lo \/ j > h - k}
                  = {j \in 1 .. L : j <= x \/ j > h} \cup ({lo} \cup (h - k + 1 .. h))
          BY <5>1
        <5> QED
          BY <5>2 DEF h, hi
      <4> QED
        BY <4>1 DEF Done, hi
    <3>4. \A e \in old : e \notin y
      <4> SUFFICES ASSUME NEW i \in 1 .. L, i <= x \/ i > hi,
                          NEW j \in {lo} \cup (hi - k + 1 .. hi), order[i] = order[j]
                   PROVE  FALSE
        BY DEF Done, hi
      <4>1. j \in 1 .. L /\ i # j
        BY <1>3, <2>2, <2>4, <2>6, <3>2 DEF hi
      <4>2. \A a, b \in 1 .. L : order[a] = order[b] => a = b
        BY <1>2 DEF Enumerates, L
      <4> QED
        BY <4>1, <4>2
    <3>5. fits(lo, st.hi, k)
      BY <3>1
    <3>6. after[lo] = new
      BY <2>3, <2>6, <3>1
    <3> HIDE DEF new, p, y, old
    <3>7. Holds(new.bins, Done(lo, new.hi))
      <4>1. Holds(st.bins, old) /\ Enumerates(p.members, y)
        BY <2>1, <3>2 DEF old
      <4>2. Holds(Append(st.bins, p), old \cup y)
        BY <3>2, <3>4, <4>1, HoldsOneMore
      <4> QED
        BY <3>2, <3>3, <4>2 DEF hi
    <3>8. Within(new.bins)
      <4>1. /\ Len(new.bins) = Len(st.bins) + 1 /\ new.bins[Len(st.bins) + 1] = p
            /\ \A q \in 1 .. Len(st.bins) : new.bins[q] = st.bins[q]
            /\ Len(st.bins) \in Nat
        BY <3>2, AppendProperties
      <4>2. Weight(pl.lengths, p.members) <= Target
        BY <3>2, <3>5
      <4>3. \A q \in 1 .. Len(st.bins) : Weight(pl.lengths, st.bins[q].members) <= Target
        BY <2>1 DEF Within
      <4>4. ASSUME NEW q \in 1 .. Len(new.bins) PROVE Weight(pl.lengths, new.bins[q].members) <= Target
        <5>1. CASE q = Len(st.bins) + 1
          BY <4>1, <4>2, <5>1, Zenon
        <5>2. CASE q # Len(st.bins) + 1
          <6>1. q \in 1 .. Len(st.bins)
            BY <4>1, <5>2
          <6> QED
            BY <4>1, <4>3, <6>1, Zenon
        <5> QED
          BY <5>1, <5>2
      <4> QED
        BY <4>4 DEF Within
    <3>9. Good(lo, after[lo])
      BY <3>2, <3>6, <3>7, <3>8, Zenon DEF Good
    <3> QED
      BY <2>2, <3>9
  <2> QED
    BY <2>5, <2>6
<1>18. L \in T
  <2> HIDE DEF T
  <2>1. \A x \in 0 .. L - 1 : x \in T => x + 1 \in T
    BY <1>17
  <2>2. \A x \in 0 .. L : x \in T
    BY <1>3, <1>16, <2>1, UpTo
  <2> QED
    BY <1>3, <2>2
<1>19. Good(L, after[L])
  <2> HIDE DEF Good
  <2> QED
    BY <1>18
<1>20. Done(L, after[L].hi) = X
  <2>1. \A x \in X : \E i \in 1 .. L : order[i] = x
    BY <1>2 DEF Enumerates, L
  <2>2. \A j \in 1 .. L : j <= L
    BY <1>3
  <2> QED
    BY <1>3, <2>1, <2>2
<1>21. after[L] \in V /\ Holds(after[L].bins, X) /\ Within(after[L].bins)
  <2> HIDE DEF V, Done, Within
  <2> QED
    BY <1>19, <1>20
<1>22. after[L].bins \in Seq(PackSet(m))
  BY <1>21
<1> HIDE DEF V
<1> QED
  BY <1>1, <1>21, <1>22, Zenon DEF X

-----------------------------------------------------------------------------
\* The dataset.

\* What is kept of a list stood in it, at one of the places.
LEMMA KeptIn ==
    ASSUME NEW S, NEW s \in Seq(S), NEW places
    PROVE  Kept(s, places) \in Seq({s[i] : i \in {i \in 1 .. Len(s) : i \in places}})
<1> DEFINE n == Len(s)
           Y == {s[i] : i \in {i \in 1 .. n : i \in places}}
           parts == [k \in 1 .. n |-> IF k \in places THEN << s[k] >> ELSE << >>]
<1>1. n \in Nat /\ DOMAIN s = 1 .. n
  OBVIOUS
<1>2. Kept(s, places) = FlattenSeq(parts)
  BY <1>1 DEF Kept
<1> HIDE DEF n
<1>3. \A k \in 1 .. n : (IF k \in places THEN << s[k] >> ELSE << >>) \in Seq(Y)
  <2> SUFFICES ASSUME NEW k \in 1 .. n PROVE (IF k \in places THEN << s[k] >> ELSE << >>) \in Seq(Y)
    OBVIOUS
  <2>1. CASE k \in places
    <3>1. s[k] \in Y
      BY <2>1
    <3> HIDE DEF Y
    <3>2. << s[k] >> \in Seq(Y)
      BY <3>1
    <3> QED
      BY <2>1, <3>2
  <2>2. CASE k \notin places
    BY <2>2
  <2> QED
    BY <2>1, <2>2
<1> HIDE DEF Y
<1>4. parts \in [1 .. n -> Seq(Y)]
  BY <1>3
<1> HIDE DEF parts
<1>5. parts \in Seq(Seq(Y))
  BY <1>1, <1>4, SegmentSeq
<1>6. FlattenSeq(parts) \in Seq(Y)
  BY <1>5, FlattenIn
<1> QED
  BY <1>2, <1>6 DEF Y, n

\* The rows build_mixture can take into the mixture.
Usable == {e \in UNION {ToSet(Items[k].rows) : k \in DOMAIN Items} :
              e.len <= Target - SystemLen /\ e.len >= MinLen}

\* A usable row is an example, and with the system prompt it fits a pack.
LEMMA UsableIs ==
    ASSUME NEW e \in Usable
    PROVE  IsExample(e) /\ e.len \in Nat /\ e.labels \in Nat /\ e.len + SystemLen \in 0 .. Target
<1>1. IsExample(e) /\ e.len <= Target - SystemLen
  BY DataAssumption DEF Usable
<1>2. e.len \in Nat /\ e.labels \in Nat
  BY <1>1 DEF IsExample
<1> QED
  BY <1>1, <1>2, RowAssumption, PlannerAssumption

\* The mixture is a list of usable rows.
LEMMA MixtureIs ==
    BuildMixture(Items, Target, MinLen) \in Seq(Usable)
<1> DEFINE part(k) == SampleTable(Filtered(Items[k].rows, Target, MinLen), Items[k].count)
           parts == [k \in DOMAIN Items |-> part(k)]
           n == Len(Items)
<1>1. n \in Nat /\ DOMAIN Items = 1 .. n
  BY DataAssumption
<1>2. ASSUME NEW k \in 1 .. n PROVE part(k) \in Seq(Usable)
  <2> DEFINE rows == Items[k].rows
             places == {i \in DOMAIN rows : rows[i].len <= Target - SystemLen /\ rows[i].len >= MinLen}
             left == Kept(rows, places)
             Y == {rows[i] : i \in {i \in 1 .. Len(rows) : i \in places}}
  <2>1. rows \in Seq(ToSet(rows))
    BY <1>1, DataAssumption
  <2>2. Filtered(rows, Target, MinLen) = left
    BY DEF Filtered
  <2>3. Y \subseteq Usable
    <3>1. DOMAIN rows = 1 .. Len(rows)
      BY <2>1
    <3>2. \A i \in DOMAIN rows : rows[i] \in UNION {ToSet(Items[j].rows) : j \in DOMAIN Items}
      BY <1>1 DEF ToSet
    <3> QED
      BY <3>1, <3>2 DEF Usable
  <2>4. left \in Seq(Y)
    <3> HIDE DEF rows, places
    <3> QED
      BY <2>1, KeptIn
  <2> HIDE DEF left, Y, rows
  <2>5. left \in Seq(Usable)
    BY <2>3, <2>4, SeqMono
  <2>6. SampleTable(left, Items[k].count) \in Seq(Usable)
    <3>1. CASE Items[k].count >= Len(left)
      BY <2>5, <3>1 DEF SampleTable
    <3>2. CASE ~(Items[k].count >= Len(left))
      <4>1. PICK p : SampleTable(left, Items[k].count) = Kept(left, p)
        BY <3>2 DEF SampleTable
      <4> DEFINE Z == {left[i] : i \in {i \in 1 .. Len(left) : i \in p}}
      <4>2. Kept(left, p) \in Seq(Z)
        BY <2>5, KeptIn
      <4>3. Z \subseteq Usable
        BY <2>5
      <4> HIDE DEF Z
      <4> QED
        BY <4>1, <4>2, <4>3, SeqMono
    <3> QED
      BY <3>1, <3>2
  <2> QED
    BY <2>2, <2>6 DEF rows
<1> HIDE DEF part
<1>3. parts \in [1 .. n -> Seq(Usable)]
  BY <1>1, <1>2
<1>4. BuildMixture(Items, Target, MinLen) = FlattenSeq(parts)
  BY DEF BuildMixture, part
<1> HIDE DEF parts, n
<1>5. parts \in Seq(Seq(Usable))
  BY <1>1, <1>3, SegmentSeq
<1> QED
  BY <1>4, <1>5, FlattenIn

\* What the planner is told of the dataset, and that every example fits a row.
Described == [lengths |-> Dataset.lengths, labels |-> Dataset.labels]
Size == Len(Dataset.examples)

\* Every item of the dataset is that of a usable row, and all of them fit.
LEMMA DatasetIs ==
    /\ Size \in Nat /\ DOMAIN Dataset.examples = 1 .. Size
    /\ \A i \in 1 .. Size : /\ Dataset.examples[i] \in Usable
                            /\ Dataset.lengths[i] = Dataset.examples[i].len + SystemLen
                            /\ Dataset.items[i] = Document(Dataset.examples[i], i \in W0)
    /\ Dataset.lengths \in [1 .. Size -> Nat] /\ Dataset.labels \in [1 .. Size -> Nat]
    /\ Fitting(Described) = 1 .. Size
<1> DEFINE x == BuildMixture(Items, Target, MinLen)
           n == Len(x)
<1>1. x \in Seq(Usable)
  BY MixtureIs
<1> HIDE DEF x
<1>2. n \in Nat /\ DOMAIN x = 1 .. n /\ \A i \in 1 .. n : x[i] \in Usable
  BY <1>1
<1>3. /\ Dataset.examples = x
      /\ Dataset.lengths = [i \in DOMAIN x |-> x[i].len + SystemLen]
      /\ Dataset.labels = [i \in DOMAIN x |-> x[i].labels]
      /\ Dataset.items = [i \in DOMAIN x |-> Document(x[i], i \in W0)]
  BY DEF Dataset, x
<1>4. \A i \in 1 .. n : x[i].len + SystemLen \in 0 .. Target /\ x[i].labels \in Nat
  BY <1>2, UsableIs
<1>5. Size = n
  BY <1>3 DEF Size
<1> HIDE DEF n
<1>6. Dataset.lengths \in [1 .. n -> Nat] /\ Dataset.labels \in [1 .. n -> Nat]
  BY <1>2, <1>3, <1>4, PlannerAssumption
<1>7. \A i \in 1 .. n : Dataset.lengths[i] <= Target
  BY <1>2, <1>3, <1>4, PlannerAssumption
<1>8. Fitting(Described) = 1 .. n
  BY <1>6, <1>7 DEF Fitting, Described
<1>9. \A i \in 1 .. n : /\ Dataset.examples[i] \in Usable
                        /\ Dataset.lengths[i] = Dataset.examples[i].len + SystemLen
                        /\ Dataset.items[i] = Document(Dataset.examples[i], i \in W0)
  BY <1>2, <1>3
<1> QED
  BY <1>2, <1>3, <1>5, <1>6, <1>8, <1>9, Zenon

-----------------------------------------------------------------------------
\* The plans of a run.

\* What _plan returns is a plan for the dataset.
IsPlanOf(plan) ==
    /\ plan.packs = Bins(Described)
    /\ IsPlanned(plan.packs, plan.steps, Len(plan.packs) \div N, N)

\* Every rank works in an epoch that has a plan, and what it has cached is one.
PlansInv ==
    /\ ds = Dataset
    /\ shape \in Shapes
    /\ 0 \in DOMAIN plans /\ DOMAIN plans \subseteq Nat
    /\ \A e \in DOMAIN plans : IsPlanOf(plans[e])
    /\ DOMAIN cache = Ranks /\ DOMAIN epoch = Ranks
    /\ \A r \in Ranks :
          /\ epoch[r] \in DOMAIN plans
          /\ cache[r] = NoPlan \/ (cache[r].key \in DOMAIN plans /\ cache[r] = PlanFor(cache[r].key))

\* A step takes at least one pack.
LEMMA StepSize == ASSUME shape \in Shapes PROVE N \in Nat \ {0}
<1> DEFINE a == shape.ga
           b == shape.mb
<1>1. World \in Nat \ {0} /\ a \in Nat \ {0} /\ b \in Nat \ {0}
  BY PlannerAssumption, TrainingAssumption
<1> HIDE DEF a, b
<1>2. World * a \in Nat \ {0}
  BY <1>1
<1>3. (World * a) * b \in Nat \ {0}
  BY <1>1, <1>2
<1> QED
  BY <1>3 DEF N, a, b

\* The packs of the dataset.
LEMMA PacksAre ==
    /\ Bins(Described) \in Seq(PackSet(Size))
    /\ Holds(Bins(Described), 1 .. Size)
<1>1. Size \in Nat /\ Described.lengths \in [1 .. Size -> Nat] /\ Described.labels \in [1 .. Size -> Nat]
  BY DatasetIs DEF Described
<1>2. Bins(Described) \in Seq(PackSet(Size)) /\ Holds(Bins(Described), Fitting(Described))
  BY <1>1, BinsAre
<1> QED
  BY <1>2, DatasetIs

\* A run starts with the plans that _plan returns.
LEMMA PlansInit ==
    ASSUME ShufflePermutes, Init
    PROVE  PlansInv
<1>1. ds = Dataset /\ shape \in Shapes
  BY DEF Init
<1>2. PICK rng \in Draws : plans = [e \in DOMAIN rng |-> Plan([lengths |-> ds.lengths, labels |-> ds.labels], N, rng[e])]
  BY DEF Init
<1>3. plans = [e \in DOMAIN rng |-> Plan(Described, N, rng[e])]
  BY <1>1, <1>2 DEF Described
<1>4. 0 \in DOMAIN plans /\ DOMAIN plans \subseteq Nat
  BY <1>3, TrainingAssumption
<1>5. ASSUME NEW e \in DOMAIN plans PROVE IsPlanOf(plans[e])
  <2> DEFINE g == rng[e]
  <2>1. plans[e] = Plan(Described, N, g)
    BY <1>3
  <2>2. N \in Nat \ {0} /\ Size \in Nat
    BY <1>1, StepSize, DatasetIs
  <2> HIDE DEF g
  <2>3. /\ Plan(Described, N, g).packs = Bins(Described)
        /\ IsPlanned(Bins(Described), Plan(Described, N, g).steps, Len(Bins(Described)) \div N, N)
    BY <2>2, PacksAre, PlanIs
  <2> QED
    BY <2>1, <2>3 DEF IsPlanOf
<1>6. /\ DOMAIN cache = Ranks /\ DOMAIN epoch = Ranks
      /\ \A r \in Ranks : /\ epoch[r] = 0
                          /\ cache[r] = NoPlan \/ cache[r] = PlanFor(0)
  BY DEF Init
<1>7. PlanFor(0).key = 0
  BY DEF PlanFor
<1>8. \A r \in Ranks :
          /\ epoch[r] \in DOMAIN plans
          /\ cache[r] = NoPlan \/ (cache[r].key \in DOMAIN plans /\ cache[r] = PlanFor(cache[r].key))
  BY <1>4, <1>6, <1>7
<1> QED
  BY <1>1, <1>4, <1>5, <1>6, <1>8 DEF PlansInv

\* The plan a rank works with is that of its epoch.
LEMMA EnsuredIs ==
    ASSUME PlansInv, NEW r \in Ranks
    PROVE  /\ EnsurePlan(r) = PlanFor(epoch[r])
           /\ EnsurePlan(r).key = epoch[r]
           /\ EnsurePlan(r).packs = plans[epoch[r]].packs
           /\ EnsurePlan(r).steps = plans[epoch[r]].steps
<1>1. /\ epoch[r] \in DOMAIN plans /\ epoch[r] \in Nat
      /\ cache[r] = NoPlan \/ cache[r] = PlanFor(cache[r].key)
  BY DEF PlansInv
<1>2. cache[r] = NoPlan => cache[r].key = -1
  BY DEF NoPlan
<1>3. cache[r].key = epoch[r] => cache[r] # NoPlan
  BY <1>1, <1>2
<1>4. EnsurePlan(r) = PlanFor(epoch[r])
  <2>1. CASE cache[r].key = epoch[r]
    BY <1>1, <1>3, <2>1 DEF EnsurePlan
  <2>2. CASE cache[r].key # epoch[r]
    BY <2>2 DEF EnsurePlan
  <2> QED
    BY <2>1, <2>2
<1> QED
  BY <1>4 DEF PlanFor

\* No step of any rank changes them, and no cache holds another.
LEMMA PlansStep ==
    ASSUME PlansInv, [Next]_vars
    PROVE  PlansInv'
<1>1. ds' = ds /\ shape' = shape /\ plans' = plans
  BY DEF Next, RankStep, ZeroGrad, Fetch, NextEpoch, Forward, Backward, Update, LogLoss,
         EndStep, Finish, run, vars
<1>2. N' = N
  BY <1>1 DEF N
<1>3. \A e \in DOMAIN plans' : IsPlanOf(plans[e])'
  <2>1. \A e \in DOMAIN plans : IsPlanOf(plans[e])
    BY DEF PlansInv
  <2> QED
    BY <1>1, <1>2, <2>1 DEF IsPlanOf
<1>4. ASSUME UNCHANGED <<cache, epoch>> PROVE PlansInv'
  BY <1>1, <1>3, <1>4 DEF PlansInv, PlanFor
<1>5. ASSUME NEW r \in Ranks, cache' = [cache EXCEPT ![r] = EnsurePlan(r)],
             epoch' = epoch \/ (epoch' = [epoch EXCEPT ![r] = @ + 1] /\ epoch[r] + 1 \in DOMAIN plans)
      PROVE  PlansInv'
  <2>1. /\ DOMAIN cache = Ranks /\ DOMAIN epoch = Ranks
        /\ \A s \in Ranks :
              /\ epoch[s] \in DOMAIN plans
              /\ cache[s] = NoPlan \/ (cache[s].key \in DOMAIN plans /\ cache[s] = PlanFor(cache[s].key))
    BY DEF PlansInv
  <2>2. EnsurePlan(r) = PlanFor(epoch[r]) /\ PlanFor(epoch[r]).key = epoch[r]
    BY EnsuredIs
  <2>3. DOMAIN cache' = Ranks /\ DOMAIN epoch' = Ranks
    BY <1>5, <2>1
  <2>4. ASSUME NEW s \in Ranks
        PROVE  /\ epoch'[s] \in DOMAIN plans
               /\ cache'[s] = NoPlan \/ (cache'[s].key \in DOMAIN plans /\ cache'[s] = PlanFor(cache'[s].key))
    <3>1. epoch'[s] \in DOMAIN plans
      BY <1>5, <2>1
    <3>2. CASE s = r
      <4>1. cache'[s] = PlanFor(epoch[s])
        BY <1>5, <2>1, <2>2, <3>2
      <4>2. cache'[s].key = epoch[s] /\ epoch[s] \in DOMAIN plans
        BY <2>1, <2>2, <3>2, <4>1
      <4> QED
        BY <3>1, <4>1, <4>2
    <3>3. CASE s # r
      <4>1. cache'[s] = cache[s]
        BY <1>5, <2>1, <3>3
      <4> QED
        BY <2>1, <3>1, <4>1
    <3> QED
      BY <3>2, <3>3
  <2> QED
    BY <1>1, <1>3, <2>3, <2>4 DEF PlansInv, PlanFor
<1>6. CASE \E r \in Ranks : Fetch(r) \/ NextEpoch(r)
  <2>1. PICK r \in Ranks : Fetch(r) \/ NextEpoch(r)
    BY <1>6
  <2>2. cache' = [cache EXCEPT ![r] = EnsurePlan(r)]
    BY <2>1 DEF Fetch, NextEpoch
  <2>3. epoch' = epoch \/ (epoch' = [epoch EXCEPT ![r] = @ + 1] /\ epoch[r] + 1 \in DOMAIN plans)
    BY <2>1 DEF Fetch, NextEpoch
  <2> QED
    BY <1>5, <2>2, <2>3
<1>7. CASE ~(\E r \in Ranks : Fetch(r) \/ NextEpoch(r))
  <2>1. UNCHANGED <<cache, epoch>>
    BY <1>7 DEF Next, RankStep, ZeroGrad, Forward, Backward, Update, LogLoss,
                EndStep, Finish, run, vars
  <2> QED
    BY <1>4, <2>1
<1> QED
  BY <1>6, <1>7, SMTT(30)

\* From the start on every rank plans for the dataset and its epoch.
THEOREM PlansKept == ShufflePermutes => (Spec => []PlansInv)
<1>1. ShufflePermutes /\ Init => PlansInv
  BY PlansInit
<1>2. PlansInv /\ [Next]_vars => PlansInv'
  BY PlansStep
<1> QED
  BY <1>1, <1>2, PTL DEF Spec

\* An element of a list of numbers is at most their sum.
LEMMA TotalBounds ==
    ASSUME NEW n \in Nat, NEW s \in [1 .. n -> Nat], NEW i \in 1 .. n
    PROVE  s[i] <= Total(s)
<1> DEFINE t == [s EXCEPT ![i] = 0]
<1>1. Total(t) + s[i] = Total(s) + 0
  <2>1. 0 \in Nat
    OBVIOUS
  <2> QED
    BY <2>1, TotalExcept, Zenon
<1>2. t \in [1 .. n -> Nat] /\ s[i] \in Nat
  OBVIOUS
<1> HIDE DEF t
<1>3. Total(t) \in Nat /\ Total(s) \in Nat
  BY <1>2, TotalSegmentNat
<1> QED
  BY <1>1, <1>2, <1>3

\* A pack has no more labels than its step.
LEMMA StepLabelsBound ==
    ASSUME NEW m \in Nat, NEW packs \in Seq(PackSet(m)), NEW st \in Seq(1 .. Len(packs)),
           NEW i \in 1 .. Len(st)
    PROVE  packs[st[i]].labels \in Nat /\ packs[st[i]].labels <= StepLabels(packs, st)
<1> DEFINE lab == LabelsOf(packs)
           n == Len(st)
           s == [j \in DOMAIN st |-> lab[st[j]]]
<1>1. n \in Nat /\ DOMAIN st = 1 .. n /\ \A j \in 1 .. n : st[j] \in 1 .. Len(packs)
  OBVIOUS
<1>2. \A q \in 1 .. Len(packs) : lab[q] \in Nat /\ lab[q] = packs[q].labels
  <2>1. \A q \in 1 .. Len(packs) : packs[q] \in PackSet(m)
    OBVIOUS
  <2>2. \A q \in 1 .. Len(packs) : packs[q].labels \in Nat
    BY <2>1 DEF PackSet
  <2>3. \A q \in 1 .. Len(packs) : lab[q] = packs[q].labels
    BY DEF LabelsOf
  <2> QED
    BY <2>2, <2>3, Zenon
<1>3. i \in 1 .. n
  OBVIOUS
<1> HIDE DEF n, lab
<1>4. s \in [1 .. n -> Nat] /\ s[i] = packs[st[i]].labels
  BY <1>1, <1>2, <1>3
<1> HIDE DEF s
<1>5. s[i] <= Total(s) /\ s[i] \in Nat
  BY <1>1, <1>3, <1>4, TotalBounds
<1> QED
  BY <1>4, <1>5 DEF StepLabels, Weight, s, lab

\* Steps of a plan are balanced.
LEMMA PlanBalanced ==
    ASSUME NEW m \in Nat, NEW packs \in Seq(PackSet(m)), NEW steps, NEW c \in Nat, NEW n \in Nat,
           IsPlanned(packs, steps, c, n), NEW s \in 1 .. c, NEW t \in 1 .. c
    PROVE  StepLabels(packs, steps[s]) - StepLabels(packs, steps[t])
               <= Max({packs[p].labels : p \in ToSet(steps[s])})
<1> DEFINE a == steps[s]
           b == steps[t]
           T == {packs[p].labels : p \in ToSet(a)}
<1>1. a \in Seq(1 .. Len(packs)) /\ b \in Seq(1 .. Len(packs)) /\ Len(a) = n /\ DOMAIN a = 1 .. n
  BY DEF IsPlanned
<1>2. PICK i \in 1 .. n : StepLabels(packs, a) <= StepLabels(packs, b) + packs[a[i]].labels
  BY DEF IsPlanned
<1> HIDE DEF a, b
<1>3. StepLabels(packs, a) \in Nat /\ StepLabels(packs, b) \in Nat
  BY <1>1, StepLabelsType
<1>4. \A j \in 1 .. n : packs[a[j]].labels \in Nat /\ packs[a[j]].labels <= StepLabels(packs, a)
  BY <1>1, StepLabelsBound
<1>5. T = {packs[a[j]].labels : j \in 1 .. n}
  BY <1>1 DEF ToSet
<1>6. packs[a[i]].labels \in T /\ T \subseteq Nat /\ \A x \in T : x <= StepLabels(packs, a)
  BY <1>4, <1>5
<1> HIDE DEF T
<1>7. Max(T) \in T /\ packs[a[i]].labels <= Max(T)
  BY <1>3, <1>6, MaxOf
<1>8. packs[a[i]].labels \in Nat /\ Max(T) \in Nat
  BY <1>4, <1>6, <1>7
<1>9. StepLabels(packs, a) - StepLabels(packs, b) <= Max(T)
  <2> DEFINE x == StepLabels(packs, a)
             y == StepLabels(packs, b)
             z == packs[a[i]].labels
             w == Max(T)
  <2>1. x \in Nat /\ y \in Nat /\ z \in Nat /\ w \in Nat /\ x <= y + z /\ z <= w
    BY <1>2, <1>3, <1>7, <1>8
  <2> HIDE DEF x, y, z, w
  <2>2. x - y <= w
    BY <2>1
  <2> QED
    BY <2>2 DEF x, y, w
<1> QED
  BY <1>9 DEF a, b, T

\* data.py: "balanced so every step supervises ~equal label tokens": of any two
\* steps of an epoch one holds at most one of its packs' labels more than the
\* other, on every rank, for every dataset, shape and shuffle.
THEOREM Balanced == ShufflePermutes => (Spec => []LabelsBalanced)
<1>1. PlansInv => LabelsBalanced
  <2> SUFFICES ASSUME PlansInv, NEW r \in Ranks,
                      NEW s \in DOMAIN cache[r].steps, NEW t \in DOMAIN cache[r].steps
               PROVE  StepLabels(cache[r].packs, cache[r].steps[s])
                          - StepLabels(cache[r].packs, cache[r].steps[t])
                      <= Max({cache[r].packs[p].labels : p \in ToSet(cache[r].steps[s])})
    BY DEF LabelsBalanced
  <2>1. CASE cache[r] = NoPlan
    <3>1. DOMAIN cache[r].steps = {}
      BY <2>1 DEF NoPlan
    <3> QED
      BY <3>1
  <2>2. CASE cache[r] # NoPlan
    <3> DEFINE e == cache[r].key
               packs == cache[r].packs
               steps == cache[r].steps
               c == Len(packs) \div N
    <3>1. e \in DOMAIN plans /\ cache[r] = PlanFor(e) /\ IsPlanOf(plans[e]) /\ shape \in Shapes
      BY <2>2 DEF PlansInv
    <3>2. packs = plans[e].packs /\ steps = plans[e].steps
      <4>1. PlanFor(e).packs = plans[e].packs /\ PlanFor(e).steps = plans[e].steps
        BY DEF PlanFor
      <4> QED
        BY <3>1, <4>1
    <3>3. packs = Bins(Described) /\ IsPlanned(packs, steps, c, N)
      BY <3>1, <3>2 DEF IsPlanOf
    <3>4. N \in Nat \ {0}
      BY <3>1, StepSize
    <3>5. packs \in Seq(PackSet(Size)) /\ Size \in Nat /\ Len(packs) \in Nat
      <4>1. packs \in Seq(PackSet(Size))
        BY <3>3, PacksAre
      <4> QED
        BY <4>1, DatasetIs
    <3>6. c \in Nat
      BY <3>4, <3>5, StepsFit
    <3>7. s \in DOMAIN steps /\ t \in DOMAIN steps
      OBVIOUS
    <3> HIDE DEF packs, steps, c
    <3>8. DOMAIN steps = 1 .. c
      BY <3>3 DEF IsPlanned
    <3>9. StepLabels(packs, steps[s]) - StepLabels(packs, steps[t])
              <= Max({packs[p].labels : p \in ToSet(steps[s])})
      BY <3>3, <3>4, <3>5, <3>6, <3>7, <3>8, PlanBalanced
    <3> QED
      BY <3>9 DEF packs, steps
  <2> QED
    BY <2>1, <2>2
<1> QED
  BY <1>1, PlansKept, PTL

-----------------------------------------------------------------------------
\* The micro-batches of a rank.

\* A part of a list.
IsPart(t, s, a, n) == a \in Nat /\ n \in Nat /\ a + n <= Len(s) /\ t = SubSeq(s, a + 1, a + n)

\* What stands where in a part of a list.
LEMMA PartIs ==
    ASSUME NEW S, NEW s \in Seq(S), NEW a, NEW n, NEW t, IsPart(t, s, a, n)
    PROVE  /\ t \in Seq(S) /\ Len(t) = n
           /\ \A k \in 1 .. n : t[k] = s[a + k]
<1>0. a \in Nat /\ n \in Nat /\ a + n <= Len(s) /\ t = SubSeq(s, a + 1, a + n)
  BY DEF IsPart
<1>1. t \in Seq(S)
  BY <1>0
<1>2. Len(t) = n
  BY <1>0
<1>3. ASSUME NEW k \in 1 .. n PROVE t[k] = s[a + k]
  BY <1>0
<1> QED
  BY <1>1, <1>2, <1>3

\* The products the ranks slice by.
LEMMA Widths ==
    ASSUME NEW w \in Nat \ {0}, NEW g \in Nat \ {0}, NEW b \in Nat \ {0}, NEW r \in 0 .. w - 1
    PROVE  /\ g * b \in Nat \ {0}
           /\ r * g * b = r * (g * b) /\ w * g * b = w * (g * b)
           /\ (r + 1) * g * b = r * (g * b) + g * b
           /\ r * (g * b) \in Nat /\ w * (g * b) \in Nat
           /\ r * (g * b) + g * b <= w * (g * b)
<1> DEFINE x == g * b
<1>1. x \in Nat \ {0}
  OBVIOUS
<1>2. r * g * b = r * x /\ w * g * b = w * x /\ (r + 1) * g * b = (r + 1) * x
  OBVIOUS
<1> HIDE DEF x
<1>3. (r + 1) * x = r * x + x /\ r * x \in Nat /\ w * x \in Nat
  BY <1>1
<1>4. x * (r + 1) <= x * w
  <2>1. x \in Nat /\ r + 1 \in Int /\ w \in Int /\ r + 1 <= w
    BY <1>1
  <2> QED
    BY <2>1, MulMono
<1>5. x * (r + 1) = (r + 1) * x /\ x * w = w * x
  BY <1>1
<1>6. (r + 1) * x <= w * x
  BY <1>4, <1>5
<1> QED
  BY <1>1, <1>2, <1>3, <1>6 DEF x

\* Every micro-batch lies in its rank's part.
LEMMA PartWidths ==
    ASSUME NEW g \in Nat \ {0}, NEW b \in Nat \ {0}, NEW u \in 0 .. g - 1
    PROVE  u * b \in Nat /\ (u + 1) * b = u * b + b /\ u * b + b <= g * b
<1>1. u * b \in Nat /\ (u + 1) * b = u * b + b
  OBVIOUS
<1>2. b * (u + 1) <= b * g
  <2>1. u + 1 \in Int /\ g \in Int /\ u + 1 <= g /\ b \in Nat
    OBVIOUS
  <2> QED
    BY <2>1, MulMono
<1>3. b * (u + 1) = (u + 1) * b /\ b * g = g * b
  OBVIOUS
<1> QED
  BY <1>1, <1>2, <1>3

\* Micro-batch u of the step st on rank r.
IsBatch(t, st, r, g, b, u) ==
    /\ DOMAIN t = 1 .. b
    /\ \A k \in 1 .. b : /\ t[k] = st[r * g * b + u * b + k]
                         /\ r * g * b + u * b + k \in 1 .. Len(st)

\* What a rank takes of a step in its u-th micro-batch.
LEMMA MicroBatchIs ==
    ASSUME NEW S, NEW st \in Seq(S), NEW w \in Nat \ {0}, NEW g \in Nat \ {0}, NEW b \in Nat \ {0},
           Len(st) = w * g * b, NEW r \in 0 .. w - 1, NEW u \in 0 .. g - 1
    PROVE  IsBatch(SubSeq(RankPacks(st, r, g, b), u * b + 1, (u + 1) * b), st, r, g, b, u)
<1> DEFINE x == g * b
           a == r * x
           y == u * b
           own == RankPacks(st, r, g, b)
           t == SubSeq(own, y + 1, (u + 1) * b)
<1>1. /\ x \in Nat \ {0} /\ a \in Nat /\ r * g * b = a /\ (r + 1) * g * b = a + x
      /\ a + x <= Len(st)
  BY Widths
<1>2. y \in Nat /\ (u + 1) * b = y + b /\ y + b <= x
  BY PartWidths
<1> HIDE DEF x, a, y
<1>3. own = SubSeq(st, a + 1, a + x)
  BY <1>1 DEF RankPacks
<1> HIDE DEF own
<1>4. own \in Seq(S) /\ Len(own) = x /\ \A k \in 1 .. x : own[k] = st[a + k]
  <2>1. IsPart(own, st, a, x)
    BY <1>1, <1>3 DEF IsPart
  <2> QED
    BY <2>1, PartIs
<1>5. t = SubSeq(own, y + 1, y + b)
  BY <1>2
<1> HIDE DEF t
<1>6. t \in Seq(S) /\ Len(t) = b /\ \A k \in 1 .. b : t[k] = own[y + k]
  <2>1. IsPart(t, own, y, b)
    BY <1>1, <1>2, <1>4, <1>5 DEF IsPart
  <2> QED
    BY <1>4, <2>1, PartIs
<1>7. DOMAIN t = 1 .. b
  BY <1>6
<1>8. ASSUME NEW k \in 1 .. b PROVE t[k] = st[a + y + k] /\ a + y + k \in 1 .. Len(st)
  <2>1. y + k \in 1 .. x /\ a + (y + k) = a + y + k
    BY <1>1, <1>2
  <2>2. t[k] = st[a + (y + k)]
    BY <1>4, <1>6, <2>1
  <2>3. Len(st) \in Nat
    OBVIOUS
  <2>4. a + (y + k) \in 1 .. Len(st)
    BY <1>1, <1>2, <2>1, <2>3
  <2> QED
    BY <2>1, <2>2, <2>4
<1>9. r * g * b + u * b = a + y
  BY <1>1, Zenon DEF y
<1>10. IsBatch(t, st, r, g, b, u)
  <2> HIDE DEF own
  <2> QED
    BY <1>7, <1>8, <1>9, Zenon DEF IsBatch
<1> QED
  BY <1>10, Zenon DEF t, own, y

\* Where rank r takes its j-th micro-batch of an epoch from.
AreBatches(mbs, steps, r, c, g, b) ==
    /\ Len(mbs) = c * g
    /\ \A q \in 0 .. c - 1 : \A u \in 0 .. g - 1 :
          mbs[q * g + u + 1] = SubSeq(RankPacks(steps[q + 1], r, g, b), u * b + 1, (u + 1) * b)

\* Every step in turn, in its micro-batches.
LEMMA MicroBatchesAre ==
    ASSUME NEW S, NEW c \in Nat, NEW steps \in [1 .. c -> Seq(S)],
           NEW g \in Nat \ {0}, NEW b \in Nat \ {0}, NEW r
    PROVE  AreBatches(MicroBatches(steps, r, g, b), steps, r, c, g, b)
<1> DEFINE val(k) == LET own == RankPacks(steps[(k - 1) \div g + 1], r, g, b)
                         i == (k - 1) % g
                     IN  SubSeq(own, i * b + 1, (i + 1) * b)
           mbs == [k \in 1 .. Len(steps) * g |-> val(k)]
<1>1. MicroBatches(steps, r, g, b) = mbs
  BY Zenon DEF MicroBatches
<1>2. Len(steps) = c
  BY SegmentSeq
<1>3. c * g \in Nat
  OBVIOUS
<1>4. Len(mbs) = c * g
  <2> HIDE DEF val
  <2>1. mbs \in [1 .. c * g -> {val(k) : k \in 1 .. c * g}]
    BY <1>2
  <2> HIDE DEF mbs
  <2> QED
    BY <1>3, <2>1, SegmentSeq
<1>5. ASSUME NEW q \in 0 .. c - 1, NEW u \in 0 .. g - 1
      PROVE  /\ q * g + u + 1 \in 1 .. c * g
             /\ mbs[q * g + u + 1] = SubSeq(RankPacks(steps[q + 1], r, g, b), u * b + 1, (u + 1) * b)
  <2> DEFINE j == q * g + u + 1
  <2>1. q * g \in Nat /\ q * g + g <= c * g
    <3>1. g * (q + 1) <= g * c
      <4>1. q + 1 \in Int /\ c \in Int /\ q + 1 <= c /\ g \in Nat
        OBVIOUS
      <4> QED
        BY <4>1, MulMono
    <3>2. g * (q + 1) = q * g + g /\ g * c = c * g /\ q * g \in Nat
      OBVIOUS
    <3> QED
      BY <3>1, <3>2
  <2>2. j \in 1 .. c * g /\ j - 1 = g * q + u
    <3> DEFINE x == q * g
               y == c * g
               z == g * q
    <3>1. x = z /\ x \in Nat /\ x + g <= y /\ y \in Nat /\ z \in Nat
      BY <1>3, <2>1
    <3>2. j = x + u + 1
      OBVIOUS
    <3> HIDE DEF x, y, z, j
    <3>3. j \in 1 .. y /\ j - 1 = z + u
      BY <3>1, <3>2
    <3> QED
      BY <3>3 DEF y, z
  <2>3. (g * q + u) \div g = q /\ (g * q + u) % g = u
    <3>1. g \in Nat \ {0} /\ q \in Int /\ u \in 0 .. g - 1
      OBVIOUS
    <3> QED
      BY <3>1, DivisionUnique, Zenon
  <2> HIDE DEF j
  <2>4. mbs[j] = val(j)
    BY <1>2, <2>2
  <2>5. val(j) = SubSeq(RankPacks(steps[q + 1], r, g, b), u * b + 1, (u + 1) * b)
    BY <2>2, <2>3, Zenon
  <2> QED
    BY <2>2, <2>4, <2>5 DEF j
<1> HIDE DEF mbs
<1> QED
  BY <1>1, <1>4, <1>5, Zenon DEF AreBatches

-----------------------------------------------------------------------------
\* Which packs a rank has summed over, and when.

\* Optimizer steps of an epoch.
PerEpoch(sh) == Len(Bins(Described)) \div (World * sh.ga * sh.mb)

\* The s-th step of a run, from 0 on, and whether an epoch has it.
Planned(pl, sh, s) == pl[s \div PerEpoch(sh)].steps[(s % PerEpoch(sh)) + 1]
HasStep(pl, sh, s) == PerEpoch(sh) \in Nat \ {0} /\ s \div PerEpoch(sh) \in DOMAIN pl

\* Micro-batch u of rank r in the s-th step, what r has summed over before it,
\* and what all ranks together update by.
BatchOf(pl, sh, s, r, u) ==
    [k \in 1 .. sh.mb |->
        Bins(Described)[Planned(pl, sh, s)[r * sh.ga * sh.mb + u * sh.mb + k]].members]
GradOf(pl, sh, s, r, u) ==
    [k \in 1 .. u * sh.mb |->
        Bins(Described)[Planned(pl, sh, s)[r * sh.ga * sh.mb + k]].members]
UpdateOf(pl, sh, s) == [r \in Ranks |-> GradOf(pl, sh, s, r, sh.ga)]
History(pl, sh, n) == [k \in 1 .. n |-> UpdateOf(pl, sh, k - 1)]

\* The micro-batches of the step a rank is in that it has fetched.
Taken(r) ==
    IF pc[r] = "fetch" THEN micro[r]
    ELSE IF pc[r] \in {"forward", "backward"} THEN micro[r] + 1
    ELSE IF pc[r] = "reduce" THEN shape.ga ELSE 0

\* A rank that has not raised has fetched what the steps behind it and the one
\* it is in have taken, and nothing else.
InStep(r) ==
    /\ at[r] \in Nat /\ micro[r] \in Nat /\ step[r] \in Nat
    /\ weights[r] = History(plans, shape, step[r])
    /\ \A k \in 1 .. step[r] : HasStep(plans, shape, k - 1)
    /\ pc[r] # "raised" =>
          epoch[r] * (PerEpoch(shape) * shape.ga) + at[r] = step[r] * shape.ga + Taken(r)
    /\ pc[r] \in {"log", "save"} => step[r] >= 1
    /\ pc[r] \in {"forward", "backward", "reduce"} => HasStep(plans, shape, step[r])
    /\ pc[r] \in {"fetch", "forward", "backward"} =>
          micro[r] \in 0 .. shape.ga - 1 /\ grads[r] = GradOf(plans, shape, step[r], r, micro[r])
    /\ pc[r] \in {"forward", "backward"} => batch[r] = BatchOf(plans, shape, step[r], r, micro[r])
    /\ pc[r] = "reduce" => grads[r] = GradOf(plans, shape, step[r], r, shape.ga)

StepsInv ==
    /\ DOMAIN pc = Ranks /\ DOMAIN at = Ranks /\ DOMAIN micro = Ranks /\ DOMAIN step = Ranks
    /\ DOMAIN batch = Ranks /\ DOMAIN weights = Ranks
    /\ grads = [r \in Ranks |-> grads[r]]
    /\ cache[0] # NoPlan
    /\ \A q, r \in Ranks : step[q] = step[r]
    /\ \A r \in Ranks : InStep(r)

\* Where a rank that has fetched a micro-batches of an epoch stands: before
\* micro-batch m of the s-th step.
StandsBefore(c, g, e, a, s, m) ==
    /\ c \in Nat \ {0} /\ s \div c = e
    /\ s % c \in 0 .. c - 1 /\ (s % c) * g + m = a

\* Nowhere else.
LEMMA Located ==
    ASSUME NEW c \in Nat, NEW g \in Nat \ {0}, NEW e \in Nat, NEW a \in 0 .. c * g - 1,
           NEW s \in Nat, NEW m \in 0 .. g - 1, e * (c * g) + a = s * g + m
    PROVE  StandsBefore(c, g, e, a, s, m)
<1> DEFINE q == s - e * c
<1>0. e * c \in Nat /\ q \in Int /\ s = c * e + q
  OBVIOUS
<1>1. s * g = e * (c * g) + g * q
  <2>1. s * g = (e * c) * g + q * g
    <3>1. s = e * c + q
      OBVIOUS
    <3> HIDE DEF q
    <3> DEFINE y == e * c
    <3>2. y \in Nat /\ s = y + q /\ q \in Int
      BY <1>0, <3>1
    <3> HIDE DEF y
    <3>3. s * g = y * g + q * g
      BY <3>2
    <3> QED
      BY <3>3 DEF y
  <2>2. (e * c) * g = e * (c * g)
    OBVIOUS
  <2>3. q * g = g * q
    BY <1>0
  <2> QED
    BY <2>1, <2>2, <2>3
<1> HIDE DEF q
<1>2. a = g * q + m
  <2> DEFINE x == e * (c * g)
             y == g * q
             z == s * g
  <2>1. x \in Nat /\ y \in Int /\ z = x + y /\ x + a = z + m
    BY <1>0, <1>1
  <2> HIDE DEF x, y, z
  <2>2. a = y + m
    BY <2>1
  <2> QED
    BY <2>2 DEF y
<1>3. q >= 0
  <2> SUFFICES ASSUME q <= -1 PROVE FALSE
    BY <1>0
  <2>1. g * q <= g * (-1)
    BY <1>0, MulMono
  <2> QED
    BY <1>0, <1>2, <2>1
<1>4. q < c
  <2> SUFFICES ASSUME c <= q PROVE FALSE
    BY <1>0
  <2>1. g * c <= g * q
    BY <1>0, MulMono
  <2>2. g * c = c * g /\ c * g \in Nat /\ g * q \in Int
    BY <1>0
  <2> QED
    BY <1>2, <2>1, <2>2
<1>5. c \in Nat \ {0} /\ q \in 0 .. c - 1 /\ e \in Int
  BY <1>0, <1>3, <1>4
<1>6. (c * e + q) \div c = e /\ (c * e + q) % c = q
  BY <1>5, DivisionUnique, Zenon
<1>7. s \div c = e /\ s % c = q
  BY <1>0, <1>6, Zenon
<1>8. q * g + m = a
  BY <1>0, <1>2
<1> QED
  BY <1>5, <1>7, <1>8, Zenon DEF StandsBefore

\* Two lists, one after the other.
Joins(f, h, p, q, S) ==
    /\ f \o h \in [1 .. p + q -> S]
    /\ \A k \in 1 .. p : (f \o h)[k] = f[k]
    /\ \A k \in 1 .. q : (f \o h)[p + k] = h[k]

\* What stands where in two lists joined.
LEMMA JoinIs ==
    ASSUME NEW S, NEW p \in Nat, NEW q \in Nat, NEW f \in [1 .. p -> S], NEW h \in [1 .. q -> S]
    PROVE  Joins(f, h, p, q, S)
<1>1. f \in Seq(S) /\ h \in Seq(S) /\ Len(f) = p /\ Len(h) = q
  BY SegmentSeq
<1>2. f \o h \in Seq(S) /\ Len(f \o h) = p + q
  BY <1>1
<1>3. f \o h \in [1 .. p + q -> S]
  <2> DEFINE w == f \o h
  <2>1. w \in Seq(S) /\ Len(w) = p + q
    BY <1>2
  <2> HIDE DEF w
  <2>2. w \in [1 .. p + q -> S]
    BY <2>1
  <2> QED
    BY <2>2 DEF w
<1>4. \A k \in 1 .. p : (f \o h)[k] = f[k]
  BY <1>1
<1>5. \A k \in 1 .. q : (f \o h)[p + k] = h[k]
  BY <1>1
<1> QED
  BY <1>3, <1>4, <1>5, Zenon DEF Joins

\* What a rank sums over grows by one micro-batch at a time.
LEMMA GradNext ==
    ASSUME NEW pl, NEW sh \in Shapes, NEW s, NEW r \in Ranks, NEW u \in Nat
    PROVE  GradOf(pl, sh, s, r, u) \o BatchOf(pl, sh, s, r, u) = GradOf(pl, sh, s, r, u + 1)
<1> DEFINE b == sh.mb
           base == r * sh.ga * b
           p == u * b
           of(i) == Bins(Described)[Planned(pl, sh, s)[i]].members
           f == [k \in 1 .. p |-> of(base + k)]
           h == [k \in 1 .. b |-> of(base + p + k)]
           S == {of(base + k) : k \in 1 .. p + b}
           t == [k \in 1 .. p + b |-> of(base + k)]
<1>1. b \in Nat \ {0} /\ sh.ga \in Nat \ {0} /\ r \in Nat
  BY TrainingAssumption DEF Ranks
<1>2. base \in Nat /\ p \in Nat /\ (u + 1) * b = p + b
  <2>1. r * sh.ga \in Nat
    BY <1>1
  <2> HIDE DEF b
  <2> QED
    BY <1>1, <2>1
<1>3. GradOf(pl, sh, s, r, u) = f /\ BatchOf(pl, sh, s, r, u) = h
  BY Zenon DEF GradOf, BatchOf
<1>4. GradOf(pl, sh, s, r, u + 1) = t
  BY <1>2 DEF GradOf
<1> HIDE DEF b, base, p, of
<1>5. f \in [1 .. p -> S] /\ h \in [1 .. b -> S]
  <2>1. \A k \in 1 .. p : of(base + k) \in S
    BY <1>1, <1>2
  <2>2. \A k \in 1 .. b : of(base + p + k) \in S
    <3> SUFFICES ASSUME NEW k \in 1 .. b PROVE of(base + p + k) \in S
      OBVIOUS
    <3>1. p + k \in 1 .. p + b /\ base + p + k = base + (p + k)
      BY <1>1, <1>2
    <3> QED
      BY <3>1
  <2> HIDE DEF S
  <2> QED
    BY <2>1, <2>2
<1> HIDE DEF S
<1>6. /\ f \o h \in [1 .. p + b -> S]
      /\ \A k \in 1 .. p : (f \o h)[k] = f[k]
      /\ \A k \in 1 .. b : (f \o h)[p + k] = h[k]
  <2> HIDE DEF f, h
  <2>1. p \in Nat /\ b \in Nat
    BY <1>1, <1>2
  <2> QED
    <3>1. Joins(f, h, p, b, S)
      BY <1>5, <2>1, JoinIs
    <3> QED
      BY <3>1, Zenon DEF Joins
<1>7. ASSUME NEW k \in 1 .. p + b PROVE (f \o h)[k] = of(base + k)
  <2>1. CASE k \in 1 .. p
    <3>1. f[k] = of(base + k)
      BY <2>1
    <3> QED
      BY <1>6, <2>1, <3>1, Zenon
  <2>2. CASE k \notin 1 .. p
    <3>1. k - p \in 1 .. b /\ p + (k - p) = k /\ base + p + (k - p) = base + k
      BY <1>1, <1>2, <2>2
    <3>2. h[k - p] = of(base + p + (k - p))
      BY <3>1
    <3>3. (f \o h)[p + (k - p)] = h[k - p]
      BY <1>6, <3>1, Zenon
    <3> QED
      BY <3>1, <3>2, <3>3, Zenon
  <2> QED
    BY <2>1, <2>2
<1> DEFINE w == f \o h
<1>8. w = [k \in 1 .. p + b |-> w[k]] /\ \A k \in 1 .. p + b : w[k] = of(base + k)
  BY <1>6, <1>7
<1> HIDE DEF w, f, h
<1>9. w = t
  BY <1>8, Zenon
<1> QED
  BY <1>3, <1>4, <1>9, Zenon DEF w

\* The list of updates grows by one.
LEMMA HistoryNext ==
    ASSUME NEW pl, NEW sh, NEW n \in Nat
    PROVE  Append(History(pl, sh, n), UpdateOf(pl, sh, n)) = History(pl, sh, n + 1)
<1> DEFINE of(k) == UpdateOf(pl, sh, k - 1)
           f == [k \in 1 .. n |-> of(k)]
           S == {of(k) : k \in 1 .. n + 1}
           t == [k \in 1 .. n + 1 |-> of(k)]
           w == Append(f, of(n + 1))
<1>1. History(pl, sh, n) = f /\ History(pl, sh, n + 1) = t
  BY Zenon DEF History
<1>2. UpdateOf(pl, sh, n) = of(n + 1)
  <2>1. (n + 1) - 1 = n
    OBVIOUS
  <2> QED
    BY <2>1
<1> HIDE DEF of
<1>3. f \in [1 .. n -> S] /\ of(n + 1) \in S
  <2>1. \A k \in 1 .. n + 1 : of(k) \in S
    OBVIOUS
  <2> HIDE DEF S
  <2> QED
    BY <2>1
<1>4. \A k \in 1 .. n : f[k] = of(k)
  OBVIOUS
<1> HIDE DEF S, f
<1>5. f \in Seq(S) /\ Len(f) = n
  BY <1>3, SegmentSeq
<1>6. w \in Seq(S) /\ Len(w) = n + 1 /\ \A k \in 1 .. n : w[k] = f[k]
  BY <1>3, <1>5
<1>7. w[n + 1] = of(n + 1)
  BY <1>3, <1>5
<1>8. w = [k \in 1 .. n + 1 |-> w[k]]
  BY <1>6
<1>9. \A k \in 1 .. n + 1 : w[k] = of(k)
  BY <1>4, <1>6, <1>7
<1> HIDE DEF w
<1>10. w = t
  BY <1>8, <1>9, Zenon
<1> QED
  BY <1>1, <1>2, <1>10, Zenon DEF w

\* What every epoch of a run has planned.
LEMMA EpochIs ==
    ASSUME PlansInv
    PROVE  /\ PerEpoch(shape) \in Nat /\ N = World * shape.ga * shape.mb
           /\ World \in Nat \ {0} /\ shape.ga \in Nat \ {0} /\ shape.mb \in Nat \ {0}
           /\ \A e \in DOMAIN plans :
                 /\ e \in Nat
                 /\ plans[e].packs = Bins(Described)
                 /\ IsPlanned(Bins(Described), plans[e].steps, PerEpoch(shape), N)
<1>1. shape \in Shapes /\ DOMAIN plans \subseteq Nat /\ \A e \in DOMAIN plans : IsPlanOf(plans[e])
  BY DEF PlansInv
<1>2. N = World * shape.ga * shape.mb
  BY DEF N
<1>3. PerEpoch(shape) = Len(Bins(Described)) \div N
  BY <1>2, Zenon DEF PerEpoch
<1>4. PerEpoch(shape) \in Nat
  <2>1. N \in Nat \ {0}
    BY <1>1, StepSize
  <2>2. Len(Bins(Described)) \in Nat
    <3> DEFINE b == Bins(Described)
    <3>1. b \in Seq(PackSet(Size))
      BY PacksAre
    <3> HIDE DEF b
    <3>2. Len(b) \in Nat
      BY <3>1
    <3> QED
      BY <3>2 DEF b
  <2> QED
    BY <1>3, <2>1, <2>2, StepsFit
<1>5. \A e \in DOMAIN plans : /\ e \in Nat
                              /\ plans[e].packs = Bins(Described)
                              /\ IsPlanned(Bins(Described), plans[e].steps, PerEpoch(shape), N)
  BY <1>1, <1>3 DEF IsPlanOf
<1>6. World \in Nat \ {0} /\ shape.ga \in Nat \ {0} /\ shape.mb \in Nat \ {0}
  BY <1>1, PlannerAssumption, TrainingAssumption
<1> QED
  BY <1>2, <1>4, <1>5, <1>6, Zenon

\* The micro-batches a rank gets in its epoch.
LEMMA UpcomingIs ==
    ASSUME PlansInv, NEW r \in Ranks
    PROVE  /\ Len(Upcoming(r)) = PerEpoch(shape) * shape.ga
           /\ \A q \in 0 .. PerEpoch(shape) - 1 : \A u \in 0 .. shape.ga - 1 :
                 /\ DOMAIN Upcoming(r)[q * shape.ga + u + 1] = 1 .. shape.mb
                 /\ \A k \in 1 .. shape.mb :
                       Upcoming(r)[q * shape.ga + u + 1][k]
                           = plans[epoch[r]].steps[q + 1][r * shape.ga * shape.mb + u * shape.mb + k]
<1> DEFINE c == PerEpoch(shape)
           g == shape.ga
           b == shape.mb
           S == 1 .. Len(Bins(Described))
           steps == plans[epoch[r]].steps
           part(q, u) == SubSeq(RankPacks(steps[q + 1], r, g, b), u * b + 1, (u + 1) * b)
           mbs == MicroBatches(steps, r, g, b)
<1>1. epoch[r] \in DOMAIN plans
  BY DEF PlansInv
<1>2. c \in Nat /\ World \in Nat \ {0} /\ g \in Nat \ {0} /\ b \in Nat \ {0} /\ N = World * g * b
  BY EpochIs
<1>3. IsPlanned(Bins(Described), steps, c, N)
  BY <1>1, EpochIs
<1>4. Upcoming(r) = mbs
  BY EnsuredIs DEF Upcoming
<1>5. r \in 0 .. World - 1
  BY DEF Ranks
<1> HIDE DEF c, g, b, steps
<1>6. steps \in [1 .. c -> Seq(S)] /\ \A s \in 1 .. c : Len(steps[s]) = World * g * b
  BY <1>2, <1>3 DEF IsPlanned
<1> HIDE DEF S
<1>7. /\ Len(mbs) = c * g
      /\ \A q \in 0 .. c - 1 : \A u \in 0 .. g - 1 : mbs[q * g + u + 1] = part(q, u)
  <2>1. AreBatches(mbs, steps, r, c, g, b)
    BY <1>2, <1>6, MicroBatchesAre
  <2> HIDE DEF mbs
  <2> QED
    BY <2>1, Zenon DEF AreBatches
<1>8. ASSUME NEW q \in 0 .. c - 1, NEW u \in 0 .. g - 1
      PROVE  /\ DOMAIN mbs[q * g + u + 1] = 1 .. b
             /\ \A k \in 1 .. b : mbs[q * g + u + 1][k] = steps[q + 1][r * g * b + u * b + k]
  <2> DEFINE st == steps[q + 1]
  <2>1. q + 1 \in 1 .. c
    BY <1>2
  <2>2. st \in Seq(S) /\ Len(st) = World * g * b
    BY <1>6, <2>1
  <2>3. mbs[q * g + u + 1] = part(q, u)
    BY <1>7, Zenon
  <2> HIDE DEF mbs
  <2>4. part(q, u) = SubSeq(RankPacks(st, r, g, b), u * b + 1, (u + 1) * b)
    OBVIOUS
  <2> HIDE DEF st, part
  <2>5. DOMAIN part(q, u) = 1 .. b /\ \A k \in 1 .. b : part(q, u)[k] = st[r * g * b + u * b + k]
    <3>1. IsBatch(part(q, u), st, r, g, b, u)
      BY <1>2, <1>5, <2>2, <2>4, MicroBatchIs
    <3> QED
      BY <3>1, Zenon DEF IsBatch
  <2> QED
    BY <2>3, <2>5, Zenon DEF st
<1> HIDE DEF mbs, part
<1> QED
  BY <1>4, <1>7, <1>8 DEF c, g, b, steps

\* The micro-batch fetched is the next one of the rank's step.
LEMMA FetchedIs ==
    ASSUME PlansInv, NEW r \in Ranks, InStep(r), pc[r] = "fetch", at[r] < Len(Upcoming(r))
    PROVE  /\ HasStep(plans, shape, step[r])
           /\ [k \in DOMAIN Upcoming(r)[at[r] + 1] |->
                   EnsurePlan(r).packs[Upcoming(r)[at[r] + 1][k]].members]
                  = BatchOf(plans, shape, step[r], r, micro[r])
<1> DEFINE c == PerEpoch(shape)
           g == shape.ga
           b == shape.mb
           q == step[r] % c
           mb == Upcoming(r)[at[r] + 1]
           packs == Bins(Described)
<1>1. /\ at[r] \in Nat /\ step[r] \in Nat /\ micro[r] \in 0 .. g - 1
      /\ epoch[r] * (c * g) + at[r] = step[r] * g + micro[r]
  BY DEF InStep, Taken
<1>2. c \in Nat /\ g \in Nat \ {0} /\ b \in Nat \ {0} /\ epoch[r] \in DOMAIN plans /\ epoch[r] \in Nat
  BY EpochIs DEF PlansInv
<1>3. /\ Len(Upcoming(r)) = c * g
      /\ \A i \in 0 .. c - 1 : \A u \in 0 .. g - 1 :
            /\ DOMAIN Upcoming(r)[i * g + u + 1] = 1 .. b
            /\ \A k \in 1 .. b : Upcoming(r)[i * g + u + 1][k]
                                     = plans[epoch[r]].steps[i + 1][r * g * b + u * b + k]
  BY UpcomingIs
<1>4. EnsurePlan(r).packs = packs
  BY <1>2, EnsuredIs, EpochIs
<1> HIDE DEF c, g, b, packs
<1>5. at[r] \in 0 .. c * g - 1
  <2>1. c * g \in Nat
    BY <1>2
  <2> QED
    BY <1>1, <1>3, <2>1
<1>6. c \in Nat \ {0} /\ step[r] \div c = epoch[r] /\ q \in 0 .. c - 1 /\ q * g + micro[r] = at[r]
  <2> DEFINE e == epoch[r]
             a == at[r]
             s == step[r]
             m == micro[r]
  <2>1. /\ c \in Nat /\ g \in Nat \ {0} /\ e \in Nat /\ a \in 0 .. c * g - 1 /\ s \in Nat
        /\ m \in 0 .. g - 1 /\ e * (c * g) + a = s * g + m
    BY <1>1, <1>2, <1>5
  <2> HIDE DEF e, a, s, m
  <2>2. c \in Nat \ {0} /\ s \div c = e /\ s % c \in 0 .. c - 1 /\ (s % c) * g + m = a
    <3>1. StandsBefore(c, g, e, a, s, m)
      BY <2>1, Located
    <3> QED
      BY <3>1, Zenon DEF StandsBefore
  <2> QED
    BY <2>2, Zenon DEF e, a, s, m
<1> HIDE DEF q
<1>7. HasStep(plans, shape, step[r])
  BY <1>2, <1>6 DEF HasStep, c
<1>8. Planned(plans, shape, step[r]) = plans[epoch[r]].steps[q + 1]
  BY <1>6, Zenon DEF Planned, c, q
<1>9. at[r] + 1 = q * g + micro[r] + 1
  BY <1>6
<1>10. /\ DOMAIN mb = 1 .. b
       /\ \A k \in 1 .. b : mb[k] = Planned(plans, shape, step[r])[r * g * b + micro[r] * b + k]
  <2> DEFINE j == q * g + micro[r] + 1
  <2>1. /\ DOMAIN Upcoming(r)[j] = 1 .. b
        /\ \A k \in 1 .. b : Upcoming(r)[j][k] = plans[epoch[r]].steps[q + 1][r * g * b + micro[r] * b + k]
    BY <1>1, <1>3, <1>6, Zenon
  <2> HIDE DEF j
  <2>2. at[r] + 1 = j
    BY <1>9, Zenon DEF j
  <2> QED
    BY <1>8, <2>1, <2>2, Zenon
<1> HIDE DEF mb
<1>11. [k \in DOMAIN mb |-> EnsurePlan(r).packs[mb[k]].members]
           = [k \in 1 .. b |-> packs[Planned(plans, shape, step[r])[r * g * b + micro[r] * b + k]].members]
  BY <1>4, <1>10
<1>12. BatchOf(plans, shape, step[r], r, micro[r])
           = [k \in 1 .. b |-> packs[Planned(plans, shape, step[r])[r * g * b + micro[r] * b + k]].members]
  BY Zenon DEF BatchOf, b, g, packs
<1> QED
  BY <1>7, <1>11, <1>12, Zenon DEF mb

\* A rank none of whose variables changed stands where it stood.
Rests(r) ==
    /\ plans' = plans /\ shape' = shape
    /\ pc'[r] = pc[r] /\ at'[r] = at[r] /\ epoch'[r] = epoch[r] /\ micro'[r] = micro[r]
    /\ step'[r] = step[r] /\ batch'[r] = batch[r] /\ grads'[r] = grads[r] /\ weights'[r] = weights[r]

\* The others' steps leave a rank in its own.
LEMMA RestsInStep ==
    ASSUME NEW r, InStep(r), Rests(r)
    PROVE  InStep(r)'
BY DEF InStep, Taken, Rests

\* Before its first micro-batch a rank has summed over nothing, before its first
\* step it has updated nothing.
LEMMA NothingYet ==
    ASSUME NEW pl, NEW sh \in Shapes, NEW s, NEW r
    PROVE  GradOf(pl, sh, s, r, 0) = << >> /\ History(pl, sh, 0) = << >>
<1>1. 0 * sh.mb = 0
  BY TrainingAssumption
<1>2. GradOf(pl, sh, s, r, 0) = << >>
  <2> DEFINE of(k) == Bins(Described)[Planned(pl, sh, s)[r * sh.ga * sh.mb + k]].members
  <2>1. GradOf(pl, sh, s, r, 0) = [k \in 1 .. 0 |-> of(k)]
    BY <1>1, Zenon DEF GradOf
  <2> HIDE DEF of
  <2> QED
    BY <2>1
<1>3. History(pl, sh, 0) = << >>
  <2> DEFINE of(k) == UpdateOf(pl, sh, k - 1)
  <2>1. History(pl, sh, 0) = [k \in 1 .. 0 |-> of(k)]
    BY Zenon DEF History
  <2> HIDE DEF of
  <2> QED
    BY <2>1
<1> QED
  BY <1>2, <1>3

\* No rank has taken a step at first.
LEMMA StepsInit ==
    ASSUME PlansInv, Init
    PROVE  StepsInv
<1>1. /\ pc = [r \in Ranks |-> "top"] /\ epoch = [r \in Ranks |-> 0] /\ at = [r \in Ranks |-> 0]
      /\ micro = [r \in Ranks |-> 0] /\ step = [r \in Ranks |-> 0]
      /\ batch = [r \in Ranks |-> << >>] /\ grads = [r \in Ranks |-> << >>]
      /\ weights = [r \in Ranks |-> << >>]
      /\ cache = [r \in Ranks |-> IF r = 0 THEN PlanFor(0) ELSE NoPlan]
  BY DEF Init
<1>2. shape \in Shapes /\ PerEpoch(shape) \in Nat /\ shape.ga \in Nat \ {0}
  BY EpochIs DEF PlansInv
<1>3. cache[0] # NoPlan
  <2>1. 0 \in Ranks
    BY PlannerAssumption DEF Ranks
  <2>2. cache[0].key = 0
    BY <1>1, <2>1 DEF PlanFor
  <2> QED
    BY <2>2 DEF NoPlan
<1>4. ASSUME NEW r \in Ranks PROVE InStep(r)
  <2>1. History(plans, shape, 0) = << >>
    BY <1>2, NothingYet
  <2>2. 0 * (PerEpoch(shape) * shape.ga) + 0 = 0 * shape.ga + 0
    BY <1>2
  <2>3. pc[r] = "top" /\ epoch[r] = 0 /\ at[r] = 0 /\ micro[r] = 0 /\ step[r] = 0 /\ weights[r] = << >>
    BY <1>1
  <2>4. Taken(r) = 0
    BY <2>3 DEF Taken
  <2>5. \A k \in 1 .. step[r] : HasStep(plans, shape, k - 1)
    BY <2>3
  <2> QED
    BY <2>1, <2>2, <2>3, <2>4, <2>5 DEF InStep
<1> QED
  BY <1>1, <1>3, <1>4 DEF StepsInv

\* zero_grad begins a step.
LEMMA ZeroGradInStep ==
    ASSUME PlansInv, StepsInv, NEW r \in Ranks, ZeroGrad(r)
    PROVE  InStep(r)'
<1>1. /\ plans' = plans /\ shape' = shape /\ pc[r] = "top" /\ pc'[r] = "fetch"
      /\ at'[r] = at[r] /\ epoch'[r] = epoch[r] /\ micro'[r] = 0 /\ step'[r] = step[r]
      /\ grads'[r] = << >> /\ weights'[r] = weights[r]
  BY DEF ZeroGrad, Goto, run, StepsInv
<1>2. InStep(r) /\ shape \in Shapes /\ shape.ga \in Nat \ {0}
  BY EpochIs DEF StepsInv, PlansInv
<1>3. GradOf(plans, shape, step[r], r, 0) = << >>
  BY <1>2, NothingYet
<1>4. Taken(r) = 0 /\ Taken(r)' = 0
  BY <1>1 DEF Taken
<1> QED
  BY <1>1, <1>2, <1>3, <1>4 DEF InStep

\* The micro-batch fetched is the step's next one.
LEMMA FetchInStep ==
    ASSUME PlansInv, StepsInv, NEW r \in Ranks, Fetch(r)
    PROVE  InStep(r)'
<1> DEFINE new == [k \in DOMAIN Upcoming(r)[at[r] + 1] |->
                      EnsurePlan(r).packs[Upcoming(r)[at[r] + 1][k]].members]
           x == epoch[r] * (PerEpoch(shape) * shape.ga)
           y == step[r] * shape.ga
<1>1. /\ plans' = plans /\ shape' = shape /\ pc[r] = "fetch" /\ pc'[r] \in {"forward", "raised"}
      /\ at'[r] = at[r] + 1 /\ epoch'[r] = epoch[r] /\ micro'[r] = micro[r] /\ step'[r] = step[r]
      /\ grads'[r] = grads[r] /\ weights'[r] = weights[r] /\ at[r] < Len(Upcoming(r))
  BY DEF Fetch, Goto, run, StepsInv
<1>2. batch'[r] = new
  <2>1. cache'[r] = EnsurePlan(r)
    BY ZenonT(60) DEF Fetch, PlansInv
  <2>2. batch'[r] = [k \in DOMAIN Upcoming(r)[at[r] + 1] |->
                       cache'[r].packs[Upcoming(r)[at[r] + 1][k]].members]
    BY DEF Fetch, StepsInv
  <2> QED
    BY <2>1, <2>2, SMTT(30)
<1>3. InStep(r) /\ shape.ga \in Nat \ {0} /\ PerEpoch(shape) \in Nat /\ epoch[r] \in Nat
  BY EpochIs DEF StepsInv, PlansInv
<1>4. HasStep(plans, shape, step[r]) /\ new = BatchOf(plans, shape, step[r], r, micro[r])
  BY <1>1, <1>3, FetchedIs
<1>5. /\ at[r] \in Nat /\ micro[r] \in 0 .. shape.ga - 1 /\ step[r] \in Nat
      /\ x + at[r] = y + micro[r]
  BY <1>1, <1>3 DEF InStep, Taken
<1>6. x \in Nat /\ y \in Nat
  <2>1. PerEpoch(shape) * shape.ga \in Nat
    BY <1>3
  <2> QED
    BY <1>3, <1>5, <2>1
<1> HIDE DEF x, y, new
<1>7. at'[r] \in Nat /\ x + at'[r] = y + (micro[r] + 1)
  <2> DEFINE a == at[r]
             m == micro[r]
             b == at'[r]
  <2>1. b = a + 1 /\ a \in Nat /\ m \in Int /\ x + a = y + m
    BY <1>1, <1>3, <1>5
  <2> HIDE DEF a, m, b
  <2>2. b \in Nat /\ x + b = y + (m + 1)
    BY <1>6, <2>1
  <2> QED
    BY <2>2 DEF b, m
<1>8. pc'[r] # "raised" => Taken(r)' = micro[r] + 1
  BY <1>1 DEF Taken
<1>9. pc'[r] # "raised" =>
          epoch'[r] * (PerEpoch(shape') * shape'.ga) + at'[r] = step'[r] * shape'.ga + Taken(r)'
  BY <1>1, <1>7, <1>8, Zenon DEF x, y
<1> QED
  BY <1>1, <1>2, <1>3, <1>4, <1>5, <1>7, <1>9 DEF InStep

\* The epoch that ends has had all its micro-batches.
LEMMA NextEpochInStep ==
    ASSUME PlansInv, StepsInv, NEW r \in Ranks, NextEpoch(r)
    PROVE  InStep(r)'
<1> DEFINE w == PerEpoch(shape) * shape.ga
           y == step[r] * shape.ga
<1>1. /\ plans' = plans /\ shape' = shape /\ pc[r] = "fetch" /\ pc'[r] = "fetch"
      /\ at'[r] = 0 /\ epoch'[r] = epoch[r] + 1 /\ micro'[r] = micro[r] /\ step'[r] = step[r]
      /\ grads'[r] = grads[r] /\ weights'[r] = weights[r] /\ at[r] = Len(Upcoming(r))
  BY DEF NextEpoch, run, StepsInv, PlansInv
<1>2. InStep(r) /\ shape.ga \in Nat \ {0} /\ PerEpoch(shape) \in Nat /\ epoch[r] \in Nat
  BY EpochIs DEF StepsInv, PlansInv
<1>3. at[r] = w
  BY <1>1, UpcomingIs
<1>4. Taken(r) = micro[r] /\ Taken(r)' = micro[r]
  BY <1>1 DEF Taken
<1>5. epoch[r] * w + at[r] = y + micro[r] /\ w \in Nat
  <2>1. w \in Nat /\ pc[r] # "raised" /\ shape.ga \in Nat /\ PerEpoch(shape) \in Nat
    BY <1>1, <1>2
  <2> QED
    BY <1>2, <1>4, <2>1 DEF InStep
<1> HIDE DEF w, y
<1>6. (epoch[r] + 1) * w + 0 = y + micro[r]
  BY <1>2, <1>3, <1>5
<1>7. epoch'[r] * (PerEpoch(shape') * shape'.ga) + at'[r] = step'[r] * shape'.ga + Taken(r)'
  BY <1>1, <1>4, <1>6, Zenon DEF w, y
<1> QED
  BY <1>1, <1>2, <1>7 DEF InStep

\* The forward pass.
LEMMA ForwardInStep ==
    ASSUME PlansInv, StepsInv, NEW r \in Ranks, Forward(r)
    PROVE  InStep(r)'
<1>1. /\ plans' = plans /\ shape' = shape /\ pc[r] = "forward" /\ pc'[r] = "backward"
      /\ at'[r] = at[r] /\ epoch'[r] = epoch[r] /\ micro'[r] = micro[r] /\ step'[r] = step[r]
      /\ batch'[r] = batch[r] /\ grads'[r] = grads[r] /\ weights'[r] = weights[r]
  BY DEF Forward, Goto, run, StepsInv
<1>2. InStep(r)
  BY DEF StepsInv
<1>3. Taken(r)' = Taken(r)
  BY <1>1 DEF Taken
<1> QED
  BY <1>1, <1>2, <1>3 DEF InStep

\* The backward pass adds the micro-batch to what the rank has summed over.
LEMMA BackwardInStep ==
    ASSUME PlansInv, StepsInv, NEW r \in Ranks, Backward(r)
    PROVE  InStep(r)'
<1>1. /\ plans' = plans /\ shape' = shape /\ pc[r] = "backward"
      /\ pc'[r] = IF micro[r] = shape.ga - 1 THEN "reduce" ELSE "fetch"
      /\ at'[r] = at[r] /\ epoch'[r] = epoch[r] /\ micro'[r] = micro[r] + 1 /\ step'[r] = step[r]
      /\ grads'[r] = grads[r] \o batch[r] /\ weights'[r] = weights[r]
  BY DEF Backward, Goto, run, StepsInv
<1>2. InStep(r) /\ shape \in Shapes /\ shape.ga \in Nat \ {0}
  BY EpochIs DEF StepsInv, PlansInv
<1>3. /\ micro[r] \in 0 .. shape.ga - 1
      /\ grads[r] = GradOf(plans, shape, step[r], r, micro[r])
      /\ batch[r] = BatchOf(plans, shape, step[r], r, micro[r])
      /\ HasStep(plans, shape, step[r])
  BY <1>1, <1>2 DEF InStep
<1>4. grads'[r] = GradOf(plans, shape, step[r], r, micro[r] + 1)
  <2>1. micro[r] \in Nat
    BY <1>2, <1>3
  <2>2. GradOf(plans, shape, step[r], r, micro[r]) \o BatchOf(plans, shape, step[r], r, micro[r])
            = GradOf(plans, shape, step[r], r, micro[r] + 1)
    BY <1>2, <2>1, GradNext
  <2> QED
    BY <1>1, <1>3, <2>2, Zenon
<1>5. Taken(r) = micro[r] + 1 /\ Taken(r)' = micro[r] + 1
  BY <1>1, <1>2, <1>3 DEF Taken
<1>6. CASE micro[r] = shape.ga - 1
  <2>1. pc'[r] = "reduce" /\ micro[r] + 1 = shape.ga
    BY <1>1, <1>2, <1>6
  <2> QED
    BY <1>1, <1>2, <1>3, <1>4, <1>5, <2>1 DEF InStep
<1>7. CASE micro[r] # shape.ga - 1
  <2>1. pc'[r] = "fetch" /\ micro'[r] \in 0 .. shape'.ga - 1 /\ micro'[r] \in Nat
    BY <1>1, <1>2, <1>3, <1>7
  <2>2. grads'[r] = GradOf(plans', shape', step'[r], r, micro'[r])
    BY <1>1, <1>4, Zenon
  <2>3. /\ at[r] \in Nat /\ step[r] \in Nat /\ weights[r] = History(plans, shape, step[r])
        /\ \A k \in 1 .. step[r] : HasStep(plans, shape, k - 1)
        /\ epoch[r] * (PerEpoch(shape) * shape.ga) + at[r] = step[r] * shape.ga + Taken(r)
    BY <1>1, <1>2 DEF InStep
  <2>4. epoch'[r] * (PerEpoch(shape') * shape'.ga) + at'[r] = step'[r] * shape'.ga + Taken(r)'
    BY <1>1, <1>5, <2>3, Zenon
  <2> QED
    BY <1>1, <2>1, <2>2, <2>3, <2>4 DEF InStep
<1> QED
  BY <1>6, <1>7

\* The update sums over what every rank has summed over in its part of the step.
LEMMA UpdateInStep ==
    ASSUME PlansInv, StepsInv, NEW r \in Ranks, Update
    PROVE  InStep(r)'
<1> DEFINE x == epoch[r] * (PerEpoch(shape) * shape.ga)
<1>1. /\ plans' = plans /\ shape' = shape /\ pc[r] = "reduce" /\ pc'[r] \in {"log", "save"}
      /\ at'[r] = at[r] /\ epoch'[r] = epoch[r] /\ micro'[r] = micro[r] /\ step'[r] = step[r] + 1
      /\ weights'[r] = Append(weights[r], grads)
  BY DEF Update, run
<1>2. InStep(r) /\ shape \in Shapes /\ shape.ga \in Nat \ {0}
  BY EpochIs DEF StepsInv, PlansInv
<1>3. grads = UpdateOf(plans, shape, step[r])
  <2>1. \A q \in Ranks : grads[q] = GradOf(plans, shape, step[r], q, shape.ga)
    <3> SUFFICES ASSUME NEW q \in Ranks PROVE grads[q] = GradOf(plans, shape, step[r], q, shape.ga)
      OBVIOUS
    <3>1. pc[q] = "reduce"
      BY DEF Update
    <3>2. InStep(q) /\ step[q] = step[r]
      BY DEF StepsInv
    <3> QED
      BY <3>1, <3>2 DEF InStep
  <2>2. grads = [q \in Ranks |-> grads[q]]
    BY DEF StepsInv
  <2> QED
    BY <2>1, <2>2, Zenon DEF UpdateOf
<1>4. /\ at[r] \in Nat /\ micro[r] \in Nat /\ step[r] \in Nat
      /\ weights[r] = History(plans, shape, step[r]) /\ HasStep(plans, shape, step[r])
      /\ \A k \in 1 .. step[r] : HasStep(plans, shape, k - 1)
      /\ x + at[r] = step[r] * shape.ga + shape.ga
  BY <1>1, <1>2 DEF InStep, Taken
<1>5. weights'[r] = History(plans, shape, step[r] + 1)
  BY <1>1, <1>3, <1>4, HistoryNext
<1>6. \A k \in 1 .. step[r] + 1 : HasStep(plans, shape, k - 1)
  <2> SUFFICES ASSUME NEW k \in 1 .. step[r] + 1 PROVE HasStep(plans, shape, k - 1)
    OBVIOUS
  <2>1. k \in 1 .. step[r] \/ k - 1 = step[r]
    BY <1>4
  <2> QED
    BY <1>4, <2>1
<1>7. (step[r] + 1) * shape.ga = step[r] * shape.ga + shape.ga /\ (step[r] + 1) * shape.ga \in Nat
  BY <1>2, <1>4
<1> HIDE DEF x
<1>8. x + at[r] = (step[r] + 1) * shape.ga + 0
  BY <1>4, <1>7
<1>9. Taken(r)' = 0
  BY <1>1 DEF Taken
<1>10. epoch'[r] * (PerEpoch(shape') * shape'.ga) + at'[r] = step'[r] * shape'.ga + Taken(r)'
  BY <1>1, <1>8, <1>9, Zenon DEF x
<1>11. step'[r] >= 1 /\ step'[r] \in Nat
  BY <1>1, <1>4
<1> QED
  BY <1>1, <1>4, <1>5, <1>6, <1>10, <1>11 DEF InStep

\* Between two steps.
LEMMA RestInStep ==
    ASSUME PlansInv, StepsInv, NEW r \in Ranks, LogLoss \/ EndStep(r) \/ Finish(r)
    PROVE  InStep(r)'
<1>1. /\ plans' = plans /\ shape' = shape
      /\ at'[r] = at[r] /\ epoch'[r] = epoch[r] /\ micro'[r] = micro[r] /\ step'[r] = step[r]
      /\ batch'[r] = batch[r] /\ grads'[r] = grads[r] /\ weights'[r] = weights[r]
  BY DEF LogLoss, EndStep, Finish, run
<1>2. \/ pc[r] = "log" /\ pc'[r] = "save"
      \/ pc[r] = "save" /\ pc'[r] = "top"
      \/ pc[r] = "top" /\ pc'[r] = "done"
  BY DEF LogLoss, EndStep, Finish, Goto, StepsInv
<1>3. InStep(r)
  BY DEF StepsInv
<1>4. Taken(r)' = Taken(r)
  BY <1>2 DEF Taken
<1> QED
  BY <1>1, <1>2, <1>3, <1>4 DEF InStep

\* Every step keeps every rank in its step.
LEMMA StepsStep ==
    ASSUME PlansInv, StepsInv, [Next]_vars
    PROVE  StepsInv'
<1>1. plans' = plans /\ shape' = shape
  BY DEF Next, RankStep, ZeroGrad, Fetch, NextEpoch, Forward, Backward, Update, LogLoss,
         EndStep, Finish, run, vars
<1>2. /\ cache[0] # NoPlan /\ grads = [q \in Ranks |-> grads[q]]
      /\ DOMAIN pc = Ranks /\ DOMAIN at = Ranks /\ DOMAIN micro = Ranks /\ DOMAIN step = Ranks
      /\ DOMAIN batch = Ranks /\ DOMAIN weights = Ranks
      /\ \A q, r \in Ranks : step[q] = step[r]
      /\ \A r \in Ranks : InStep(r)
  BY DEF StepsInv
<1>3. ASSUME NEW r \in Ranks, RankStep(r) PROVE StepsInv'
  <2>1. cache'[0] # NoPlan
    <3>1. EnsurePlan(r).key # -1
      <4>1. EnsurePlan(r).key = epoch[r] /\ epoch[r] \in Nat
        BY EnsuredIs DEF PlansInv
      <4> QED
        BY <4>1
    <3>2. NoPlan.key = -1
      BY SMTT(30) DEF NoPlan
    <3>3. cache' = cache \/ cache' = [cache EXCEPT ![r] = EnsurePlan(r)]
      BY <1>3 DEF RankStep, ZeroGrad, Fetch, NextEpoch, Forward, Backward, EndStep, Finish
    <3>4. cache'[0] = cache[0] \/ cache'[0] = EnsurePlan(r)
      <4>1. r \in DOMAIN cache
        BY DEF PlansInv
      <4>2. CASE cache' = [cache EXCEPT ![r] = EnsurePlan(r)] /\ r = 0
        <5>1. cache'[r] = EnsurePlan(r)
          BY <4>1, <4>2
        <5> QED
          BY <4>2, <5>1, Zenon
      <4>3. CASE cache' = [cache EXCEPT ![r] = EnsurePlan(r)] /\ r # 0
        <5>1. 0 \in DOMAIN cache
          BY PlannerAssumption DEF PlansInv, Ranks
        <5> DEFINE new == EnsurePlan(r)
        <5>2. cache' = [cache EXCEPT ![r] = new]
          BY <4>3
        <5> HIDE DEF new
        <5>3. cache'[0] = cache[0]
          BY <4>3, <5>1, <5>2, SMTT(30)
        <5> QED
          BY <5>3
      <4> QED
        BY <3>3, <4>2, <4>3
    <3> QED
      BY <1>2, <3>1, <3>2, <3>4, Zenon
  <2>2. step' = step
    BY <1>3 DEF RankStep, ZeroGrad, Fetch, NextEpoch, Forward, Backward, EndStep, Finish
  <2>3. /\ DOMAIN pc' = Ranks /\ DOMAIN at' = Ranks /\ DOMAIN micro' = Ranks /\ DOMAIN step' = Ranks
        /\ DOMAIN batch' = Ranks /\ DOMAIN weights' = Ranks
    BY <1>2, <1>3 DEF RankStep, ZeroGrad, Fetch, NextEpoch, Forward, Backward, EndStep, Finish, Goto
  <2>4. grads' = [q \in Ranks |-> grads'[q]]
    <3>1. grads' = grads \/ \E x : grads' = [grads EXCEPT ![r] = x]
      BY <1>3 DEF RankStep, ZeroGrad, Fetch, NextEpoch, Forward, Backward, EndStep, Finish
    <3> QED
      BY <1>2, <3>1, SMTT(30)
  <2>5. ASSUME NEW s \in Ranks \ {r} PROVE Rests(s)
    BY <1>1, <1>2, <1>3, <2>5
       DEF Rests, RankStep, ZeroGrad, Fetch, NextEpoch, Forward, Backward, EndStep, Finish, Goto, PlansInv
  <2>6. InStep(r)'
    BY <1>3, ZeroGradInStep, FetchInStep, NextEpochInStep, ForwardInStep, BackwardInStep, RestInStep
       DEF RankStep
  <2>7. ASSUME NEW s \in Ranks PROVE InStep(s)'
    <3>1. CASE s = r
      BY <2>6, <3>1
    <3>2. CASE s # r
      BY <1>2, <2>5, <3>2, RestsInStep
    <3> QED
      BY <3>1, <3>2
  <2> QED
    BY <1>2, <2>1, <2>2, <2>3, <2>4, <2>7 DEF StepsInv
<1>4. CASE Update
  <2>1. /\ \A r \in Ranks : InStep(r)'
        /\ \A r \in Ranks : step'[r] = step[r] + 1
    BY <1>4, UpdateInStep DEF Update
  <2>2. /\ cache' = cache /\ grads' = grads /\ at' = at /\ micro' = micro /\ batch' = batch
        /\ DOMAIN pc' = Ranks /\ DOMAIN step' = Ranks /\ DOMAIN weights' = Ranks
    BY <1>4 DEF Update
  <2> QED
    BY <1>2, <2>1, <2>2 DEF StepsInv
<1>5. CASE LogLoss
  <2>1. \A r \in Ranks : InStep(r)'
    BY <1>5, RestInStep
  <2>2. /\ cache' = cache /\ grads' = grads /\ at' = at /\ micro' = micro /\ batch' = batch
        /\ step' = step /\ weights' = weights /\ DOMAIN pc' = Ranks
    BY <1>5 DEF LogLoss
  <2> QED
    BY <1>2, <2>1, <2>2 DEF StepsInv
<1>6. CASE UNCHANGED vars
  <2>1. \A r \in Ranks : Rests(r)
    BY <1>6 DEF Rests, vars, run
  <2>2. \A r \in Ranks : InStep(r)'
    BY <1>2, <2>1, RestsInStep
  <2>3. /\ cache' = cache /\ grads' = grads /\ at' = at /\ micro' = micro /\ batch' = batch
        /\ step' = step /\ weights' = weights /\ pc' = pc
    BY <1>6 DEF vars
  <2> QED
    BY <1>2, <2>2, <2>3 DEF StepsInv
<1> QED
  BY <1>3, <1>4, <1>5, <1>6, SMTT(30) DEF Next

-----------------------------------------------------------------------------
\* What an update sums over.

\* A list that is cut into equal parts.
CutEvenly(parts, f, w, n) ==
    /\ parts \in Seq(Seq({f[j] : j \in 1 .. w * n})) /\ Len(parts) = w
    /\ \A i \in 1 .. w : Len(parts[i]) = n
    /\ \A i \in 1 .. w : \A t \in 1 .. n : parts[i][t] = f[(i - 1) * n + t]

\* Quotient and remainder.
LEMMA DivisionParts ==
    ASSUME NEW a \in Nat, NEW k \in Nat \ {0}
    PROVE  a \div k \in Nat /\ (a % k) \in 0 .. k - 1 /\ a = k * (a \div k) + (a % k)
<1>1. a = k * (a \div k) + (a % k) /\ (a % k) \in 0 .. k - 1
  OBVIOUS
<1>2. a \div k \in Nat
  BY Division
<1> QED
  BY <1>1, <1>2

\* Documents of one length stand at its multiples.
LEMMA EvenOffsets ==
    ASSUME NEW n \in Nat, NEW w \in Nat, NEW docs, Len(docs) = w,
           \A j \in 1 .. w : docs[j].len = n
    PROVE  \A i \in 1 .. w + 1 : Offset(docs, i) = (i - 1) * n
<1> DEFINE T == {d \in 0 .. w : Offset(docs, d + 1) = d * n}
<1>0. /\ Offset(docs, 1) = 0
      /\ \A i \in 1 .. w : Offset(docs, i + 1) = Offset(docs, i) + docs[i].len
  <2>1. Len(docs) \in Nat /\ \A j \in 1 .. Len(docs) : docs[j].len \in Nat
    OBVIOUS
  <2> QED
    BY <2>1, OffsetIs
<1>1. 0 \in T
  BY <1>0
<1>2. ASSUME NEW d \in 0 .. w - 1, d \in T PROVE d + 1 \in T
  <2> DEFINE i == d + 1
  <2>1. i \in 1 .. w /\ i \in 0 .. w
    OBVIOUS
  <2>2. Offset(docs, i + 1) = Offset(docs, i) + n /\ Offset(docs, i) = d * n
    BY <1>0, <1>2, <2>1
  <2>3. (d + 1) * n = d * n + n
    OBVIOUS
  <2> QED
    BY <2>1, <2>2, <2>3
<1> HIDE DEF T
<1>3. \A d \in 0 .. w : d \in T
  BY <1>1, <1>2, UpTo
<1> SUFFICES ASSUME NEW i \in 1 .. w + 1 PROVE Offset(docs, i) = (i - 1) * n
  OBVIOUS
<1>4. i - 1 \in 0 .. w /\ (i - 1) + 1 = i
  OBVIOUS
<1>5. i - 1 \in T
  BY <1>3, <1>4
<1> QED
  BY <1>4, <1>5 DEF T

\* Put together again, the parts are the list.
LEMMA CutFlat ==
    ASSUME NEW n \in Nat \ {0}, NEW w \in Nat, NEW f, f = [j \in 1 .. w * n |-> f[j]],
           NEW parts, CutEvenly(parts, f, w, n)
    PROVE  FlattenSeq(parts) = f
<1> DEFINE S == {f[j] : j \in 1 .. w * n}
           docs == [i \in 1 .. w |-> [len |-> n]]
           flat == FlattenSeq(parts)
<1>1. /\ parts \in Seq(Seq(S)) /\ Len(parts) = w
      /\ \A i \in 1 .. w : Len(parts[i]) = n
      /\ \A i \in 1 .. w : \A t \in 1 .. n : parts[i][t] = f[(i - 1) * n + t]
  BY Zenon DEF CutEvenly
<1> HIDE DEF S
<1>2. Len(docs) = w /\ \A i \in 1 .. w : docs[i].len = n
  <2>1. docs \in [1 .. w -> {[len |-> n]}]
    OBVIOUS
  <2>2. Len(docs) = w
    <3> HIDE DEF docs
    <3> QED
      BY <2>1, SegmentSeq
  <2> QED
    BY <2>2
<1> HIDE DEF docs
<1>3. Lays(docs, parts)
  BY <1>1, <1>2 DEF Lays
<1>4. IsFlat(flat, parts, docs, S)
  BY <1>1, <1>3, FlattenPlaces
<1>5. \A i \in 1 .. w + 1 : Offset(docs, i) = (i - 1) * n
  BY <1>2, EvenOffsets, SMTT(30)
<1> HIDE DEF flat
<1>6. /\ flat \in Seq(S) /\ Len(flat) = w * n
      /\ \A i \in 1 .. w : \A t \in 1 .. n : flat[(i - 1) * n + t] = parts[i][t]
  <2>1. /\ flat \in Seq(S) /\ Len(flat) = Used(docs)
        /\ \A i \in 1 .. w : \A t \in 1 .. n : flat[Offset(docs, i) + t] = parts[i][t]
    BY <1>1, <1>4 DEF IsFlat
  <2>2. Used(docs) = w * n
    <3>1. w + 1 \in 1 .. w + 1 /\ (w + 1) - 1 = w
      OBVIOUS
    <3> QED
      BY <1>2, <1>5, <3>1 DEF Used
  <2>3. \A i \in 1 .. w : i \in 1 .. w + 1
    OBVIOUS
  <2>4. \A i \in 1 .. w : Offset(docs, i) = (i - 1) * n
    BY <1>5, <2>3, Zenon
  <2> QED
    BY <2>1, <2>2, <2>4, Zenon
<1>7. ASSUME NEW j \in 1 .. w * n PROVE flat[j] = f[j]
  <2> DEFINE q == (j - 1) \div n
             m == (j - 1) % n
             x == n * q
             y == w * n
  <2>1. y \in Nat /\ j \in Nat /\ j - 1 \in Nat
    OBVIOUS
  <2>2. q \in Nat /\ m \in 0 .. n - 1 /\ j - 1 = n * q + m
    <3> DEFINE k == j - 1
    <3>1. k \in Nat
      BY <2>1
    <3> HIDE DEF k
    <3>2. k \div n \in Nat /\ (k % n) \in 0 .. n - 1 /\ k = n * (k \div n) + (k % n)
      BY <3>1, DivisionParts
    <3> QED
      BY <3>2 DEF k
  <2> HIDE DEF q, m
  <2>3. q < w
    <3> SUFFICES ASSUME w <= q PROVE FALSE
      BY <2>2
    <3>1. n * w <= n * q
      BY <2>2, MulMono
    <3>2. n * w = y /\ x \in Nat
      BY <2>2
    <3> HIDE DEF x, y
    <3>3. j - 1 = x + m /\ y <= x /\ j <= y
      BY <2>2, <3>1, <3>2 DEF x, y
    <3> QED
      BY <2>1, <2>2, <3>2, <3>3
  <2>4. q + 1 \in 1 .. w /\ m + 1 \in 1 .. n /\ (q + 1) - 1 = q
    BY <2>2, <2>3
  <2>5. j = q * n + (m + 1)
    <3>1. q * n = x /\ x \in Nat
      BY <2>2
    <3>2. j - 1 = x + m
      BY <2>2
    <3> HIDE DEF x
    <3>3. j = x + (m + 1)
      <4>1. x \in Nat /\ m \in Nat
        BY <2>2, <3>1
      <4> QED
        BY <2>1, <3>2, <4>1
    <3> QED
      BY <3>1, <3>3
  <2> DEFINE i == q + 1
             t == m + 1
  <2>6. i \in 1 .. w /\ t \in 1 .. n /\ j = (i - 1) * n + t
    BY <2>4, <2>5
  <2> HIDE DEF i, t
  <2>7. flat[(i - 1) * n + t] = parts[i][t] /\ parts[i][t] = f[(i - 1) * n + t]
    BY <1>1, <1>6, <2>6, Zenon
  <2> QED
    BY <2>6, <2>7, Zenon
<1>8. flat = [j \in 1 .. w * n |-> flat[j]]
  BY <1>6
<1>9. flat = f
  BY <1>7, <1>8, Zenon
<1> QED
  BY <1>9 DEF flat

\* The packs of the s-th step of a run, in the order of its plan.
StepPacks(pl, sh, s) ==
    [j \in 1 .. World * sh.ga * sh.mb |-> Bins(Described)[Planned(pl, sh, s)[j]].members]

\* Where the s-th step of a run is planned.
LEMMA StepIsPlanned ==
    ASSUME PlansInv, NEW s \in Nat, HasStep(plans, shape, s)
    PROVE  /\ Planned(plans, shape, s) \in Seq(1 .. Len(Bins(Described)))
           /\ DOMAIN Planned(plans, shape, s) = 1 .. N /\ N \in Nat \ {0}
           /\ s \div PerEpoch(shape) \in DOMAIN plans
           /\ (s % PerEpoch(shape)) + 1 \in 1 .. PerEpoch(shape)
<1> DEFINE c == PerEpoch(shape)
           e == s \div c
           i == (s % c) + 1
           steps == plans[e].steps
           P == Len(Bins(Described))
<1>1. c \in Nat \ {0} /\ e \in DOMAIN plans
  BY DEF HasStep
<1>2. N \in Nat \ {0}
  BY StepSize DEF PlansInv
<1>3. i \in 1 .. c
  <2>1. s % c \in 0 .. c - 1
    BY <1>1
  <2> HIDE DEF c
  <2> QED
    BY <1>1, <2>1
<1>4. IsPlanned(Bins(Described), steps, c, N)
  BY <1>1, EpochIs
<1>5. Planned(plans, shape, s) = steps[i]
  BY Zenon DEF Planned
<1> HIDE DEF c, e, i, steps
<1>6. steps[i] \in Seq(1 .. P) /\ Len(steps[i]) = N
  <2>1. steps \in [1 .. c -> Seq(1 .. P)] /\ \A k \in 1 .. c : Len(steps[k]) = N
    BY <1>4 DEF IsPlanned
  <2> QED
    BY <1>3, <2>1, Zenon
<1> DEFINE st == steps[i]
<1>7. DOMAIN st = 1 .. N
  <2>1. st \in Seq(1 .. P) /\ Len(st) = N
    BY <1>6
  <2> HIDE DEF st
  <2> QED
    BY <2>1
<1> QED
  BY <1>1, <1>2, <1>3, <1>5, <1>6, <1>7, Zenon DEF c, e, i

\* All ranks together sum over exactly their step's packs.
LEMMA UpdateIsStep ==
    ASSUME PlansInv, NEW s \in Nat
    PROVE  PacksOf(UpdateOf(plans, shape, s)) = StepPacks(plans, shape, s)
<1> DEFINE g == shape.ga
           b == shape.mb
           n == g * b
           of(j) == Bins(Described)[Planned(plans, shape, s)[j]].members
           f == [j \in 1 .. World * n |-> of(j)]
           u == UpdateOf(plans, shape, s)
           parts == [k \in 1 .. World |-> u[k - 1]]
           S == {f[j] : j \in 1 .. World * n}
<1>1. World \in Nat \ {0} /\ g \in Nat \ {0} /\ b \in Nat \ {0}
  BY EpochIs
<1>2. n \in Nat \ {0} /\ World * g * b = World * n /\ World * n \in Nat
  <2>1. 0 \in 0 .. World - 1
    BY <1>1
  <2> HIDE DEF g, b
  <2> QED
    BY <1>1, <2>1, Widths
<1>3. ASSUME NEW k \in 1 .. World
      PROVE  parts[k] = [t \in 1 .. n |-> of((k - 1) * n + t)]
  <2>1. k - 1 \in Ranks /\ k - 1 \in 0 .. World - 1
    BY <1>1 DEF Ranks
  <2>2. parts[k] = GradOf(plans, shape, s, k - 1, g)
    BY <2>1 DEF UpdateOf
  <2>3. GradOf(plans, shape, s, k - 1, g) = [t \in 1 .. n |-> of((k - 1) * g * b + t)]
    BY Zenon DEF GradOf
  <2>4. (k - 1) * g * b = (k - 1) * n
    <3> DEFINE r == k - 1
    <3>1. r \in 0 .. World - 1
      BY <2>1
    <3> HIDE DEF g, b, r
    <3>2. r * g * b = r * n
      BY <1>1, <3>1, Widths
    <3> QED
      BY <3>2 DEF r
  <2> QED
    BY <2>2, <2>3, <2>4, Zenon
<1>4. ASSUME NEW k \in 1 .. World, NEW t \in 1 .. n
      PROVE  (k - 1) * n + t \in 1 .. World * n
  <2> DEFINE x == (k - 1) * n
             y == World * n
  <2>1. n * k <= n * World
    BY <1>1, <1>2, MulMono
  <2>2. n * k = x + n /\ n * World = y /\ x \in Nat
    BY <1>1, <1>2
  <2> HIDE DEF x, y, n
  <2>3. x + t \in 1 .. y
    BY <1>2, <2>1, <2>2 DEF y
  <2> QED
    BY <2>3 DEF x, y
<1>5. f = [j \in 1 .. World * n |-> f[j]] /\ \A j \in 1 .. World * n : f[j] = of(j)
  <2> HIDE DEF of
  <2> QED
    OBVIOUS
<1>6. \A k \in 1 .. World : \A t \in 1 .. n : f[(k - 1) * n + t] = of((k - 1) * n + t)
  <2> HIDE DEF of, f
  <2> QED
    BY <1>4, <1>5, Zenon
<1>7. PacksOf(u) = FlattenSeq(parts)
  BY DEF PacksOf
<1>8. StepPacks(plans, shape, s) = f
  BY <1>2 DEF StepPacks
<1>9. parts = [k \in 1 .. World |-> parts[k]]
  <2> HIDE DEF u
  <2> QED
    OBVIOUS
<1> HIDE DEF of, f, parts, u, n
<1>10. \A k \in 1 .. World : parts[k] \in [1 .. n -> S]
  <2> SUFFICES ASSUME NEW k \in 1 .. World PROVE parts[k] \in [1 .. n -> S]
    OBVIOUS
  <2>1. \A t \in 1 .. n : of((k - 1) * n + t) \in S
    BY <1>4, <1>6
  <2> HIDE DEF S
  <2> QED
    BY <1>3, <2>1
<1>11. CutEvenly(parts, f, World, n)
  <2>1. \A k \in 1 .. World : parts[k] \in Seq(S) /\ Len(parts[k]) = n
    BY <1>2, <1>10, SegmentSeq
  <2>2. \A k \in 1 .. World : \A t \in 1 .. n : parts[k][t] = f[(k - 1) * n + t]
    BY <1>3, <1>6
  <2>3. parts \in Seq(Seq(S)) /\ Len(parts) = World
    <3> HIDE DEF S
    <3>1. parts \in [1 .. World -> Seq(S)]
      BY <1>9, <2>1
    <3> QED
      BY <1>1, <3>1, SegmentSeq
  <2> QED
    BY <2>1, <2>2, <2>3, Zenon DEF CutEvenly
<1>12. FlattenSeq(parts) = f
  <2>1. World \in Nat
    BY <1>1
  <2> QED
    BY <1>2, <1>5, <1>11, <2>1, CutFlat, Zenon
<1> QED
  BY <1>7, <1>8, <1>12, Zenon DEF u

\* From the start on every rank is in the step of the plan its count says.
THEOREM StepsKept == ShufflePermutes => (Spec => []StepsInv)
<1>1. ShufflePermutes /\ Init => PlansInv /\ StepsInv
  BY PlansInit, StepsInit
<1>2. PlansInv /\ StepsInv /\ [Next]_vars => PlansInv' /\ StepsInv'
  BY PlansStep, StepsStep
<1> QED
  BY <1>1, <1>2, PTL DEF Spec

\* data.py: "Every rank runs the IDENTICAL algorithm from the same seed,
\* derives the same global plan, and yields only its own packs": whatever the
\* number of ranks, the shape of a step and the shuffles, every update sums over
\* all packs that the plan of its epoch put into its step, and over no other.
THEOREM PlannedUpdates == ShufflePermutes => (Spec => []UpdateIsPlannedStep)
<1>1. PlansInv /\ StepsInv => UpdateIsPlannedStep
  <2> SUFFICES ASSUME PlansInv, StepsInv, NEW r \in Ranks, pc[r] \in {"log", "save"}
               PROVE  LET plan == plans[EpochOf(step[r])]
                          planned == plan.steps[((step[r] - 1) % StepsPerEpoch) + 1]
                          summed == PacksOf(weights[r][step[r]])
                      IN  /\ Len(summed) = N
                          /\ ToSet(summed) = {plan.packs[p].members : p \in ToSet(planned)}
    BY DEF UpdateIsPlannedStep
  <2> DEFINE s == step[r] - 1
             c == PerEpoch(shape)
             packs == Bins(Described)
             st == Planned(plans, shape, s)
             summed == PacksOf(weights[r][step[r]])
             plan == plans[EpochOf(step[r])]
  <2>1. /\ step[r] \in Nat /\ step[r] >= 1 /\ weights[r] = History(plans, shape, step[r])
        /\ \A k \in 1 .. step[r] : HasStep(plans, shape, k - 1)
    BY DEF StepsInv, InStep
  <2>2. s \in Nat /\ step[r] \in 1 .. step[r] /\ HasStep(plans, shape, s)
    BY <2>1
  <2>3. weights[r][step[r]] = UpdateOf(plans, shape, s)
    BY <2>1, <2>2 DEF History
  <2>4. StepsPerEpoch = c
    <3>1. 0 \in Ranks
      BY PlannerAssumption DEF Ranks
    <3>2. cache[0].key \in DOMAIN plans /\ cache[0] = PlanFor(cache[0].key)
      BY <3>1 DEF PlansInv, StepsInv
    <3>3. cache[0].packs = plans[cache[0].key].packs
      BY <3>2 DEF PlanFor
    <3>4. cache[0].packs = packs /\ N = World * shape.ga * shape.mb
      BY <3>2, <3>3, EpochIs
    <3> QED
      BY <3>4, Zenon DEF StepsPerEpoch, PerEpoch
  <2>5. plan = plans[s \div c]
    BY <2>4, Zenon DEF EpochOf
  <2>6. plan.packs = packs
    <3>1. s \div c \in DOMAIN plans
      BY <2>2, StepIsPlanned
    <3> QED
      BY <2>5, <3>1, EpochIs
  <2>7. plan.steps[(s % StepsPerEpoch) + 1] = st
    BY <2>4, <2>5, Zenon DEF Planned
  <2>8. st \in Seq(1 .. Len(packs)) /\ DOMAIN st = 1 .. N /\ N \in Nat \ {0}
    BY <2>2, StepIsPlanned
  <2>9. summed = [j \in 1 .. N |-> packs[st[j]].members]
    <3>1. summed = StepPacks(plans, shape, s)
      BY <2>2, <2>3, UpdateIsStep
    <3> QED
      BY <3>1 DEF StepPacks, N
  <2> HIDE DEF plan, summed, packs, st, s, c
  <2>10. Len(summed) = N
    <3> DEFINE T == {packs[st[j]].members : j \in 1 .. N}
    <3>1. summed \in [1 .. N -> T]
      BY <2>9
    <3> HIDE DEF T
    <3> QED
      BY <2>8, <3>1, SegmentSeq
  <2>11. ToSet(summed) = {packs[p].members : p \in ToSet(st)}
    BY <2>8, <2>9 DEF ToSet
  <2>12. ToSet(summed) = {plan.packs[p].members : p \in ToSet(plan.steps[(s % StepsPerEpoch) + 1])}
    BY <2>6, <2>7, <2>11, Zenon
  <2> QED
    BY <2>10, <2>12 DEF plan, summed, s
<1> QED
  BY <1>1, PlansKept, StepsKept, PTL

-----------------------------------------------------------------------------
\* What an epoch covers.

\* The packs of the first steps of a plan, one step after the other.
Dealing(steps, d, n) ==
    [j \in 1 .. d * n |-> steps[((j - 1) \div n) + 1][((j - 1) % n) + 1]]

\* A place of a list of d steps of n is a place of one of them.
LEMMA DealingPlace ==
    ASSUME NEW d \in Nat, NEW n \in Nat \ {0}, NEW j \in 1 .. d * n
    PROVE  /\ ((j - 1) \div n) + 1 \in 1 .. d /\ ((j - 1) % n) + 1 \in 1 .. n
           /\ j = n * ((j - 1) \div n) + ((j - 1) % n) + 1
<1> DEFINE a == j - 1
           q == a \div n
           m == a % n
           x == n * q
           y == d * n
<1>1. j \in Nat /\ a \in Nat /\ y \in Nat /\ j <= y /\ j = a + 1
  OBVIOUS
<1> HIDE DEF a
<1>2. q \in Nat /\ m \in 0 .. n - 1 /\ a = x + m
  BY <1>1, DivisionParts
<1> HIDE DEF q, m
<1>3. x \in Nat /\ n * d = y
  BY <1>2
<1>4. ~(d <= q)
  <2> SUFFICES ASSUME d <= q PROVE FALSE
    OBVIOUS
  <2>1. n * d <= x
    BY <1>2, MulMono
  <2> HIDE DEF x, y
  <2> QED
    BY <1>1, <1>2, <1>3, <2>1
<1>5. q + 1 \in 1 .. d /\ m + 1 \in 1 .. n
  BY <1>2, <1>4
<1> HIDE DEF x, y
<1>6. j = x + m + 1
  BY <1>1, <1>2, <1>3
<1> QED
  BY <1>5, <1>6 DEF x, q, m, a

\* No pack is dealt twice.
LEMMA DealingApart ==
    ASSUME NEW packs, NEW steps, NEW c \in Nat, NEW n \in Nat \ {0}, IsPlanned(packs, steps, c, n),
           NEW d \in 0 .. c
    PROVE  IsOrder(Dealing(steps, d, n), packs, d * n)
<1> DEFINE which(j) == ((j - 1) \div n) + 1
           in(j) == ((j - 1) % n) + 1
           deal == [j \in 1 .. d * n |-> steps[which(j)][in(j)]]
<1>1. Dealing(steps, d, n) = deal
  BY Zenon DEF Dealing
<1>2. \A j \in 1 .. d * n : which(j) \in 1 .. c /\ in(j) \in 1 .. n
  <2> SUFFICES ASSUME NEW j \in 1 .. d * n PROVE which(j) \in 1 .. c /\ in(j) \in 1 .. n
    OBVIOUS
  <2>1. which(j) \in 1 .. d /\ in(j) \in 1 .. n
    BY DealingPlace
  <2> HIDE DEF which
  <2> QED
    BY <2>1
<1>3. ASSUME NEW j \in 1 .. d * n, NEW k \in 1 .. d * n, which(j) = which(k), in(j) = in(k)
      PROVE  j = k
  <2> DEFINE p == (j - 1) \div n
             q == (k - 1) \div n
             u == (j - 1) % n
             v == (k - 1) % n
  <2>1. /\ p + 1 \in 1 .. d /\ u + 1 \in 1 .. n /\ j = n * p + u + 1
        /\ q + 1 \in 1 .. d /\ v + 1 \in 1 .. n /\ k = n * q + v + 1
    BY DealingPlace
  <2>2. p + 1 = q + 1 /\ u + 1 = v + 1
    BY <1>3, Zenon
  <2>3. p \in Int /\ q \in Int /\ u \in Int /\ v \in Int
    BY DivisionParts
  <2> HIDE DEF p, q, u, v
  <2>4. p = q /\ u = v
    BY <2>2, <2>3
  <2> QED
    BY <2>1, <2>4, Zenon
<1>4. /\ steps \in [1 .. c -> Seq(1 .. Len(packs))]
      /\ \A s \in 1 .. c : Len(steps[s]) = n
  BY DEF IsPlanned
<1> HIDE DEF which, in
<1>5. \A j \in 1 .. d * n : deal[j] = steps[which(j)][in(j)] /\ deal[j] \in 1 .. Len(packs)
  <2> SUFFICES ASSUME NEW j \in 1 .. d * n PROVE steps[which(j)][in(j)] \in 1 .. Len(packs)
    OBVIOUS
  <2> DEFINE st == steps[which(j)]
  <2>1. st \in Seq(1 .. Len(packs)) /\ Len(st) = n
    BY <1>2, <1>4
  <2> HIDE DEF st
  <2>2. in(j) \in 1 .. n
    BY <1>2
  <2>3. st[in(j)] \in 1 .. Len(packs)
    BY <2>1, <2>2
  <2> QED
    BY <2>3 DEF st
<1>6. deal \in [1 .. d * n -> 1 .. Len(packs)]
  BY <1>5
<1>7. ASSUME NEW j \in 1 .. d * n, NEW k \in 1 .. d * n, deal[j] = deal[k] PROVE j = k
  <2> DEFINE s == which(j)
             t == which(k)
             a == in(j)
             b == in(k)
  <2>1. s \in 1 .. c /\ t \in 1 .. c /\ a \in 1 .. n /\ b \in 1 .. n
    BY <1>2
  <2>2. steps[s][a] = steps[t][b]
    BY <1>5, <1>7
  <2> HIDE DEF s, t, a, b
  <2>3. s = t /\ a = b
    BY <2>1, <2>2, PlannedApart
  <2> QED
    BY <1>3, <2>3 DEF s, t, a, b
<1> HIDE DEF deal
<1> QED
  BY <1>1, <1>6, <1>7 DEF IsOrder

\* The members of some packs, one pack after the other.
MembersOf(packs, order, K) == FlattenSeq([j \in 1 .. K |-> packs[order[j]].members])
MemberSet(packs, order, K) == UNION {ToSet(packs[order[j]].members) : j \in 1 .. K}

\* No example is met twice among the members of packs taken once.
LEMMA MembersFlat ==
    ASSUME NEW m \in Nat, NEW packs \in Seq(PackSet(m)), NEW X, Holds(packs, X),
           NEW K \in Nat, NEW order, IsOrder(order, packs, K)
    PROVE  /\ IsInjective(MembersOf(packs, order, K))
           /\ ToSet(MembersOf(packs, order, K)) = MemberSet(packs, order, K)
<1> DEFINE mem(j) == packs[order[j]].members
           parts == [j \in 1 .. K |-> mem(j)]
           docs == [j \in 1 .. K |-> [len |-> Len(mem(j))]]
           flat == FlattenSeq(parts)
           S == 1 .. m
<1>1. order \in [1 .. K -> 1 .. Len(packs)] /\ \A j, k \in 1 .. K : order[j] = order[k] => j = k
  BY DEF IsOrder
<1>2. \A j \in 1 .. K : mem(j) \in Seq(S)
  <2>1. \A p \in 1 .. Len(packs) : packs[p] \in PackSet(m)
    OBVIOUS
  <2>2. \A p \in 1 .. Len(packs) : packs[p].members \in Seq(S)
    BY <2>1 DEF PackSet
  <2> QED
    BY <1>1, <2>2
<1>3. \A j \in 1 .. K : parts[j] = mem(j) /\ docs[j].len = Len(mem(j))
  OBVIOUS
<1>4. docs \in [1 .. K -> {[len |-> Len(mem(j))] : j \in 1 .. K}]
  OBVIOUS
<1> HIDE DEF mem, S
<1>5. parts \in [1 .. K -> Seq(S)]
  BY <1>2
<1> HIDE DEF parts, docs
<1>6. parts \in Seq(Seq(S)) /\ Len(parts) = K /\ Len(docs) = K
  BY <1>4, <1>5, SegmentSeq
<1>7. Lays(docs, parts)
  BY <1>3, <1>6 DEF Lays
<1>8. IsFlat(flat, parts, docs, S)
  BY <1>6, <1>7, FlattenPlaces
<1> HIDE DEF flat
<1>9. /\ flat \in Seq(S) /\ Len(flat) = Used(docs)
      /\ \A j \in 1 .. K : \A t \in 1 .. Len(mem(j)) : flat[Offset(docs, j) + t] = mem(j)[t]
  BY <1>3, <1>6, <1>8 DEF IsFlat
<1>10. \A j \in 1 .. Len(docs) : docs[j].len \in Nat
  <2> SUFFICES ASSUME NEW j \in 1 .. K PROVE docs[j].len \in Nat
    BY <1>6
  <2>1. mem(j) \in Seq(S)
    BY <1>2
  <2>2. Len(mem(j)) \in Nat
    BY <2>1
  <2> QED
    BY <1>3, <2>2
<1>11. DOMAIN flat = 1 .. Used(docs)
  BY <1>9
<1>12. ASSUME NEW q \in 1 .. Used(docs)
       PROVE  \E j \in 1 .. K : \E t \in 1 .. Len(mem(j)) :
                  q = Offset(docs, j) + t /\ flat[q] = mem(j)[t]
  <2>1. PICK j \in 1 .. Len(docs) : \E t \in 1 .. docs[j].len : q = Offset(docs, j) + t
    BY <1>6, <1>10, PlaceIn
  <2> QED
    BY <1>3, <1>6, <1>9, <2>1
<1>13. ASSUME NEW p \in 1 .. Used(docs), NEW q \in 1 .. Used(docs), flat[p] = flat[q] PROVE p = q
  <2>1. PICK j \in 1 .. K : \E t \in 1 .. Len(mem(j)) : p = Offset(docs, j) + t /\ flat[p] = mem(j)[t]
    BY <1>12
  <2>2. PICK t \in 1 .. Len(mem(j)) : p = Offset(docs, j) + t /\ flat[p] = mem(j)[t]
    BY <2>1
  <2>3. PICK k \in 1 .. K : \E u \in 1 .. Len(mem(k)) : q = Offset(docs, k) + u /\ flat[q] = mem(k)[u]
    BY <1>12
  <2>4. PICK u \in 1 .. Len(mem(k)) : q = Offset(docs, k) + u /\ flat[q] = mem(k)[u]
    BY <2>3
  <2> DEFINE a == order[j]
             b == order[k]
  <2>5. a \in 1 .. Len(packs) /\ b \in 1 .. Len(packs)
    BY <1>1
  <2>6. /\ t \in 1 .. Len(packs[a].members) /\ u \in 1 .. Len(packs[b].members)
        /\ packs[a].members[t] = packs[b].members[u]
    BY <1>13, <2>2, <2>4 DEF mem
  <2> HIDE DEF a, b
  <2>7. a = b /\ t = u
    BY <2>5, <2>6, HoldsApart, SMTT(30)
  <2>8. j = k
    BY <1>1, <2>7 DEF a, b
  <2> QED
    BY <2>2, <2>4, <2>7, <2>8
<1>14. IsInjective(flat)
  BY <1>11, <1>13 DEF IsInjective
<1>15. ToSet(flat) = UNION {ToSet(mem(j)) : j \in 1 .. K}
  <2>1. ASSUME NEW x \in ToSet(flat) PROVE \E j \in 1 .. K : x \in ToSet(mem(j))
    <3>1. PICK q \in 1 .. Used(docs) : x = flat[q]
      BY <1>11 DEF ToSet
    <3>2. PICK j \in 1 .. K : \E t \in 1 .. Len(mem(j)) : flat[q] = mem(j)[t]
      BY <1>12
    <3>3. mem(j) \in Seq(S)
      BY <1>2
    <3> QED
      BY <3>1, <3>2, <3>3 DEF ToSet
  <2>2. ASSUME NEW j \in 1 .. K, NEW x \in ToSet(mem(j)) PROVE x \in ToSet(flat)
    <3>1. mem(j) \in Seq(S)
      BY <1>2
    <3>2. PICK t \in 1 .. Len(mem(j)) : x = mem(j)[t]
      BY <3>1 DEF ToSet
    <3>3. Offset(docs, j) + t \in 1 .. Used(docs)
      BY <1>3, <1>6, <1>10, PlaceBound
    <3>4. flat[Offset(docs, j) + t] = x
      BY <1>9, <3>2
    <3> QED
      BY <1>11, <3>3, <3>4 DEF ToSet
  <2> QED
    BY <2>1, <2>2
<1>16. UNION {ToSet(mem(j)) : j \in 1 .. K} = UNION {ToSet(packs[order[j]].members) : j \in 1 .. K}
  BY DEF mem
<1>17. flat = MembersOf(packs, order, K)
  BY DEF MembersOf, flat, parts, mem
<1> QED
  BY <1>14, <1>15, <1>16, <1>17, Zenon DEF MemberSet

\* What is left of the examples when an epoch ends: some packs, too few for a step.
LeftOver(packs, taken, m, n) ==
    \E P \in SUBSET {ToSet(packs[p].members) : p \in DOMAIN packs} :
        Cardinality(P) < n /\ (1 .. m) \ taken = UNION P

\* All packs are dealt but fewer than a step takes.
LEMMA FewPacksLeft ==
    ASSUME NEW m \in Nat, NEW packs \in Seq(PackSet(m)), Holds(packs, 1 .. m),
           NEW n \in Nat \ {0}, NEW K \in Nat, Len(packs) < K + n,
           NEW order, IsOrder(order, packs, K),
           NEW taken, taken = UNION {ToSet(packs[order[j]].members) : j \in 1 .. K}
    PROVE  LeftOver(packs, taken, m, n)
<1> DEFINE L == Len(packs)
           mem(p) == ToSet(packs[p].members)
           dealt == {order[j] : j \in 1 .. K}
           rest == (1 .. L) \ dealt
           P == {mem(p) : p \in rest}
<1>1. order \in [1 .. K -> 1 .. L] /\ \A j, k \in 1 .. K : order[j] = order[k] => j = k
  BY DEF IsOrder
<1>2. L \in Nat /\ DOMAIN packs = 1 .. L
  OBVIOUS
<1>3. dealt \subseteq 1 .. L
  BY <1>1
<1>4. \A p \in 1 .. L : mem(p) = {packs[p].members[j] : j \in 1 .. Len(packs[p].members)}
  <2> SUFFICES ASSUME NEW p \in 1 .. L
               PROVE  mem(p) = {packs[p].members[j] : j \in 1 .. Len(packs[p].members)}
    OBVIOUS
  <2>1. packs[p] \in PackSet(m)
    OBVIOUS
  <2>2. packs[p].members \in Seq(1 .. m)
    BY <2>1 DEF PackSet
  <2> QED
    BY <2>2 DEF ToSet
<1>5. taken = UNION {mem(p) : p \in dealt}
  <2> HIDE DEF mem
  <2>1. {mem(order[j]) : j \in 1 .. K} = {mem(p) : p \in dealt}
    BY <1>1
  <2> QED
    BY <2>1 DEF mem
<1> HIDE DEF L
<1>6. /\ \A p \in 1 .. L : mem(p) \subseteq 1 .. m
      /\ \A x \in 1 .. m : \E p \in 1 .. L : x \in mem(p)
  <2>1. ASSUME NEW p \in 1 .. L, NEW x \in mem(p) PROVE x \in 1 .. m
    <3>1. PICK i \in 1 .. Len(packs[p].members) : x = packs[p].members[i]
      BY <1>4
    <3>2. p \in 1 .. Len(packs)
      BY DEF L
    <3> QED
      BY <3>1, <3>2, Zenon DEF Holds
  <2>2. ASSUME NEW x \in 1 .. m PROVE \E p \in 1 .. L : x \in mem(p)
    <3>1. PICK p \in 1 .. Len(packs) : \E i \in 1 .. Len(packs[p].members) : packs[p].members[i] = x
      BY Zenon DEF Holds
    <3>2. p \in 1 .. L
      BY DEF L
    <3> QED
      BY <1>4, <3>1, <3>2, Zenon
  <2> QED
    BY <2>1, <2>2
<1>7. ASSUME NEW p \in 1 .. L, NEW q \in 1 .. L, NEW x \in mem(p), x \in mem(q) PROVE p = q
  <2>1. PICK i \in 1 .. Len(packs[p].members) : x = packs[p].members[i]
    <3> HIDE DEF mem
    <3>1. mem(p) = {packs[p].members[j] : j \in 1 .. Len(packs[p].members)}
      BY <1>4
    <3> QED
      BY <3>1
  <2>2. PICK j \in 1 .. Len(packs[q].members) : x = packs[q].members[j]
    BY <1>4, <1>7
  <2>3. p \in 1 .. Len(packs) /\ q \in 1 .. Len(packs) /\ packs[p].members[i] = packs[q].members[j]
    BY <2>1, <2>2 DEF L
  <2> QED
    BY <2>3, HoldsApart
<1> HIDE DEF mem
<1>8. (1 .. m) \ taken = UNION P
  <2>1. ASSUME NEW x \in 1 .. m, x \notin taken PROVE x \in UNION P
    <3>1. PICK p \in 1 .. L : x \in mem(p)
      BY <1>6
    <3>2. p \notin dealt
      BY <1>5, <2>1, <3>1
    <3> QED
      BY <3>1, <3>2
  <2>2. ASSUME NEW x \in UNION P PROVE x \in (1 .. m) \ taken
    <3>1. PICK p \in rest : x \in mem(p)
      BY <2>2
    <3>2. x \in 1 .. m
      BY <1>6, <3>1
    <3>3. x \notin taken
      <4> SUFFICES ASSUME x \in taken PROVE FALSE
        OBVIOUS
      <4>1. PICK q \in dealt : x \in mem(q)
        BY <1>5
      <4>2. p = q
        BY <1>3, <1>7, <3>1, <4>1
      <4> QED
        BY <3>1, <4>1, <4>2
    <3> QED
      BY <3>2, <3>3
  <2> QED
    BY <2>1, <2>2
<1>9. IsFiniteSet(rest) /\ Cardinality(rest) \in Nat /\ Cardinality(rest) < n
  <2>1. /\ IsFiniteSet(1 .. L) /\ Cardinality(1 .. L) = L
        /\ IsFiniteSet(1 .. K) /\ Cardinality(1 .. K) = K
    <3>1. \A a \in Nat : IsFiniteSet(1 .. a) /\ Cardinality(1 .. a) = a
      <4> SUFFICES ASSUME NEW a \in Nat PROVE IsFiniteSet(1 .. a) /\ Cardinality(1 .. a) = a
        OBVIOUS
      <4>1. IsFiniteSet(1 .. a) /\ Cardinality(1 .. a) = IF 1 > a THEN 0 ELSE a - 1 + 1
        <5>1. 1 \in Int /\ a \in Int
          OBVIOUS
        <5> QED
          BY <5>1, FS_Interval, Zenon
      <4> QED
        BY <4>1
    <3> QED
      BY <1>2, <3>1
  <2>2. IsFiniteSet(dealt) /\ Cardinality(dealt) \in Nat
    BY <1>3, <2>1, FS_Subset, FS_CardinalityType
  <2>3. order \in Injection(1 .. K, dealt)
    <3>1. order \in [1 .. K -> dealt]
      BY <1>1
    <3>2. \A j, k \in DOMAIN order : order[j] = order[k] => j = k
      BY <1>1
    <3> QED
      BY <3>1, <3>2 DEF Injection, IsInjective
  <2> HIDE DEF dealt
  <2>4. K <= Cardinality(dealt)
    BY <2>1, <2>2, <2>3, FS_Injection
  <2>5. (1 .. L) \cap dealt = dealt
    BY <1>3
  <2>6. IsFiniteSet(rest) /\ Cardinality(rest) = L - Cardinality(dealt)
    <3>1. /\ IsFiniteSet((1 .. L) \ dealt)
          /\ Cardinality((1 .. L) \ dealt) = Cardinality(1 .. L) - Cardinality((1 .. L) \cap dealt)
      BY <2>1, FS_Difference, Zenon
    <3> QED
      BY <2>1, <2>5, <3>1
  <2> HIDE DEF rest
  <2>7. Cardinality(rest) \in Nat
    BY <2>6, FS_CardinalityType
  <2>8. L < K + n
    BY DEF L
  <2> QED
    BY <1>2, <2>2, <2>4, <2>6, <2>7, <2>8
<1>10. Cardinality(P) < n
  <2> DEFINE f == [p \in rest |-> mem(p)]
  <2>1. f \in Surjection(rest, P)
    BY DEF Surjection
  <2> HIDE DEF f, P, rest
  <2>2. IsFiniteSet(P) /\ Cardinality(P) <= Cardinality(rest)
    BY <1>9, <2>1, FS_Surjection
  <2>3. Cardinality(P) \in Nat
    BY <2>2, FS_CardinalityType
  <2> QED
    BY <1>9, <2>2, <2>3
<1>11. P \in SUBSET {mem(p) : p \in 1 .. L}
  OBVIOUS
<1>12. P \in SUBSET {ToSet(packs[p].members) : p \in DOMAIN packs}
  BY <1>2, <1>11 DEF mem
<1> HIDE DEF P
<1> QED
  BY <1>8, <1>10, <1>12 DEF LeftOver

\* The t-th pack of the k-th step is dealt in its turn.
DealtInTurn(steps, d, n, k, t) ==
    (k - 1) * n + t \in 1 .. d * n /\ Dealing(steps, d, n)[(k - 1) * n + t] = steps[k][t]

\* Where the t-th pack of the k-th step is dealt.
LEMMA DealingAt ==
    ASSUME NEW steps, NEW d \in Nat, NEW n \in Nat \ {0}, NEW k \in 1 .. d, NEW t \in 1 .. n
    PROVE  DealtInTurn(steps, d, n, k, t)
<1> DEFINE q == k - 1
           m == t - 1
           x == q * n
           y == d * n
           j == x + t
<1>1. q \in Nat /\ q + 1 = k /\ m \in 0 .. n - 1 /\ m + 1 = t
  OBVIOUS
<1> HIDE DEF q, m
<1>2. x \in Nat /\ n * q = x /\ n * k = x + n /\ n * d = y /\ y \in Nat
  <2>1. n * (q + 1) = n * q + n
    BY <1>1
  <2> QED
    BY <1>1, <2>1
<1>3. n * k <= n * d
  BY MulMono
<1>4. (n * q + m) \div n = q /\ (n * q + m) % n = m
  BY <1>1, DivisionUnique
<1> HIDE DEF x, y
<1>5. j \in 1 .. y /\ j - 1 = x + m
  BY <1>1, <1>2, <1>3
<1> HIDE DEF j
<1>6. (j - 1) \div n = q /\ (j - 1) % n = m
  BY <1>2, <1>4, <1>5, Zenon
<1>7. Dealing(steps, d, n)[j] = steps[((j - 1) \div n) + 1][((j - 1) % n) + 1]
  BY <1>5 DEF Dealing, y
<1>8. Dealing(steps, d, n)[j] = steps[k][t]
  BY <1>1, <1>6, <1>7, Zenon
<1> QED
  BY <1>5, <1>8 DEF DealtInTurn, j, x, q, y

\* The members of the packs of d steps: step by step, and in the order dealt.
ByStep(packs, steps, d, n) == [k \in 1 .. d |-> [t \in 1 .. n |-> packs[steps[k][t]].members]]
InTurn(packs, steps, d, n) == [j \in 1 .. d * n |-> packs[Dealing(steps, d, n)[j]].members]

\* Both are the same lists in the same order.
LEMMA DealingFlat ==
    ASSUME NEW m \in Nat, NEW packs \in Seq(PackSet(m)), NEW steps, NEW c \in Nat,
           NEW n \in Nat \ {0}, IsPlanned(packs, steps, c, n), NEW d \in 0 .. c
    PROVE  FlattenSeq(ByStep(packs, steps, d, n)) = InTurn(packs, steps, d, n)
<1> DEFINE mem(p) == packs[p].members
           deal == Dealing(steps, d, n)
           f == [j \in 1 .. d * n |-> mem(deal[j])]
           part(k) == [t \in 1 .. n |-> mem(steps[k][t])]
           parts == [k \in 1 .. d |-> part(k)]
           S == {f[j] : j \in 1 .. d * n}
<1>1. d \in Nat
  OBVIOUS
<1>2. ASSUME NEW k \in 1 .. d, NEW t \in 1 .. n
      PROVE  (k - 1) * n + t \in 1 .. d * n /\ f[(k - 1) * n + t] = part(k)[t]
  <2> DEFINE j == (k - 1) * n + t
  <2>1. j \in 1 .. d * n /\ deal[j] = steps[k][t]
    <3>1. DealtInTurn(steps, d, n, k, t)
      BY <1>1, DealingAt
    <3> QED
      BY <3>1, Zenon DEF DealtInTurn
  <2> HIDE DEF j, deal, mem
  <2>2. f[j] = mem(steps[k][t]) /\ part(k)[t] = mem(steps[k][t])
    BY <2>1
  <2> HIDE DEF f, part
  <2> QED
    BY <2>1, <2>2 DEF j
<1>3. f = [j \in 1 .. d * n |-> f[j]]
  <2> HIDE DEF mem, deal
  <2> QED
    OBVIOUS
<1> HIDE DEF f
<1>4. \A k \in 1 .. d : part(k) \in [1 .. n -> S]
  <2> SUFFICES ASSUME NEW k \in 1 .. d PROVE part(k) \in [1 .. n -> S]
    OBVIOUS
  <2>1. \A t \in 1 .. n : part(k)[t] \in S
    BY <1>2
  <2>2. part(k) = [t \in 1 .. n |-> part(k)[t]]
    OBVIOUS
  <2> HIDE DEF S, part
  <2> QED
    BY <2>1, <2>2, Zenon
<1> HIDE DEF part, S
<1>5. \A k \in 1 .. d : part(k) \in Seq(S) /\ Len(part(k)) = n
  BY <1>4, SegmentSeq
<1>6. parts \in [1 .. d -> Seq(S)] /\ \A k \in 1 .. d : parts[k] = part(k)
  BY <1>5
<1> HIDE DEF parts
<1>7. parts \in Seq(Seq(S)) /\ Len(parts) = d
  BY <1>1, <1>6, SegmentSeq
<1>8. CutEvenly(parts, f, d, n)
  <2>1. \A k \in 1 .. d : Len(parts[k]) = n
    BY <1>5, <1>6
  <2>2. \A k \in 1 .. d : \A t \in 1 .. n : parts[k][t] = f[(k - 1) * n + t]
    BY <1>2, <1>6, Zenon
  <2> QED
    BY <1>7, <2>1, <2>2, Zenon DEF CutEvenly, S
<1>9. FlattenSeq(parts) = f
  BY <1>1, <1>3, <1>8, CutFlat, Zenon
<1> QED
  BY <1>9 DEF ByStep, InTurn, parts, part, f, mem, deal

\* Where rank 0 is in its epoch when a step is behind it.
Behind == ((step[0] - 1) % PerEpoch(shape)) + 1

\* It has trained on the packs of the first steps of the epoch's plan.
LEMMA TrainedIs ==
    ASSUME PlansInv, StepsInv, pc[0] = "save"
    PROVE  /\ StepsPerEpoch = PerEpoch(shape) /\ cache[0].packs = Bins(Described)
           /\ PerEpoch(shape) \in Nat \ {0} /\ step[0] \in Nat
           /\ EpochOf(step[0]) \in DOMAIN plans
           /\ Behind \in 1 .. PerEpoch(shape)
           /\ step[0] = EpochOf(step[0]) * PerEpoch(shape) + Behind
           /\ TrainedInEpoch
                  = FlattenSeq([j \in 1 .. Behind * N |->
                        Bins(Described)[Dealing(plans[EpochOf(step[0])].steps, Behind, N)[j]].members])
<1> DEFINE c == PerEpoch(shape)
           s == step[0]
           a == s - 1
           e == a \div c
           first == e * c
           d == Behind
           packs == Bins(Described)
           steps == plans[e].steps
           ups == SubSeq(weights[0], first + 1, s)
<1>0. 0 \in Ranks
  BY PlannerAssumption DEF Ranks
<1>1. /\ s \in Nat /\ s >= 1 /\ weights[0] = History(plans, shape, s)
      /\ \A k \in 1 .. s : HasStep(plans, shape, k - 1)
  BY <1>0 DEF StepsInv, InStep
<1>2. /\ cache[0].packs = packs /\ N = World * shape.ga * shape.mb /\ N \in Nat \ {0}
  <2>1. cache[0].key \in DOMAIN plans /\ cache[0] = PlanFor(cache[0].key)
    BY <1>0 DEF PlansInv, StepsInv
  <2>2. cache[0].packs = plans[cache[0].key].packs
    BY <2>1 DEF PlanFor
  <2>3. N \in Nat \ {0}
    BY StepSize DEF PlansInv
  <2> QED
    BY <2>1, <2>2, <2>3, EpochIs
<1>3. StepsPerEpoch = c
  BY <1>2, Zenon DEF StepsPerEpoch, PerEpoch
<1>4. EpochOf(s) = e
  BY <1>3, Zenon DEF EpochOf
<1>5. c \in Nat \ {0} /\ e \in DOMAIN plans
  <2>1. HasStep(plans, shape, a)
    BY <1>1
  <2> QED
    BY <2>1, Zenon DEF HasStep
<1>6. e \in Nat /\ a \in Nat /\ s = a + 1
  BY <1>1, <1>5 DEF PlansInv
<1>7. a = c * e + (a % c) /\ (a % c) \in 0 .. c - 1
  <2> HIDE DEF c, a
  <2> QED
    BY <1>5, <1>6, DivisionParts
<1>8. d = (a % c) + 1
  BY Zenon DEF Behind
<1>9. IsPlanned(packs, steps, c, N)
  BY <1>5, EpochIs
<1> HIDE DEF c, a, e, packs
<1>10. first \in Nat /\ first = c * e
  BY <1>5, <1>6
<1> DEFINE m == a % c
<1> HIDE DEF first
<1>11. d \in 1 .. c /\ s = first + d /\ first + d <= s /\ d \in Nat
  <2> HIDE DEF m
  <2>1. d = m + 1 /\ m \in 0 .. c - 1 /\ a = c * e + m
    BY <1>7, <1>8, Zenon DEF m
  <2>2. a = first + m
    BY <1>10, <2>1, Zenon
  <2> QED
    BY <1>5, <1>6, <1>10, <2>1, <2>2
<1> HIDE DEF m, d
<1>12. \A k \in 1 .. d : Planned(plans, shape, first + k - 1) = steps[k]
  <2> SUFFICES ASSUME NEW k \in 1 .. d PROVE Planned(plans, shape, first + k - 1) = steps[k]
    OBVIOUS
  <2> DEFINE u == k - 1
             b == first + k - 1
  <2>1. u \in 0 .. c - 1 /\ e \in Int /\ u + 1 = k
    BY <1>5, <1>6, <1>11
  <2>2. (c * e + u) \div c = e /\ (c * e + u) % c = u
    BY <1>5, <2>1, DivisionUnique
  <2>3. b = c * e + u
    <3>1. b = first + u
      BY <1>10, <2>1
    <3> QED
      BY <1>10, <3>1, Zenon
  <2> HIDE DEF u, b
  <2>4. Planned(plans, shape, b) = plans[e].steps[u + 1]
    BY <2>2, <2>3, Zenon DEF Planned, c
  <2> QED
    BY <2>1, <2>4, Zenon DEF b
<1>13. /\ DOMAIN ups = 1 .. d
       /\ \A k \in 1 .. d : ups[k] = UpdateOf(plans, shape, first + k - 1)
  <2> DEFINE of(k) == UpdateOf(plans, shape, k - 1)
             w == weights[0]
             S == {of(k) : k \in 1 .. s}
  <2>1. w = [k \in 1 .. s |-> of(k)]
    BY <1>1, Zenon DEF History
  <2> HIDE DEF of
  <2>2. w \in [1 .. s -> S]
    BY <2>1
  <2>3. \A k \in 1 .. s : w[k] = of(k)
    BY <2>1
  <2> HIDE DEF w, S
  <2>4. w \in Seq(S) /\ Len(w) = s
    BY <1>1, <2>2, SegmentSeq
  <2>5. IsPart(ups, w, first, d)
    BY <1>10, <1>11, <2>4 DEF IsPart, w
  <2> HIDE DEF ups, s
  <2>6. ups \in Seq(S) /\ Len(ups) = d /\ \A k \in 1 .. d : ups[k] = w[first + k]
    BY <2>4, <2>5, PartIs
  <2>7. DOMAIN ups = 1 .. d
    BY <2>6
  <2>8. \A k \in 1 .. d : first + k \in 1 .. s
    BY <1>10, <1>11
  <2>9. \A k \in 1 .. d : ups[k] = of(first + k)
    BY <2>3, <2>6, <2>8
  <2> QED
    <3>1. \A k \in 1 .. d : of(first + k) = UpdateOf(plans, shape, first + k - 1)
      <4> SUFFICES ASSUME NEW k \in 1 .. d PROVE of(first + k) = UpdateOf(plans, shape, first + k - 1)
        OBVIOUS
      <4>1. (first + k) - 1 = first + k - 1
        BY <1>10
      <4>2. of(first + k) = UpdateOf(plans, shape, (first + k) - 1)
        BY Zenon DEF of
      <4> QED
        BY <4>1, <4>2, Zenon
    <3> QED
      BY <2>7, <2>9, <3>1, Zenon
<1>14. \A k \in 1 .. d : PacksOf(ups[k]) = [t \in 1 .. N |-> packs[steps[k][t]].members]
  <2> SUFFICES ASSUME NEW k \in 1 .. d
               PROVE  PacksOf(ups[k]) = [t \in 1 .. N |-> packs[steps[k][t]].members]
    OBVIOUS
  <2> DEFINE b == first + k - 1
  <2>1. b \in Nat
    BY <1>10, <1>11
  <2> HIDE DEF b
  <2>2. PacksOf(UpdateOf(plans, shape, b)) = StepPacks(plans, shape, b)
    BY <2>1, UpdateIsStep
  <2>3. StepPacks(plans, shape, b) = [t \in 1 .. N |-> packs[Planned(plans, shape, b)[t]].members]
    BY <1>2, Zenon DEF StepPacks, packs
  <2>4. ups[k] = UpdateOf(plans, shape, b) /\ Planned(plans, shape, b) = steps[k]
    BY <1>12, <1>13 DEF b
  <2> HIDE DEF ups, steps
  <2> QED
    BY <2>2, <2>3, <2>4, Zenon
<1> DEFINE inner == [k \in 1 .. d |-> [t \in 1 .. N |-> packs[steps[k][t]].members]]
           deal == [j \in 1 .. d * N |-> packs[Dealing(steps, d, N)[j]].members]
<1>15. TrainedInEpoch = FlattenSeq(FlattenSeq([k \in DOMAIN ups |-> PacksOf(ups[k])]))
  BY <1>3, <1>4, Zenon DEF TrainedInEpoch, first
<1>16. [k \in DOMAIN ups |-> PacksOf(ups[k])] = inner
  <2> HIDE DEF ups, steps
  <2> QED
    BY <1>13, <1>14
<1>17. FlattenSeq(inner) = deal
  <2>1. packs \in Seq(PackSet(Size)) /\ Size \in Nat
    BY PacksAre, DatasetIs DEF packs
  <2>2. d \in 0 .. c /\ c \in Nat
    BY <1>5, <1>11
  <2>3. N \in Nat \ {0} /\ IsPlanned(packs, steps, c, N)
    BY <1>2, <1>9
  <2>4. inner = ByStep(packs, steps, d, N) /\ deal = InTurn(packs, steps, d, N)
    BY Zenon DEF ByStep, InTurn
  <2> HIDE DEF steps, inner, deal
  <2>5. FlattenSeq(ByStep(packs, steps, d, N)) = InTurn(packs, steps, d, N)
    BY <2>1, <2>2, <2>3, DealingFlat
  <2> QED
    BY <2>4, <2>5, Zenon
<1>18. TrainedInEpoch = FlattenSeq(deal)
  <2> HIDE DEF inner, deal, ups
  <2> QED
    BY <1>15, <1>16, <1>17, Zenon
<1>19. s = EpochOf(s) * c + d
  BY <1>4, <1>11, Zenon DEF first
<1> HIDE DEF deal
<1>20. TrainedInEpoch
           = FlattenSeq([j \in 1 .. d * N |-> packs[Dealing(plans[EpochOf(s)].steps, d, N)[j]].members])
  BY <1>4, <1>18, Zenon DEF deal, steps
<1> QED
  BY <1>1, <1>2, <1>3, <1>4, <1>5, <1>11, <1>19, <1>20, Zenon DEF c, packs, d

\* data.py: "drop tail that can't fill a full step"; train_sft.py: "every
\* example + sink must stay <= max_len": whatever the dataset, the ranks and the
\* shuffles, an epoch trains on no example twice, and what it leaves out when it
\* ends are the examples of fewer packs than a step takes.
THEOREM CoveredExamples == ShufflePermutes => (Spec => []EpochCoversExamples)
<1>1. PlansInv /\ StepsInv => EpochCoversExamples
  <2> SUFFICES ASSUME PlansInv, StepsInv, pc[0] = "save"
               PROVE  LET left == DOMAIN ds.examples \ ToSet(TrainedInEpoch)
                          packs == {ToSet(cache[0].packs[p].members) : p \in DOMAIN cache[0].packs}
                      IN  /\ IsInjective(TrainedInEpoch)
                          /\ step[0] % StepsPerEpoch = 0 =>
                                \E P \in SUBSET packs : Cardinality(P) < N /\ left = UNION P
    BY DEF EpochCoversExamples
  <2> DEFINE c == PerEpoch(shape)
             s == step[0]
             e == EpochOf(s)
             d == Behind
             packs == Bins(Described)
             order == Dealing(plans[e].steps, d, N)
             K == d * N
             taken == UNION {ToSet(packs[order[j]].members) : j \in 1 .. K}
  <2>1. /\ StepsPerEpoch = c /\ cache[0].packs = packs /\ c \in Nat \ {0} /\ s \in Nat
        /\ e \in DOMAIN plans /\ d \in 1 .. c /\ s = e * c + d
        /\ TrainedInEpoch = MembersOf(packs, order, K)
    BY TrainedIs, Zenon DEF MembersOf
  <2>2. N \in Nat \ {0}
    BY StepSize DEF PlansInv
  <2>3. packs \in Seq(PackSet(Size)) /\ Holds(packs, 1 .. Size) /\ Size \in Nat
    BY PacksAre, DatasetIs
  <2>4. DOMAIN ds.examples = 1 .. Size
    BY DatasetIs DEF PlansInv
  <2>5. IsPlanned(packs, plans[e].steps, c, N) /\ e \in Nat
    BY <2>1, EpochIs
  <2>6. c = Len(packs) \div N
    BY EpochIs, Zenon DEF PerEpoch
  <2> HIDE DEF c, s, e, d, packs
  <2>7. IsOrder(order, packs, K) /\ d \in Nat
    <3>1. d \in 0 .. c /\ c \in Nat
      BY <2>1
    <3>2. d \in Nat
      BY <3>1
    <3> QED
      BY <2>2, <2>5, <3>1, <3>2, DealingApart
  <2>8. K \in Nat
    BY <2>2, <2>7
  <2> HIDE DEF order, K
  <2>9. IsInjective(MembersOf(packs, order, K)) /\ ToSet(MembersOf(packs, order, K)) = taken
    <3>1. /\ IsInjective(MembersOf(packs, order, K))
          /\ ToSet(MembersOf(packs, order, K)) = MemberSet(packs, order, K)
      BY <2>3, <2>7, <2>8, MembersFlat
    <3> QED
      BY <3>1, Zenon DEF MemberSet
  <2>10. ASSUME s % c = 0 PROVE LeftOver(packs, taken, Size, N)
    <3>1. d = c
      <4> SUFFICES ASSUME d # c PROVE FALSE
        OBVIOUS
      <4>1. d \in 0 .. c - 1 /\ e \in Int
        BY <2>1, <2>5
      <4>2. (c * e + d) % c = d
        BY <2>1, <4>1, DivisionUnique
      <4>3. c * e = e * c
        BY <2>1, <2>5
      <4>4. s % c = d
        BY <2>1, <4>2, <4>3, Zenon
      <4>5. d = 0
        BY <2>10, <4>4
      <4> QED
        BY <2>1, <4>5
    <3>2. Len(packs) < K + N
      <4> DEFINE L == Len(packs)
                 m == L % N
      <4>1. L \in Nat
        BY <2>3
      <4>2. c = L \div N
        BY <2>6
      <4> HIDE DEF L
      <4>3. m \in 0 .. N - 1 /\ L = N * (L \div N) + m
        BY <2>2, <4>1, DivisionParts
      <4> HIDE DEF m
      <4>4. L = N * c + m
        BY <4>2, <4>3, Zenon
      <4>5. K = c * N
        BY <3>1 DEF K
      <4>6. N * c = c * N /\ N * c \in Nat
        BY <2>1, <2>2
      <4>7. L = K + m
        BY <4>4, <4>5, <4>6, Zenon
      <4>8. L < K + N
        BY <2>2, <2>8, <4>3, <4>7
      <4> QED
        BY <4>8 DEF L
    <3> QED
      BY <2>2, <2>3, <2>7, <2>8, <3>2, FewPacksLeft
  <2> HIDE DEF taken
  <2>11. /\ IsInjective(TrainedInEpoch) /\ ToSet(TrainedInEpoch) = taken
    BY <2>1, <2>9, Zenon
  <2>12. ASSUME s % StepsPerEpoch = 0
         PROVE  \E P \in SUBSET {ToSet(cache[0].packs[p].members) : p \in DOMAIN cache[0].packs} :
                    Cardinality(P) < N /\ DOMAIN ds.examples \ ToSet(TrainedInEpoch) = UNION P
    <3>1. s % c = 0
      BY <2>1, <2>12, Zenon
    <3>2. LeftOver(cache[0].packs, ToSet(TrainedInEpoch), Size, N)
      BY <2>1, <2>10, <2>11, <3>1, Zenon
    <3>3. \E P \in SUBSET {ToSet(cache[0].packs[p].members) : p \in DOMAIN cache[0].packs} :
              Cardinality(P) < N /\ (1 .. Size) \ ToSet(TrainedInEpoch) = UNION P
      BY <3>2, Zenon DEF LeftOver
    <3> QED
      BY <2>4, <3>3, Zenon
  <2> QED
    BY <2>11, <2>12, Zenon DEF s
<1> QED
  BY <1>1, PlansKept, StepsKept, PTL

-----------------------------------------------------------------------------
\* A packed row.

\* Documents with a chunk and an evict step for each token.
AreDocs(docs, n) ==
    /\ n \in Nat /\ Len(docs) = n
    /\ \A i \in 1 .. n : /\ docs[i].len \in Nat
                         /\ docs[i].chunk \in [1 .. docs[i].len -> Nat]
                         /\ docs[i].step \in [1 .. docs[i].len -> Nat]

\* A field of a row: the parts where the documents stand, then the pad span.
HoldsField(field, parts, docs, tail) ==
    /\ \A i \in 1 .. Len(docs) : \A t \in 1 .. docs[i].len :
          field[Offset(docs, i) + t] = parts[i][t]
    /\ \A q \in 1 .. Len(tail) : field[Used(docs) + q] = tail[q]

\* The documents of a pack have lengths.
LEMMA DocLengths ==
    ASSUME NEW docs, NEW n, AreDocs(docs, n)
    PROVE  Len(docs) \in Nat /\ \A j \in 1 .. Len(docs) : docs[j].len \in Nat
BY DEF AreDocs

\* Parts the size of the documents, flattened, and a tail.
LEMMA FieldIs ==
    ASSUME NEW docs, NEW n, AreDocs(docs, n), NEW S, NEW parts,
           parts = [i \in 1 .. n |-> parts[i]],
           \A i \in 1 .. n : parts[i] \in [1 .. docs[i].len -> S],
           NEW m \in Nat, NEW tail \in [1 .. m -> S]
    PROVE  HoldsField(FlattenSeq(parts) \o tail, parts, docs, tail)
<1> DEFINE flat == FlattenSeq(parts)
           len(i) == docs[i].len
           u == Used(docs)
<1>1. n \in Nat /\ Len(docs) = n /\ \A i \in 1 .. n : len(i) \in Nat
  BY DEF AreDocs
<1>2. \A i \in 1 .. n : parts[i] \in [1 .. len(i) -> S]
  OBVIOUS
<1> HIDE DEF len
<1>3. \A i \in 1 .. n : parts[i] \in Seq(S) /\ Len(parts[i]) = len(i)
  BY <1>1, <1>2, SegmentSeq
<1>4. parts \in [1 .. n -> Seq(S)]
  BY <1>3
<1>5. parts \in Seq(Seq(S)) /\ Len(parts) = n
  BY <1>1, <1>4, SegmentSeq
<1>6. Lays(docs, parts)
  BY <1>1, <1>3, <1>5 DEF Lays, len
<1>7. IsFlat(flat, parts, docs, S)
  BY <1>5, <1>6, FlattenPlaces
<1>8. tail \in Seq(S) /\ Len(tail) = m
  BY SegmentSeq
<1> HIDE DEF flat, u
<1>9. flat \in Seq(S) /\ Len(flat) = u
  BY <1>7 DEF IsFlat, u
<1>10. \A i \in 1 .. n : \A t \in 1 .. len(i) : flat[Offset(docs, i) + t] = parts[i][t]
  BY <1>3, <1>5, <1>7 DEF IsFlat
<1>11. u \in Nat
  BY <1>9
<1>12. ASSUME NEW q \in 1 .. u PROVE (flat \o tail)[q] = flat[q]
  BY <1>8, <1>9
<1>13. ASSUME NEW q \in 1 .. m PROVE (flat \o tail)[u + q] = tail[q]
  BY <1>8, <1>9
<1>14. ASSUME NEW i \in 1 .. n, NEW t \in 1 .. len(i) PROVE Offset(docs, i) + t \in 1 .. u
  <2>1. Len(docs) \in Nat /\ \A j \in 1 .. Len(docs) : docs[j].len \in Nat
    BY DocLengths
  <2> QED
    BY <1>1, <2>1, PlaceBound DEF u, len
<1> QED
  BY <1>1, <1>8, <1>10, <1>12, <1>13, <1>14 DEF HoldsField, flat, u, len

\* Where a token of a document stands in a row, and what the row says of it.
TokenAt(row, docs, i, t) ==
    /\ row.seq[Offset(docs, i) + t] = i - 1
    /\ row.pos[Offset(docs, i) + t] = t - 1
    /\ row.chunk[Offset(docs, i) + t] = docs[i].chunk[t]
    /\ row.step[Offset(docs, i) + t] = docs[i].step[t]

\* What the row says of the pad span.
PadAt(row, docs, q) == row.seq[q] = Len(docs)

\* Every token of every document is where its document is.
LEMMA RowTokens ==
    ASSUME NEW docs, NEW n, AreDocs(docs, n), NEW total \in Nat, Used(docs) <= total
    PROVE  /\ \A i \in 1 .. n : \A t \in 1 .. docs[i].len : TokenAt(RowOf(docs, total), docs, i, t)
           /\ \A q \in Used(docs) + 1 .. total : PadAt(RowOf(docs, total), docs, q)
<1> DEFINE u == Used(docs)
           pad == total - u
           len(i) == docs[i].len
           row == RowOf(docs, total)
           seqs == [i \in 1 .. n |-> Fill(docs[i].len, i - 1)]
           poss == [i \in 1 .. n |-> Count(docs[i].len)]
           chunks == [i \in 1 .. n |-> docs[i].chunk]
           steps == [i \in 1 .. n |-> docs[i].step]
<1>1. n \in Nat /\ Len(docs) = n /\ \A i \in 1 .. n : len(i) \in Nat
  BY DEF AreDocs
<1>2. u \in Nat /\ pad \in Nat
  <2>1. Offset(docs, Len(docs) + 1) \in Nat
    <3>1. Len(docs) \in Nat /\ \A j \in 1 .. Len(docs) : docs[j].len \in Nat
      BY DocLengths
    <3>2. Len(docs) + 1 \in 1 .. Len(docs) + 1
      BY <3>1
    <3> QED
      BY <3>1, <3>2, OffsetIs
  <2> QED
    BY <2>1 DEF Used
<1>3. /\ row.seq = FlattenSeq(seqs) \o Fill(pad, n)
      /\ row.pos = FlattenSeq(poss) \o Count(pad)
      /\ row.chunk = FlattenSeq(chunks) \o Fill(pad, 0)
      /\ row.step = FlattenSeq(steps) \o Fill(pad, Inf)
  BY <1>1 DEF RowOf
<1> HIDE DEF pad, u, row
<1>4. HoldsField(row.seq, seqs, docs, Fill(pad, n))
  <2> DEFINE w == Fill(pad, n)
  <2>1. w \in [1 .. pad -> Int]
    BY <1>1 DEF Fill
  <2>2. \A i \in 1 .. n : seqs[i] \in [1 .. docs[i].len -> Int]
    BY DEF Fill
  <2>3. seqs = [i \in 1 .. n |-> seqs[i]]
    OBVIOUS
  <2> HIDE DEF seqs, w
  <2>4. HoldsField(FlattenSeq(seqs) \o w, seqs, docs, w)
    BY <1>2, <2>1, <2>2, <2>3, FieldIs
  <2> QED
    BY <1>3, <2>4, Zenon DEF w
<1>5. HoldsField(row.pos, poss, docs, Count(pad))
  <2> DEFINE w == Count(pad)
  <2>1. w \in [1 .. pad -> Int]
    BY DEF Count
  <2>2. \A i \in 1 .. n : poss[i] \in [1 .. docs[i].len -> Int]
    BY DEF Count
  <2>3. poss = [i \in 1 .. n |-> poss[i]]
    OBVIOUS
  <2> HIDE DEF poss, w
  <2>4. HoldsField(FlattenSeq(poss) \o w, poss, docs, w)
    BY <1>2, <2>1, <2>2, <2>3, FieldIs
  <2> QED
    BY <1>3, <2>4, Zenon DEF w
<1>6. HoldsField(row.chunk, chunks, docs, Fill(pad, 0))
  <2> DEFINE w == Fill(pad, 0)
  <2>1. w \in [1 .. pad -> Nat]
    BY DEF Fill
  <2>2. \A i \in 1 .. n : chunks[i] \in [1 .. docs[i].len -> Nat]
    BY DEF AreDocs
  <2>3. chunks = [i \in 1 .. n |-> chunks[i]]
    OBVIOUS
  <2> HIDE DEF chunks, w
  <2>4. HoldsField(FlattenSeq(chunks) \o w, chunks, docs, w)
    BY <1>2, <2>1, <2>2, <2>3, FieldIs
  <2> QED
    BY <1>3, <2>4, Zenon DEF w
<1>7. HoldsField(row.step, steps, docs, Fill(pad, Inf))
  <2> DEFINE w == Fill(pad, Inf)
  <2>1. w \in [1 .. pad -> Nat]
    BY DEF Fill, Inf
  <2>2. \A i \in 1 .. n : steps[i] \in [1 .. docs[i].len -> Nat]
    BY DEF AreDocs
  <2>3. steps = [i \in 1 .. n |-> steps[i]]
    OBVIOUS
  <2> HIDE DEF steps, w
  <2>4. HoldsField(FlattenSeq(steps) \o w, steps, docs, w)
    BY <1>2, <2>1, <2>2, <2>3, FieldIs
  <2> QED
    BY <1>3, <2>4, Zenon DEF w
<1>8. ASSUME NEW i \in 1 .. n, NEW t \in 1 .. len(i)
      PROVE  /\ seqs[i][t] = i - 1 /\ poss[i][t] = t - 1
             /\ chunks[i][t] = docs[i].chunk[t] /\ steps[i][t] = docs[i].step[t]
  BY DEF Fill, Count
<1>9. ASSUME NEW i \in 1 .. n, NEW t \in 1 .. len(i) PROVE TokenAt(row, docs, i, t)
  <2> HIDE DEF seqs, poss, chunks, steps
  <2>1. i \in 1 .. Len(docs) /\ t \in 1 .. docs[i].len
    BY <1>1
  <2>2. /\ row.seq[Offset(docs, i) + t] = seqs[i][t]
        /\ row.pos[Offset(docs, i) + t] = poss[i][t]
        /\ row.chunk[Offset(docs, i) + t] = chunks[i][t]
        /\ row.step[Offset(docs, i) + t] = steps[i][t]
    BY <1>4, <1>5, <1>6, <1>7, <2>1, ZenonT(30) DEF HoldsField
  <2> QED
    BY <1>8, <2>2, Zenon DEF TokenAt
<1>10. ASSUME NEW q \in u + 1 .. total PROVE PadAt(row, docs, q)
  <2> DEFINE k == q - u
             w == Fill(pad, n)
  <2>1. k \in 1 .. pad /\ u + k = q
    BY <1>2 DEF pad
  <2>2. w \in [1 .. pad -> {n}]
    BY DEF Fill
  <2> HIDE DEF k, w
  <2>3. Len(w) = pad /\ w[k] = n
    BY <1>2, <2>1, <2>2, SegmentSeq
  <2>4. row.seq[u + k] = w[k]
    BY <1>4, <2>1, <2>3 DEF HoldsField, u, w
  <2> QED
    BY <1>1, <2>1, <2>3, <2>4 DEF PadAt
<1> QED
  BY <1>9, <1>10 DEF row, u, len

\* Where the tokens of the documents stand.
LEMMA PlacesIn ==
    ASSUME NEW docs, NEW n, AreDocs(docs, n)
    PROVE  /\ Used(docs) \in Nat /\ Offset(docs, n + 1) = Used(docs)
           /\ \A i \in 1 .. n + 1 : Offset(docs, i) \in 0 .. Used(docs)
           /\ \A i \in 1 .. n : Offset(docs, i + 1) = Offset(docs, i) + docs[i].len
           /\ \A i \in 1 .. n : \A k \in i + 1 .. n + 1 : Offset(docs, i) + docs[i].len <= Offset(docs, k)
           /\ \A q \in 1 .. Used(docs) :
                 \E i \in 1 .. n : \E t \in 1 .. docs[i].len : q = Offset(docs, i) + t
<1> DEFINE off(i) == Offset(docs, i)
           len(i) == docs[i].len
           u == Used(docs)
<1>1. n \in Nat /\ Len(docs) = n /\ \A i \in 1 .. n : len(i) \in Nat
  BY DEF AreDocs
<1>2. Len(docs) \in Nat /\ \A j \in 1 .. Len(docs) : docs[j].len \in Nat
  BY DocLengths
<1>3. /\ \A i \in 1 .. Len(docs) + 1 : off(i) \in Nat
      /\ \A i \in 1 .. Len(docs) : off(i + 1) = off(i) + docs[i].len
  BY <1>2, OffsetIs
<1>4. u = off(n + 1)
  BY <1>1 DEF Used
<1>5. \A i \in 1 .. Len(docs) : \A k \in i + 1 .. Len(docs) + 1 : off(i) + docs[i].len <= off(k)
  BY <1>2, OffsetMono
<1>6. \A q \in 1 .. Used(docs) : \E i \in 1 .. Len(docs) : \E t \in 1 .. docs[i].len : q = Offset(docs, i) + t
  BY <1>2, PlaceIn
<1> HIDE DEF off, u, len
<1>7. \A i \in 1 .. n : off(i + 1) = off(i) + len(i)
  BY <1>1, <1>3 DEF len
<1>8. \A i \in 1 .. n : \A k \in i + 1 .. n + 1 : off(i) + len(i) <= off(k)
  BY <1>1, <1>5 DEF len
<1>9. \A i \in 1 .. n + 1 : off(i) \in Nat
  BY <1>1, <1>3
<1>10. u \in Nat
  BY <1>1, <1>4, <1>9
<1>11. \A i \in 1 .. n + 1 : off(i) <= u
  <2> SUFFICES ASSUME NEW i \in 1 .. n + 1 PROVE off(i) <= u
    OBVIOUS
  <2>1. CASE i = n + 1
    BY <1>4, <1>10, <2>1
  <2>2. CASE i # n + 1
    <3>1. i \in 1 .. n /\ n + 1 \in i + 1 .. n + 1
      BY <1>1, <2>2
    <3>2. off(i) + len(i) <= off(n + 1) /\ len(i) \in Nat /\ off(i) \in Nat
      BY <1>1, <1>8, <1>9, <3>1
    <3> QED
      BY <1>4, <1>10, <3>2
  <2> QED
    BY <2>1, <2>2
<1>12. \A i \in 1 .. n + 1 : off(i) \in 0 .. u
  BY <1>9, <1>10, <1>11
<1> QED
  BY <1>1, <1>4, <1>6, <1>7, <1>8, <1>10, <1>12 DEF off, len, u

\* A token sees, of the row, what its own document's schedule leaves to it.
Sees(row, docs, i, t) ==
    /\ Visible(row, Offset(docs, i) + t)
           = {Offset(docs, i) + u : u \in {u \in 1 .. t : docs[i].step[u] > docs[i].chunk[t]}}
    /\ Scanned(row, Offset(docs, i) + t) = Offset(docs, i) + 1 .. Offset(docs, i) + t

\* No token sees or scans another document.
LEMMA RowViews ==
    ASSUME NEW docs, NEW n, AreDocs(docs, n), NEW total \in Nat, Used(docs) <= total,
           NEW i \in 1 .. n, NEW t \in 1 .. docs[i].len
    PROVE  Sees(RowOf(docs, total), docs, i, t)
<1> DEFINE row == RowOf(docs, total)
           off(k) == Offset(docs, k)
           len(k) == docs[k].len
           q == off(i) + t
           U == Used(docs)
           shown == {u \in 1 .. t : docs[i].step[u] > docs[i].chunk[t]}
<1>1. \A k \in 1 .. n : \A u \in 1 .. len(k) : TokenAt(row, docs, k, u)
  BY RowTokens
<1>2. n \in Nat /\ \A k \in 1 .. n : len(k) \in Nat
  BY DEF AreDocs
<1>3. /\ U \in Nat /\ off(n + 1) = U
      /\ \A k \in 1 .. n + 1 : off(k) \in 0 .. U
      /\ \A k \in 1 .. n : off(k + 1) = off(k) + len(k)
      /\ \A j \in 1 .. n : \A k \in j + 1 .. n + 1 : off(j) + len(j) <= off(k)
      /\ \A p \in 1 .. U : \E k \in 1 .. n : \E u \in 1 .. len(k) : p = off(k) + u
  BY PlacesIn
<1>4. row.cu = {off(k) : k \in 1 .. n + 1} \cup {total}
  <2>1. Len(docs) = n
    BY DEF AreDocs
  <2> QED
    BY <2>1 DEF RowOf
<1> HIDE DEF row, off, len, U
<1>5. t \in 1 .. len(i)
  BY DEF len
<1>6. q \in 1 .. U /\ off(i) \in Nat /\ off(i) < q /\ q <= off(i) + len(i)
  <2>1. i + 1 \in i + 1 .. n + 1 /\ i \in 1 .. n + 1 /\ i + 1 \in 1 .. n + 1
    BY <1>2
  <2>2. off(i) \in 0 .. U /\ off(i + 1) \in 0 .. U /\ off(i + 1) = off(i) + len(i)
    BY <1>3, <2>1
  <2> QED
    BY <1>2, <1>3, <1>5, <2>2
<1>7. row.seq[q] = i - 1 /\ row.chunk[q] = docs[i].chunk[t]
  BY <1>1, <1>5 DEF TokenAt, off
<1> HIDE DEF q
<1>8. Visible(row, q) = {off(i) + u : u \in shown}
  <2>1. ASSUME NEW p \in Visible(row, q) PROVE p \in {off(i) + u : u \in shown}
    <3>1. p \in 1 .. q /\ row.step[p] > row.chunk[q] /\ row.seq[p] = row.seq[q]
      BY <2>1 DEF Visible
    <3>2. p \in 1 .. U
      BY <1>3, <1>6, <3>1
    <3>3. PICK k \in 1 .. n : \E u \in 1 .. len(k) : p = off(k) + u
      BY <1>3, <3>2
    <3>4. PICK u \in 1 .. len(k) : p = off(k) + u
      BY <3>3
    <3>5. row.seq[p] = k - 1 /\ row.step[p] = docs[k].step[u]
      BY <1>1, <3>4 DEF TokenAt, off
    <3>6. k = i
      BY <1>7, <3>1, <3>5
    <3>7. u \in 1 .. t
      BY <1>6, <3>1, <3>4, <3>6 DEF q
    <3>8. docs[i].step[u] > docs[i].chunk[t]
      BY <1>7, <3>1, <3>5, <3>6
    <3> QED
      BY <3>4, <3>6, <3>7, <3>8
  <2>2. ASSUME NEW u \in shown PROVE off(i) + u \in Visible(row, q)
    <3>1. u \in 1 .. t /\ docs[i].step[u] > docs[i].chunk[t] /\ u \in 1 .. len(i)
      BY <1>2, <1>5
    <3>2. row.seq[off(i) + u] = i - 1 /\ row.step[off(i) + u] = docs[i].step[u]
      BY <1>1, <3>1 DEF TokenAt, off
    <3>3. off(i) + u \in 1 .. q
      BY <1>6, <3>1 DEF q
    <3> QED
      BY <1>7, <3>1, <3>2, <3>3 DEF Visible
  <2> QED
    BY <2>1, <2>2
<1>9. Scanned(row, q) = off(i) + 1 .. q
  <2> DEFINE T == {0} \cup {c \in row.cu : c < q}
  <2>1. \A c \in T : c \in Nat /\ c <= off(i)
    <3> SUFFICES ASSUME NEW c \in row.cu, c < q PROVE c \in Nat /\ c <= off(i)
      BY <1>6
    <3>1. c # total
      BY <1>3, <1>6 DEF U
    <3>2. PICK k \in 1 .. n + 1 : c = off(k)
      BY <1>4, <3>1
    <3>3. c \in Nat
      BY <1>3, <3>2
    <3>4. CASE k > i
      <4>1. k \in i + 1 .. n + 1
        BY <1>2, <3>4
      <4>2. off(i) + len(i) <= c
        BY <1>3, <3>2, <4>1
      <4> QED
        BY <1>2, <1>6, <3>3, <4>2
    <3>5. CASE k = i
      BY <1>6, <3>2, <3>5
    <3>6. CASE k < i
      <4>1. k \in 1 .. n /\ i \in k + 1 .. n + 1
        BY <1>2, <3>6
      <4>2. off(k) + len(k) <= off(i) /\ len(k) \in Nat
        BY <1>2, <1>3, <4>1
      <4> QED
        BY <1>6, <3>2, <3>3, <4>2
    <3> QED
      BY <3>3, <3>4, <3>5, <3>6
  <2>2. off(i) \in T
    <3>1. i \in 1 .. n + 1
      BY <1>2
    <3> QED
      BY <1>4, <1>6, <3>1
  <2>3. T \subseteq Nat /\ T # {} /\ \A c \in T : c <= off(i)
    BY <2>1, <2>2
  <2> HIDE DEF T
  <2>4. Max(T) \in T /\ \A c \in T : c <= Max(T)
    BY <1>6, <2>3, MaxOf
  <2>5. Max(T) = off(i)
    BY <1>6, <2>1, <2>2, <2>4
  <2>6. Scanned(row, q) = Max(T) + 1 .. q
    BY DEF Scanned, T
  <2> QED
    BY <2>5, <2>6, Zenon
<1> QED
  BY <1>8, <1>9, Zenon DEF Sees, q, off, row

\* A place of the pad span reaches no document.
LEMMA PadViews ==
    ASSUME NEW docs, NEW n, AreDocs(docs, n), NEW total \in Nat, Used(docs) <= total,
           NEW q \in Used(docs) + 1 .. total
    PROVE  (Visible(RowOf(docs, total), q) \cup Scanned(RowOf(docs, total), q)) \cap (1 .. Used(docs)) = {}
<1> DEFINE row == RowOf(docs, total)
           off(k) == Offset(docs, k)
           len(k) == docs[k].len
           U == Used(docs)
           T == {0} \cup {c \in row.cu : c < q}
<1>1. /\ \A k \in 1 .. n : \A u \in 1 .. len(k) : TokenAt(row, docs, k, u)
      /\ PadAt(row, docs, q)
  BY RowTokens
<1>2. n \in Nat /\ Len(docs) = n
  BY DEF AreDocs
<1>3. /\ U \in Nat /\ off(n + 1) = U
      /\ \A k \in 1 .. n + 1 : off(k) \in 0 .. U
      /\ \A p \in 1 .. U : \E k \in 1 .. n : \E u \in 1 .. len(k) : p = off(k) + u
  BY PlacesIn
<1>4. row.cu = {off(k) : k \in 1 .. n + 1} \cup {total}
  BY <1>2 DEF RowOf
<1> HIDE DEF row, off, len, U
<1>5. q \in Nat /\ U < q /\ q <= total
  BY <1>3 DEF U
<1>6. ASSUME NEW p \in 1 .. U, p \in Visible(row, q) PROVE FALSE
  <2>1. row.seq[p] = n
    BY <1>1, <1>2, <1>6 DEF Visible, PadAt
  <2>2. PICK k \in 1 .. n : \E u \in 1 .. len(k) : p = off(k) + u
    BY <1>3
  <2>3. row.seq[p] = k - 1
    BY <1>1, <2>2 DEF TokenAt, off
  <2> QED
    BY <1>2, <2>1, <2>3
<1>7. ASSUME NEW p \in 1 .. U, p \in Scanned(row, q) PROVE FALSE
  <2>1. U \in T
    <3>1. n + 1 \in 1 .. n + 1
      BY <1>2
    <3> QED
      BY <1>3, <1>4, <1>5, <3>1
  <2>2. T \subseteq Nat /\ \A c \in T : c <= q
    BY <1>3, <1>4, <1>5
  <2>3. Scanned(row, q) = Max(T) + 1 .. q
    BY DEF Scanned
  <2> HIDE DEF T
  <2>4. Max(T) \in T /\ \A c \in T : c <= Max(T)
    BY <1>5, <2>1, <2>2, MaxOf
  <2> DEFINE M == Max(T)
  <2>5. M \in Nat /\ U <= M
    BY <2>1, <2>2, <2>4
  <2>6. p \in M + 1 .. q
    BY <1>7, <2>3, Zenon
  <2> HIDE DEF M
  <2> QED
    BY <1>3, <1>5, <2>5, <2>6
<1> QED
  BY <1>6, <1>7 DEF row, U

-----------------------------------------------------------------------------
\* What a document's own schedule leaves to its tokens.

\* Later chunks start later.
LEMMA BoundsGrow ==
    ASSUME NEW ch, IsChunking(ch)
    PROVE  /\ ch.n \in Nat /\ ch.bound[0] = 0
           /\ \A k \in 0 .. ch.n : ch.bound[k] \in Nat
           /\ \A j, k \in 0 .. ch.n : j <= k => ch.bound[j] <= ch.bound[k]
           /\ \A j, k \in 0 .. ch.n : j < k => ch.bound[j] < ch.bound[k]
<1> DEFINE n == ch.n
           b == ch.bound
<1>1. n \in Nat /\ b \in [0 .. n -> Nat] /\ b[0] = 0 /\ \A j, k \in 0 .. n : j < k => b[j] < b[k]
  BY DEF IsChunking
<1> HIDE DEF n, b
<1>2. \A k \in 0 .. n : b[k] \in Nat
  BY <1>1
<1>3. ASSUME NEW j \in 0 .. n, NEW k \in 0 .. n, j <= k PROVE b[j] <= b[k]
  <2>1. CASE j = k
    BY <1>2, <2>1
  <2>2. CASE j < k
    <3>1. b[j] < b[k] /\ b[j] \in Nat /\ b[k] \in Nat
      BY <1>1, <1>2, <2>2
    <3> QED
      BY <3>1
  <2> QED
    BY <1>3, <2>1, <2>2
<1> QED
  BY <1>1, <1>2, <1>3 DEF n, b

\* What has left attention does not come back.
LEMMA EvictedGrows ==
    ASSUME NEW ch, IsChunking(ch), NEW lim, IsLimits(lim),
           NEW j \in 0 .. ch.n - 1, NEW c \in 0 .. ch.n - 1, NEW d \in 0 .. ch.n - 1, c <= d,
           Evicted(ch, lim, j, c)
    PROVE  Evicted(ch, lim, j, d)
<1> DEFINE b == ch.bound
           sunk == SinkTokens(ch, lim)
<1>1. /\ ch.n \in Nat /\ \A k \in 0 .. ch.n : b[k] \in Nat
      /\ \A i, k \in 0 .. ch.n : i <= k => b[i] <= b[k]
  BY BoundsGrow
<1>2. lim.chunks \in Nat /\ lim.tokens \in Nat /\ lim.sink \in Nat
  BY DEF IsLimits
<1>3. sunk \in Nat
  <2>1. (IF lim.sink < ch.n THEN lim.sink ELSE ch.n) \in 0 .. ch.n
    BY <1>1, <1>2
  <2> HIDE DEF b
  <2> QED
    BY <1>1, <2>1 DEF SinkTokens, b
<1>4. lim.sink <= j /\ j < c /\ Exceeds(ch, lim, j, c)
  BY DEF Evicted
<1> HIDE DEF b, sunk
<1>5. b[j] \in Nat /\ b[c + 1] \in Nat /\ b[d + 1] \in Nat /\ b[c + 1] <= b[d + 1]
  <2>1. j \in 0 .. ch.n /\ c + 1 \in 0 .. ch.n /\ d + 1 \in 0 .. ch.n /\ c + 1 <= d + 1
    BY <1>1
  <2> QED
    BY <1>1, <2>1
<1>6. SpanTokens(ch, j, c) = b[c + 1] - b[j] /\ SpanTokens(ch, j, d) = b[d + 1] - b[j]
  BY DEF SpanTokens, b
<1>7. \/ c - j + 1 > lim.chunks
      \/ lim.tokens > 0 /\ sunk + (b[c + 1] - b[j]) > lim.tokens
  BY <1>4, <1>6, Zenon DEF Exceeds, sunk
<1>8. \/ d - j + 1 > lim.chunks
      \/ lim.tokens > 0 /\ sunk + (b[d + 1] - b[j]) > lim.tokens
  BY <1>2, <1>3, <1>5, <1>7
<1>9. Exceeds(ch, lim, j, d)
  BY <1>6, <1>8, Zenon DEF Exceeds, sunk
<1>10. j < d
  BY <1>4
<1> QED
  BY <1>4, <1>9, <1>10 DEF Evicted

\* evict_at says at which frontiers a chunk is out of attention.
LEMMA EvictAtIs ==
    ASSUME NEW ch, IsChunking(ch), NEW lim, IsLimits(lim),
           NEW j \in 0 .. ch.n - 1, NEW c \in 0 .. ch.n - 1
    PROVE  EvictAt(ch, lim)[j] \in Nat /\ (EvictAt(ch, lim)[j] > c <=> ~Evicted(ch, lim, j, c))
<1> DEFINE steps == {d \in 0 .. ch.n - 1 : Evicted(ch, lim, j, d)}
<1>1. ch.n \in Nat
  BY DEF IsChunking
<1>2. EvictAt(ch, lim)[j] = IF steps = {} THEN ch.n ELSE Min(steps)
  BY DEF EvictAt
<1>3. CASE steps = {}
  BY <1>1, <1>2, <1>3
<1>4. CASE steps # {}
  <2>1. steps \subseteq Nat
    OBVIOUS
  <2> HIDE DEF steps
  <2>2. Min(steps) \in steps /\ \A d \in steps : Min(steps) <= d
    BY <1>4, <2>1, MinOf
  <2> DEFINE m == Min(steps)
  <2>3. EvictAt(ch, lim)[j] = m
    BY <1>2, <1>4
  <2>4. m \in 0 .. ch.n - 1 /\ Evicted(ch, lim, j, m)
    BY <2>2 DEF steps
  <2>5. Evicted(ch, lim, j, c) => m <= c
    BY <2>2 DEF steps
  <2> HIDE DEF m
  <2>6. m <= c => Evicted(ch, lim, j, c)
    BY <2>4, EvictedGrows
  <2> QED
    BY <2>3, <2>4, <2>5, <2>6
<1> QED
  BY <1>3, <1>4

\* A token stands in one chunk.
InChunk(ch, t, k) == k \in 0 .. ch.n - 1 /\ ch.bound[k] <= t /\ t < ch.bound[k + 1]

LEMMA ChunkOfIs ==
    ASSUME NEW ch, IsChunking(ch), NEW t \in 0 .. ch.bound[ch.n] - 1
    PROVE  InChunk(ch, t, ChunkOf(ch, t)) /\ \A k : InChunk(ch, t, k) => k = ChunkOf(ch, t)
<1> DEFINE n == ch.n
           b == ch.bound
           T == {k \in 0 .. n - 1 : b[k] <= t}
           m == Max(T)
<1>1. /\ n \in Nat /\ b[0] = 0 /\ \A k \in 0 .. n : b[k] \in Nat
      /\ \A j, k \in 0 .. n : j <= k => b[j] <= b[k]
  BY BoundsGrow
<1> HIDE DEF b, n
<1>2. t \in Nat /\ t < b[n]
  BY <1>1 DEF b, n
<1>3. 0 \in T
  <2>1. n # 0
    BY <1>1, <1>2
  <2> QED
    BY <1>1, <1>2, <2>1
<1>4. T \subseteq Nat /\ T # {} /\ \A k \in T : k <= n
  BY <1>1, <1>3
<1>5. m \in T /\ \A k \in T : k <= m
  <2> HIDE DEF T
  <2> QED
    BY <1>1, <1>4, MaxOf
<1>6. ChunkOf(ch, t) = m
  BY DEF ChunkOf, b, n
<1>7. m \in 0 .. n - 1 /\ b[m] <= t
  BY <1>5
<1> HIDE DEF m
<1>8. t < b[m + 1]
  <2>1. CASE m + 1 = n
    BY <1>2, <2>1
  <2>2. CASE m + 1 # n
    <3>1. m + 1 \in 0 .. n - 1 /\ m + 1 \notin T
      BY <1>1, <1>5, <1>7, <2>2
    <3>2. ~(b[m + 1] <= t) /\ b[m + 1] \in Nat
      BY <1>1, <3>1
    <3> QED
      BY <1>2, <3>2
  <2> QED
    BY <2>1, <2>2
<1>9. ASSUME NEW k, InChunk(ch, t, k) PROVE k = m
  <2>1. k \in 0 .. n - 1 /\ b[k] <= t /\ t < b[k + 1]
    BY <1>9 DEF InChunk, b, n
  <2>2. k <= m
    BY <1>5, <2>1
  <2>3. ~(k < m)
    <3> SUFFICES ASSUME k < m PROVE FALSE
      OBVIOUS
    <3>1. k + 1 \in 0 .. n /\ m \in 0 .. n /\ k + 1 <= m
      BY <1>1, <1>7, <2>1
    <3>2. b[k + 1] <= b[m] /\ b[k + 1] \in Nat /\ b[m] \in Nat
      BY <1>1, <3>1
    <3> QED
      BY <1>2, <1>7, <2>1, <3>2
  <2> QED
    BY <1>7, <2>1, <2>2, <2>3
<1> QED
  BY <1>6, <1>7, <1>8, <1>9 DEF InChunk, b, n

\* A chunk comes no later than another's with a later token.
LEMMA ChunksGrow ==
    ASSUME NEW ch, IsChunking(ch), NEW t \in 0 .. ch.bound[ch.n] - 1, NEW u \in 0 .. t
    PROVE  u \in 0 .. ch.bound[ch.n] - 1 /\ ChunkOf(ch, u) <= ChunkOf(ch, t)
<1> DEFINE b == ch.bound
           n == ch.n
           p == ChunkOf(ch, u)
           q == ChunkOf(ch, t)
<1>1. /\ n \in Nat /\ \A k \in 0 .. n : b[k] \in Nat
      /\ \A j, k \in 0 .. n : j <= k => b[j] <= b[k]
  BY BoundsGrow
<1> HIDE DEF b, n
<1>2. b[n] \in Nat /\ t \in 0 .. b[n] - 1
  BY <1>1 DEF b, n
<1>3. u \in 0 .. b[n] - 1
  BY <1>2
<1>4. /\ p \in 0 .. n - 1 /\ b[p] <= u /\ u < b[p + 1]
      /\ q \in 0 .. n - 1 /\ b[q] <= t /\ t < b[q + 1]
  BY <1>2, <1>3, ChunkOfIs DEF InChunk, b, n
<1> HIDE DEF p, q
<1>5. ~(q < p)
  <2> SUFFICES ASSUME q < p PROVE FALSE
    OBVIOUS
  <2>1. q + 1 \in 0 .. n /\ p \in 0 .. n /\ q + 1 <= p
    BY <1>1, <1>4
  <2>2. b[q + 1] <= b[p] /\ b[q + 1] \in Nat /\ b[p] \in Nat
    BY <1>1, <2>1
  <2> QED
    BY <1>2, <1>3, <1>4, <2>2
<1>6. p <= q
  BY <1>4, <1>5
<1> QED
  BY <1>3, <1>6 DEF b, n, p, q

\* Not yet evicted when its chunk is the frontier: what the schedule's evict
\* steps leave to a token is all before it but the evicted tokens.
LEMMA ScheduleView ==
    ASSUME NEW ch, IsChunking(ch), NEW lim, IsLimits(lim), NEW t \in 0 .. ch.bound[ch.n] - 1,
           NEW u \in 0 .. t
    PROVE  EvictAt(ch, lim)[ChunkOf(ch, u)] > ChunkOf(ch, t)
               <=> u \notin EvictedTokens(ch, lim, ChunkOf(ch, t))
<1> DEFINE p == ChunkOf(ch, u)
           q == ChunkOf(ch, t)
<1>1. u \in 0 .. ch.bound[ch.n] - 1 /\ p <= q
  BY ChunksGrow
<1>2. InChunk(ch, u, p) /\ InChunk(ch, t, q) /\ \A k : InChunk(ch, u, k) => k = p
  BY <1>1, ChunkOfIs
<1>3. p \in 0 .. ch.n - 1 /\ q \in 0 .. ch.n - 1
  BY <1>2 DEF InChunk
<1>4. ch.n \in Nat /\ \A k \in 0 .. ch.n : ch.bound[k] \in Nat
  BY BoundsGrow
<1> HIDE DEF p, q
<1>5. EvictAt(ch, lim)[p] > q <=> ~Evicted(ch, lim, p, q)
  BY <1>3, EvictAtIs
<1>6. ASSUME u \in EvictedTokens(ch, lim, q) PROVE Evicted(ch, lim, p, q)
  <2>1. PICK j \in {k \in 0 .. q - 1 : Evicted(ch, lim, k, q)} : u \in ChunkTokens(ch, j)
    BY <1>6 DEF EvictedTokens
  <2>2. j \in 0 .. q - 1 /\ Evicted(ch, lim, j, q)
    OBVIOUS
  <2>3. j \in 0 .. ch.n - 1 /\ j \in 0 .. ch.n /\ j + 1 \in 0 .. ch.n
    BY <1>3, <1>4, <2>2
  <2>4. ch.bound[j] \in Nat /\ ch.bound[j + 1] \in Nat /\ u \in ch.bound[j] .. ch.bound[j + 1] - 1
    BY <1>4, <2>1, <2>3 DEF ChunkTokens
  <2>5. ch.bound[j] <= u /\ u < ch.bound[j + 1]
    BY <2>4
  <2>6. j = p
    BY <1>2, <2>3, <2>5 DEF InChunk
  <2> QED
    BY <2>2, <2>6
<1>7. ASSUME Evicted(ch, lim, p, q) PROVE u \in EvictedTokens(ch, lim, q)
  <2>1. p \in 0 .. q - 1
    BY <1>3, <1>7 DEF Evicted
  <2>2. p \in 0 .. ch.n /\ p + 1 \in 0 .. ch.n
    BY <1>3, <1>4
  <2>3. ch.bound[p] \in Nat /\ ch.bound[p + 1] \in Nat /\ ch.bound[p] <= u /\ u < ch.bound[p + 1]
    BY <1>2, <1>4, <2>2 DEF InChunk
  <2>4. u \in ChunkTokens(ch, p)
    BY <2>3 DEF ChunkTokens
  <2> QED
    BY <1>7, <2>1, <2>4 DEF EvictedTokens
<1> QED
  BY <1>5, <1>6, <1>7 DEF p, q

\* A document carries its schedule, token by token.
Carries(d, ch, lim) ==
    /\ d.len = ch.bound[ch.n] /\ d.len \in Nat
    /\ d.chunk \in [1 .. d.len -> Nat] /\ d.step \in [1 .. d.len -> Nat]
    /\ \A t \in 1 .. d.len : /\ d.chunk[t] = ChunkOf(ch, t - 1)
                             /\ d.step[t] = EvictAt(ch, lim)[ChunkOf(ch, t - 1)]

\* per_token_eviction makes such a document.
LEMMA PerTokenIs ==
    ASSUME NEW ch, IsChunking(ch), NEW lim, IsLimits(lim)
    PROVE  Carries(PerToken(ch, lim), ch, lim)
<1> DEFINE n == ch.bound[ch.n]
           of(t) == ChunkOf(ch, t - 1)
           d == PerToken(ch, lim)
           steps == EvictAt(ch, lim)
<1>1. n \in Nat
  <2>1. ch.n \in Nat /\ \A k \in 0 .. ch.n : ch.bound[k] \in Nat
    BY BoundsGrow
  <2> QED
    BY <2>1
<1>2. d.len = n /\ d.chunk = [t \in 1 .. n |-> of(t)] /\ d.step = [t \in 1 .. n |-> steps[of(t)]]
  BY DEF PerToken
<1>3. ASSUME NEW t \in 1 .. n PROVE of(t) \in 0 .. ch.n - 1
  <2>1. t - 1 \in 0 .. n - 1
    BY <1>1
  <2>2. InChunk(ch, t - 1, ChunkOf(ch, t - 1))
    BY <2>1, ChunkOfIs
  <2> QED
    BY <2>2 DEF InChunk
<1> HIDE DEF of, steps, d, n
<1>4. ch.n \in Nat
  BY DEF IsChunking
<1>5. \A t \in 1 .. n : of(t) \in Nat /\ steps[of(t)] \in Nat
  <2> SUFFICES ASSUME NEW t \in 1 .. n PROVE of(t) \in Nat /\ steps[of(t)] \in Nat
    OBVIOUS
  <2>1. of(t) \in 0 .. ch.n - 1
    BY <1>3
  <2> DEFINE j == of(t)
  <2>2. j \in 0 .. ch.n - 1
    BY <2>1
  <2> HIDE DEF j
  <2>3. EvictAt(ch, lim)[j] \in Nat
    BY <2>2, EvictAtIs
  <2> QED
    BY <1>4, <2>2, <2>3 DEF j, steps
<1>6. d.chunk \in [1 .. n -> Nat] /\ d.step \in [1 .. n -> Nat]
  BY <1>2, <1>5
<1>7. \A t \in 1 .. n : d.chunk[t] = of(t) /\ d.step[t] = steps[of(t)]
  BY <1>2
<1> QED
  BY <1>1, <1>2, <1>6, <1>7 DEF Carries, d, steps, of, n

\* The system prompt goes in front of a chunking as a chunk of its own.
LEMMA WithSystemIs ==
    ASSUME NEW ch, IsChunking(ch)
    PROVE  /\ IsChunking(WithSystem(ch))
           /\ WithSystem(ch).bound[WithSystem(ch).n] = SystemLen + ch.bound[ch.n]
<1> DEFINE n == ch.n
           b == ch.bound
<1>1. /\ n \in Nat /\ b[0] = 0 /\ \A k \in 0 .. n : b[k] \in Nat
      /\ \A j, k \in 0 .. n : j < k => b[j] < b[k]
  BY BoundsGrow
<1>2. SystemLen \in Nat
  BY RowAssumption
<1>3. CASE SystemLen = 0
  <2>1. WithSystem(ch) = ch
    BY <1>3 DEF WithSystem
  <2> QED
    BY <1>1, <1>3, <2>1
<1>4. CASE SystemLen # 0
  <2> DEFINE f == [k \in 0 .. n + 1 |-> IF k = 0 THEN 0 ELSE SystemLen + b[k - 1]]
  <2>1. WithSystem(ch).n = n + 1 /\ WithSystem(ch).bound = f
    BY <1>4 DEF WithSystem
  <2> HIDE DEF n, b
  <2>2. \A k \in 1 .. n + 1 : f[k] = SystemLen + b[k - 1] /\ k - 1 \in 0 .. n
    BY <1>1
  <2>3. f[0] = 0 /\ f[n + 1] = SystemLen + b[n]
    <3>1. n + 1 \in 1 .. n + 1 /\ (n + 1) - 1 = n
      BY <1>1
    <3> QED
      BY <1>1, <2>2, <3>1
  <2>4. f = [k \in 0 .. n + 1 |-> f[k]]
    OBVIOUS
  <2> HIDE DEF f
  <2>5. \A k \in 0 .. n + 1 : f[k] \in Nat
    <3> SUFFICES ASSUME NEW k \in 0 .. n + 1 PROVE f[k] \in Nat
      OBVIOUS
    <3>1. CASE k = 0
      BY <2>3, <3>1
    <3>2. CASE k # 0
      <4>1. k \in 1 .. n + 1
        BY <1>1, <3>2
      <4>2. f[k] = SystemLen + b[k - 1] /\ b[k - 1] \in Nat
        BY <1>1, <2>2, <4>1
      <4> QED
        BY <1>2, <4>2
    <3> QED
      BY <3>1, <3>2
  <2>6. ASSUME NEW j \in 0 .. n + 1, NEW k \in 0 .. n + 1, j < k PROVE f[j] < f[k]
    <3>1. k \in 1 .. n + 1
      BY <1>1, <2>6
    <3>2. f[k] = SystemLen + b[k - 1] /\ b[k - 1] \in Nat /\ k - 1 \in 0 .. n
      BY <1>1, <2>2, <3>1
    <3>3. CASE j = 0
      BY <1>2, <1>4, <2>3, <3>2, <3>3
    <3>4. CASE j # 0
      <4>1. j \in 1 .. n + 1 /\ j - 1 < k - 1
        BY <1>1, <2>6, <3>4
      <4>2. f[j] = SystemLen + b[j - 1] /\ b[j - 1] \in Nat /\ b[j - 1] < b[k - 1]
        BY <1>1, <2>2, <3>2, <4>1
      <4> QED
        BY <1>2, <3>2, <4>2
    <3> QED
      BY <3>3, <3>4
  <2>7. f \in [0 .. n + 1 -> Nat]
    BY <2>4, <2>5
  <2> DEFINE new == WithSystem(ch)
  <2>8. new.n = n + 1 /\ new.bound = f
    BY <2>1 DEF n
  <2> HIDE DEF new
  <2>9. IsChunking(new)
    BY <1>1, <2>3, <2>6, <2>7, <2>8 DEF IsChunking
  <2>10. new.bound[new.n] = SystemLen + b[n]
    BY <2>3, <2>8
  <2> QED
    BY <2>9, <2>10 DEF new, b, n
<1> QED
  BY <1>3, <1>4

\* The larger of two numbers is a number.
LEMMA MaxNat == ASSUME NEW a \in Nat, NEW b \in Nat PROVE Max({a, b}) \in Nat
<1> DEFINE T == {a, b}
<1>1. T \subseteq Nat /\ T # {} /\ \A x \in T : x <= a + b
  OBVIOUS
<1>2. a + b \in Nat
  OBVIOUS
<1> HIDE DEF T
<1>3. Max(T) \in T
  BY <1>1, <1>2, MaxOf
<1>4. Max(T) \in Nat
  BY <1>1, <1>3
<1> QED
  BY <1>4 DEF T

\* What __getitem__ schedules an example by are limits.
LEMMA LimitsAre ==
    ASSUME NEW e, IsExample(e), NEW w0
    PROVE  IsLimits(LimitsOf(e, w0))
<1> DEFINE sink == IF SystemLen = 0 THEN e.limits.sink ELSE Max({e.limits.sink, 1})
           most == Max({1, Cardinality(e.qa)})
<1>1. e.limits \in [chunks : Nat, tokens : Nat, sink : Nat] /\ e.qa \subseteq 0 .. e.spans.n - 1
      /\ e.spans.n \in Nat
  BY DEF IsExample, IsChunking
<1>2. sink \in Nat
  <2>1. e.limits.sink \in Nat
    BY <1>1
  <2>2. Max({e.limits.sink, 1}) \in Nat
    BY <2>1, MaxNat
  <2> QED
    BY <2>1, <2>2
<1>3. most \in Nat
  <2>1. IsFiniteSet(0 .. e.spans.n - 1)
    <3>1. 0 \in Int /\ e.spans.n - 1 \in Int
      BY <1>1
    <3> QED
      BY <3>1, FS_Interval, Zenon
  <2>2. Cardinality(e.qa) \in Nat
    BY <1>1, <2>1, FS_Subset, FS_CardinalityType
  <2> QED
    BY <2>2, MaxNat
<1>4. LimitsOf(e, w0) = IF w0 THEN [chunks |-> most, tokens |-> 0, sink |-> sink]
                        ELSE [e.limits EXCEPT !.sink = sink]
  BY Zenon DEF LimitsOf
<1> HIDE DEF sink, most
<1>5. LimitsOf(e, w0) \in [chunks : Nat, tokens : Nat, sink : Nat]
  <2>1. [chunks |-> most, tokens |-> 0, sink |-> sink] \in [chunks : Nat, tokens : Nat, sink : Nat]
    BY <1>2, <1>3
  <2>2. [e.limits EXCEPT !.sink = sink] \in [chunks : Nat, tokens : Nat, sink : Nat]
    BY <1>1, <1>2
  <2> QED
    BY <1>4, <2>1, <2>2, Zenon
<1> DEFINE lim == LimitsOf(e, w0)
<1> HIDE DEF lim
<1>6. IsLimits(lim)
  BY <1>5 DEF IsLimits, lim
<1> QED
  BY <1>6 DEF lim

\* What the collator gets is an example with the system prompt and its schedule.
LEMMA DocumentIs ==
    ASSUME NEW e, IsExample(e), NEW w0
    PROVE  /\ IsChunking(WithSystem(e.spans)) /\ IsLimits(LimitsOf(e, w0))
           /\ Carries(Document(e, w0), WithSystem(e.spans), LimitsOf(e, w0))
           /\ Document(e, w0).len = e.len + SystemLen
<1>1. IsChunking(e.spans) /\ e.spans.bound[e.spans.n] = e.len /\ e.len \in Nat
  BY DEF IsExample
<1>2. /\ IsChunking(WithSystem(e.spans))
      /\ WithSystem(e.spans).bound[WithSystem(e.spans).n] = SystemLen + e.len
  BY <1>1, WithSystemIs
<1>3. IsLimits(LimitsOf(e, w0))
  BY LimitsAre
<1> DEFINE ch == WithSystem(e.spans)
           lim == LimitsOf(e, w0)
           d == Document(e, w0)
<1>4. d = PerToken(ch, lim)
  BY DEF Document
<1> HIDE DEF ch, lim, d
<1>5. Carries(d, ch, lim)
  BY <1>2, <1>3, <1>4, PerTokenIs DEF ch, lim
<1>6. d.len = SystemLen + e.len
  BY <1>2, <1>5 DEF Carries, ch
<1>7. d.len = e.len + SystemLen
  BY <1>1, <1>6, RowAssumption
<1> QED
  BY <1>2, <1>3, <1>5, <1>7 DEF ch, lim, d

-----------------------------------------------------------------------------
\* The rows of a run.

\* A list of examples that fits a row.
IsPack(s) == s \in Seq(1 .. Size) /\ Weight(Dataset.lengths, s) <= Target

\* The packs of the dataset fit.
LEMMA PacksFit ==
    ASSUME NEW p \in 1 .. Len(Bins(Described))
    PROVE  IsPack(Bins(Described)[p].members)
<1> DEFINE bins == Bins(Described)
<1>1. Size \in Nat /\ Described.lengths \in [1 .. Size -> Nat] /\ Described.labels \in [1 .. Size -> Nat]
  BY DatasetIs DEF Described
<1>2. /\ bins \in Seq(PackSet(Size))
      /\ \A q \in 1 .. Len(bins) : Weight(Described.lengths, bins[q].members) <= Target
  BY <1>1, BinsAre
<1>3. Described.lengths = Dataset.lengths
  BY DEF Described
<1> HIDE DEF bins
<1>4. p \in 1 .. Len(bins)
  BY DEF bins
<1>5. bins[p] \in PackSet(Size)
  BY <1>2, <1>4
<1>6. bins[p].members \in Seq(1 .. Size)
  BY <1>5 DEF PackSet
<1> QED
  BY <1>2, <1>3, <1>4, <1>6 DEF IsPack, bins

\* What a rank fetches fits.
LEMMA BatchIs ==
    ASSUME PlansInv, NEW s \in Nat, HasStep(plans, shape, s), NEW r \in Ranks,
           NEW u \in 0 .. shape.ga - 1
    PROVE  /\ DOMAIN BatchOf(plans, shape, s, r, u) = 1 .. shape.mb
           /\ \A k \in 1 .. shape.mb : IsPack(BatchOf(plans, shape, s, r, u)[k])
<1> DEFINE g == shape.ga
           b == shape.mb
           st == Planned(plans, shape, s)
           place(k) == r * g * b + u * b + k
<1>1. World \in Nat \ {0} /\ g \in Nat \ {0} /\ b \in Nat \ {0} /\ N = World * g * b
  BY EpochIs
<1>2. st \in Seq(1 .. Len(Bins(Described))) /\ DOMAIN st = 1 .. N
  BY StepIsPlanned
<1>3. BatchOf(plans, shape, s, r, u) = [k \in 1 .. b |-> Bins(Described)[st[place(k)]].members]
  BY Zenon DEF BatchOf
<1>4. r \in 0 .. World - 1 /\ u \in 0 .. g - 1
  BY DEF Ranks
<1> HIDE DEF g, b, st, place
<1>5. ASSUME NEW k \in 1 .. b PROVE place(k) \in 1 .. N
  <2> DEFINE x == g * b
             y == r * x
             z == u * b
             w == World * x
  <2>1. x \in Nat /\ r * g * b = y /\ N = w /\ y \in Nat /\ w \in Nat /\ y + x <= w
    BY <1>1, <1>4, Widths
  <2>2. z \in Nat /\ z + b <= x
    BY <1>1, <1>4, PartWidths
  <2>3. place(k) = y + z + k
    BY <2>1, Zenon DEF place
  <2> HIDE DEF x, y, z, w
  <2> QED
    BY <1>1, <2>1, <2>2, <2>3
<1>6. ASSUME NEW k \in 1 .. b PROVE IsPack(Bins(Described)[st[place(k)]].members)
  <2> DEFINE j == place(k)
             p == st[j]
             S == 1 .. Len(Bins(Described))
  <2>1. p \in S
    <3>1. j \in DOMAIN st /\ st \in Seq(S)
      BY <1>2, <1>5
    <3> HIDE DEF S, j
    <3> QED
      BY <3>1
  <2> HIDE DEF p
  <2>2. IsPack(Bins(Described)[p].members)
    BY <2>1, PacksFit
  <2> QED
    BY <2>2 DEF p
<1> QED
  BY <1>3, <1>6 DEF b

\* Two lists of documents of the same lengths.
SameLengths(d, e, n) ==
    /\ n \in Nat /\ Len(d) = n /\ Len(e) = n
    /\ \A i \in 1 .. n : d[i].len \in Nat /\ e[i].len = d[i].len

\* Their documents stand at the same places.
LEMMA SameOffsets ==
    ASSUME NEW d, NEW e, NEW n, SameLengths(d, e, n)
    PROVE  Used(d) = Used(e) /\ \A i \in 1 .. n : Offset(d, i) = Offset(e, i)
<1> DEFINE T == {k \in 0 .. n : Offset(d, k + 1) = Offset(e, k + 1)}
<1>1. n \in Nat /\ Len(d) = n /\ Len(e) = n /\ \A i \in 1 .. n : d[i].len \in Nat /\ e[i].len = d[i].len
  BY DEF SameLengths
<1>2. /\ Offset(d, 1) = 0
      /\ \A i \in 1 .. n : Offset(d, i + 1) = Offset(d, i) + d[i].len
  <2>1. Len(d) \in Nat /\ \A j \in 1 .. Len(d) : d[j].len \in Nat
    BY <1>1
  <2> QED
    BY <1>1, <2>1, OffsetIs
<1>3. /\ Offset(e, 1) = 0
      /\ \A i \in 1 .. n : Offset(e, i + 1) = Offset(e, i) + e[i].len
  <2>1. Len(e) \in Nat /\ \A j \in 1 .. Len(e) : e[j].len \in Nat
    BY <1>1
  <2> QED
    BY <1>1, <2>1, OffsetIs
<1>4. 0 \in T
  BY <1>1, <1>2, <1>3
<1>5. ASSUME NEW k \in 0 .. n - 1, k \in T PROVE k + 1 \in T
  <2> DEFINE i == k + 1
  <2>1. i \in 1 .. n /\ i \in 0 .. n
    BY <1>1
  <2>2. Offset(d, i) = Offset(e, i)
    BY <1>5
  <2>3. Offset(d, i + 1) = Offset(e, i + 1)
    BY <1>1, <1>2, <1>3, <2>1, <2>2
  <2> QED
    BY <2>1, <2>3
<1> HIDE DEF T
<1>6. \A k \in 0 .. n : k \in T
  BY <1>1, <1>4, <1>5, UpTo
<1>7. ASSUME NEW i \in 1 .. n + 1 PROVE Offset(d, i) = Offset(e, i)
  <2>1. i - 1 \in 0 .. n /\ (i - 1) + 1 = i
    BY <1>1
  <2>2. i - 1 \in T
    BY <1>6, <2>1
  <2> QED
    BY <2>1, <2>2 DEF T
<1>8. n + 1 \in 1 .. n + 1
  BY <1>1
<1> QED
  BY <1>1, <1>7, <1>8 DEF Used

\* The documents of a pack fill what its examples weigh.
LEMMA UsedIs ==
    ASSUME NEW m \in Nat, NEW w \in [1 .. m -> Nat], NEW s \in Seq(1 .. m), NEW d,
           Len(d) = Len(s), \A i \in 1 .. Len(s) : d[i].len = w[s[i]]
    PROVE  Used(d) = Weight(w, s)
<1> DEFINE n == Len(s)
           t == [i \in DOMAIN s |-> w[s[i]]]
<1>1. n \in Nat /\ DOMAIN s = 1 .. n /\ \A i \in 1 .. n : s[i] \in 1 .. m
  OBVIOUS
<1>2. t \in [1 .. n -> Nat] /\ \A i \in 1 .. n : t[i] = d[i].len
  BY <1>1
<1>3. Weight(w, s) = Total(t)
  BY Zenon DEF Weight
<1> HIDE DEF t, n
<1>4. t \in Seq(Nat) /\ Len(t) = n
  BY <1>1, <1>2, SegmentSeq
<1>5. PICK f \in [0 .. n -> Nat] : /\ f[0] = 0
                                   /\ \A j \in 1 .. n : f[j] = f[j - 1] + t[j]
                                   /\ Total(t) = f[n]
  <2>1. \E f \in [0 .. Len(t) -> Nat] : /\ f[0] = 0
                                        /\ \A j \in 1 .. Len(t) : f[j] = f[j - 1] + t[j]
                                        /\ Total(t) = f[Len(t)]
    BY <1>4, TotalIs
  <2> QED
    BY <1>4, <2>1
<1>6. Len(d) = n
  BY DEF n
<1>7. /\ Offset(d, 1) = 0
      /\ \A i \in 1 .. n : Offset(d, i + 1) = Offset(d, i) + d[i].len
  <2>1. Len(d) \in Nat /\ \A j \in 1 .. Len(d) : d[j].len \in Nat
    BY <1>1, <1>2, <1>6
  <2> QED
    BY <1>6, <2>1, OffsetIs
<1> DEFINE T == {k \in 0 .. n : Offset(d, k + 1) = f[k]}
<1>8. 0 \in T
  BY <1>1, <1>5, <1>7
<1>9. ASSUME NEW k \in 0 .. n - 1, k \in T PROVE k + 1 \in T
  <2> DEFINE i == k + 1
  <2>1. i \in 1 .. n /\ i \in 0 .. n /\ i - 1 = k
    BY <1>1
  <2>2. Offset(d, i) = f[k]
    BY <1>9
  <2>3. Offset(d, i + 1) = f[k] + t[i]
    BY <1>2, <1>7, <2>1, <2>2
  <2>4. f[i] = f[k] + t[i]
    BY <1>5, <2>1
  <2> QED
    BY <2>1, <2>3, <2>4
<1> HIDE DEF T
<1>10. \A k \in 0 .. n : k \in T
  BY <1>1, <1>8, <1>9, UpTo
<1>11. n \in T
  BY <1>1, <1>10
<1>12. Offset(d, n + 1) = f[n]
  BY <1>11 DEF T
<1> QED
  BY <1>3, <1>5, <1>6, <1>12 DEF Used

\* The documents a pack is collated from.
DocsOf(s) == [i \in DOMAIN s |-> Dataset.items[s[i]]]

\* They carry a chunk and an evict step per token, and fit the row.
LEMMA PackDocs ==
    ASSUME NEW s, IsPack(s)
    PROVE  /\ AreDocs(DocsOf(s), Len(s)) /\ Used(DocsOf(s)) <= Target
           /\ DOMAIN s = 1 .. Len(s)
           /\ \A i \in 1 .. Len(s) : /\ s[i] \in 1 .. Size
                                     /\ DocsOf(s)[i] = Dataset.items[s[i]]
                                     /\ DocsOf(s)[i].len = Dataset.lengths[s[i]]
<1> DEFINE n == Len(s)
           d == DocsOf(s)
<1>1. s \in Seq(1 .. Size) /\ Weight(Dataset.lengths, s) <= Target
  BY DEF IsPack
<1>2. n \in Nat /\ DOMAIN s = 1 .. n /\ \A i \in 1 .. n : s[i] \in 1 .. Size
  <2> DEFINE S == 1 .. Size
  <2>1. s \in Seq(S)
    BY <1>1
  <2> HIDE DEF S
  <2>2. n \in Nat /\ DOMAIN s = 1 .. n /\ \A i \in 1 .. n : s[i] \in S
    BY <2>1
  <2> QED
    BY <2>2 DEF S
<1>3. d = [i \in 1 .. n |-> Dataset.items[s[i]]]
  BY <1>2 DEF DocsOf
<1> HIDE DEF d, n
<1>4. d \in [1 .. n -> {Dataset.items[s[i]] : i \in 1 .. n}]
  BY <1>3
<1>5. Len(d) = n
  <2> DEFINE S == {Dataset.items[s[i]] : i \in 1 .. n}
  <2>1. d \in [1 .. n -> S]
    BY <1>4
  <2> HIDE DEF S
  <2> QED
    BY <1>2, <2>1, SegmentSeq
<1>6. ASSUME NEW i \in 1 .. n
      PROVE  /\ d[i] = Dataset.items[s[i]] /\ d[i].len = Dataset.lengths[s[i]] /\ d[i].len \in Nat
             /\ d[i].chunk \in [1 .. d[i].len -> Nat] /\ d[i].step \in [1 .. d[i].len -> Nat]
  <2> DEFINE x == s[i]
             e == Dataset.examples[x]
             ch == WithSystem(e.spans)
             lim == LimitsOf(e, x \in W0)
  <2>1. x \in 1 .. Size
    BY <1>2
  <2> HIDE DEF x
  <2>2. e \in Usable /\ Dataset.lengths[x] = e.len + SystemLen /\ Dataset.items[x] = Document(e, x \in W0)
    BY <2>1, DatasetIs
  <2> HIDE DEF e
  <2>3. IsExample(e)
    BY <2>2, UsableIs
  <2>4. Carries(Document(e, x \in W0), ch, lim) /\ Document(e, x \in W0).len = e.len + SystemLen
    BY <2>3, DocumentIs
  <2>5. d[i] = Document(e, x \in W0)
    BY <1>3, <2>2 DEF x
  <2> HIDE DEF ch, lim
  <2>6. Carries(d[i], ch, lim) /\ d[i].len = Dataset.lengths[x]
    BY <2>2, <2>4, <2>5, Zenon
  <2>7. d[i].len \in Nat /\ d[i].chunk \in [1 .. d[i].len -> Nat] /\ d[i].step \in [1 .. d[i].len -> Nat]
    BY <2>6 DEF Carries
  <2> QED
    BY <1>3, <2>6, <2>7 DEF x
<1>7. AreDocs(d, n)
  BY <1>2, <1>5, <1>6 DEF AreDocs
<1>8. Used(d) = Weight(Dataset.lengths, s)
  <2> DEFINE w == Dataset.lengths
  <2>1. Size \in Nat /\ w \in [1 .. Size -> Nat]
    BY DatasetIs
  <2>2. Len(d) = Len(s) /\ \A i \in 1 .. Len(s) : d[i].len = w[s[i]]
    BY <1>5, <1>6 DEF n
  <2> HIDE DEF w
  <2>3. Used(d) = Weight(w, s)
    BY <1>1, <2>1, <2>2, UsedIs
  <2> QED
    BY <2>3 DEF w
<1>9. Used(d) <= Target
  BY <1>1, <1>8, Zenon
<1> QED
  BY <1>2, <1>6, <1>7, <1>9 DEF d, n

\* What an item's own evict steps leave to a token is what the schedule of its
\* example leaves to it.
LEMMA ItemView ==
    ASSUME ds = Dataset, NEW x \in 1 .. Size, NEW t \in 1 .. Dataset.items[x].len
    PROVE  \A u \in 1 .. t :
              Dataset.items[x].step[u] > Dataset.items[x].chunk[t] <=> u - 1 \in LoneView(x, t - 1)
<1> DEFINE e == Dataset.examples[x]
           ch == WithSystem(e.spans)
           lim == LimitsOf(e, x \in W0)
           d == Dataset.items[x]
<1>1. e \in Usable /\ d = Document(e, x \in W0)
  BY DatasetIs
<1>2. LoneView(x, t - 1) = (0 .. t - 1) \ EvictedTokens(ch, lim, ChunkOf(ch, t - 1))
  BY Zenon DEF LoneView
<1> HIDE DEF e, d
<1>3. IsExample(e)
  BY <1>1, UsableIs
<1>4. IsChunking(ch) /\ IsLimits(lim) /\ Carries(d, ch, lim)
  BY <1>1, <1>3, DocumentIs
<1> HIDE DEF ch, lim
<1>5. /\ d.len = ch.bound[ch.n] /\ d.len \in Nat
      /\ \A v \in 1 .. d.len : /\ d.chunk[v] = ChunkOf(ch, v - 1)
                               /\ d.step[v] = EvictAt(ch, lim)[ChunkOf(ch, v - 1)]
  BY <1>4 DEF Carries
<1>6. t \in 1 .. d.len
  BY DEF d
<1> SUFFICES ASSUME NEW u \in 1 .. t
             PROVE  d.step[u] > d.chunk[t] <=> u - 1 \in LoneView(x, t - 1)
  BY DEF d
<1> DEFINE a == u - 1
           b == t - 1
<1>7. u \in 1 .. d.len /\ a \in 0 .. b /\ b \in 0 .. ch.bound[ch.n] - 1
  BY <1>5, <1>6
<1>8. d.step[u] = EvictAt(ch, lim)[ChunkOf(ch, a)] /\ d.chunk[t] = ChunkOf(ch, b)
  BY <1>5, <1>6, <1>7
<1> HIDE DEF a, b
<1>9. EvictAt(ch, lim)[ChunkOf(ch, a)] > ChunkOf(ch, b) <=> a \notin EvictedTokens(ch, lim, ChunkOf(ch, b))
  BY <1>4, <1>7, ScheduleView
<1>10. LoneView(x, b) = (0 .. b) \ EvictedTokens(ch, lim, ChunkOf(ch, b))
  BY <1>2, Zenon DEF b
<1>11. a \in LoneView(x, b) <=> a \notin EvictedTokens(ch, lim, ChunkOf(ch, b))
  BY <1>7, <1>10
<1> QED
  BY <1>8, <1>9, <1>11, Zenon DEF a, b

\* The lengths of a pack's documents.
LensOf(s) == [i \in DOMAIN s |-> [len |-> Dataset.lengths[s[i]]]]

\* A token of a row sees, scans and is rotated as in a row of its own.
TokenAlone(row, s, i, t) ==
    LET off == Offset(LensOf(s), i)
        q == off + t + 1
    IN  /\ {u - off - 1 : u \in Visible(row, q)} = LoneView(s[i], t)
        /\ Scanned(row, q) = off + 1 .. q
        /\ row.pos[q] = t

\* The documents stand where their lengths alone put them.
LEMMA LensStand ==
    ASSUME NEW s, IsPack(s)
    PROVE  /\ Used(LensOf(s)) = Used(DocsOf(s)) /\ Used(LensOf(s)) \in Nat
           /\ DOMAIN LensOf(s) = 1 .. Len(s)
           /\ \A i \in 1 .. Len(s) : /\ Offset(LensOf(s), i) = Offset(DocsOf(s), i)
                                     /\ Offset(LensOf(s), i) \in Nat
                                     /\ LensOf(s)[i].len = DocsOf(s)[i].len
<1> DEFINE n == Len(s)
           d == DocsOf(s)
           e == LensOf(s)
<1>1. AreDocs(d, n) /\ DOMAIN s = 1 .. n /\ \A i \in 1 .. n : d[i].len = Dataset.lengths[s[i]]
  BY PackDocs
<1>2. n \in Nat /\ Len(d) = n /\ \A i \in 1 .. n : d[i].len \in Nat
  BY <1>1 DEF AreDocs
<1>3. e = [i \in 1 .. n |-> [len |-> Dataset.lengths[s[i]]]]
  BY <1>1 DEF LensOf
<1> HIDE DEF d, e, n
<1>4. DOMAIN e = 1 .. n /\ \A i \in 1 .. n : e[i].len = d[i].len
  BY <1>1, <1>3
<1>5. Len(e) = n
  <2> DEFINE S == {[len |-> Dataset.lengths[s[i]]] : i \in 1 .. n}
  <2>1. e \in [1 .. n -> S]
    BY <1>3
  <2> HIDE DEF S
  <2> QED
    BY <1>2, <2>1, SegmentSeq
<1>6. SameLengths(d, e, n)
  BY <1>2, <1>4, <1>5 DEF SameLengths
<1>7. Used(d) = Used(e) /\ \A i \in 1 .. n : Offset(d, i) = Offset(e, i)
  BY <1>6, SameOffsets
<1>8. Used(d) \in Nat /\ \A i \in 1 .. n + 1 : Offset(d, i) \in 0 .. Used(d)
  BY <1>1, PlacesIn
<1>9. \A i \in 1 .. n : Offset(d, i) \in Nat
  BY <1>2, <1>8
<1> QED
  BY <1>4, <1>7, <1>8, <1>9 DEF d, e, n

\* So does every token of a collated pack.
LEMMA PackIsolated ==
    ASSUME ds = Dataset, NEW s, IsPack(s), NEW i \in 1 .. Len(s),
           NEW t \in 0 .. Dataset.lengths[s[i]] - 1
    PROVE  TokenAlone(RowOf(DocsOf(s), Target), s, i, t)
<1> DEFINE n == Len(s)
           d == DocsOf(s)
           row == RowOf(d, Target)
           off == Offset(LensOf(s), i)
           x == s[i]
           v == t + 1
           shown == {u \in 1 .. v : d[i].step[u] > d[i].chunk[v]}
<1>1. /\ AreDocs(d, n) /\ Used(d) <= Target /\ Target \in Nat
      /\ x \in 1 .. Size /\ d[i] = Dataset.items[x] /\ d[i].len = Dataset.lengths[x]
  BY PackDocs, PlannerAssumption
<1>2. off = Offset(d, i) /\ off \in Nat
  BY LensStand
<1>3. d[i].len \in Nat
  BY <1>1 DEF AreDocs
<1> HIDE DEF d, row, off, x, n
<1>4. v \in 1 .. d[i].len /\ t \in Nat /\ v - 1 = t /\ i \in 1 .. n
  BY <1>1, <1>3 DEF x, n
<1> HIDE DEF v
<1>5. Sees(row, d, i, v)
  BY <1>1, <1>4, RowViews DEF row
<1>6. TokenAt(row, d, i, v)
  BY <1>1, <1>4, RowTokens DEF row
<1>7. off + t + 1 = off + v
  BY <1>2, <1>4 DEF v
<1>8. Visible(row, off + v) = {off + u : u \in shown}
  BY <1>2, <1>5, Zenon DEF Sees
<1>9. Scanned(row, off + v) = off + 1 .. off + v
  BY <1>2, <1>5, Zenon DEF Sees
<1>10. row.pos[off + v] = t
  <2>1. row.pos[off + v] = v - 1
    BY <1>2, <1>6, Zenon DEF TokenAt
  <2> QED
    BY <1>4, <2>1
<1>11. \A u \in 1 .. v : u \in shown <=> u - 1 \in LoneView(x, t)
  <2>1. v \in 1 .. Dataset.items[x].len
    BY <1>1, <1>4
  <2>2. \A u \in 1 .. v : Dataset.items[x].step[u] > Dataset.items[x].chunk[v] <=> u - 1 \in LoneView(x, v - 1)
    BY <1>1, <2>1, ItemView
  <2>3. \A u \in 1 .. v : d[i].step[u] > d[i].chunk[v] <=> u - 1 \in LoneView(x, t)
    BY <1>1, <1>4, <2>2
  <2> QED
    BY <2>3
<1>12. LoneView(x, t) \subseteq 0 .. t
  BY DEF LoneView
<1>13. {u - off - 1 : u \in Visible(row, off + v)} = LoneView(x, t)
  <2> DEFINE lone == LoneView(x, t)
  <2>1. \A u \in shown : u \in 1 .. v
    OBVIOUS
  <2>2. \A u \in 1 .. v : u \in shown <=> u - 1 \in lone
    BY <1>11
  <2>3. lone \subseteq 0 .. t
    BY <1>12
  <2> HIDE DEF shown, lone
  <2>4. ASSUME NEW w \in {u - off - 1 : u \in Visible(row, off + v)} PROVE w \in lone
    <3>1. PICK u \in shown : w = (off + u) - off - 1
      BY <1>8, <2>4
    <3>2. u \in 1 .. v
      BY <2>1
    <3>3. w = u - 1
      BY <1>2, <3>1, <3>2
    <3> QED
      BY <2>2, <3>2, <3>3
  <2>5. ASSUME NEW w \in lone PROVE w \in {u - off - 1 : u \in Visible(row, off + v)}
    <3>1. w \in 0 .. t
      BY <2>3
    <3>2. w + 1 \in 1 .. v /\ (w + 1) - 1 = w
      BY <1>4, <3>1 DEF v
    <3>3. w + 1 \in shown
      BY <2>2, <3>2
    <3>4. off + (w + 1) \in Visible(row, off + v)
      BY <1>8, <3>3
    <3>5. (off + (w + 1)) - off - 1 = w
      BY <1>2, <3>1
    <3> QED
      BY <3>4, <3>5
  <2>6. {u - off - 1 : u \in Visible(row, off + v)} = lone
    BY <2>4, <2>5
  <2> QED
    BY <2>6 DEF lone
<1>14. TokenAlone(row, s, i, t)
  BY <1>7, <1>9, <1>10, <1>13, Zenon DEF TokenAlone, off, x
<1> QED
  BY <1>14 DEF row, d

\* The rows the collator makes of a micro-batch.
RowsOf(b) ==
    [k \in DOMAIN b |-> CollatedRow([i \in DOMAIN b[k] |-> ds.items[b[k][i]]], Target)]

\* A forward pass has the rows of its own micro-batch, and none is too long.
RowsInv ==
    /\ DOMAIN control = Ranks
    /\ \A r \in Ranks : /\ pc[r] # "raised"
                        /\ pc[r] = "backward" => control[r] = RowsOf(batch[r])

\* No rank raises on what it fetches.
LEMMA FetchFits ==
    ASSUME PlansInv, StepsInv, NEW r \in Ranks, Fetch(r)
    PROVE  pc'[r] = "forward"
<1> DEFINE new == BatchOf(plans, shape, step[r], r, micro[r])
<1>1. /\ pc[r] = "fetch" /\ at[r] < Len(Upcoming(r)) /\ InStep(r)
      /\ ds = Dataset /\ DOMAIN pc = Ranks /\ DOMAIN batch = Ranks
  BY DEF Fetch, StepsInv, PlansInv
<1>2. /\ HasStep(plans, shape, step[r])
      /\ [k \in DOMAIN Upcoming(r)[at[r] + 1] |->
              EnsurePlan(r).packs[Upcoming(r)[at[r] + 1][k]].members] = new
  BY <1>1, FetchedIs
<1>3. step[r] \in Nat /\ micro[r] \in 0 .. shape.ga - 1
  BY <1>1 DEF InStep
<1>4. DOMAIN new = 1 .. shape.mb /\ \A k \in 1 .. shape.mb : IsPack(new[k])
  BY <1>2, <1>3, BatchIs
<1> HIDE DEF new
<1>5. batch'[r] = new
  <2>1. cache'[r] = EnsurePlan(r)
    <3>1. cache' = [cache EXCEPT ![r] = EnsurePlan(r)]
      BY Zenon DEF Fetch
    <3>2. r \in DOMAIN cache
      BY Zenon DEF PlansInv
    <3> QED
      BY <3>1, <3>2, Zenon
  <2>2. batch'[r] = [k \in DOMAIN Upcoming(r)[at[r] + 1] |->
                       cache'[r].packs[Upcoming(r)[at[r] + 1][k]].members]
    BY <1>1 DEF Fetch
  <2> QED
    BY <1>2, <2>1, <2>2, SMTT(30)
<1>6. \A k \in DOMAIN batch'[r] : Collates(batch'[r][k])
  BY <1>1, <1>4, <1>5, SMTT(30) DEF Collates, IsPack
<1>7. pc'[r] = IF \A k \in DOMAIN batch'[r] : Collates(batch'[r][k]) THEN "forward" ELSE "raised"
  BY <1>1 DEF Fetch, Goto
<1> QED
  BY <1>6, <1>7, ZenonT(60)

\* Before the first step no rank has a row.
LEMMA RowsInit == ASSUME Init PROVE RowsInv
BY DEF Init, RowsInv

\* Every forward pass overwrites the rows of the one before.
LEMMA RowsStep ==
    ASSUME PlansInv, StepsInv, RowsInv, [Next]_vars
    PROVE  RowsInv'
<1>1. ds' = ds
  BY DEF Next, RankStep, ZeroGrad, Fetch, NextEpoch, Forward, Backward, Update, LogLoss,
         EndStep, Finish, run, vars
<1>2. /\ DOMAIN control = Ranks /\ DOMAIN pc = Ranks /\ DOMAIN batch = Ranks
      /\ \A r \in Ranks : /\ pc[r] # "raised"
                          /\ pc[r] = "backward" => control[r] = RowsOf(batch[r])
  BY DEF RowsInv, StepsInv
<1>3. ASSUME NEW r \in Ranks, batch'[r] = batch[r], control'[r] = control[r] \/ pc'[r] # "backward",
             pc'[r] = "backward" => pc[r] = "backward"
      PROVE  pc'[r] = "backward" => control'[r] = RowsOf(batch[r])'
  BY <1>1, <1>2, <1>3 DEF RowsOf
<1>4. ASSUME NEW r \in Ranks, RankStep(r) PROVE RowsInv'
  <2>1. DOMAIN control' = Ranks
    BY <1>2, <1>4 DEF RankStep, ZeroGrad, Fetch, NextEpoch, Forward, Backward, EndStep, Finish
  <2>2. ASSUME NEW s \in Ranks \ {r}
        PROVE  pc'[s] # "raised" /\ (pc'[s] = "backward" => control'[s] = RowsOf(batch[s])')
    <3>1. pc'[s] = pc[s] /\ batch'[s] = batch[s] /\ control'[s] = control[s]
      BY <1>2, <1>4, <2>2 DEF RankStep, ZeroGrad, Fetch, NextEpoch, Forward, Backward, EndStep, Finish, Goto
    <3> QED
      BY <1>2, <1>3, <3>1, SMTT(30)
  <2>3. pc'[r] # "raised" /\ (pc'[r] = "backward" => control'[r] = RowsOf(batch[r])')
    <3>1. CASE Fetch(r)
      BY <3>1, FetchFits
    <3>2. CASE Forward(r)
      <4>1. /\ pc'[r] = "backward" /\ batch' = batch
            /\ control'[r] = RowsOf(batch[r])
        BY <1>2, <3>2 DEF Forward, Goto, RowsOf
      <4> QED
        BY <1>1, <4>1 DEF RowsOf
    <3>3. CASE ZeroGrad(r) \/ NextEpoch(r) \/ Backward(r) \/ EndStep(r) \/ Finish(r)
      BY <1>2, <3>3 DEF ZeroGrad, NextEpoch, Backward, EndStep, Finish, Goto
    <3> QED
      BY <1>4, <3>1, <3>2, <3>3 DEF RankStep
  <2> QED
    BY <2>1, <2>2, <2>3, SMTT(30) DEF RowsInv
<1>5. CASE Update \/ LogLoss
  <2>1. /\ control' = control /\ batch' = batch
        /\ \A r \in Ranks : pc'[r] \in {"log", "save"}
    BY <1>5 DEF Update, LogLoss
  <2> QED
    BY <1>2, <2>1 DEF RowsInv
<1>6. CASE UNCHANGED vars
  BY <1>2, <1>6 DEF RowsInv, RowsOf, vars, run
<1> QED
  BY <1>4, <1>5, <1>6, SMTT(30) DEF Next

\* A forward pass always has the rows of its own micro-batch.
THEOREM RowsKept == ShufflePermutes => (Spec => []RowsInv)
<1>1. ShufflePermutes /\ Init => PlansInv /\ StepsInv /\ RowsInv
  BY PlansInit, StepsInit, RowsInit
<1>2. PlansInv /\ StepsInv /\ RowsInv /\ [Next]_vars => PlansInv' /\ StepsInv' /\ RowsInv'
  BY PlansStep, StepsStep, RowsStep
<1> QED
  BY <1>1, <1>2, PTL DEF Spec

\* collate_memory_packed raises "Packed examples exceed pack_target": the
\* planner never makes such a pack, whatever the dataset.
NoneTooLong == \A r \in Ranks : pc[r] # "raised"

\* The planner never makes a pack that the collator refuses.
THEOREM PacksCollate == ShufflePermutes => (Spec => []NoneTooLong)
<1>1. RowsInv => NoneTooLong
  BY DEF RowsInv, NoneTooLong
<1> QED
  BY <1>1, RowsKept, PTL

\* What the collator promises of a row, for documents of given lengths.
Isolated(row, docs, s) ==
    /\ \A i \in DOMAIN docs :
          LET off == Offset(docs, i)
          IN  \A t \in 0 .. docs[i].len - 1 :
                 LET q == off + t + 1
                 IN  /\ {u - off - 1 : u \in Visible(row, q)} = LoneView(s[i], t)
                     /\ Scanned(row, q) = off + 1 .. q
                     /\ row.pos[q] = t
    /\ \A q \in Used(docs) + 1 .. Target :
          (Visible(row, q) \cup Scanned(row, q)) \cap (1 .. Used(docs)) = {}

\* collator.py: "attention can't see it (and it can't see real docs)": in every
\* forward pass of every rank a token sees, scans and is rotated by exactly what
\* it would be in a row of its own, and the pad span reaches no document.
THEOREM IsolatedDocuments == ShufflePermutes => (Spec => []DocumentsIsolated)
<1>1. PlansInv /\ StepsInv /\ RowsInv => DocumentsIsolated
  <2> SUFFICES ASSUME PlansInv, StepsInv, RowsInv, NEW r \in Ranks, pc[r] = "backward",
                      NEW k \in DOMAIN batch[r]
               PROVE  Isolated(control[r][k],
                               [i \in DOMAIN batch[r][k] |-> [len |-> ds.lengths[batch[r][k][i]]]],
                               batch[r][k])
    BY Zenon DEF DocumentsIsolated, Isolated
  <2> DEFINE s == batch[r][k]
             row == RowOf(DocsOf(s), Target)
  <2>1. ds = Dataset
    BY DEF PlansInv
  <2>2. IsPack(s)
    <3>1. InStep(r)
      BY DEF StepsInv
    <3>2. /\ HasStep(plans, shape, step[r]) /\ step[r] \in Nat /\ micro[r] \in 0 .. shape.ga - 1
          /\ batch[r] = BatchOf(plans, shape, step[r], r, micro[r])
      BY <3>1 DEF InStep
    <3>3. DOMAIN batch[r] = 1 .. shape.mb /\ \A j \in 1 .. shape.mb : IsPack(batch[r][j])
      BY <3>2, BatchIs
    <3> QED
      BY <3>3
  <2>3. control[r][k] = row
    <3>1. control[r] = RowsOf(batch[r])
      BY DEF RowsInv
    <3> QED
      BY <2>1, <3>1 DEF RowsOf, CollatedRow, DocsOf
  <2>4. [i \in DOMAIN batch[r][k] |-> [len |-> ds.lengths[batch[r][k][i]]]] = LensOf(s)
    BY <2>1 DEF LensOf
  <2> HIDE DEF s
  <2>5. /\ DOMAIN LensOf(s) = 1 .. Len(s)
        /\ \A i \in 1 .. Len(s) : LensOf(s)[i].len = Dataset.lengths[s[i]]
    BY <2>2, LensStand, PackDocs
  <2>6. ASSUME NEW i \in DOMAIN LensOf(s), NEW t \in 0 .. LensOf(s)[i].len - 1
        PROVE  TokenAlone(row, s, i, t)
    BY <2>1, <2>2, <2>5, PackIsolated
  <2>7. ASSUME NEW q \in Used(LensOf(s)) + 1 .. Target
        PROVE  (Visible(row, q) \cup Scanned(row, q)) \cap (1 .. Used(LensOf(s))) = {}
    <3>1. /\ AreDocs(DocsOf(s), Len(s)) /\ Used(DocsOf(s)) <= Target
          /\ Used(LensOf(s)) = Used(DocsOf(s)) /\ Target \in Nat
      BY <2>2, PackDocs, LensStand, PlannerAssumption
    <3> QED
      BY <3>1, PadViews
  <2> HIDE DEF row
  <2>8. Isolated(row, LensOf(s), s)
    BY <2>6, <2>7, Zenon DEF Isolated, TokenAlone
  <2> QED
    BY <2>3, <2>4, <2>8, Zenon DEF s
<1> QED
  BY <1>1, PlansKept, StepsKept, RowsKept, PTL

-----------------------------------------------------------------------------
\* The stride schedule of RL.

\* Rounding up.
LEMMA Ceiling ==
    ASSUME NEW a \in Nat, NEW k \in Nat \ {0}
    PROVE  /\ CeilDiv(a, k) \in Nat /\ (a > 0 => CeilDiv(a, k) > 0)
           /\ a <= k * CeilDiv(a, k) /\ k * CeilDiv(a, k) < a + k
<1> DEFINE q == (a + k - 1) \div k
           b == a + k - 1
<1>1. b \in Nat
  OBVIOUS
<1>2. q \in Int /\ k * q <= b /\ b < k * q + k /\ (b >= 0 => q >= 0)
  BY <1>1, Division
<1>3. CeilDiv(a, k) = q
  BY DEF CeilDiv
<1> HIDE DEF q
<1>4. k * q \in Int /\ (q = 0 => k * q = 0)
  BY <1>2
<1>5. q \in Nat
  BY <1>1, <1>2
<1> DEFINE x == k * q
<1>6. x \in Int /\ x <= b /\ b < x + k /\ b = a + k - 1
  BY <1>2, <1>4
<1> HIDE DEF x, b
<1>7. a <= x /\ x < a + k
  BY <1>6
<1>8. a > 0 => q > 0
  BY <1>4, <1>5, <1>7 DEF x
<1> QED
  BY <1>3, <1>5, <1>7, <1>8, Zenon DEF x

\* The sink of a prompt holds something.
LEMMA SinkIs ==
    ASSUME NEW p, p.im \subseteq Nat
    PROVE  SinkEnd(p) \in Nat \ {0}
<1> DEFINE later == {k \in p.im : k > 0}
           raw == IF later = {} THEN PageSize ELSE Min(later)
           q == CeilDiv(raw, PageSize)
<1>1. PageSize \in Nat \ {0}
  BY PolicyAssumption
<1>2. raw \in Nat \ {0}
  <2>1. CASE later = {}
    BY <1>1, <2>1
  <2>2. CASE later # {}
    <3>1. later \subseteq Nat
      OBVIOUS
    <3>2. Min(later) \in later
      BY <2>2, <3>1, MinOf
    <3> HIDE DEF later
    <3>3. raw = Min(later)
      BY <2>2
    <3>4. Min(later) > 0 /\ Min(later) \in Nat
      BY <3>1, <3>2 DEF later
    <3> QED
      BY <3>3, <3>4
  <2> QED
    BY <2>1, <2>2
<1>3. SinkEnd(p) = PageSize * q
  BY DEF SinkEnd
<1> HIDE DEF raw
<1>4. q \in Nat \ {0} /\ raw <= PageSize * q
  BY <1>1, <1>2, Ceiling
<1> HIDE DEF q
<1>5. PageSize * q \in Nat
  BY <1>1, <1>4
<1> QED
  BY <1>2, <1>3, <1>4, <1>5

\* Every prompt gets a row of the table.
LEMMA ParamsAre ==
    ASSUME NEW n
    PROVE  ResolveParams(n).chunk \in Nat \ {0} /\ ResolveParams(n).window \in Nat
<1> DEFINE fits == {k \in 1 .. Len(RuleTable) : FitsRow(RuleTable[k], n)}
           K == [lo : Nat, hi : Nat, chunk : Nat \ {0}, window : Nat, maxNew : Nat]
<1>1. RuleTable \in Seq(K) /\ Len(RuleTable) > 0
  BY PolicyAssumption
<1>2. PICK k \in 1 .. Len(RuleTable) : ResolveParams(n) = RuleTable[k]
  <2>1. 1 \in 1 .. Len(RuleTable) /\ Len(RuleTable) \in 1 .. Len(RuleTable)
    BY <1>1
  <2>2. CASE fits = {}
    BY <2>1, <2>2 DEF ResolveParams
  <2>3. CASE fits # {}
    <3>1. fits \subseteq Nat
      OBVIOUS
    <3>2. Min(fits) \in fits
      BY <2>3, <3>1, MinOf
    <3> QED
      BY <2>3, <3>2 DEF ResolveParams
  <2> QED
    BY <2>2, <2>3
<1>3. RuleTable[k] \in K
  <2> HIDE DEF K
  <2> QED
    BY <1>1
<1> QED
  BY <1>2, <1>3

\* Where chunk k of the stride rule starts.
Starts(s, S, k) == IF k = 0 THEN 0 ELSE s + (k - 1) * S

\* Later chunks start later.
LEMMA StartsGrow ==
    ASSUME NEW s \in Nat \ {0}, NEW S \in Nat \ {0}, NEW j \in Nat, NEW k \in Nat
    PROVE  /\ Starts(s, S, k) \in Nat
           /\ j < k => Starts(s, S, j) < Starts(s, S, k)
           /\ j <= k => Starts(s, S, j) <= Starts(s, S, k)
<1>1. ASSUME NEW i \in Nat PROVE Starts(s, S, i) \in Nat
  <2>1. CASE i = 0
    BY <2>1 DEF Starts
  <2>2. CASE i # 0
    <3>1. i - 1 \in Nat
      BY <2>2
    <3>2. (i - 1) * S \in Nat
      BY <3>1
    <3> QED
      BY <2>2, <3>2 DEF Starts
  <2> QED
    BY <2>1, <2>2
<1>2. ASSUME j < k PROVE Starts(s, S, j) < Starts(s, S, k)
  <2> DEFINE a == k - 1
             y == a * S
  <2>1. a \in Nat /\ Starts(s, S, k) = s + y
    BY <1>2 DEF Starts
  <2> HIDE DEF a
  <2>2. y \in Nat
    BY <2>1
  <2>3. CASE j = 0
    <3>1. Starts(s, S, j) = 0
      BY <2>3 DEF Starts
    <3> HIDE DEF y
    <3> QED
      BY <2>1, <2>2, <3>1
  <2>4. CASE j # 0
    <3> DEFINE b == j - 1
               x == b * S
    <3>1. b \in Nat /\ Starts(s, S, j) = s + x /\ b + 1 <= a
      BY <1>2, <2>4 DEF Starts, a
    <3> HIDE DEF b
    <3>2. x \in Nat /\ S * (b + 1) <= S * a
      BY <2>1, <3>1, MulMono
    <3>3. S * (b + 1) = x + S /\ S * a = y
      BY <2>1, <3>1
    <3> HIDE DEF x, y
    <3>4. x + S <= y
      BY <3>2, <3>3
    <3> QED
      BY <2>1, <2>2, <3>1, <3>2, <3>4
  <2> QED
    BY <2>3, <2>4
<1> QED
  BY <1>1, <1>2

\* The stride rule cuts any sequence.
LEMMA StrideIsChunking ==
    ASSUME NEW s \in Nat \ {0}, NEW S \in Nat \ {0}, NEW n \in Nat
    PROVE  /\ IsChunking(StrideChunking(n, s, S)) /\ StrideChunking(n, s, S).n = n
           /\ \A k \in 0 .. n : StrideChunking(n, s, S).bound[k] = Starts(s, S, k)
<1> DEFINE ch == StrideChunking(n, s, S)
           b == [k \in 0 .. n |-> Starts(s, S, k)]
<1>1. ch.n = n /\ ch.bound = b
  BY DEF StrideChunking, Starts
<1>2. \A k \in 0 .. n : b[k] = Starts(s, S, k)
  OBVIOUS
<1>3. b[0] = 0
  BY <1>2 DEF Starts
<1>4. \A k \in 0 .. n : Starts(s, S, k) \in Nat
  BY StartsGrow
<1>5. b \in [0 .. n -> Nat]
  BY <1>4
<1>6. \A j, k \in 0 .. n : j < k => b[j] < b[k]
  <2> SUFFICES ASSUME NEW j \in 0 .. n, NEW k \in 0 .. n, j < k PROVE b[j] < b[k]
    OBVIOUS
  <2>1. Starts(s, S, j) < Starts(s, S, k)
    BY StartsGrow
  <2> QED
    BY <1>2, <2>1
<1> HIDE DEF ch, b
<1>7. IsChunking(ch)
  BY <1>1, <1>3, <1>5, <1>6 DEF IsChunking
<1> QED
  BY <1>1, <1>2, <1>7 DEF ch

\* Chunk f holds the last of n tokens.
LastIn(s, S, n, f) == f \in Nat /\ Starts(s, S, f) <= n - 1 /\ n - 1 < Starts(s, S, f + 1)

\* The frontier is the chunk of the last token.
LEMMA FrontierIn ==
    ASSUME NEW s \in Nat \ {0}, NEW S \in Nat \ {0}, NEW n \in Nat \ {0}
    PROVE  LastIn(s, S, n, FrontierChunk(n, s, S))
<1> DEFINE f == FrontierChunk(n, s, S)
           q == CeilDiv(n - s, S)
<1>1. CASE n <= s
  <2>1. f = 0
    BY <1>1 DEF FrontierChunk, NChunksAt
  <2>2. Starts(s, S, 0) = 0 /\ Starts(s, S, 0 + 1) = s
    BY DEF Starts
  <2>3. 0 \in Nat /\ Starts(s, S, 0) <= n - 1 /\ n - 1 < Starts(s, S, 0 + 1)
    BY <1>1, <2>2
  <2> QED
    BY <2>1, <2>3, Zenon DEF LastIn
<1>2. CASE n > s
  <2>1. f = q
    <3>1. NChunksAt(n, s, S) = 1 + q
      BY <1>2 DEF NChunksAt
    <3>2. q \in Nat
      <4> DEFINE a == n - s
      <4>1. a \in Nat
        BY <1>2
      <4> HIDE DEF a
      <4>2. CeilDiv(a, S) \in Nat
        BY <4>1, Ceiling
      <4> QED
        BY <4>2 DEF a
    <3> HIDE DEF q
    <3> QED
      BY <3>1, <3>2 DEF FrontierChunk
  <2>2. q \in Nat \ {0} /\ n - s <= S * q /\ S * q < n - s + S
    <3> DEFINE a == n - s
    <3>1. a \in Nat /\ a > 0
      BY <1>2
    <3> HIDE DEF a
    <3>2. CeilDiv(a, S) \in Nat /\ CeilDiv(a, S) > 0 /\ a <= S * CeilDiv(a, S) /\ S * CeilDiv(a, S) < a + S
      BY <3>1, Ceiling
    <3>3. CeilDiv(a, S) \in Nat \ {0}
      BY <3>2
    <3> QED
      BY <3>2, <3>3, Zenon DEF a
  <2> HIDE DEF q, f
  <2>3. Starts(s, S, q) = s + (q - 1) * S /\ Starts(s, S, q + 1) = s + q * S
    <3>1. q # 0 /\ q + 1 # 0 /\ (q + 1) - 1 = q
      BY <2>2
    <3>2. Starts(s, S, q + 1) = s + ((q + 1) - 1) * S
      BY <3>1, Zenon DEF Starts
    <3> QED
      BY <3>1, <3>2, Zenon DEF Starts
  <2> DEFINE x == S * q
             y == (q - 1) * S
             z == q * S
  <2>4. x \in Nat /\ y = x - S /\ z = x
    BY <2>2
  <2> HIDE DEF x, y, z
  <2>5. n - s <= x /\ x < n - s + S
    BY <2>2 DEF x
  <2>6. s + y <= n - 1 /\ n - 1 < s + z
    BY <1>2, <2>4, <2>5
  <2>7. Starts(s, S, q) <= n - 1 /\ n - 1 < Starts(s, S, q + 1)
    BY <2>3, <2>6, Zenon DEF y, z
  <2>8. LastIn(s, S, n, q)
    BY <2>2, <2>7 DEF LastIn
  <2> QED
    BY <2>1, <2>8, Zenon DEF f
<1> QED
  BY <1>1, <1>2

\* The frontier at a token is the token's chunk.
LEMMA FrontierIsChunk ==
    ASSUME NEW s \in Nat \ {0}, NEW S \in Nat \ {0}, NEW n \in Nat,
           NEW t \in Nat \ {0}, t <= Starts(s, S, n)
    PROVE  /\ FrontierChunk(t, s, S) \in 0 .. n - 1
           /\ FrontierChunk(t, s, S) = ChunkOf(StrideChunking(n, s, S), t - 1)
<1> DEFINE f == FrontierChunk(t, s, S)
           ch == StrideChunking(n, s, S)
<1>1. f \in Nat /\ Starts(s, S, f) <= t - 1 /\ t - 1 < Starts(s, S, f + 1)
  BY FrontierIn DEF LastIn
<1>2. IsChunking(ch) /\ ch.n = n /\ \A k \in 0 .. n : ch.bound[k] = Starts(s, S, k)
  BY StrideIsChunking
<1> HIDE DEF f, ch
<1>3. Starts(s, S, n) \in Nat /\ Starts(s, S, f) \in Nat
  BY <1>1, StartsGrow
<1>4. f < n
  <2> SUFFICES ASSUME n <= f PROVE FALSE
    BY <1>1
  <2>1. Starts(s, S, n) <= Starts(s, S, f)
    BY <1>1, StartsGrow
  <2> QED
    BY <1>1, <1>3, <2>1
<1>5. f \in 0 .. n - 1 /\ f \in 0 .. n /\ f + 1 \in 0 .. n
  BY <1>1, <1>4
<1>6. InChunk(ch, t - 1, f)
  <2>1. ch.bound[f] <= t - 1 /\ t - 1 < ch.bound[f + 1]
    BY <1>1, <1>2, <1>5
  <2> QED
    BY <1>2, <1>5, <2>1 DEF InChunk
<1>7. t - 1 \in 0 .. ch.bound[ch.n] - 1
  <2>1. ch.bound[ch.n] = Starts(s, S, n)
    BY <1>2
  <2> QED
    BY <1>3, <2>1
<1>8. f = ChunkOf(ch, t - 1)
  BY <1>2, <1>6, <1>7, ChunkOfIs
<1> QED
  BY <1>5, <1>8 DEF f, ch

\* Chunk j has left attention when the frontier is chunk c, in terms of starts.
StrideOut(s, S, w, j, c) ==
    /\ 1 <= j /\ j < c
    /\ \/ c - j + 1 > StrideLimits(w).chunks
       \/ w > 0 /\ s + (Starts(s, S, c + 1) - Starts(s, S, j)) > w

\* How long the sequence is does not matter for it.
LEMMA StrideEvicted ==
    ASSUME NEW s \in Nat \ {0}, NEW S \in Nat \ {0}, NEW w \in Nat, NEW n \in Nat,
           NEW c \in 0 .. n - 1, NEW j \in 0 .. c - 1
    PROVE  /\ Evicted(StrideChunking(n, s, S), StrideLimits(w), j, c) <=> StrideOut(s, S, w, j, c)
           /\ ChunkTokens(StrideChunking(n, s, S), j) = Starts(s, S, j) .. Starts(s, S, j + 1) - 1
<1> DEFINE ch == StrideChunking(n, s, S)
           lim == StrideLimits(w)
<1>1. ch.n = n /\ \A k \in 0 .. n : ch.bound[k] = Starts(s, S, k)
  BY StrideIsChunking
<1>2. lim.chunks = StrideLimits(w).chunks /\ lim.tokens = w /\ lim.sink = 1
  BY DEF StrideLimits
<1>3. Starts(s, S, 1) = s
  BY DEF Starts
<1> HIDE DEF ch, lim
<1>4. c + 1 \in 0 .. n /\ j \in 0 .. n /\ j + 1 \in 0 .. n /\ 1 \in 0 .. n /\ n \in Nat \ {0}
  OBVIOUS
<1>5. SinkTokens(ch, lim) = s
  <2>1. (IF lim.sink < ch.n THEN lim.sink ELSE ch.n) = 1
    BY <1>1, <1>2, <1>4
  <2>2. ch.bound[1] = s
    BY <1>1, <1>3, <1>4
  <2> QED
    BY <2>1, <2>2 DEF SinkTokens
<1>6. SpanTokens(ch, j, c) = Starts(s, S, c + 1) - Starts(s, S, j)
  BY <1>1, <1>4 DEF SpanTokens
<1>7. Exceeds(ch, lim, j, c)
         <=> \/ c - j + 1 > StrideLimits(w).chunks
             \/ w > 0 /\ s + (Starts(s, S, c + 1) - Starts(s, S, j)) > w
  BY <1>2, <1>5, <1>6, Zenon DEF Exceeds
<1>8. Evicted(ch, lim, j, c) <=> StrideOut(s, S, w, j, c)
  BY <1>2, <1>7, Zenon DEF Evicted, StrideOut
<1>9. ChunkTokens(ch, j) = Starts(s, S, j) .. Starts(s, S, j + 1) - 1
  BY <1>1, <1>4 DEF ChunkTokens
<1> QED
  BY <1>8, <1>9 DEF ch, lim

\* The schedule up to a frontier is that of a sequence that ends there.
LEMMA EvictedPrefix ==
    ASSUME NEW s \in Nat \ {0}, NEW S \in Nat \ {0}, NEW w \in Nat, NEW n \in Nat,
           NEW c \in 0 .. n - 1
    PROVE  EvictedTokens(StrideChunking(n, s, S), StrideLimits(w), c)
               = EvictedTokens(StrideChunking(c + 1, s, S), StrideLimits(w), c)
<1> DEFINE Out == {j \in 0 .. c - 1 : StrideOut(s, S, w, j, c)}
           Hidden == UNION {Starts(s, S, j) .. Starts(s, S, j + 1) - 1 : j \in Out}
<1>1. ASSUME NEW m \in Nat, c \in 0 .. m - 1
      PROVE  EvictedTokens(StrideChunking(m, s, S), StrideLimits(w), c) = Hidden
  <2> DEFINE ch == StrideChunking(m, s, S)
             lim == StrideLimits(w)
             X == {j \in 0 .. c - 1 : Evicted(ch, lim, j, c)}
  <2>1. \A j \in 0 .. c - 1 : /\ Evicted(ch, lim, j, c) <=> StrideOut(s, S, w, j, c)
                              /\ ChunkTokens(ch, j) = Starts(s, S, j) .. Starts(s, S, j + 1) - 1
    BY <1>1, StrideEvicted
  <2> HIDE DEF ch, lim
  <2>2. X = Out
    BY <2>1, Zenon
  <2>3. \A j \in X : ChunkTokens(ch, j) = Starts(s, S, j) .. Starts(s, S, j + 1) - 1
    BY <2>1
  <2>4. EvictedTokens(ch, lim, c) = UNION {ChunkTokens(ch, j) : j \in X}
    BY DEF EvictedTokens
  <2> HIDE DEF X, Out
  <2>5. {ChunkTokens(ch, j) : j \in X} = {Starts(s, S, j) .. Starts(s, S, j + 1) - 1 : j \in X}
    BY <2>3, Zenon
  <2> QED
    BY <2>2, <2>4, <2>5, Zenon DEF ch, lim
<1> HIDE DEF Hidden
<1>2. c + 1 \in Nat /\ c \in 0 .. (c + 1) - 1
  OBVIOUS
<1>3. EvictedTokens(StrideChunking(n, s, S), StrideLimits(w), c) = Hidden
  BY <1>1
<1>4. EvictedTokens(StrideChunking(c + 1, s, S), StrideLimits(w), c) = Hidden
  BY <1>1, <1>2
<1> QED
  BY <1>3, <1>4, Zenon

\* Its limits are limits.
LEMMA StrideLimitsAre == ASSUME NEW w \in Nat PROVE IsLimits(StrideLimits(w))
BY DEF StrideLimits, IsLimits

\* A sequence of tokens as stride_glue sees it.
IsTokens(s) == s.len \in Nat \ {0} /\ s.im \subseteq 0 .. s.len - 1

\* What the tokens of a sequence see by a document's schedule, and by the policy.
DocView(d, t) == {u \in 1 .. t : d.step[u] > d.chunk[t]}
PolicyView(s, t) ==
    StrideTrainingView(t - 1, SinkEnd(s), ResolveParams(PromptLen(s)).chunk,
                       ResolveParams(PromptLen(s)).window)

\* A document that carries the stride schedule of a sequence.
IsStrideDocument(d, s) ==
    /\ d.len = s.len /\ d.chunk \in [1 .. d.len -> Nat] /\ d.step \in [1 .. d.len -> Nat]
    /\ \A t \in 1 .. d.len : \A u \in 1 .. t : u \in DocView(d, t) <=> u - 1 \in PolicyView(s, t)

\* stride_glue computes the schedule of the policy.
LEMMA StrideDocumentIs ==
    ASSUME NEW s, IsTokens(s)
    PROVE  IsStrideDocument(StrideDocument(s), s)
<1> DEFINE d == StrideDocument(s)
           sink == SinkEnd(s)
           row == ResolveParams(PromptLen(s))
           S == row.chunk
           w == row.window
           n == NChunksAt(s.len, sink, S)
           ch == StrideChunking(n, sink, S)
           lim == StrideLimits(w)
           of(t) == FrontierChunk(t, sink, S)
           steps == EvictAt(ch, lim)
<1>0. s.len \in Nat \ {0}
  BY DEF IsTokens
<1>1. sink \in Nat \ {0}
  BY SinkIs DEF IsTokens
<1>2. S \in Nat \ {0} /\ w \in Nat
  BY ParamsAre
<1>3. /\ d.len = s.len
      /\ d.chunk = [t \in 1 .. s.len |-> of(t)]
      /\ d.step = [t \in 1 .. s.len |-> steps[of(t)]]
  BY DEF StrideDocument
<1>5. \A t \in 1 .. s.len :
          PolicyView(s, t) = (0 .. t - 1) \ EvictedTokens(StrideChunking(of(t) + 1, sink, S), lim, of(t))
  <2> SUFFICES ASSUME NEW t \in 1 .. s.len
               PROVE  PolicyView(s, t)
                      = (0 .. t - 1) \ EvictedTokens(StrideChunking(of(t) + 1, sink, S), lim, of(t))
    OBVIOUS
  <2>1. t - 1 + 1 = t
    BY <1>0
  <2>2. StrideTrainingView(t - 1, sink, S, w)
           = (0 .. t - 1) \ EvictedTokens(StrideChunking(FrontierChunk(t - 1 + 1, sink, S) + 1, sink, S),
                                          StrideLimits(w), FrontierChunk(t - 1 + 1, sink, S))
    BY Zenon DEF StrideTrainingView
  <2> QED
    BY <2>1, <2>2, Zenon DEF PolicyView
<1> HIDE DEF sink, row, d
<1>6. n \in Nat /\ s.len <= Starts(sink, S, n)
  <2>1. LastIn(sink, S, s.len, FrontierChunk(s.len, sink, S))
    BY <1>0, <1>1, <1>2, FrontierIn
  <2> DEFINE f == FrontierChunk(s.len, sink, S)
  <2>2. f \in Nat /\ s.len - 1 < Starts(sink, S, f + 1)
    BY <2>1 DEF LastIn
  <2>3. n \in Int
    <3>1. CASE s.len <= sink
      <4>1. n = 1
        <5>1. ~(s.len <= 0)
          BY <1>0
        <5> QED
          BY <3>1, <5>1, Zenon DEF NChunksAt
      <4> HIDE DEF n
      <4> QED
        BY <4>1
    <3>2. CASE s.len > sink
      <4> DEFINE a == s.len - sink
      <4>1. a \in Nat
        BY <1>0, <1>1, <3>2
      <4> HIDE DEF a
      <4>2. CeilDiv(a, S) \in Nat
        BY <1>2, <4>1, Ceiling
      <4>3. n = 1 + CeilDiv(a, S)
        <5>1. ~(s.len <= sink) /\ ~(s.len <= 0)
          BY <1>0, <1>1, <3>2
        <5> QED
          BY <5>1, Zenon DEF NChunksAt, a
      <4> HIDE DEF n
      <4> QED
        BY <4>2, <4>3
    <3> QED
      BY <1>0, <1>1, <3>1, <3>2
  <2>4. f = n - 1
    BY DEF FrontierChunk
  <2> HIDE DEF f, n
  <2>5. f + 1 = n
    BY <2>3, <2>4
  <2>6. Starts(sink, S, n) \in Nat
    <3>1. n \in Nat
      BY <2>2, <2>5
    <3> HIDE DEF S
    <3> QED
      BY <1>1, <1>2, <3>1, StartsGrow
  <2> QED
    BY <1>0, <2>2, <2>5, <2>6
<1> HIDE DEF n, S, w
<1>7. IsChunking(ch) /\ ch.n = n /\ ch.bound[ch.n] = Starts(sink, S, n)
  BY <1>1, <1>2, <1>6, StrideIsChunking
<1>8. IsLimits(lim)
  BY <1>2, StrideLimitsAre
<1>9. Starts(sink, S, n) \in Nat
  BY <1>1, <1>2, <1>6, StartsGrow
<1>10. \A t \in 1 .. s.len : of(t) \in 0 .. n - 1 /\ of(t) = ChunkOf(ch, t - 1)
  <2> SUFFICES ASSUME NEW t \in 1 .. s.len PROVE of(t) \in 0 .. n - 1 /\ of(t) = ChunkOf(ch, t - 1)
    OBVIOUS
  <2>1. t \in Nat \ {0} /\ t <= Starts(sink, S, n)
    BY <1>0, <1>6, <1>9
  <2> QED
    BY <1>1, <1>2, <1>6, <2>1, FrontierIsChunk
<1>11. \A t \in 1 .. s.len :
           EvictedTokens(StrideChunking(of(t) + 1, sink, S), lim, of(t)) = EvictedTokens(ch, lim, of(t))
  <2> SUFFICES ASSUME NEW t \in 1 .. s.len
               PROVE  EvictedTokens(StrideChunking(of(t) + 1, sink, S), lim, of(t))
                          = EvictedTokens(ch, lim, of(t))
    OBVIOUS
  <2> DEFINE c == of(t)
  <2>1. c \in 0 .. n - 1
    BY <1>10
  <2> HIDE DEF c
  <2>2. EvictedTokens(StrideChunking(n, sink, S), StrideLimits(w), c)
            = EvictedTokens(StrideChunking(c + 1, sink, S), StrideLimits(w), c)
    BY <1>1, <1>2, <1>6, <2>1, EvictedPrefix
  <2> QED
    BY <2>2, Zenon DEF c
<1> HIDE DEF ch, lim, of
<1>12. \A t \in 1 .. s.len : of(t) \in Nat /\ steps[of(t)] \in Nat
  <2> SUFFICES ASSUME NEW t \in 1 .. s.len PROVE of(t) \in Nat /\ steps[of(t)] \in Nat
    OBVIOUS
  <2> DEFINE j == of(t)
  <2>1. j \in 0 .. n - 1
    BY <1>10
  <2> HIDE DEF j
  <2>2. EvictAt(ch, lim)[j] \in Nat
    BY <1>7, <1>8, <2>1, EvictAtIs
  <2> QED
    BY <2>1, <2>2 DEF j
<1> HIDE DEF steps
<1>13. d.chunk \in [1 .. s.len -> Nat] /\ d.step \in [1 .. s.len -> Nat]
  BY <1>3, <1>12
<1>14. ASSUME NEW t \in 1 .. s.len, NEW u \in 1 .. t
       PROVE  u \in DocView(d, t) <=> u - 1 \in PolicyView(s, t)
  <2>0. u \in 1 .. s.len /\ u - 1 \in 0 .. t - 1 /\ t - 1 \in 0 .. ch.bound[ch.n] - 1
    BY <1>0, <1>6, <1>7, <1>9
  <2>1. EvictAt(ch, lim)[ChunkOf(ch, u - 1)] > ChunkOf(ch, t - 1)
            <=> u - 1 \notin EvictedTokens(ch, lim, ChunkOf(ch, t - 1))
    BY <1>7, <1>8, <2>0, ScheduleView
  <2>2. d.step[u] = EvictAt(ch, lim)[ChunkOf(ch, u - 1)] /\ d.chunk[t] = ChunkOf(ch, t - 1)
    BY <1>3, <1>10, <2>0 DEF steps
  <2>3. u \in DocView(d, t) <=> d.step[u] > d.chunk[t]
    BY DEF DocView
  <2>4. u - 1 \in PolicyView(s, t) <=> u - 1 \notin EvictedTokens(ch, lim, ChunkOf(ch, t - 1))
    BY <1>5, <1>10, <1>11, <2>0
  <2> QED
    BY <2>1, <2>2, <2>3, <2>4, Zenon
<1> QED
  BY <1>3, <1>13, <1>14, Zenon DEF IsStrideDocument, d

\* The i-th smallest element of a set of numbers, as Segments finds it.
NthOf(T, i) == CHOOSE t \in T : Cardinality({u \in T : u < t}) = i - 1

\* A set listed in order.
ListsInOrder(f, n, T) ==
    /\ f \in [1 .. n -> Nat] /\ T = {f[i] : i \in 1 .. n}
    /\ \A i, j \in 1 .. n : i < j => f[i] < f[j]

\* Its size, and its i-th element.
LEMMA Enumerated ==
    ASSUME NEW n \in Nat, NEW f, NEW T, ListsInOrder(f, n, T)
    PROVE  Cardinality(T) = n /\ \A i \in 1 .. n : NthOf(T, i) = f[i]
<1>1. /\ f \in [1 .. n -> Nat] /\ T = {f[i] : i \in 1 .. n}
      /\ \A i, j \in 1 .. n : i < j => f[i] < f[j]
  BY DEF ListsInOrder
<1>2. ASSUME NEW k \in 0 .. n PROVE Cardinality({f[i] : i \in 1 .. k}) = k
  <2> DEFINE X == {f[i] : i \in 1 .. k}
             g == [i \in 1 .. k |-> f[i]]
  <2>1. IsFiniteSet(1 .. k) /\ Cardinality(1 .. k) = k
    <3>1. 1 \in Int /\ k \in Int
      OBVIOUS
    <3>2. IsFiniteSet(1 .. k) /\ Cardinality(1 .. k) = IF 1 > k THEN 0 ELSE k - 1 + 1
      BY <3>1, FS_Interval, Zenon
    <3> QED
      BY <3>2
  <2>2. g \in [1 .. k -> X] /\ \A x \in X : \E i \in 1 .. k : g[i] = x
    OBVIOUS
  <2>3. ASSUME NEW i \in 1 .. k, NEW j \in 1 .. k, g[i] = g[j] PROVE i = j
    <3>1. i \in 1 .. n /\ j \in 1 .. n /\ f[i] = f[j] /\ f[i] \in Nat /\ f[j] \in Nat
      BY <1>1, <2>3
    <3>2. ~(i < j) /\ ~(j < i)
      BY <1>1, <3>1
    <3> QED
      BY <3>1, <3>2
  <2> HIDE DEF X, g
  <2>4. g \in Surjection(1 .. k, X) /\ g \in Injection(1 .. k, X)
    BY <2>2, <2>3 DEF Surjection, Injection, IsInjective
  <2>5. Cardinality(X) = Cardinality(1 .. k)
    BY <2>1, <2>4, FS_Surjection
  <2> QED
    BY <2>1, <2>5 DEF X
<1>3. ASSUME NEW i \in 1 .. n PROVE Cardinality({u \in T : u < f[i]}) = i - 1
  <2>1. {u \in T : u < f[i]} = {f[j] : j \in 1 .. i - 1}
    <3>1. ASSUME NEW u \in T, u < f[i] PROVE u \in {f[j] : j \in 1 .. i - 1}
      <4>1. PICK j \in 1 .. n : u = f[j]
        BY <1>1
      <4>2. ~(i < j) /\ i # j
        <5>1. f[i] \in Nat /\ f[j] \in Nat /\ f[j] < f[i]
          BY <1>1, <3>1, <4>1
        <5>2. i < j => f[i] < f[j]
          BY <1>1
        <5> QED
          BY <5>1, <5>2
      <4>3. j \in 1 .. i - 1
        BY <4>2
      <4> QED
        BY <4>1, <4>3
    <3>2. ASSUME NEW j \in 1 .. i - 1 PROVE f[j] \in T /\ f[j] < f[i]
      <4>1. j \in 1 .. n /\ j < i
        OBVIOUS
      <4> QED
        BY <1>1, <4>1
    <3> QED
      BY <3>1, <3>2
  <2>2. i - 1 \in 0 .. n
    OBVIOUS
  <2>3. Cardinality({f[j] : j \in 1 .. i - 1}) = i - 1
    BY <1>2, <2>2
  <2> QED
    BY <2>1, <2>3, Zenon
<1>4. ASSUME NEW i \in 1 .. n PROVE NthOf(T, i) = f[i]
  <2> DEFINE t == NthOf(T, i)
  <2>1. \E x \in T : Cardinality({u \in T : u < x}) = i - 1
    <3>1. f[i] \in T
      BY <1>1
    <3> QED
      BY <1>3, <3>1, Zenon
  <2>2. t \in T /\ Cardinality({u \in T : u < t}) = i - 1
    BY <2>1, Zenon DEF NthOf
  <2> HIDE DEF t
  <2>3. PICK j \in 1 .. n : t = f[j]
    BY <1>1, <2>2
  <2>4. Cardinality({u \in T : u < t}) = j - 1
    BY <1>3, <2>3
  <2>5. j = i
    BY <2>2, <2>4
  <2> QED
    BY <2>3, <2>5 DEF t
<1>5. T = {f[i] : i \in 1 .. n} /\ n \in 0 .. n
  BY <1>1
<1> QED
  BY <1>2, <1>4, <1>5

\* The sequences of a micro-batch.
AreTokens(toks, n) ==
    /\ n \in Nat \ {0}
    /\ toks = [i \in 1 .. n |-> [len |-> toks[i].len, im |-> toks[i].im]]
    /\ \A i \in 1 .. n : IsTokens(toks[i])

\* Where they stand in verl's row, and what the row says there.
FlatHolds(flat, toks, n) ==
    /\ Len(toks) = n /\ DOMAIN toks = 1 .. n
    /\ flat.len = Used(toks) /\ Used(toks) \in Nat
    /\ Offset(toks, 1) = 0 /\ Offset(toks, n + 1) = Used(toks)
    /\ \A i \in 1 .. n + 1 : Offset(toks, i) \in Nat
    /\ \A i \in 1 .. n : Offset(toks, i + 1) = Offset(toks, i) + toks[i].len
    /\ \A i \in 1 .. n : \A k \in i + 1 .. n + 1 : Offset(toks, i) + toks[i].len <= Offset(toks, k)
    /\ \A q \in 1 .. Used(toks) : \E i \in 1 .. n : \E t \in 1 .. toks[i].len : q = Offset(toks, i) + t
    /\ \A i \in 1 .. n : \A t \in 1 .. toks[i].len : flat.pos[Offset(toks, i) + t] = t - 1

\* verl's row puts one sequence after the other.
LEMMA FlatRowHolds ==
    ASSUME NEW toks, NEW n, AreTokens(toks, n)
    PROVE  FlatHolds(FlatRow(toks), toks, n)
<1> DEFINE len(i) == toks[i].len
           off(i) == Offset(toks, i)
           flat == FlatRow(toks)
           parts == [i \in 1 .. n |-> Count(toks[i].len)]
<1>1. n \in Nat \ {0} /\ \A i \in 1 .. n : len(i) \in Nat \ {0}
  BY DEF AreTokens, IsTokens
<1>2. Len(toks) = n /\ DOMAIN toks = 1 .. n
  <2> DEFINE S == {[len |-> toks[i].len, im |-> toks[i].im] : i \in 1 .. n}
  <2>1. toks = [i \in 1 .. n |-> [len |-> toks[i].len, im |-> toks[i].im]]
    BY Zenon DEF AreTokens
  <2>2. [i \in 1 .. n |-> [len |-> toks[i].len, im |-> toks[i].im]] \in [1 .. n -> S]
    OBVIOUS
  <2>3. toks \in [1 .. n -> S]
    BY <2>1, <2>2, Zenon
  <2> HIDE DEF S
  <2> QED
    BY <1>1, <2>3, SegmentSeq
<1>3. Len(toks) \in Nat /\ \A j \in 1 .. Len(toks) : toks[j].len \in Nat
  BY <1>1, <1>2
<1>4. /\ \A i \in 1 .. n + 1 : off(i) \in Nat
      /\ off(1) = 0
      /\ \A i \in 1 .. n : off(i + 1) = off(i) + len(i)
  BY <1>2, <1>3, OffsetIs
<1>5. \A i \in 1 .. n : \A k \in i + 1 .. n + 1 : off(i) + len(i) <= off(k)
  BY <1>2, <1>3, OffsetMono
<1>6. \A q \in 1 .. Used(toks) : \E i \in 1 .. n : \E t \in 1 .. len(i) : q = off(i) + t
  BY <1>2, <1>3, PlaceIn
<1>7. off(n + 1) = Used(toks) /\ Used(toks) \in Nat
  <2>1. Used(toks) = off(n + 1)
    BY <1>2 DEF Used
  <2>2. n + 1 \in 1 .. n + 1
    BY <1>1
  <2> QED
    BY <1>4, <2>1, <2>2
<1>8. \A i \in 1 .. n : \A t \in 1 .. len(i) : flat.pos[off(i) + t] = t - 1
  <2>1. flat.pos = FlattenSeq(parts)
    BY <1>2 DEF FlatRow
  <2>2. \A i \in 1 .. n : parts[i] = Count(toks[i].len)
    OBVIOUS
  <2>3. parts = [i \in 1 .. n |-> parts[i]]
    OBVIOUS
  <2> HIDE DEF parts, flat
  <2>4. ASSUME NEW i \in 1 .. n
        PROVE  /\ parts[i] \in Seq(Int) /\ Len(parts[i]) = len(i)
               /\ \A t \in 1 .. len(i) : parts[i][t] = t - 1
    <3> DEFINE c == parts[i]
    <3>1. c = [t \in 1 .. len(i) |-> t - 1] /\ len(i) \in Nat
      BY <1>1, <2>2 DEF Count
    <3> HIDE DEF c, len
    <3>2. c \in [1 .. len(i) -> Int] /\ \A t \in 1 .. len(i) : c[t] = t - 1
      BY <3>1
    <3>3. c \in Seq(Int) /\ Len(c) = len(i)
      BY <3>1, <3>2, SegmentSeq
    <3> QED
      BY <3>2, <3>3 DEF c
  <2>5. parts \in [1 .. n -> Seq(Int)]
    BY <2>3, <2>4
  <2>6. parts \in Seq(Seq(Int)) /\ Len(parts) = n
    BY <1>1, <2>5, SegmentSeq
  <2>7. Lays(toks, parts)
    BY <1>2, <2>4, <2>6 DEF Lays
  <2>8. IsFlat(FlattenSeq(parts), parts, toks, Int)
    BY <2>6, <2>7, FlattenPlaces
  <2>9. \A i \in 1 .. n : \A t \in 1 .. len(i) : FlattenSeq(parts)[off(i) + t] = parts[i][t]
    BY <2>4, <2>6, <2>8 DEF IsFlat
  <2> HIDE DEF len, off
  <2> QED
    BY <2>1, <2>4, <2>9
<1>9. flat.len = Used(toks)
  BY DEF FlatRow
<1> QED
  BY <1>2, <1>4, <1>5, <1>6, <1>7, <1>8, <1>9, Zenon DEF FlatHolds

\* Where derive_stride_eviction cuts.
StartsOf(flat) == {t \in 0 .. flat.len - 1 : flat.pos[t + 1] = 0}
EndsOf(flat) == (StartsOf(flat) \ {0}) \cup {flat.len}
SegmentOf(flat, a, b) == [len |-> b - a, im |-> {t - a : t \in flat.im \cap (a .. b - 1)}]

\* Segments cuts there.
LEMMA SegmentsAt ==
    ASSUME NEW flat
    PROVE  Segments(flat) = [i \in 1 .. Cardinality(StartsOf(flat)) |->
                                SegmentOf(flat, NthOf(StartsOf(flat), i), NthOf(EndsOf(flat), i))]
BY Zenon DEF Segments, StartsOf, EndsOf, SegmentOf, NthOf

\* A position 0 is where a sequence starts.
LEMMA CutsAre ==
    ASSUME NEW toks, NEW n, AreTokens(toks, n), NEW flat, FlatHolds(flat, toks, n)
    PROVE  /\ ListsInOrder([i \in 1 .. n |-> Offset(toks, i)], n, StartsOf(flat))
           /\ ListsInOrder([i \in 1 .. n |-> Offset(toks, i + 1)], n, EndsOf(flat))
<1> DEFINE len(i) == toks[i].len
           off(i) == Offset(toks, i)
           U == Used(toks)
           f == [i \in 1 .. n |-> off(i)]
           g == [i \in 1 .. n |-> off(i + 1)]
<1>1. n \in Nat \ {0} /\ \A i \in 1 .. n : len(i) \in Nat \ {0}
  BY DEF AreTokens, IsTokens
<1>2. /\ flat.len = U /\ U \in Nat /\ off(1) = 0 /\ off(n + 1) = U
      /\ \A i \in 1 .. n + 1 : off(i) \in Nat
      /\ \A i \in 1 .. n : \A k \in i + 1 .. n + 1 : off(i) + len(i) <= off(k)
      /\ \A q \in 1 .. U : \E i \in 1 .. n : \E t \in 1 .. len(i) : q = off(i) + t
      /\ \A i \in 1 .. n : \A t \in 1 .. len(i) : flat.pos[off(i) + t] = t - 1
  BY Zenon DEF FlatHolds
<1> HIDE DEF len, off, U
<1>3. ASSUME NEW i \in 1 .. n, NEW k \in 1 .. n + 1, i < k PROVE off(i) < off(k)
  <2>1. k \in i + 1 .. n + 1 /\ i \in 1 .. n + 1
    BY <1>1, <1>3
  <2>2. off(i) + len(i) <= off(k) /\ off(i) \in Nat /\ off(k) \in Nat /\ len(i) \in Nat \ {0}
    BY <1>1, <1>2, <2>1
  <2> QED
    BY <2>2
<1>4. \A i \in 1 .. n : i \in 1 .. n + 1 /\ i + 1 \in 1 .. n + 1
  BY <1>1
<1>5. StartsOf(flat) = {off(i) : i \in 1 .. n}
  <2>1. ASSUME NEW t \in StartsOf(flat) PROVE t \in {off(i) : i \in 1 .. n}
    <3>1. t \in 0 .. U - 1 /\ flat.pos[t + 1] = 0
      BY <1>2, <2>1 DEF StartsOf
    <3>2. t + 1 \in 1 .. U
      BY <1>2, <3>1
    <3>3. PICK i \in 1 .. n : \E v \in 1 .. len(i) : t + 1 = off(i) + v
      BY <1>2, <3>2
    <3>4. PICK v \in 1 .. len(i) : t + 1 = off(i) + v
      BY <3>3
    <3>5. v - 1 = 0
      BY <1>2, <3>1, <3>4
    <3>6. off(i) \in Nat
      BY <1>2, <1>4
    <3>7. t = off(i)
      BY <3>1, <3>4, <3>5, <3>6
    <3> QED
      BY <3>7
  <2>2. ASSUME NEW i \in 1 .. n PROVE off(i) \in StartsOf(flat)
    <3>1. n + 1 \in 1 .. n + 1 /\ i < n + 1 /\ off(i) \in Nat
      BY <1>1, <1>2, <1>4
    <3>2. off(i) < U
      BY <1>2, <1>3, <3>1
    <3>3. 1 \in 1 .. len(i)
      BY <1>1
    <3>4. flat.pos[off(i) + 1] = 1 - 1
      BY <1>2, <3>3
    <3>5. off(i) \in 0 .. U - 1
      BY <1>2, <3>1, <3>2
    <3> QED
      BY <1>2, <3>4, <3>5 DEF StartsOf
  <2> QED
    BY <2>1, <2>2
<1>6. EndsOf(flat) = {off(i + 1) : i \in 1 .. n}
  <2>1. ASSUME NEW t \in EndsOf(flat) PROVE t \in {off(i + 1) : i \in 1 .. n}
    <3>1. CASE t = U
      <4>1. n \in 1 .. n /\ t = off(n + 1)
        BY <1>1, <1>2, <3>1
      <4> QED
        BY <4>1
    <3>2. CASE t # U
      <4>1. t \in StartsOf(flat) /\ t # 0
        BY <1>2, <2>1, <3>2 DEF EndsOf
      <4>2. PICK k \in 1 .. n : t = off(k)
        BY <1>5, <4>1
      <4>3. k # 1
        BY <1>2, <4>1, <4>2
      <4>4. k - 1 \in 1 .. n /\ (k - 1) + 1 = k
        BY <1>1, <4>3
      <4> QED
        BY <4>2, <4>4
    <3> QED
      BY <3>1, <3>2
  <2>2. ASSUME NEW i \in 1 .. n PROVE off(i + 1) \in EndsOf(flat)
    <3>1. CASE i = n
      BY <1>2, <3>1 DEF EndsOf
    <3>2. CASE i # n
      <4>1. i + 1 \in 1 .. n /\ 1 \in 1 .. n /\ i + 1 \in 1 .. n + 1 /\ 1 < i + 1
        BY <1>1, <3>2
      <4>2. off(i + 1) \in StartsOf(flat)
        BY <1>5, <4>1
      <4>3. off(1) < off(i + 1)
        BY <1>3, <4>1
      <4>4. off(i + 1) # 0
        BY <1>2, <4>3
      <4> QED
        BY <4>2, <4>4 DEF EndsOf
    <3> QED
      BY <3>1, <3>2
  <2> QED
    BY <2>1, <2>2
<1>7. ListsInOrder(f, n, StartsOf(flat))
  <2>1. f \in [1 .. n -> Nat] /\ \A i \in 1 .. n : f[i] = off(i)
    BY <1>2, <1>4
  <2>2. StartsOf(flat) = {f[i] : i \in 1 .. n}
    BY <1>5, <2>1
  <2>3. \A i, j \in 1 .. n : i < j => f[i] < f[j]
    BY <1>3, <1>4, <2>1
  <2> HIDE DEF f
  <2> QED
    BY <2>1, <2>2, <2>3 DEF ListsInOrder
<1>8. ListsInOrder(g, n, EndsOf(flat))
  <2>1. g \in [1 .. n -> Nat] /\ \A i \in 1 .. n : g[i] = off(i + 1)
    BY <1>2, <1>4
  <2>2. EndsOf(flat) = {g[i] : i \in 1 .. n}
    BY <1>6, <2>1
  <2>3. ASSUME NEW i \in 1 .. n, NEW j \in 1 .. n, i < j PROVE g[i] < g[j]
    <3>1. i + 1 \in 1 .. n /\ j + 1 \in 1 .. n + 1 /\ i + 1 < j + 1
      BY <1>1, <2>3
    <3>2. off(i + 1) < off(j + 1)
      BY <1>3, <3>1
    <3> QED
      BY <2>1, <3>2
  <2> HIDE DEF g
  <2> QED
    BY <2>1, <2>2, <2>3 DEF ListsInOrder
<1> QED
  BY <1>7, <1>8 DEF f, g, off

\* stride_glue finds the sequences again.
LEMMA SegmentsAre ==
    ASSUME NEW toks, NEW n, AreTokens(toks, n)
    PROVE  Segments(FlatRow(toks)) = toks
<1> DEFINE flat == FlatRow(toks)
           f == [i \in 1 .. n |-> Offset(toks, i)]
           g == [i \in 1 .. n |-> Offset(toks, i + 1)]
           len(i) == toks[i].len
           off(i) == Offset(toks, i)
<1>1. FlatHolds(flat, toks, n)
  BY FlatRowHolds
<1>2. n \in Nat \ {0} /\ toks = [i \in 1 .. n |-> [len |-> toks[i].len, im |-> toks[i].im]]
  BY Zenon DEF AreTokens
<1>3. \A i \in 1 .. n : len(i) \in Nat \ {0} /\ toks[i].im \subseteq 0 .. len(i) - 1
  BY DEF AreTokens, IsTokens
<1>4. flat.im = UNION {{off(i) + t : t \in toks[i].im} : i \in 1 .. n}
  <2>1. DOMAIN toks = 1 .. n
    BY <1>1 DEF FlatHolds
  <2> QED
    BY <2>1 DEF FlatRow
<1> HIDE DEF flat
<1>5. ListsInOrder(f, n, StartsOf(flat)) /\ ListsInOrder(g, n, EndsOf(flat))
  BY <1>1, CutsAre, Zenon
<1>6. /\ \A i \in 1 .. n + 1 : off(i) \in Nat
      /\ \A i \in 1 .. n : off(i + 1) = off(i) + len(i)
      /\ \A i \in 1 .. n : \A k \in i + 1 .. n + 1 : off(i) + len(i) <= off(k)
  BY <1>1, Zenon DEF FlatHolds
<1>7. \A i \in 1 .. n : f[i] = off(i) /\ g[i] = off(i + 1)
  OBVIOUS
<1> HIDE DEF f, g, len, off
<1>8. Cardinality(StartsOf(flat)) = n /\ \A i \in 1 .. n : NthOf(StartsOf(flat), i) = off(i)
  BY <1>2, <1>5, <1>7, Enumerated
<1>9. \A i \in 1 .. n : NthOf(EndsOf(flat), i) = off(i + 1)
  BY <1>2, <1>5, <1>7, Enumerated
<1>10. ASSUME NEW i \in 1 .. n
       PROVE  SegmentOf(flat, off(i), off(i + 1)) = [len |-> toks[i].len, im |-> toks[i].im]
  <2>1. off(i) \in Nat /\ off(i + 1) = off(i) + len(i) /\ len(i) \in Nat \ {0}
    BY <1>2, <1>3, <1>6
  <2>2. off(i + 1) - off(i) = len(i)
    BY <2>1
  <2>3. {t - off(i) : t \in flat.im \cap (off(i) .. off(i + 1) - 1)} = toks[i].im
    <3>1. ASSUME NEW t \in flat.im, t \in off(i) .. off(i + 1) - 1 PROVE t - off(i) \in toks[i].im
      <4>1. PICK k \in 1 .. n : t \in {off(k) + v : v \in toks[k].im}
        BY <1>4
      <4>2. PICK v \in toks[k].im : t = off(k) + v
        BY <4>1
      <4>3. off(k) \in Nat /\ len(k) \in Nat /\ v \in 0 .. len(k) - 1
        <5>1. k \in 1 .. n + 1
          BY <1>2
        <5> QED
          BY <1>3, <1>6, <5>1
      <4>4. off(i) <= t /\ t < off(i) + len(i) /\ off(k) <= t /\ t < off(k) + len(k) /\ t \in Int
        BY <2>1, <3>1, <4>2, <4>3
      <4>5. ~(k < i)
        <5> SUFFICES ASSUME k < i PROVE FALSE
          OBVIOUS
        <5>1. i \in k + 1 .. n + 1
          BY <1>2
        <5>2. off(k) + len(k) <= off(i)
          BY <1>6, <5>1
        <5> QED
          BY <2>1, <4>3, <4>4, <5>2
      <4>6. ~(i < k)
        <5> SUFFICES ASSUME i < k PROVE FALSE
          OBVIOUS
        <5>1. k \in i + 1 .. n + 1
          BY <1>2
        <5>2. off(i) + len(i) <= off(k)
          BY <1>6, <5>1
        <5> QED
          BY <2>1, <4>3, <4>4, <5>2
      <4>7. k = i
        BY <4>5, <4>6
      <4>8. t - off(i) = v
        BY <2>1, <4>2, <4>3, <4>7
      <4> QED
        BY <4>7, <4>8
    <3>2. ASSUME NEW v \in toks[i].im
          PROVE  \E t \in flat.im \cap (off(i) .. off(i + 1) - 1) : v = t - off(i)
      <4>1. v \in 0 .. len(i) - 1
        BY <1>3
      <4>2. off(i) + v \in flat.im
        BY <1>4
      <4>3. off(i) + v \in off(i) .. off(i + 1) - 1 /\ v = (off(i) + v) - off(i)
        BY <2>1, <4>1
      <4> QED
        BY <4>2, <4>3
    <3> QED
      BY <3>1, <3>2
  <2> QED
    BY <2>2, <2>3, Zenon DEF SegmentOf, len
<1>11. Segments(flat) = [i \in 1 .. n |-> SegmentOf(flat, NthOf(StartsOf(flat), i), NthOf(EndsOf(flat), i))]
  BY <1>8, SegmentsAt, Zenon
<1>12. \A i \in 1 .. n : SegmentOf(flat, NthOf(StartsOf(flat), i), NthOf(EndsOf(flat), i))
                             = [len |-> toks[i].len, im |-> toks[i].im]
  BY <1>8, <1>9, <1>10, Zenon
<1>13. Segments(flat) = [i \in 1 .. n |-> [len |-> toks[i].len, im |-> toks[i].im]]
  BY <1>11, <1>12, Zenon
<1> QED
  BY <1>2, <1>13, Zenon DEF flat

\* A row is padded by a number of tokens.
LEMMA PadLenIs == ASSUME NEW n \in Nat PROVE PadLen(n) \in Nat
<1> DEFINE big == {PadMultiple \div 8, PadFloor}
           quantum == IF n <= PadMultiple THEN PadMultiple ELSE Max(big)
           c == CeilDiv(n, quantum)
<1>1. PadMultiple \in Nat /\ PadFloor \in Nat \ {0}
  BY RowAssumption
<1>2. PadLen(n) = IF PadMultiple = 0 THEN 0 ELSE c * quantum - n
  BY Zenon DEF PadLen
<1>3. CASE PadMultiple = 0
  BY <1>2, <1>3
<1>4. CASE PadMultiple # 0
  <2>1. quantum \in Nat \ {0}
    <3>1. PadMultiple \div 8 \in Nat
      BY <1>1
    <3> DEFINE d == PadMultiple \div 8
    <3>2. big = {d, PadFloor} /\ d \in Nat
      BY <3>1
    <3> HIDE DEF d
    <3>3. big \subseteq Nat /\ big # {} /\ PadFloor \in big /\ \A x \in big : x <= d + PadFloor
      BY <1>1, <3>2
    <3>4. d + PadFloor \in Nat
      BY <1>1, <3>2
    <3> HIDE DEF big
    <3>5. Max(big) \in big /\ \A x \in big : x <= Max(big)
      BY <3>3, <3>4, MaxOf
    <3>6. Max(big) \in Nat /\ PadFloor <= Max(big)
      BY <3>3, <3>5
    <3>7. Max(big) \in Nat \ {0}
      BY <1>1, <3>6
    <3> QED
      BY <1>1, <1>4, <3>7
  <2> HIDE DEF quantum
  <2>2. c \in Nat /\ n <= quantum * c
    BY <2>1, Ceiling
  <2> HIDE DEF c
  <2>3. c * quantum = quantum * c /\ c * quantum \in Nat
    BY <2>1, <2>2
  <2> DEFINE x == c * quantum
  <2>4. x \in Nat /\ n <= x
    BY <2>2, <2>3
  <2> HIDE DEF x
  <2>5. x - n \in Nat
    BY <2>4
  <2> QED
    BY <1>2, <1>4, <2>5, Zenon DEF x
<1> QED
  BY <1>3, <1>4

\* What RlRow promises of a row.
Serves(row, toks, n) ==
    /\ \A i \in 1 .. n : \A t \in 1 .. toks[i].len :
          /\ Visible(row, Offset(toks, i) + t) = {Offset(toks, i) + 1 + v : v \in PolicyView(toks[i], t)}
          /\ Scanned(row, Offset(toks, i) + t) = Offset(toks, i) + 1 .. Offset(toks, i) + t
    /\ \A q \in Used(toks) + 1 .. row.len :
          (Visible(row, q) \cup Scanned(row, q)) \cap (1 .. Used(toks)) = {}

\* A token sees no later one.
LEMMA PolicySees ==
    ASSUME NEW s, NEW t \in Nat
    PROVE  PolicyView(s, t) \subseteq 0 .. t - 1
BY Zenon DEF PolicyView, StrideTrainingView

\* Without cuts the scan starts at the start.
LEMMA UncutScan ==
    ASSUME NEW row, row.cu = {}, NEW q \in Nat
    PROVE  Scanned(row, q) = 1 .. q
<1> DEFINE T == {0} \cup {c \in row.cu : c < q}
<1>1. T = {0}
  OBVIOUS
<1>2. {0} \subseteq Nat /\ {0} # {} /\ \A x \in {0} : x <= 0
  OBVIOUS
<1>3. Max({0}) \in {0}
  BY <1>2, MaxOf
<1>4. Max(T) + 1 = 1
  BY <1>1, <1>3
<1>5. Scanned(row, q) = Max(T) + 1 .. q
  BY Zenon DEF Scanned
<1> HIDE DEF T
<1> QED
  BY <1>4, <1>5, Zenon

\* The model's own cuts change what a row says only where nothing is to cut.
LEMMA RlRowIs ==
    ASSUME NEW toks, NEW n, AreTokens(toks, n), NEW docs, docs = StrideDocuments(FlatRow(toks)),
           NEW total, total = Used(toks) + PadLen(Used(toks)), Len(docs) = n
    PROVE  /\ RlRow(FlatRow(toks)).len = total
           /\ \A q : Visible(RlRow(FlatRow(toks)), q) = Visible(RowOf(docs, total), q)
           /\ \/ RlRow(FlatRow(toks)) = RowOf(docs, total)
              \/ n = 1 /\ total = Used(toks) /\ RlRow(FlatRow(toks)).cu = {}
<1> DEFINE flat == FlatRow(toks)
           pad == PadLen(flat.len)
           row == RowOf(docs, total)
           uncut == [row EXCEPT !.cu = {}]
           rl == RlRow(flat)
<1>1. flat.len = Used(toks)
  BY DEF FlatRow
<1>2. rl = IF Len(docs) = 1 /\ pad = 0 THEN uncut ELSE row
  <2>1. rl = LET r == RowOf(docs, flat.len + pad)
             IN  IF Len(docs) = 1 /\ pad = 0 THEN [r EXCEPT !.cu = {}] ELSE r
    BY Zenon DEF RlRow
  <2>2. flat.len + pad = total
    BY <1>1, Zenon
  <2> QED
    BY <2>1, <2>2, Zenon
<1>3. /\ uncut.len = row.len /\ uncut.seq = row.seq /\ uncut.chunk = row.chunk /\ uncut.step = row.step
      /\ uncut.cu = {} /\ row.len = total
  BY DEF RowOf
<1>4. pad = 0 => total = Used(toks)
  <2>1. Used(toks) \in Nat
    <3>1. FlatHolds(flat, toks, n)
      BY FlatRowHolds
    <3> QED
      BY <3>1 DEF FlatHolds
  <2> QED
    BY <1>1, <2>1
<1> HIDE DEF rl, uncut, row, pad, flat
<1>5. \A q : Visible(uncut, q) = Visible(row, q)
  BY <1>3, Zenon DEF Visible
<1>6. CASE Len(docs) = 1 /\ pad = 0
  <2>1. rl = uncut /\ n = 1
    BY <1>2, <1>6
  <2> QED
    BY <1>3, <1>4, <1>5, <1>6, <2>1, Zenon DEF rl, flat, row
<1>7. CASE ~(Len(docs) = 1 /\ pad = 0)
  <2>1. rl = row
    BY <1>2, <1>7
  <2> QED
    BY <1>3, <2>1, Zenon DEF rl, flat, row
<1> QED
  BY <1>6, <1>7

\* The documents of a row that stride_glue has cut up.
LEMMA StrideDocs ==
    ASSUME NEW toks, NEW n, AreTokens(toks, n), NEW docs, docs = StrideDocuments(FlatRow(toks))
    PROVE  /\ AreDocs(docs, n) /\ SameLengths(docs, toks, n)
           /\ \A i \in 1 .. n : IsStrideDocument(docs[i], toks[i])
<1>1. FlatHolds(FlatRow(toks), toks, n)
  BY FlatRowHolds
<1>2. Len(toks) = n /\ DOMAIN toks = 1 .. n
  BY <1>1 DEF FlatHolds
<1>3. n \in Nat /\ \A i \in 1 .. n : IsTokens(toks[i])
  BY DEF AreTokens
<1>4. Segments(FlatRow(toks)) = toks
  BY SegmentsAre
<1>5. docs = [i \in 1 .. n |-> StrideDocument(toks[i])]
  BY <1>2, <1>4, Zenon DEF StrideDocuments
<1>6. \A i \in 1 .. n : docs[i] = StrideDocument(toks[i])
  BY <1>5
<1>7. Len(docs) = n
  <2> DEFINE S == {StrideDocument(toks[i]) : i \in 1 .. n}
  <2>1. docs \in [1 .. n -> S]
    BY <1>5
  <2> HIDE DEF S
  <2> QED
    BY <1>3, <2>1, SegmentSeq
<1>8. \A i \in 1 .. n : IsStrideDocument(docs[i], toks[i])
  BY <1>3, <1>6, StrideDocumentIs
<1>9. \A i \in 1 .. n : /\ docs[i].len \in Nat /\ toks[i].len = docs[i].len
                        /\ docs[i].chunk \in [1 .. docs[i].len -> Nat]
                        /\ docs[i].step \in [1 .. docs[i].len -> Nat]
  BY <1>3, <1>8 DEF IsStrideDocument, IsTokens
<1> QED
  BY <1>2, <1>3, <1>7, <1>8, <1>9 DEF AreDocs, SameLengths

\* In the row of the actor every token sees what the policy shows it.
LEMMA RlRowServes ==
    ASSUME NEW toks, NEW n, AreTokens(toks, n)
    PROVE  Serves(RlRow(FlatRow(toks)), toks, n)
<1> DEFINE docs == StrideDocuments(FlatRow(toks))
           total == Used(toks) + PadLen(Used(toks))
           rl == RlRow(FlatRow(toks))
           row == RowOf(docs, total)
           off(i) == Offset(toks, i)
           U == Used(toks)
<1>1. /\ AreDocs(docs, n) /\ SameLengths(docs, toks, n)
      /\ \A i \in 1 .. n : IsStrideDocument(docs[i], toks[i])
  BY StrideDocs
<1>2. U \in Nat /\ off(1) = 0 /\ \A i \in 1 .. n : off(i) \in Nat
  <2>1. FlatHolds(FlatRow(toks), toks, n)
    BY FlatRowHolds
  <2>2. n \in Nat
    BY DEF AreTokens
  <2>3. \A i \in 1 .. n : i \in 1 .. n + 1
    BY <2>2
  <2> QED
    BY <2>1, <2>3 DEF FlatHolds
<1>3. Used(docs) = U /\ \A i \in 1 .. n : Offset(docs, i) = off(i)
  BY <1>1, SameOffsets
<1>4. total \in Nat /\ U <= total
  <2>1. PadLen(Used(toks)) \in Nat
    BY <1>2, PadLenIs
  <2> QED
    BY <1>2, <2>1
<1>5. Len(docs) = n /\ \A i \in 1 .. n : docs[i].len \in Nat /\ toks[i].len = docs[i].len
  BY <1>1 DEF SameLengths
<1>6. /\ rl.len = total
      /\ \A q : Visible(rl, q) = Visible(row, q)
      /\ \/ rl = row
         \/ n = 1 /\ total = U /\ rl.cu = {}
  <2> HIDE DEF docs, total
  <2>1. docs = StrideDocuments(FlatRow(toks)) /\ total = Used(toks) + PadLen(Used(toks))
    BY DEF docs, total
  <2> QED
    BY <1>5, <2>1, RlRowIs
<1> HIDE DEF docs, total, rl, off, U
<1>7. ASSUME NEW i \in 1 .. n, NEW t \in 1 .. toks[i].len
      PROVE  /\ Visible(rl, off(i) + t) = {off(i) + 1 + v : v \in PolicyView(toks[i], t)}
             /\ Scanned(rl, off(i) + t) = off(i) + 1 .. off(i) + t
  <2> DEFINE o == off(i)
             q == o + t
             shown == DocView(docs[i], t)
             view == PolicyView(toks[i], t)
  <2>1. t \in 1 .. docs[i].len /\ t \in Nat /\ o \in Nat
    BY <1>2, <1>5
  <2>2. Sees(row, docs, i, t)
    BY <1>1, <1>3, <1>4, <2>1, RowViews
  <2>3. Offset(docs, i) = o
    BY <1>3
  <2>4. /\ Visible(row, q) = {o + u : u \in shown}
        /\ Scanned(row, q) = o + 1 .. q
    BY <2>2, <2>3, Zenon DEF Sees, DocView
  <2>5. view \subseteq 0 .. t - 1
    BY <2>1, PolicySees
  <2>6. IsStrideDocument(docs[i], toks[i])
    BY <1>1
  <2>7. \A u \in 1 .. t : u \in shown <=> u - 1 \in view
    BY <2>1, <2>6, Zenon DEF IsStrideDocument
  <2>8. shown \subseteq 1 .. t
    BY DEF DocView
  <2> HIDE DEF shown, view, row, o
  <2>9. {o + u : u \in shown} = {o + 1 + v : v \in view}
    <3>1. ASSUME NEW u \in shown PROVE \E v \in view : o + u = o + 1 + v
      <4>1. u \in 1 .. t /\ u - 1 \in view
        BY <2>7, <2>8
      <4>2. o + u = o + 1 + (u - 1)
        BY <2>1, <4>1
      <4> QED
        BY <4>1, <4>2
    <3>2. ASSUME NEW v \in view PROVE \E u \in shown : o + 1 + v = o + u
      <4> DEFINE u == v + 1
      <4>1. v \in 0 .. t - 1
        BY <2>5
      <4>2. u \in 1 .. t /\ u - 1 = v /\ o + 1 + v = o + u
        BY <2>1, <4>1
      <4> HIDE DEF u
      <4>3. u \in shown
        BY <2>7, <4>2
      <4> QED
        BY <4>2, <4>3
    <3> QED
      BY <3>1, <3>2
  <2>10. Visible(rl, q) = {o + 1 + v : v \in view}
    BY <1>6, <2>4, <2>9, Zenon DEF row
  <2>11. Scanned(rl, q) = o + 1 .. q
    <3>1. CASE rl = row
      BY <2>4, <3>1, Zenon DEF row
    <3>2. CASE n = 1 /\ rl.cu = {}
      <4>1. i = 1 /\ o = 0
        BY <1>2, <3>2 DEF o
      <4>2. q \in Nat
        BY <2>1
      <4> HIDE DEF q
      <4>3. Scanned(rl, q) = 1 .. q
        BY <3>2, <4>2, UncutScan
      <4>4. o + 1 = 1
        BY <4>1
      <4> QED
        BY <4>3, <4>4, Zenon
    <3> QED
      BY <1>6, <3>1, <3>2, Zenon DEF row
  <2> QED
    BY <2>10, <2>11, Zenon DEF o, view
<1>8. ASSUME NEW q \in U + 1 .. rl.len
      PROVE  (Visible(rl, q) \cup Scanned(rl, q)) \cap (1 .. U) = {}
  <2>1. q \in Used(docs) + 1 .. total
    BY <1>3, <1>6
  <2>2. (Visible(row, q) \cup Scanned(row, q)) \cap (1 .. Used(docs)) = {}
    BY <1>1, <1>3, <1>4, <2>1, PadViews
  <2>3. rl = row
    BY <1>2, <1>4, <1>6
  <2> QED
    BY <1>3, <2>2, <2>3, Zenon
<1> QED
  BY <1>7, <1>8, Zenon DEF Serves, rl, off, U

\* A sequence as it was served.
WasServed(s) ==
    /\ s.out \in Nat /\ s.prompt.len \in Nat
    /\ s.prompt.im # {} /\ s.prompt.im \subseteq 0 .. s.prompt.len - 1
    /\ Max(s.prompt.im) + HeaderLen = s.prompt.len

\* stride_glue finds its prompt again: the parameters are those of serving.
LEMMA TokensAre ==
    ASSUME NEW s, WasServed(s)
    PROVE  /\ Tokens(s) = [len |-> Tokens(s).len, im |-> Tokens(s).im]
           /\ IsTokens(Tokens(s))
           /\ PromptLen(Tokens(s)) = s.prompt.len /\ SinkEnd(Tokens(s)) = SinkEnd(s.prompt)
<1> DEFINE p == s.prompt
           T == p.im
           toks == Tokens(s)
<1>1. /\ s.out \in Nat /\ p.len \in Nat /\ T # {} /\ T \subseteq 0 .. p.len - 1
      /\ Max(T) + 3 = p.len
  BY DEF WasServed, HeaderLen
<1>2. toks = [len |-> p.len + s.out, im |-> T]
  BY DEF Tokens
<1>3. toks.len = p.len + s.out /\ toks.im = T
  BY <1>2
<1> HIDE DEF toks, p, T
<1>4. Max(T) \in T
  <2>1. T \subseteq Nat /\ \A x \in T : x <= p.len
    BY <1>1
  <2> QED
    BY <1>1, <2>1, MaxOf
<1>5. Max(T) \in Nat
  <2> DEFINE x == Max(T)
             k == p.len - 1
  <2>1. x \in 0 .. k
    BY <1>1, <1>4, Zenon
  <2>2. k \in Int
    BY <1>1
  <2> HIDE DEF x, k
  <2>3. x \in Nat
    BY <2>1, <2>2
  <2> QED
    BY <2>3 DEF x
<1>6. p.len >= 3
  BY <1>1, <1>5
<1>7. IsTokens(toks)
  BY <1>1, <1>3, <1>6 DEF IsTokens
<1>8. PromptLen(toks) = p.len
  <2> DEFINE a == p.len
             b == p.len + s.out
  <2>1. a \in Nat /\ b \in Nat /\ a <= b
    BY <1>1
  <2>2. PromptLen(toks) = Min({a, b})
    <3>1. PromptLen(toks) = Min({Max(T) + 3, b})
      BY <1>1, <1>3, Zenon DEF PromptLen, HeaderLen
    <3> QED
      BY <1>1, <3>1, Zenon
  <2> HIDE DEF a, b
  <2>3. {a, b} \subseteq Nat /\ {a, b} # {}
    BY <2>1
  <2>4. Min({a, b}) \in {a, b} /\ \A x \in {a, b} : Min({a, b}) <= x
    BY <2>3, MinOf
  <2>5. Min({a, b}) = a
    BY <2>1, <2>4
  <2> QED
    BY <2>2, <2>5 DEF a
<1>9. SinkEnd(toks) = SinkEnd(p)
  BY <1>3, Zenon DEF SinkEnd, T
<1>10. toks = [len |-> toks.len, im |-> toks.im]
  BY <1>2, <1>3, Zenon
<1> QED
  BY <1>7, <1>8, <1>9, <1>10, Zenon DEF toks, p

\* The sequences of a micro-batch.
TokensOf(m) == [i \in DOMAIN m |-> Tokens(m[i])]

\* The actor holds nothing or the row of a micro-batch.
ActorInv ==
    \/ actor = NoMicroBatch
    \/ \E m \in MicroBatchesOfRl : actor = [seqs |-> m, row |-> RlRow(FlatRow(TokensOf(m)))]

\* Micro-batches hold served sequences.
LEMMA BatchServed ==
    ASSUME NEW m \in MicroBatchesOfRl, m # << >>
    PROVE  /\ Len(m) \in Nat \ {0} /\ DOMAIN m = 1 .. Len(m) /\ \A i \in 1 .. Len(m) : WasServed(m[i])
           /\ AreTokens(TokensOf(m), Len(m))
<1> DEFINE n == Len(m)
           toks == TokensOf(m)
<1>1. m \in Seq(ToSet(m))
  BY RlAssumption
<1>2. n \in Nat \ {0} /\ DOMAIN m = 1 .. n
  <2> DEFINE S == ToSet(m)
  <2>1. m \in Seq(S)
    BY <1>1
  <2> HIDE DEF S
  <2> QED
    BY <2>1
<1>3. \A i \in 1 .. n : WasServed(m[i])
  BY <1>2, RlAssumption, Zenon DEF WasServed
<1>4. toks = [i \in 1 .. n |-> Tokens(m[i])]
  BY <1>2 DEF TokensOf
<1> HIDE DEF n, toks
<1>5. \A i \in 1 .. n : /\ toks[i] = Tokens(m[i])
                        /\ toks[i] = [len |-> toks[i].len, im |-> toks[i].im]
                        /\ IsTokens(toks[i])
  <2> SUFFICES ASSUME NEW i \in 1 .. n
               PROVE  /\ toks[i] = Tokens(m[i])
                      /\ toks[i] = [len |-> toks[i].len, im |-> toks[i].im]
                      /\ IsTokens(toks[i])
    OBVIOUS
  <2>1. toks[i] = Tokens(m[i])
    BY <1>4
  <2>2. WasServed(m[i])
    BY <1>3
  <2> DEFINE s == m[i]
  <2>3. WasServed(s)
    BY <2>2
  <2> HIDE DEF s
  <2>4. Tokens(s) = [len |-> Tokens(s).len, im |-> Tokens(s).im] /\ IsTokens(Tokens(s))
    BY <2>3, TokensAre
  <2> QED
    BY <2>1, <2>4, Zenon DEF s
<1>6. toks = [i \in 1 .. n |-> [len |-> toks[i].len, im |-> toks[i].im]]
  BY <1>4, <1>5, Zenon
<1>7. AreTokens(toks, n)
  BY <1>2, <1>5, <1>6, Zenon DEF AreTokens
<1> QED
  BY <1>2, <1>3, <1>7, Zenon DEF n, toks

\* Every micro-batch is computed with what serving showed its sequences.
LEMMA AsServed == ASSUME ActorInv PROVE SequencesAsServed
<1> DEFINE m == actor.seqs
           docs == [i \in DOMAIN m |-> Tokens(m[i])]
           n == Len(m)
           shown(i, t) == StrideTrainingView(t, SinkEnd(m[i].prompt), ResolveParams(m[i].prompt.len).chunk,
                                             ResolveParams(m[i].prompt.len).window)
<1>1. CASE m = << >>
  <2>1. DOMAIN docs = {}
    BY <1>1
  <2> QED
    BY <1>1, <2>1, Zenon DEF SequencesAsServed
<1>2. CASE m # << >>
  <2>1. m \in MicroBatchesOfRl /\ actor.row = RlRow(FlatRow(TokensOf(m)))
    <3>1. NoMicroBatch.seqs = << >>
      BY DEF NoMicroBatch
    <3>2. actor # NoMicroBatch
      BY <1>2, <3>1
    <3>3. PICK x \in MicroBatchesOfRl : actor = [seqs |-> x, row |-> RlRow(FlatRow(TokensOf(x)))]
      BY <3>2 DEF ActorInv
    <3>4. m = x /\ actor.row = RlRow(FlatRow(TokensOf(x)))
      BY <3>3
    <3> QED
      BY <3>4
  <2> DEFINE row == actor.row
             off(i) == Offset(docs, i)
  <2>2. docs = TokensOf(m)
    BY DEF TokensOf
  <2> HIDE DEF m
  <2>3. /\ n \in Nat \ {0} /\ DOMAIN m = 1 .. n /\ \A i \in 1 .. n : WasServed(m[i])
        /\ AreTokens(TokensOf(m), n)
    BY <1>2, <2>1, BatchServed
  <2>4. Serves(row, docs, n) /\ FlatHolds(FlatRow(docs), docs, n)
    BY <2>1, <2>2, <2>3, RlRowServes, FlatRowHolds
  <2>5. \A i \in 1 .. n : docs[i] = Tokens(m[i])
    BY <2>3
  <2>6. DOMAIN docs = 1 .. n
    BY <2>3
  <2> HIDE DEF docs, n, row
  <2>7. ASSUME NEW i \in 1 .. n, NEW t \in 0 .. docs[i].len - 1
        PROVE  /\ {u - off(i) - 1 : u \in Visible(row, off(i) + t + 1)} = shown(i, t)
               /\ Scanned(row, off(i) + t + 1) = off(i) + 1 .. off(i) + t + 1
    <3> DEFINE o == off(i)
               k == t + 1
               view == PolicyView(docs[i], k)
               s == m[i]
    <3>1. o \in Nat
      <4>1. i \in 1 .. n + 1
        BY <2>3
      <4> QED
        BY <2>4, <4>1 DEF FlatHolds
    <3>2. docs[i].len \in Nat \ {0}
      BY <2>2, <2>3 DEF AreTokens, IsTokens
    <3>3. k \in 1 .. docs[i].len /\ k - 1 = t /\ o + k = o + t + 1 /\ k \in Nat
      BY <3>1, <3>2
    <3>4. view = shown(i, t)
      <4>1. WasServed(s)
        BY <2>3
      <4> HIDE DEF s
      <4>2. PromptLen(Tokens(s)) = s.prompt.len /\ SinkEnd(Tokens(s)) = SinkEnd(s.prompt)
        BY <4>1, TokensAre
      <4>3. docs[i] = Tokens(s)
        BY <2>5 DEF s
      <4>4. view = StrideTrainingView(t, SinkEnd(s.prompt), ResolveParams(s.prompt.len).chunk,
                                      ResolveParams(s.prompt.len).window)
        BY <3>3, <4>2, <4>3, Zenon DEF PolicyView
      <4> QED
        BY <4>4, Zenon DEF s
    <3>5. view \subseteq 0 .. k - 1
      BY <3>3, PolicySees
    <3>6. /\ Visible(row, o + k) = {o + 1 + v : v \in view}
          /\ Scanned(row, o + k) = o + 1 .. o + k
      BY <2>4, <3>3, Zenon DEF Serves
    <3> HIDE DEF view, o, k, shown
    <3>7. {u - o - 1 : u \in {o + 1 + v : v \in view}} = view
      <4>1. ASSUME NEW v \in view PROVE (o + 1 + v) - o - 1 = v
        BY <3>1, <3>5
      <4> QED
        BY <4>1
    <3>8. {u - o - 1 : u \in Visible(row, o + k)} = shown(i, t)
      BY <3>4, <3>6, <3>7, Zenon
    <3> QED
      BY <3>3, <3>6, <3>8, Zenon DEF o
  <2>8. \A q \in Used(docs) + 1 .. row.len :
            (Visible(row, q) \cup Scanned(row, q)) \cap (1 .. Used(docs)) = {}
    BY <2>4, Zenon DEF Serves
  <2> QED
    BY <2>6, <2>7, <2>8, Zenon DEF SequencesAsServed, docs, row, m
<1> QED
  BY <1>1, <1>2

\* stride_glue.py: "the exact per-request eviction schedule that vllm serve
\* applied during rollout": in every forward pass of the actor, for any table of
\* rules, micro-batch and padding, every token of every sequence sees what
\* serving showed it, and scans its own sequence alone.
THEOREM ServedSequences == RlSpec => []SequencesAsServed
<1>1. RlInit => ActorInv
  BY DEF RlInit, ActorInv
<1>2. ActorInv /\ [RlNext]_actor => ActorInv'
  <2> SUFFICES ASSUME ActorInv, [RlNext]_actor PROVE ActorInv'
    OBVIOUS
  <2>1. CASE RlNext
    <3>1. PICK m \in MicroBatchesOfRl : ActorForward(m)
      BY <2>1 DEF RlNext
    <3>2. actor' = [seqs |-> m, row |-> RlRow(FlatRow(TokensOf(m)))]
      BY <3>1, Zenon DEF ActorForward, TokensOf
    <3> QED
      BY <3>2 DEF ActorInv
  <2>2. CASE UNCHANGED actor
    BY <2>2 DEF ActorInv
  <2> QED
    BY <2>1, <2>2
<1>3. ActorInv => SequencesAsServed
  BY AsServed
<1> QED
  BY <1>1, <1>2, <1>3, PTL DEF RlSpec
====

---- MODULE Scoring_proofs ----
(***************************************************************************)
(* Test sets and scores, for any test set whose rows and questions differ,  *)
(* any size of a pack and any outputs: each question is asked once, and     *)
(* full marks mean the same in training, evaluation and RL.                 *)
(*                                                                         *)
(* Materialized says that a run's requests are those of its test set, from  *)
(* which AskedOnce follows; Scored, inductive with it, that every record    *)
(* and reward is that of an output of its request, from which FullMarks     *)
(* follows.                                                                 *)
(***************************************************************************)
EXTENDS Scoring, Lists_proofs

-----------------------------------------------------------------------------
\* The requests of a test set (eval/materialize.py, eval/prompt.py).

\* The k-th item of flattened parts is the t-th of the i-th.
Pos(parts, i, t) == Offset([j \in 1 .. Len(parts) |-> [len |-> Len(parts[j])]], i) + t
InPart(parts, k, i, t) ==
    i \in 1 .. Len(parts) /\ t \in 1 .. Len(parts[i]) /\ k = Pos(parts, i, t)

\* Every item of the parts has its place in the whole, and every place its item.
LEMMA FlatIs ==
    ASSUME NEW S, NEW parts \in Seq(Seq(S))
    PROVE  /\ FlattenSeq(parts) \in Seq(S)
           /\ \A k \in 1 .. Len(FlattenSeq(parts)) : \E i, t : InPart(parts, k, i, t)
           /\ \A i \in 1 .. Len(parts) : \A t \in 1 .. Len(parts[i]) :
                 /\ Pos(parts, i, t) \in 1 .. Len(FlattenSeq(parts))
                 /\ FlattenSeq(parts)[Pos(parts, i, t)] = parts[i][t]
                 /\ \A i2 \in 1 .. Len(parts) : \A t2 \in 1 .. Len(parts[i2]) :
                       Pos(parts, i, t) = Pos(parts, i2, t2) => i = i2 /\ t = t2
<1> DEFINE docs == [j \in 1 .. Len(parts) |-> [len |-> Len(parts[j])]]
           flat == FlattenSeq(parts)
<1>1. /\ Len(docs) \in Nat /\ Len(docs) = Len(parts)
      /\ \A j \in 1 .. Len(docs) : docs[j].len \in Nat /\ docs[j].len = Len(parts[j])
  OBVIOUS
<1>2. \A i, t : Pos(parts, i, t) = Offset(docs, i) + t
  BY Zenon DEF Pos
<1> HIDE DEF docs
<1>3. Lays(docs, parts)
  BY <1>1 DEF Lays
<1>4. IsFlat(flat, parts, docs, S)
  BY <1>3, FlattenPlaces
<1> HIDE DEF flat
<1>5. ASSUME NEW k \in 1 .. Len(flat) PROVE \E i, t : InPart(parts, k, i, t)
  <2>1. k \in 1 .. Used(docs)
    BY <1>4 DEF IsFlat
  <2>2. PICK i \in 1 .. Len(docs) : \E t \in 1 .. docs[i].len : k = Offset(docs, i) + t
    BY <1>1, <2>1, PlaceIn
  <2>3. PICK t \in 1 .. docs[i].len : k = Offset(docs, i) + t
    BY <2>2
  <2>4. InPart(parts, k, i, t)
    BY <1>1, <1>2, <2>2, <2>3 DEF InPart
  <2> QED
    BY <2>4
<1>6. ASSUME NEW i \in 1 .. Len(parts), NEW t \in 1 .. Len(parts[i])
      PROVE  /\ Pos(parts, i, t) \in 1 .. Len(flat) /\ flat[Pos(parts, i, t)] = parts[i][t]
             /\ \A i2 \in 1 .. Len(parts) : \A t2 \in 1 .. Len(parts[i2]) :
                   Pos(parts, i, t) = Pos(parts, i2, t2) => i = i2 /\ t = t2
  <2>1. i \in 1 .. Len(docs) /\ t \in 1 .. docs[i].len
    BY <1>1
  <2>2. Offset(docs, i) + t \in 1 .. Used(docs)
    BY <1>1, <2>1, PlaceBound
  <2>3. Pos(parts, i, t) \in 1 .. Len(flat) /\ flat[Pos(parts, i, t)] = parts[i][t]
    <3>1. Pos(parts, i, t) = Offset(docs, i) + t
      BY <1>2, Zenon
    <3>2. Len(flat) = Used(docs) /\ flat[Offset(docs, i) + t] = parts[i][t]
      BY <1>4 DEF IsFlat
    <3> QED
      BY <2>2, <3>1, <3>2, Zenon
  <2>4. ASSUME NEW i2 \in 1 .. Len(parts), NEW t2 \in 1 .. Len(parts[i2]),
               Pos(parts, i, t) = Pos(parts, i2, t2)
        PROVE  i = i2 /\ t = t2
    <3>1. i2 \in 1 .. Len(docs) /\ t2 \in 1 .. docs[i2].len
      BY <1>1
    <3>2. Offset(docs, i) + t = Offset(docs, i2) + t2
      BY <1>2, <2>4, Zenon
    <3>3. Len(docs) \in Nat /\ \A j \in 1 .. Len(docs) : docs[j].len \in Nat
      BY <1>1
    <3>4. \A j, k \in 1 .. Len(docs) : \A v \in 1 .. docs[j].len : \A u \in 1 .. docs[k].len :
             Offset(docs, j) + v = Offset(docs, k) + u => j = k /\ v = u
      BY <3>3, PlaceUnique
    <3> QED
      BY <2>1, <3>1, <3>2, <3>4
  <2> QED
    BY <2>3, <2>4
<1>7. flat \in Seq(S)
  BY <1>4 DEF IsFlat
<1> QED
  BY <1>5, <1>6, <1>7 DEF flat

\* f says where each of m items stood: among the n places, at those that are in X,
\* every one taken once.
Stood(f, m, n, X) ==
    /\ \A k \in 1 .. m : f[k] \in 1 .. n /\ f[k] \in X
    /\ \A k, l \in 1 .. m : f[k] = f[l] => k = l
    /\ \A x \in 1 .. n : x \in X => \E k \in 1 .. m : f[k] = x

\* What is kept of a list are its items at the places named, each of them once.
LEMMA KeptIs ==
    ASSUME NEW S, NEW s \in Seq(S), NEW places, NEW n, n = Len(s)
    PROVE  /\ Kept(s, places) \in Seq(S)
           /\ \E f : /\ Stood(f, Len(Kept(s, places)), n, places)
                     /\ \A k \in 1 .. Len(Kept(s, places)) : Kept(s, places)[k] = s[f[k]]
<1> DEFINE X == {i \in 1 .. n : i \in places}
           part(i) == IF i \in places THEN << s[i] >> ELSE << >>
           parts == [i \in 1 .. n |-> part(i)]
           flat == FlattenSeq(parts)
           m == Len(flat)
<1>1. n \in Nat /\ DOMAIN s = 1 .. n /\ \A i \in 1 .. n : s[i] \in S
  OBVIOUS
<1>2. Kept(s, places) = flat
  BY <1>1 DEF Kept
<1>3. ASSUME NEW i \in 1 .. n PROVE part(i) \in Seq(S)
  BY <1>1
<1>4. parts \in Seq(Seq(S)) /\ Len(parts) = n
  <2> HIDE DEF part
  <2> DEFINE V == Seq(S)
  <2>1. \A i \in 1 .. n : part(i) \in V
    BY <1>3
  <2> HIDE DEF V
  <2>2. parts \in [1 .. n -> V]
    BY <2>1
  <2> HIDE DEF parts
  <2>3. parts \in Seq(V) /\ Len(parts) = n
    BY <1>1, <2>2, SegmentSeq
  <2> QED
    BY <2>3 DEF V
<1>5. \A i \in 1 .. n : \A t \in 1 .. Len(parts[i]) : i \in X /\ t = 1 /\ parts[i][t] = s[i]
  BY <1>1
<1>6. \A i \in X : i \in 1 .. n /\ 1 \in 1 .. Len(parts[i])
  BY <1>1
<1> HIDE DEF parts, X
<1>7. /\ flat \in Seq(S)
      /\ \A k \in 1 .. m : \E i, t : InPart(parts, k, i, t)
      /\ \A i \in 1 .. n : \A t \in 1 .. Len(parts[i]) :
            /\ Pos(parts, i, t) \in 1 .. m /\ flat[Pos(parts, i, t)] = parts[i][t]
            /\ \A i2 \in 1 .. n : \A t2 \in 1 .. Len(parts[i2]) :
                  Pos(parts, i, t) = Pos(parts, i2, t2) => i = i2 /\ t = t2
  <2> HIDE DEF flat
  <2>1. /\ flat \in Seq(S)
        /\ \A k \in 1 .. m : \E i, t : InPart(parts, k, i, t)
        /\ \A i \in 1 .. Len(parts) : \A t \in 1 .. Len(parts[i]) :
              /\ Pos(parts, i, t) \in 1 .. m /\ flat[Pos(parts, i, t)] = parts[i][t]
              /\ \A i2 \in 1 .. Len(parts) : \A t2 \in 1 .. Len(parts[i2]) :
                    Pos(parts, i, t) = Pos(parts, i2, t2) => i = i2 /\ t = t2
    BY <1>4, FlatIs DEF flat
  <2>2. Len(parts) = n
    BY <1>4
  <2> QED
    BY <2>1, <2>2
<1> HIDE DEF flat, m
<1> DEFINE f == [k \in 1 .. m |-> CHOOSE i \in X : k = Pos(parts, i, 1)]
<1>8. ASSUME NEW k \in 1 .. m
      PROVE  f[k] \in X /\ k = Pos(parts, f[k], 1) /\ flat[k] = s[f[k]]
  <2>1. PICK i, t : InPart(parts, k, i, t)
    BY <1>7
  <2>2. i \in X /\ k = Pos(parts, i, 1)
    BY <1>4, <1>5, <2>1 DEF InPart
  <2>3. f[k] \in X /\ k = Pos(parts, f[k], 1)
    BY <2>2
  <2> HIDE DEF f
  <2>4. flat[k] = s[f[k]]
    BY <1>5, <1>6, <1>7, <2>3
  <2> QED
    BY <2>3, <2>4
<1>10. X = {i \in 1 .. n : i \in places} /\ \A x \in X : Pos(parts, x, 1) \in 1 .. m /\ flat[Pos(parts, x, 1)] = s[x]
  BY <1>5, <1>6, <1>7 DEF X
<1> HIDE DEF f
<1>11. ASSUME NEW x \in X PROVE \E k \in 1 .. m : f[k] = x
  <2>1. Pos(parts, x, 1) \in 1 .. m
    BY <1>10
  <2>2. PICK k \in 1 .. m : k = Pos(parts, x, 1)
    BY <2>1
  <2>3. f[k] \in X /\ k = Pos(parts, f[k], 1)
    BY <1>8
  <2>4. f[k] = x
    BY <1>6, <1>7, <2>2, <2>3
  <2> QED
    BY <2>4
<1> QED
  <2>1. Stood(f, m, n, places)
    BY <1>8, <1>10, <1>11 DEF Stood, X
  <2>2. \A k \in 1 .. m : flat[k] = s[f[k]]
    BY <1>8
  <2> QED
    BY <1>2, <1>7, <2>1, <2>2 DEF m

\* What ids are made of.
Words == STRING \cup {"pack", "dynpack"} \cup Int
Rows == [id : Seq(Words), memory : STRING, qa : Seq(Qas)]

\* No question is twice asked of one memory, and ids tell rows apart.
AsksOnce(R) ==
    \A i, k \in 1 .. Len(R) : R[i].memory = R[k].memory =>
        \A j \in 1 .. Len(R[i].qa), l \in 1 .. Len(R[k].qa) :
            R[i].qa[j].q = R[k].qa[l].q => i = k /\ j = l
IdsApart(R) == \A i, k \in 1 .. Len(R) : R[i].id = R[k].id => i = k
Asks(R, m, x) == \E i \in 1 .. Len(R) : R[i].memory = m /\ \E j \in 1 .. Len(R[i].qa) : R[i].qa[j] = x
IsRows(R) == R \in Seq(Rows) /\ AsksOnce(R) /\ IdsApart(R)

\* T asks what R asks.
AskSame(R, T) == \A m, x : Asks(R, m, x) <=> Asks(T, m, x)

\* What the rows of a test set are: lists of questions, no question of which is asked twice.
LEMMA TestSetRows ==
    ASSUME NEW rows, IsTestSet(rows)
    PROVE  IsRows(rows) /\ \A i \in 1 .. Len(rows) : Len(rows[i].id) = 1
<1>1. rows \in Seq([id : Seq(STRING), memory : STRING, qa : Seq(Qas)])
  BY DEF IsTestSet
<1>2. [id : Seq(STRING), memory : STRING, qa : Seq(Qas)] \subseteq Rows
  <2> SUFFICES ASSUME NEW r \in [id : Seq(STRING), memory : STRING, qa : Seq(Qas)] PROVE r \in Rows
    OBVIOUS
  <2>1. r.id \in Seq(Words)
    <3>1. r.id \in Seq(STRING)
      OBVIOUS
    <3>2. STRING \subseteq Words
      BY Zenon DEF Words
    <3> QED
      BY <3>1, <3>2, SeqMonotonic, Zenon
  <2> QED
    BY <2>1 DEF Rows
<1>3. rows \in Seq(Rows)
  BY <1>1, <1>2, SeqMonotonic
<1>4. \A i \in 1 .. Len(rows) : DOMAIN rows[i].qa = 1 .. Len(rows[i].qa)
  BY <1>1
<1>5. DOMAIN rows = 1 .. Len(rows)
  BY <1>1
<1>6. AsksOnce(rows) /\ IdsApart(rows)
  <2>1. AsksOnce(rows)
    <3> SUFFICES ASSUME NEW i \in 1 .. Len(rows), NEW k \in 1 .. Len(rows),
                        rows[i].memory = rows[k].memory,
                        NEW j \in 1 .. Len(rows[i].qa), NEW l \in 1 .. Len(rows[k].qa),
                        rows[i].qa[j].q = rows[k].qa[l].q
                 PROVE  i = k /\ j = l
      BY DEF AsksOnce
    <3>1. i \in DOMAIN rows /\ k \in DOMAIN rows /\ j \in DOMAIN rows[i].qa /\ l \in DOMAIN rows[k].qa
      BY <1>4, <1>5
    <3>2. \A a, b \in DOMAIN rows : rows[a].memory = rows[b].memory =>
             \A c \in DOMAIN rows[a].qa, d \in DOMAIN rows[b].qa :
                rows[a].qa[c].q = rows[b].qa[d].q => a = b /\ c = d
      BY DEF IsTestSet
    <3>3. \A c \in DOMAIN rows[i].qa, d \in DOMAIN rows[k].qa :
             rows[i].qa[c].q = rows[k].qa[d].q => i = k /\ c = d
      BY <3>1, <3>2
    <3> QED
      BY <3>1, <3>3
  <2>2. IdsApart(rows)
    BY <1>5, Zenon DEF IsTestSet, IdsApart
  <2> QED
    BY <2>1, <2>2
<1>7. \A i \in 1 .. Len(rows) : Len(rows[i].id) = 1
  BY <1>5 DEF IsTestSet
<1> QED
  BY <1>3, <1>6, <1>7 DEF IsRows

\* Every question of the rows is in one of the regrouped rows, which have the
\* questions of one memory each.
LEMMA DynamicPackIs ==
    ASSUME NEW rows, IsRows(rows)
    PROVE  LET R == DynamicPackRows(rows)
           IN  IsRows(R) /\ AskSame(rows, R) /\ \A k \in 1 .. Len(R) : Len(R[k].id) = 2
<1> DEFINE n == Len(rows)
           mems == [i \in 1 .. n |-> rows[i].memory]
           qas == [i \in 1 .. n |-> rows[i].qa]
           F == FirstRows(rows)
           memories == Kept(mems, F)
           same(m) == {i \in 1 .. n : rows[i].memory = m}
           of(m) == Kept(qas, same(m))
           row(k) == [id |-> <<"dynpack", k - 1>>, memory |-> memories[k], qa |-> FlattenSeq(of(memories[k]))]
           K == Len(memories)
           R == DynamicPackRows(rows)
<1>0. /\ n \in Nat /\ DOMAIN rows = 1 .. n
      /\ \A i \in 1 .. n : rows[i].memory \in STRING /\ rows[i].qa \in Seq(Qas)
      /\ AsksOnce(rows)
  <2>1. rows \in Seq(Rows) /\ AsksOnce(rows)
    BY DEF IsRows
  <2>2. \A i \in 1 .. n : rows[i] \in Rows
    BY <2>1
  <2> QED
    BY <2>1, <2>2 DEF Rows
<1>1. mems \in Seq(STRING) /\ Len(mems) = n /\ qas \in Seq(Seq(Qas)) /\ Len(qas) = n
  <2> DEFINE V == Seq(Qas)
  <2>1. mems \in [1 .. n -> STRING] /\ qas \in [1 .. n -> V]
    BY <1>0
  <2> HIDE DEF mems, qas, V, n
  <2>2. mems \in Seq(STRING) /\ Len(mems) = n /\ qas \in Seq(V) /\ Len(qas) = n
    BY <1>0, <2>1, SegmentSeq
  <2> QED
    BY <2>2 DEF V
<1>2. R = [k \in DOMAIN memories |-> row(k)]
  BY <1>0 DEF DynamicPackRows
<1> HIDE DEF R
<1>3. PICK f : /\ Stood(f, K, n, F)
               /\ memories \in Seq(STRING)
               /\ \A k \in 1 .. K : memories[k] = mems[f[k]]
  <2>1. mems \in Seq(STRING) /\ n = Len(mems)
    BY <1>1
  <2> HIDE DEF mems, F, n
  <2> QED
    BY <2>1, KeptIs
<1>a. \A i \in 1 .. n : mems[i] = rows[i].memory
  OBVIOUS
<1>b. K \in Nat /\ DOMAIN memories = 1 .. K /\ \A k \in 1 .. K : memories[k] \in STRING
  <2> HIDE DEF memories
  <2> QED
    BY <1>3
<1>4. /\ K \in Nat /\ DOMAIN memories = 1 .. K
      /\ \A k \in 1 .. K : memories[k] \in STRING /\ f[k] \in F \cap 1 .. n /\ memories[k] = rows[f[k]].memory
      /\ \A k, l \in 1 .. K : f[k] = f[l] => k = l
      /\ \A i \in F : i \in 1 .. n => \E k \in 1 .. K : f[k] = i
  <2> HIDE DEF memories, F, mems, K
  <2>1. \A k \in 1 .. K : f[k] \in 1 .. n /\ f[k] \in F
    BY <1>3 DEF Stood
  <2>2. \A k \in 1 .. K : memories[k] = rows[f[k]].memory
    BY <1>3, <1>a, <2>1
  <2>3. /\ \A k, l \in 1 .. K : f[k] = f[l] => k = l
        /\ \A i \in 1 .. n : i \in F => \E k \in 1 .. K : f[k] = i
    BY <1>3 DEF Stood
  <2> QED
    BY <1>b, <2>1, <2>2, <2>3
<1> HIDE DEF memories, mems
\* A memory is listed once, and every memory is listed.
<1>5. \A k, l \in 1 .. K : memories[k] = memories[l] => k = l
  <2> SUFFICES ASSUME NEW k \in 1 .. K, NEW l \in 1 .. K, memories[k] = memories[l] PROVE k = l
    OBVIOUS
  <2>1. f[k] \in F /\ f[l] \in F /\ f[k] \in 1 .. n /\ f[l] \in 1 .. n /\ rows[f[k]].memory = rows[f[l]].memory
    BY <1>4
  <2>0. \A i \in F, j \in Nat \ {0} : j < i => rows[j].memory # rows[i].memory
    BY <1>0 DEF FirstRows
  <2> HIDE DEF F
  <2>2. ~(f[k] < f[l]) /\ ~(f[l] < f[k])
    BY <1>0, <2>0, <2>1
  <2>3. f[k] = f[l]
    BY <1>0, <2>1, <2>2
  <2> QED
    BY <1>4, <2>3
<1>6. ASSUME NEW i \in 1 .. n PROVE \E k \in 1 .. K : memories[k] = rows[i].memory
  <2> DEFINE T == {j \in 1 .. n : rows[j].memory = rows[i].memory}
             j == Min(T)
  <2>1. T \subseteq Nat /\ T # {}
    BY <1>0
  <2>2. j \in T /\ \A x \in T : j <= x
    BY <2>1, MinOf
  <2> HIDE DEF j
  <2>3. j \in F
    BY <1>0, <2>2 DEF FirstRows
  <2>4. PICK k \in 1 .. K : f[k] = j
    BY <1>4, <2>2, <2>3
  <2> QED
    BY <1>4, <2>2, <2>4
\* The questions of a memory.
<1>7. ASSUME NEW m
      PROVE  /\ FlattenSeq(of(m)) \in Seq(Qas)
             /\ \A j \in 1 .. Len(FlattenSeq(of(m))) :
                   \E i \in same(m) : \E l \in 1 .. Len(rows[i].qa) : FlattenSeq(of(m))[j] = rows[i].qa[l]
             /\ \A i \in same(m) : \A l \in 1 .. Len(rows[i].qa) :
                   \E j \in 1 .. Len(FlattenSeq(of(m))) : FlattenSeq(of(m))[j] = rows[i].qa[l]
             /\ \A j, j2 \in 1 .. Len(FlattenSeq(of(m))) :
                   FlattenSeq(of(m))[j].q = FlattenSeq(of(m))[j2].q => j = j2
  <2> DEFINE parts == of(m)
             flat == FlattenSeq(parts)
             V == Seq(Qas)
  <2>1. PICK g : /\ Stood(g, Len(parts), n, same(m))
                 /\ parts \in Seq(V)
                 /\ \A k \in 1 .. Len(parts) : parts[k] = qas[g[k]]
    <3>1. qas \in Seq(V) /\ Len(qas) = n
      BY <1>1
    <3>2. n = Len(qas)
      BY <1>1
    <3> HIDE DEF qas, V, same, n
    <3> QED
      BY <3>1, <3>2, KeptIs
  <2>2. /\ \A k \in 1 .. Len(parts) : g[k] \in same(m) /\ parts[k] = rows[g[k]].qa
        /\ \A k, l \in 1 .. Len(parts) : g[k] = g[l] => k = l
        /\ \A i \in same(m) : \E k \in 1 .. Len(parts) : g[k] = i
    BY <2>1 DEF Stood
  <2> HIDE DEF parts
  <2>3. /\ flat \in Seq(Qas)
        /\ \A k \in 1 .. Len(flat) : \E i, t : InPart(parts, k, i, t)
        /\ \A i \in 1 .. Len(parts) : \A t \in 1 .. Len(parts[i]) :
              /\ Pos(parts, i, t) \in 1 .. Len(flat)
              /\ flat[Pos(parts, i, t)] = parts[i][t]
    BY <2>1, FlatIs
  <2> HIDE DEF flat
  <2> DEFINE From(x, k, t) == /\ k \in 1 .. Len(parts) /\ t \in 1 .. Len(parts[k])
                              /\ x = Pos(parts, k, t) /\ g[k] \in same(m)
                              /\ t \in 1 .. Len(rows[g[k]].qa) /\ flat[x] = rows[g[k]].qa[t]
  <2>4. ASSUME NEW j \in 1 .. Len(flat) PROVE \E k, t : From(j, k, t)
    <3>1. PICK k, t : InPart(parts, j, k, t)
      BY <2>3
    <3>2. k \in 1 .. Len(parts) /\ t \in 1 .. Len(parts[k]) /\ j = Pos(parts, k, t)
      BY <3>1 DEF InPart
    <3>3. parts[k] = rows[g[k]].qa /\ g[k] \in same(m)
      BY <2>2, <3>2
    <3>4. flat[j] = parts[k][t]
      BY <2>3, <3>2
    <3>5. From(j, k, t)
      BY <3>2, <3>3, <3>4, Zenon
    <3> QED
      BY <3>5, Zenon
  <2>5. ASSUME NEW i \in same(m), NEW l \in 1 .. Len(rows[i].qa)
        PROVE  \E j \in 1 .. Len(flat) : flat[j] = rows[i].qa[l]
    <3>1. PICK k \in 1 .. Len(parts) : g[k] = i
      BY <2>2
    <3>2. parts[k] = rows[i].qa
      BY <2>2, <3>1
    <3> QED
      BY <2>3, <3>2
  <2>6. ASSUME NEW j \in 1 .. Len(flat), NEW j2 \in 1 .. Len(flat), flat[j].q = flat[j2].q
        PROVE  j = j2
    <3>1. PICK k, t : From(j, k, t)
      BY <2>4, Zenon
    <3>2. PICK k2, t2 : From(j2, k2, t2)
      BY <2>4, Zenon
    <3>3. rows[g[k]].qa[t].q = rows[g[k2]].qa[t2].q
      BY <2>6, <3>1, <3>2
    <3>4. g[k] = g[k2] /\ t = t2
      <4>1. /\ g[k] \in 1 .. n /\ g[k2] \in 1 .. n /\ rows[g[k]].memory = rows[g[k2]].memory
            /\ t \in 1 .. Len(rows[g[k]].qa) /\ t2 \in 1 .. Len(rows[g[k2]].qa)
        BY <3>1, <3>2
      <4>2. \A a, b \in 1 .. n : rows[a].memory = rows[b].memory =>
               \A c \in 1 .. Len(rows[a].qa), d \in 1 .. Len(rows[b].qa) :
                  rows[a].qa[c].q = rows[b].qa[d].q => a = b /\ c = d
        BY <1>0 DEF AsksOnce
      <4>3. \A c \in 1 .. Len(rows[g[k]].qa), d \in 1 .. Len(rows[g[k2]].qa) :
               rows[g[k]].qa[c].q = rows[g[k2]].qa[d].q => g[k] = g[k2] /\ c = d
        BY <4>1, <4>2
      <4> QED
        BY <3>3, <4>1, <4>3
    <3>5. k = k2
      <4>1. k \in 1 .. Len(parts) /\ k2 \in 1 .. Len(parts)
        BY <3>1, <3>2
      <4> QED
        BY <2>2, <3>4, <4>1, Zenon
    <3> QED
      BY <3>1, <3>2, <3>4, <3>5
  <2>7. ASSUME NEW j \in 1 .. Len(flat)
        PROVE  \E i \in same(m) : \E l \in 1 .. Len(rows[i].qa) : flat[j] = rows[i].qa[l]
    <3>1. PICK k, t : From(j, k, t)
      BY <2>4, Zenon
    <3> QED
      BY <3>1, Zenon
  <2> QED
    BY <2>3, <2>5, <2>6, <2>7 DEF flat, parts
<1> HIDE DEF of
<1>8. \A k \in 1 .. K : row(k) \in Rows
  <2> SUFFICES ASSUME NEW k \in 1 .. K PROVE row(k) \in Rows
    OBVIOUS
  <2>1. <<"dynpack", k - 1>> \in Seq(Words)
    <3>0. k \in Int
      BY <1>4
    <3>1. k - 1 \in Int
      BY <3>0
    <3>2. "dynpack" \in Words /\ k - 1 \in Words
      BY <3>1, Zenon DEF Words
    <3>3. \A x, y \in Words : <<x, y>> \in Seq(Words)
      OBVIOUS
    <3> QED
      BY <3>2, <3>3
  <2>2. FlattenSeq(of(memories[k])) \in Seq(Qas) /\ memories[k] \in STRING
    BY <1>4, <1>7
  <2> QED
    BY <2>1, <2>2 DEF Rows
<1>9. R \in Seq(Rows) /\ Len(R) = K /\ \A k \in 1 .. K : R[k] = row(k)
  <2>1. R = [k \in 1 .. K |-> row(k)]
    BY <1>2, <1>4
  <2> HIDE DEF row, K
  <2>2. R \in [1 .. K -> Rows]
    BY <1>8, <2>1
  <2> QED
    BY <1>4, <2>1, <2>2, SegmentSeq
<1>10. \A k \in 1 .. K : /\ R[k].id = <<"dynpack", k - 1>> /\ R[k].memory = memories[k]
                         /\ R[k].qa = FlattenSeq(of(memories[k]))
  <2> SUFFICES ASSUME NEW k \in 1 .. K
               PROVE  /\ R[k].id = <<"dynpack", k - 1>> /\ R[k].memory = memories[k]
                      /\ R[k].qa = FlattenSeq(of(memories[k]))
    OBVIOUS
  <2> DEFINE fl == FlattenSeq(of(memories[k]))
             mk == memories[k]
  <2> HIDE DEF K
  <2>1. R[k] = [id |-> <<"dynpack", k - 1>>, memory |-> mk, qa |-> fl]
    BY <1>9
  <2> HIDE DEF fl, mk
  <2>2. R[k].id = <<"dynpack", k - 1>> /\ R[k].memory = mk /\ R[k].qa = fl
    BY <2>1
  <2> QED
    BY <2>2 DEF fl, mk
<1> HIDE DEF row, K
<1>11. AsksOnce(R)
  <2> SUFFICES ASSUME NEW i \in 1 .. K, NEW k \in 1 .. K, R[i].memory = R[k].memory,
                      NEW j \in 1 .. Len(R[i].qa), NEW l \in 1 .. Len(R[k].qa),
                      R[i].qa[j].q = R[k].qa[l].q
               PROVE  i = k /\ j = l
    BY <1>9 DEF AsksOnce
  <2>1. i = k
    BY <1>5, <1>10
  <2> QED
    BY <1>7, <1>10, <2>1
<1>12. IdsApart(R) /\ \A k \in 1 .. K : Len(R[k].id) = 2
  <2>1. ASSUME NEW i \in 1 .. K, NEW k \in 1 .. K, R[i].id = R[k].id PROVE i = k
    <3>1. <<"dynpack", i - 1>> = <<"dynpack", k - 1>>
      BY <1>10, <2>1
    <3>2. i - 1 = k - 1
      BY <3>1
    <3> QED
      BY <1>4, <3>2
  <2>2. ASSUME NEW k \in 1 .. K PROVE Len(R[k].id) = 2
    <3> DEFINE t == k - 1
    <3>1. R[k].id = <<"dynpack", t>>
      BY <1>10
    <3> HIDE DEF t
    <3> QED
      BY <3>1
  <2> QED
    BY <1>9, <2>1, <2>2 DEF IdsApart
<1>13. ASSUME NEW m, NEW x PROVE Asks(rows, m, x) <=> Asks(R, m, x)
  <2>1. ASSUME Asks(rows, m, x) PROVE Asks(R, m, x)
    <3>0. PICK i \in 1 .. n : rows[i].memory = m /\ \E l \in 1 .. Len(rows[i].qa) : rows[i].qa[l] = x
      BY <2>1 DEF Asks
    <3>1. PICK l \in 1 .. Len(rows[i].qa) : rows[i].memory = m /\ rows[i].qa[l] = x
      BY <3>0
    <3>2. PICK k \in 1 .. K : memories[k] = m
      BY <1>6, <3>1
    <3>3. PICK j \in 1 .. Len(FlattenSeq(of(m))) : FlattenSeq(of(m))[j] = x
      <4>1. i \in same(m)
        BY <3>1
      <4> HIDE DEF same
      <4>2. \A i2 \in same(m) : \A l2 \in 1 .. Len(rows[i2].qa) :
               \E j \in 1 .. Len(FlattenSeq(of(m))) : FlattenSeq(of(m))[j] = rows[i2].qa[l2]
        BY <1>7
      <4> QED
        BY <3>1, <4>1, <4>2
    <3> QED
      BY <1>9, <1>10, <3>2, <3>3 DEF Asks
  <2>2. ASSUME Asks(R, m, x) PROVE Asks(rows, m, x)
    <3>0. PICK k \in 1 .. K : R[k].memory = m /\ \E j \in 1 .. Len(R[k].qa) : R[k].qa[j] = x
      BY <1>9, <2>2 DEF Asks
    <3>1. PICK j \in 1 .. Len(R[k].qa) : R[k].memory = m /\ R[k].qa[j] = x
      BY <3>0
    <3>2. j \in 1 .. Len(FlattenSeq(of(m))) /\ FlattenSeq(of(m))[j] = x
      BY <1>10, <3>1
    <3>3. PICK i \in same(m) : \E l \in 1 .. Len(rows[i].qa) : x = rows[i].qa[l]
      <4>1. \A j2 \in 1 .. Len(FlattenSeq(of(m))) :
               \E i \in same(m) : \E l \in 1 .. Len(rows[i].qa) : FlattenSeq(of(m))[j2] = rows[i].qa[l]
        BY <1>7
      <4> HIDE DEF same
      <4> QED
        BY <3>2, <4>1, Zenon
    <3> QED
      BY <3>3 DEF Asks
  <2> QED
    BY <2>1, <2>2
<1> QED
  BY <1>9, <1>11, <1>12, <1>13 DEF IsRows, AskSame, R


\* Ids with tails of one length are equal only where both parts are.
LEMMA ConcatSame ==
    ASSUME NEW S, NEW s1 \in Seq(S), NEW s2 \in Seq(S), NEW t1 \in Seq(S), NEW t2 \in Seq(S),
           Len(t1) = Len(t2), s1 \o t1 = s2 \o t2
    PROVE  s1 = s2 /\ t1 = t2
<1>1. Len(s1) + Len(t1) = Len(s2) + Len(t2)
  <2>1. Len(s1 \o t1) = Len(s1) + Len(t1)
    BY ConcatProperties
  <2>2. Len(s2 \o t2) = Len(s2) + Len(t2)
    BY ConcatProperties
  <2> QED
    BY <2>1, <2>2
<1>2. Len(s1) = Len(s2) /\ Len(s1) \in Nat /\ Len(t1) \in Nat
  BY <1>1
<1>3. \A i \in 1 .. Len(s1) : s1[i] = s2[i]
  <2> TAKE i \in 1 .. Len(s1)
  <2>1. (s1 \o t1)[i] = s1[i] /\ (s2 \o t2)[i] = s2[i]
    BY <1>2
  <2> QED
    BY <2>1
<1>4. \A i \in 1 .. Len(t1) : t1[i] = t2[i]
  <2> TAKE i \in 1 .. Len(t1)
  <2>1. (s1 \o t1)[Len(s1) + i] = t1[i] /\ (s2 \o t2)[Len(s2) + i] = t2[i]
    BY <1>2
  <2> QED
    BY <1>2, <2>1
<1> QED
  BY <1>2, <1>3, <1>4, SeqEqual, Zenon

\* The k-th of the packs has the questions after those of the k - 1 before it.
PackPlace(k, j) == (k - 1) * MaxPack + j

\* A position in a list is at one place of one pack only.
LEMMA PackPlaceUnique ==
    ASSUME MaxPack \in Nat \ {0}, NEW k \in Nat \ {0}, NEW k2 \in Nat \ {0},
           NEW j \in 1 .. MaxPack, NEW j2 \in 1 .. MaxPack, PackPlace(k, j) = PackPlace(k2, j2)
    PROVE  k = k2 /\ j = j2
<1>1. /\ (MaxPack * (k - 1) + (j - 1)) \div MaxPack = k - 1
      /\ (MaxPack * (k - 1) + (j - 1)) % MaxPack = j - 1
  <2> DEFINE q == k - 1
             r == j - 1
  <2>1. q \in Int /\ r \in 0 .. MaxPack - 1
    OBVIOUS
  <2> HIDE DEF q, r
  <2>2. (MaxPack * q + r) \div MaxPack = q /\ (MaxPack * q + r) % MaxPack = r
    BY <2>1, DivisionUnique
  <2> QED
    BY <2>2 DEF q, r
<1>2. /\ (MaxPack * (k2 - 1) + (j2 - 1)) \div MaxPack = k2 - 1
      /\ (MaxPack * (k2 - 1) + (j2 - 1)) % MaxPack = j2 - 1
  <2> DEFINE q == k2 - 1
             r == j2 - 1
  <2>1. q \in Int /\ r \in 0 .. MaxPack - 1
    OBVIOUS
  <2> HIDE DEF q, r
  <2>2. (MaxPack * q + r) \div MaxPack = q /\ (MaxPack * q + r) % MaxPack = r
    BY <2>1, DivisionUnique
  <2> QED
    BY <2>2 DEF q, r
<1>3. MaxPack * (k - 1) + (j - 1) = MaxPack * (k2 - 1) + (j2 - 1)
  <2>1. \A a \in Int : a * MaxPack = MaxPack * a
    OBVIOUS
  <2>2. (k - 1) * MaxPack = MaxPack * (k - 1) /\ (k2 - 1) * MaxPack = MaxPack * (k2 - 1)
    BY <2>1
  <2> DEFINE a == MaxPack * (k - 1)
             b == MaxPack * (k2 - 1)
  <2>3. a + j = b + j2 /\ a \in Int /\ b \in Int
    BY <2>2 DEF PackPlace
  <2> HIDE DEF a, b
  <2>4. a + (j - 1) = b + (j2 - 1)
    BY <2>3
  <2> QED
    BY <2>4 DEF a, b
<1>4. k - 1 = k2 - 1 /\ j - 1 = j2 - 1
  BY <1>1, <1>2, <1>3, Zenon
<1> QED
  BY <1>4

\* _split_pack: packs that fit, of all the questions of the row in their order.
LEMMA SplitIs ==
    ASSUME MaxPack \in Nat \ {0}, NEW row \in Rows
    PROVE  LET T == SplitPack(row)
           IN  /\ T \in Seq(Rows)
               /\ \A k \in 1 .. Len(T) :
                     /\ T[k].memory = row.memory /\ Len(T[k].qa) <= MaxPack
                     /\ \A j \in 1 .. Len(T[k].qa) : /\ PackPlace(k, j) \in 1 .. Len(row.qa)
                                                     /\ T[k].qa[j] = row.qa[PackPlace(k, j)]
               /\ \A x \in 1 .. Len(row.qa) :
                     \E k \in 1 .. Len(T) : \E j \in 1 .. Len(T[k].qa) : x = PackPlace(k, j)
               /\ \/ Len(T) = 1 /\ T[1].id = row.id
                  \/ \A k \in 1 .. Len(T) : T[k].id = row.id \o <<"pack", k - 1>>
<1> DEFINE n == Len(row.qa)
           T == SplitPack(row)
<1>0. /\ n \in Nat /\ row.qa \in Seq(Qas) /\ row.memory \in STRING /\ row.id \in Seq(Words)
      /\ row = [id |-> row.id, memory |-> row.memory, qa |-> row.qa]
  BY DEF Rows
<1>1. CASE n <= MaxPack
  <2>1. T = << row >>
    BY <1>1 DEF SplitPack
  <2> HIDE DEF T
  <2>2. T \in Seq(Rows) /\ Len(T) = 1 /\ T[1] = row
    BY <2>1
  <2>3. \A j \in 1 .. n : PackPlace(1, j) = j
    BY <1>0 DEF PackPlace
  <2> QED
    BY <1>0, <1>1, <2>2, <2>3 DEF T
<1>2. CASE ~(n <= MaxPack)
  <2> DEFINE K == (n + MaxPack - 1) \div MaxPack
             top(k) == Min({k * MaxPack, n})
             part(k) == SubSeq(row.qa, (k - 1) * MaxPack + 1, top(k))
             pack(k) == [id |-> row.id \o <<"pack", k - 1>>, memory |-> row.memory, qa |-> part(k)]
  <2>1. T = [k \in 1 .. K |-> pack(k)]
    BY <1>2, Zenon DEF SplitPack
  <2>2. /\ K \in Nat /\ n <= MaxPack * K /\ MaxPack * K <= n + MaxPack - 1
    <3> DEFINE a == n + MaxPack - 1
    <3>1. a \in Nat
      BY <1>0
    <3>2. a \div MaxPack \in Nat /\ MaxPack * (a \div MaxPack) <= a /\ a < MaxPack * (a \div MaxPack) + MaxPack
      <4> HIDE DEF a
      <4> QED
        BY <3>1, Division
    <3> DEFINE d == a \div MaxPack
               e == MaxPack * d
    <3>3. d \in Nat /\ e <= a /\ a < e + MaxPack
      BY <3>2
    <3> HIDE DEF d
    <3>4. e \in Nat
      BY <3>3
    <3> HIDE DEF e
    <3>5. n <= e /\ e <= n + MaxPack - 1
      BY <1>0, <3>3, <3>4
    <3> QED
      BY <3>3, <3>5 DEF d, e
  <2> HIDE DEF K
  <2>3. ASSUME NEW k \in 1 .. K
        PROVE  /\ (k - 1) * MaxPack \in Nat /\ (k - 1) * MaxPack < n
               /\ k * MaxPack = (k - 1) * MaxPack + MaxPack
               /\ top(k) \in {k * MaxPack, n} /\ top(k) <= n /\ top(k) <= k * MaxPack
    <3>1. k \in Nat \ {0} /\ k <= K /\ k - 1 \in Nat
      BY <2>2
    <3>2. (k - 1) * MaxPack \in Nat /\ k * MaxPack = (k - 1) * MaxPack + MaxPack /\ k * MaxPack = MaxPack * k
      BY <3>1
    <3>3. MaxPack * k <= MaxPack * K
      BY <2>2, <3>1, MulMono
    <3>4. {k * MaxPack, n} \subseteq Nat /\ {k * MaxPack, n} # {}
      BY <1>0, <3>2
    <3>5. top(k) \in {k * MaxPack, n} /\ \A x \in {k * MaxPack, n} : top(k) <= x
      BY <3>4, MinOf, Zenon
    <3>6. top(k) <= n /\ top(k) <= k * MaxPack
      BY <3>5
    <3>7. (k - 1) * MaxPack < n
      <4> DEFINE a == (k - 1) * MaxPack
                 b == MaxPack * k
                 d == MaxPack * K
      <4>1. a \in Nat /\ b = a + MaxPack /\ b <= d /\ d <= n + MaxPack - 1 /\ d \in Int
        BY <2>2, <3>2, <3>3
      <4> HIDE DEF a, b, d
      <4>2. a < n
        BY <1>0, <4>1
      <4> QED
        BY <4>2 DEF a
    <3> QED
      BY <3>2, <3>5, <3>6, <3>7
  <2>4. ASSUME NEW k \in 1 .. K
        PROVE  /\ part(k) \in Seq(Qas) /\ Len(part(k)) = top(k) - (k - 1) * MaxPack
               /\ Len(part(k)) <= MaxPack
               /\ \A j \in 1 .. Len(part(k)) : PackPlace(k, j) \in 1 .. n /\ part(k)[j] = row.qa[PackPlace(k, j)]
    <3> DEFINE from == (k - 1) * MaxPack
               t == top(k)
               p == SubSeq(row.qa, from + 1, t)
    <3>1. from \in Nat /\ from < n /\ t \in Nat /\ t <= n /\ t <= from + MaxPack /\ t \in {from + MaxPack, n}
      <4> DEFINE to == k * MaxPack
      <4>1. from \in Nat /\ from < n /\ to = from + MaxPack /\ t \in {to, n} /\ t <= n /\ t <= to
        BY <2>3
      <4> HIDE DEF from, to, t, n
      <4> QED
        BY <1>0, <4>1
    <3> HIDE DEF from, t
    <3>2. from + 1 \in 1 .. n + 1 /\ t \in from .. n /\ from + 1 <= t + 1
      BY <1>0, <3>1
    <3>3. p \in Seq(Qas) /\ Len(p) = t - from /\ \A j \in 1 .. t - from : p[j] = row.qa[from + j]
      <4>1. \A i \in from + 1 .. t : row.qa[i] \in Qas
        BY <1>0, <3>1, <3>2
      <4>2. from + 1 \in Int /\ t \in Int
        BY <3>1
      <4> DEFINE a == from + 1
      <4> HIDE DEF a
      <4>3. /\ SubSeq(row.qa, a, t) \in Seq(Qas)
            /\ Len(SubSeq(row.qa, a, t)) = IF a <= t THEN t - a + 1 ELSE 0
            /\ \A i \in 1 .. t - a + 1 : SubSeq(row.qa, a, t)[i] = row.qa[a + i - 1]
        BY <4>1, <4>2, SubSeqProperties DEF a
      <4>4. /\ p \in Seq(Qas)
            /\ Len(p) = IF a <= t THEN t - a + 1 ELSE 0
            /\ \A i \in 1 .. t - a + 1 : p[i] = row.qa[a + i - 1]
        BY <4>3 DEF a
      <4> HIDE DEF p
      <4>5. /\ t - a + 1 = t - from
            /\ (IF a <= t THEN t - a + 1 ELSE 0) = t - from
            /\ \A i \in Int : a + i - 1 = from + i
        BY <3>1, <3>2 DEF a
      <4>6. \A j \in 1 .. t - from : p[j] = row.qa[a + j - 1]
        BY <4>4, <4>5
      <4>7. \A j \in 1 .. t - from : j \in Int
        OBVIOUS
      <4>8. \A j \in 1 .. t - from : p[j] = row.qa[from + j]
        BY <4>5, <4>6, <4>7, Zenon
      <4>9. Len(p) = t - from
        BY <4>4, <4>5, Zenon
      <4> QED
        BY <4>4, <4>8, <4>9, Zenon
    <3>4. \A j \in 1 .. t - from : from + j \in 1 .. n
      BY <1>0, <3>1, <3>2
    <3>5. t - from <= MaxPack
      BY <1>0, <3>1
    <3> HIDE DEF p
    <3>6. \A j : PackPlace(k, j) = from + j
      BY Zenon DEF PackPlace, from
    <3> QED
      BY <3>3, <3>4, <3>5, <3>6 DEF p, from, t
  <2>5. \A k \in 1 .. K : pack(k) \in Rows
    <3> SUFFICES ASSUME NEW k \in 1 .. K PROVE pack(k) \in Rows
      OBVIOUS
    <3>1. part(k) \in Seq(Qas)
      BY <2>4
    <3>2. row.id \o <<"pack", k - 1>> \in Seq(Words)
      <4>0. k \in Int
        BY <2>2
      <4>1. k - 1 \in Int
        BY <4>0
      <4>2. "pack" \in Words /\ k - 1 \in Words
        BY <4>1, Zenon DEF Words
      <4>3. \A x, y \in Words : <<x, y>> \in Seq(Words)
        OBVIOUS
      <4>4. <<"pack", k - 1>> \in Seq(Words)
        BY <4>2, <4>3
      <4> QED
        BY <1>0, <4>4
    <3> HIDE DEF part
    <3> QED
      BY <1>0, <3>1, <3>2 DEF Rows
  <2>6. T \in Seq(Rows) /\ Len(T) = K /\ \A k \in 1 .. K : T[k] = pack(k)
    <3> HIDE DEF pack, T
    <3>1. T \in [1 .. K -> Rows]
      BY <2>1, <2>5
    <3> QED
      BY <2>1, <2>2, <3>1, SegmentSeq
  <2>7. \A k \in 1 .. K : /\ T[k].memory = row.memory /\ T[k].qa = part(k)
                          /\ T[k].id = row.id \o <<"pack", k - 1>>
    <3> HIDE DEF part, T
    <3> QED
      BY <2>6
  <2>8. ASSUME NEW x \in 1 .. n
        PROVE  \E k \in 1 .. Len(T) : \E j \in 1 .. Len(T[k].qa) : x = PackPlace(k, j)
    <3> DEFINE q == (x - 1) \div MaxPack
               k == q + 1
               j == x - MaxPack * q
    <3>0. x - 1 \in Nat
      BY <1>0
    <3>1. q \in Nat /\ MaxPack * q <= x - 1 /\ x - 1 < MaxPack * q + MaxPack
      <4> DEFINE a == x - 1
      <4>1. a \in Nat
        BY <3>0
      <4> HIDE DEF a
      <4>2. a \div MaxPack \in Nat /\ MaxPack * (a \div MaxPack) <= a /\ a < MaxPack * (a \div MaxPack) + MaxPack
        BY <4>1, Division
      <4> QED
        BY <4>2 DEF a
    <3>2. MaxPack * q \in Nat
      BY <3>1
    <3> HIDE DEF q
    <3>3. q < K
      <4>1. MaxPack * q < MaxPack * K
        BY <1>0, <2>2, <3>1, <3>2
      <4> QED
        BY <2>2, <3>1, <4>1, MulCancel
    <3>4. k \in 1 .. K
      BY <2>2, <3>1, <3>3
    <3>5. (k - 1) * MaxPack = MaxPack * q
      BY <3>1
    <3>6. PackPlace(k, j) = x
      BY <3>2, <3>5 DEF PackPlace
    <3>7. j \in 1 .. Len(part(k))
      <4>1. Len(part(k)) = top(k) - (k - 1) * MaxPack
        BY <2>4, <3>4
      <4>2. top(k) \in {k * MaxPack, n} /\ k * MaxPack = (k - 1) * MaxPack + MaxPack
        BY <2>3, <3>4
      <4> HIDE DEF k
      <4> DEFINE m == MaxPack * q
                 P == k * MaxPack
      <4>3. (k - 1) * MaxPack = m /\ P = m + MaxPack
        BY <3>5, <4>2
      <4>4. Len(part(k)) = top(k) - m
        BY <4>1, <4>3
      <4>5. top(k) \in {m + MaxPack, n} /\ m \in Nat /\ m <= x - 1 /\ x - 1 < m + MaxPack
        BY <3>1, <3>2, <4>2, <4>3
      <4> HIDE DEF m, P, top, part
      <4>6. x - m \in 1 .. top(k) - m
        BY <1>0, <4>5
      <4> QED
        BY <4>4, <4>6 DEF m
    <3> QED
      BY <2>6, <2>7, <3>4, <3>6, <3>7
  <2>9. \A k \in 1 .. Len(T) : /\ T[k].memory = row.memory /\ Len(T[k].qa) <= MaxPack
                               /\ \A j \in 1 .. Len(T[k].qa) :
                                    PackPlace(k, j) \in 1 .. n /\ T[k].qa[j] = row.qa[PackPlace(k, j)]
    <3> HIDE DEF part, T, n
    <3> QED
      BY <2>4, <2>6, <2>7
  <2> HIDE DEF T, n, K, part, pack, top
  <2>10. \A k \in 1 .. Len(T) : T[k].id = row.id \o <<"pack", k - 1>>
    BY <2>6, <2>7
  <2> QED
    BY <2>6, <2>8, <2>9, <2>10 DEF T, n
<1> QED
  BY <1>1, <1>2

\* The rows in packs that fit ask what the rows asked.
LEMMA SplitsAre ==
    ASSUME MaxPack \in Nat \ {0}, NEW R, IsRows(R), NEW d \in Nat, \A i \in 1 .. Len(R) : Len(R[i].id) = d
    PROVE  LET T == FlattenSeq([i \in DOMAIN R |-> SplitPack(R[i])])
           IN  IsRows(T) /\ AskSame(R, T) /\ \A k \in 1 .. Len(T) : Len(T[k].qa) <= MaxPack
<1> DEFINE n == Len(R)
           parts == [i \in DOMAIN R |-> SplitPack(R[i])]
           T == FlattenSeq(parts)
           Splits(i, s) ==
               /\ s \in Seq(Rows)
               /\ \A k \in 1 .. Len(s) :
                     /\ s[k].memory = R[i].memory /\ Len(s[k].qa) <= MaxPack
                     /\ \A j \in 1 .. Len(s[k].qa) : /\ PackPlace(k, j) \in 1 .. Len(R[i].qa)
                                                     /\ s[k].qa[j] = R[i].qa[PackPlace(k, j)]
               /\ \A x \in 1 .. Len(R[i].qa) :
                     \E k \in 1 .. Len(s) : \E j \in 1 .. Len(s[k].qa) : x = PackPlace(k, j)
               /\ \/ Len(s) = 1 /\ s[1].id = R[i].id
                  \/ \A k \in 1 .. Len(s) : s[k].id = R[i].id \o <<"pack", k - 1>>
<1>1. n \in Nat /\ DOMAIN R = 1 .. n /\ AsksOnce(R) /\ IdsApart(R) /\ \A i \in 1 .. n : R[i] \in Rows
  BY DEF IsRows
<1>2. \A i \in 1 .. n : Splits(i, SplitPack(R[i]))
  BY <1>1, SplitIs
<1>3. parts = [i \in 1 .. n |-> SplitPack(R[i])]
  BY <1>1
<1> HIDE DEF parts
<1>4. Len(parts) = n /\ \A i \in 1 .. n : Splits(i, parts[i])
  <2> HIDE DEF Splits, n
  <2> QED
    BY <1>1, <1>2, <1>3
<1>5. parts \in Seq(Seq(Rows))
  <2> DEFINE V == Seq(Rows)
  <2>1. \A i \in 1 .. n : SplitPack(R[i]) \in V
    BY <1>2
  <2> HIDE DEF V, n
  <2>2. parts \in [1 .. n -> V]
    BY <1>3, <2>1
  <2>3. parts \in Seq(V)
    BY <1>1, <2>2, SegmentSeq
  <2> QED
    BY <2>3 DEF V
<1>6. /\ T \in Seq(Rows)
      /\ \A k \in 1 .. Len(T) : \E i, t : InPart(parts, k, i, t)
      /\ \A i \in 1 .. n : \A t \in 1 .. Len(parts[i]) :
            Pos(parts, i, t) \in 1 .. Len(T) /\ T[Pos(parts, i, t)] = parts[i][t]
  <2> DEFINE S == Rows
  <2> HIDE DEF S
  <2>1. parts \in Seq(Seq(S))
    BY <1>5 DEF S
  <2>2. /\ T \in Seq(S)
        /\ \A k \in 1 .. Len(T) : \E i, t : InPart(parts, k, i, t)
        /\ \A i \in 1 .. Len(parts) : \A t \in 1 .. Len(parts[i]) :
              Pos(parts, i, t) \in 1 .. Len(T) /\ T[Pos(parts, i, t)] = parts[i][t]
    BY <2>1, FlatIs
  <2> QED
    BY <1>4, <2>2 DEF S
<1> HIDE DEF T
\* The x-th row is the k-th pack of the i-th.
<1> DEFINE From(x, i, k) == /\ i \in 1 .. n /\ k \in 1 .. Len(parts[i])
                            /\ x = Pos(parts, i, k) /\ T[x] = parts[i][k]
<1>7. ASSUME NEW x \in 1 .. Len(T) PROVE \E i, k : From(x, i, k)
  <2>1. PICK i, k : InPart(parts, x, i, k)
    BY <1>6
  <2>2. i \in 1 .. n /\ k \in 1 .. Len(parts[i]) /\ x = Pos(parts, i, k)
    BY <1>4, <2>1 DEF InPart
  <2> QED
    BY <1>6, <2>2
<1> DEFINE Facts(x, i, k) ==
               /\ i \in 1 .. n /\ k \in Nat \ {0}
               /\ T[x].memory = R[i].memory /\ Len(T[x].qa) <= MaxPack
               /\ \A j \in 1 .. Len(T[x].qa) : /\ PackPlace(k, j) \in 1 .. Len(R[i].qa)
                                               /\ T[x].qa[j] = R[i].qa[PackPlace(k, j)]
               /\ T[x].id \in {R[i].id, R[i].id \o <<"pack", k - 1>>}
               /\ T[x].id = R[i].id => k = 1 \/ T[x].id = R[i].id \o <<"pack", k - 1>>
<1>8. ASSUME NEW x, NEW i, NEW k, From(x, i, k) PROVE Facts(x, i, k)
  <2>1. i \in 1 .. n /\ k \in 1 .. Len(parts[i]) /\ T[x] = parts[i][k] /\ Splits(i, parts[i])
    BY <1>4, <1>8
  <2>2. k \in Nat \ {0}
    BY <2>1
  <2>3. CASE Len(parts[i]) = 1 /\ parts[i][1].id = R[i].id
    BY <2>1, <2>2, <2>3
  <2>4. CASE \A l \in 1 .. Len(parts[i]) : parts[i][l].id = R[i].id \o <<"pack", l - 1>>
    BY <2>1, <2>2, <2>4
  <2> QED
    BY <2>1, <2>3, <2>4
<1>9. ASSUME NEW i \in 1 .. n, NEW j \in 1 .. Len(R[i].qa)
      PROVE  \E y \in 1 .. Len(T) : /\ T[y].memory = R[i].memory
                                    /\ \E l \in 1 .. Len(T[y].qa) : T[y].qa[l] = R[i].qa[j]
  <2>1. Splits(i, parts[i])
    BY <1>4
  <2>2. PICK k \in 1 .. Len(parts[i]) : \E l \in 1 .. Len(parts[i][k].qa) : j = PackPlace(k, l)
    BY <2>1
  <2>3. PICK l \in 1 .. Len(parts[i][k].qa) : j = PackPlace(k, l)
    BY <2>2
  <2>4. parts[i][k].qa[l] = R[i].qa[j] /\ parts[i][k].memory = R[i].memory
    BY <2>1, <2>3
  <2>5. Pos(parts, i, k) \in 1 .. Len(T) /\ T[Pos(parts, i, k)] = parts[i][k]
    BY <1>6
  <2> QED
    BY <2>4, <2>5
<1> HIDE DEF Splits
<1> HIDE DEF From, Facts
<1>8a. \A x \in 1 .. Len(T) : \E i, k : From(x, i, k) /\ Facts(x, i, k)
  BY <1>7, <1>8
<1>10. AsksOnce(T)
  <2> SUFFICES ASSUME NEW x \in 1 .. Len(T), NEW y \in 1 .. Len(T), T[x].memory = T[y].memory,
                      NEW j \in 1 .. Len(T[x].qa), NEW l \in 1 .. Len(T[y].qa),
                      T[x].qa[j].q = T[y].qa[l].q
               PROVE  x = y /\ j = l
    BY DEF AsksOnce
  <2>1. PICK i, k : From(x, i, k) /\ Facts(x, i, k)
    BY <1>8a
  <2>2. PICK i2, k2 : From(y, i2, k2) /\ Facts(y, i2, k2)
    BY <1>8a
  <2> DEFINE a == PackPlace(k, j)
             b == PackPlace(k2, l)
  <2>3. /\ i \in 1 .. n /\ i2 \in 1 .. n /\ R[i].memory = R[i2].memory
        /\ a \in 1 .. Len(R[i].qa) /\ b \in 1 .. Len(R[i2].qa) /\ R[i].qa[a].q = R[i2].qa[b].q
        /\ k \in Nat \ {0} /\ k2 \in Nat \ {0} /\ Len(T[x].qa) <= MaxPack /\ Len(T[y].qa) <= MaxPack
    <3>1. /\ i \in 1 .. n /\ k \in Nat \ {0} /\ T[x].memory = R[i].memory /\ Len(T[x].qa) <= MaxPack
          /\ a \in 1 .. Len(R[i].qa) /\ T[x].qa[j] = R[i].qa[a]
      BY <2>1 DEF Facts
    <3>2. /\ i2 \in 1 .. n /\ k2 \in Nat \ {0} /\ T[y].memory = R[i2].memory /\ Len(T[y].qa) <= MaxPack
          /\ b \in 1 .. Len(R[i2].qa) /\ T[y].qa[l] = R[i2].qa[b]
      BY <2>2 DEF Facts
    <3> HIDE DEF a, b
    <3> QED
      BY <3>1, <3>2
  <2>4. i = i2 /\ a = b
    <3> HIDE DEF a, b
    <3>1. \A a2 \in 1 .. Len(R[i].qa), b2 \in 1 .. Len(R[i2].qa) :
             R[i].qa[a2].q = R[i2].qa[b2].q => i = i2 /\ a2 = b2
      BY <1>1, <2>3, Zenon DEF AsksOnce
    <3> QED
      BY <2>3, <3>1, Zenon
  <2>5. k = k2 /\ j = l
    <3>1. j \in 1 .. MaxPack /\ l \in 1 .. MaxPack
      <4>1. Len(T[x].qa) \in Nat /\ Len(T[y].qa) \in Nat
        BY <1>6 DEF Rows
      <4> DEFINE e == Len(T[x].qa)
                 g == Len(T[y].qa)
      <4>2. e \in Nat /\ g \in Nat /\ e <= MaxPack /\ g <= MaxPack /\ j \in 1 .. e /\ l \in 1 .. g
        BY <2>3, <4>1
      <4> HIDE DEF e, g
      <4> QED
        BY <4>2
    <3> QED
      BY <2>3, <2>4, <3>1, PackPlaceUnique
  <2>6. x = y
    BY <2>1, <2>2, <2>4, <2>5 DEF From
  <2> QED
    BY <2>5, <2>6
<1>11. IdsApart(T)
  <2> SUFFICES ASSUME NEW x \in 1 .. Len(T), NEW y \in 1 .. Len(T), T[x].id = T[y].id
               PROVE  x = y
    BY DEF IdsApart
  <2>1. PICK i, k : From(x, i, k) /\ Facts(x, i, k)
    BY <1>8a
  <2>2. PICK i2, k2 : From(y, i2, k2) /\ Facts(y, i2, k2)
    BY <1>8a
  <2> DEFINE a == R[i].id
             b == R[i2].id
             u == <<"pack", k - 1>>
             v == <<"pack", k2 - 1>>
  <2>3. /\ i \in 1 .. n /\ k \in Nat \ {0} /\ T[x].id \in {a, a \o u} /\ (T[x].id = a => k = 1 \/ T[x].id = a \o u)
    <3> QED
      BY <2>1, Zenon DEF Facts
  <2>4. /\ i2 \in 1 .. n /\ k2 \in Nat \ {0} /\ T[y].id \in {b, b \o v} /\ (T[y].id = b => k2 = 1 \/ T[y].id = b \o v)
    <3> QED
      BY <2>2, Zenon DEF Facts
  <2>5. a \in Seq(Words) /\ b \in Seq(Words) /\ Len(a) = d /\ Len(b) = d
    BY <1>1, <2>3, <2>4 DEF Rows
  <2>6. u \in Seq(Words) /\ v \in Seq(Words) /\ Len(u) = 2 /\ Len(v) = 2 /\ (u = v => k = k2)
    <3>1. k - 1 \in Int /\ k2 - 1 \in Int
      BY <2>3, <2>4
    <3>2. "pack" \in Words /\ k - 1 \in Words /\ k2 - 1 \in Words
      BY <3>1, Zenon DEF Words
    <3>3. \A p, q \in Words : <<p, q>> \in Seq(Words) /\ Len(<<p, q>>) = 2
      OBVIOUS
    <3>4. u \in Seq(Words) /\ v \in Seq(Words) /\ Len(u) = 2 /\ Len(v) = 2
      BY <3>2, <3>3
    <3>5. ASSUME u = v PROVE k = k2
      <4>1. u[2] = v[2]
        BY <3>5, Zenon
      <4>2. k - 1 = k2 - 1
        BY <4>1
      <4> QED
        BY <2>3, <2>4, <4>2
    <3> QED
      BY <3>4, <3>5
  <2> HIDE DEF a, b, u, v
  <2>7. Len(a \o u) = d + 2 /\ Len(b \o v) = d + 2
    <3>1. Len(a \o u) = Len(a) + Len(u)
      BY <2>5, <2>6, ConcatProperties
    <3>2. Len(b \o v) = Len(b) + Len(v)
      BY <2>5, <2>6, ConcatProperties
    <3> QED
      BY <2>5, <2>6, <3>1, <3>2
  <2>8. ASSUME a \o u = b \o v PROVE a = b /\ u = v
    <3>1. Len(u) = Len(v)
      BY <2>6
    <3> DEFINE S == Words
    <3>2. a \in Seq(S) /\ b \in Seq(S) /\ u \in Seq(S) /\ v \in Seq(S)
      BY <2>5, <2>6
    <3> HIDE DEF S
    <3> QED
      BY <2>8, <3>1, <3>2, ConcatSame
  <2>9. a = b /\ k = k2
    <3>1. a # b \o v /\ a \o u # b
      BY <2>5, <2>7
    <3>2. CASE T[x].id = a \o u /\ T[y].id = b \o v
      BY <2>6, <2>8, <3>2
    <3>3. CASE T[x].id = a /\ T[y].id = b
      BY <2>3, <2>4, <2>5, <2>7, <3>3
    <3> QED
      BY <2>3, <2>4, <3>1, <3>2, <3>3
  <2>10. i = i2
    BY <1>1, <2>3, <2>4, <2>9 DEF IdsApart, a, b
  <2> QED
    BY <2>1, <2>2, <2>9, <2>10 DEF From
<1>12. ASSUME NEW m, NEW x PROVE Asks(R, m, x) <=> Asks(T, m, x)
  <2>1. ASSUME Asks(R, m, x) PROVE Asks(T, m, x)
    <3>1. PICK i \in 1 .. n : R[i].memory = m /\ \E j \in 1 .. Len(R[i].qa) : R[i].qa[j] = x
      BY <2>1 DEF Asks
    <3>2. PICK j \in 1 .. Len(R[i].qa) : R[i].qa[j] = x
      BY <3>1
    <3> QED
      <4>1. \E y \in 1 .. Len(T) : /\ T[y].memory = R[i].memory
                                    /\ \E l \in 1 .. Len(T[y].qa) : T[y].qa[l] = R[i].qa[j]
        BY <1>9
      <4> QED
        BY <3>1, <3>2, <4>1 DEF Asks
  <2>2. ASSUME Asks(T, m, x) PROVE Asks(R, m, x)
    <3>1. PICK y \in 1 .. Len(T) : T[y].memory = m /\ \E j \in 1 .. Len(T[y].qa) : T[y].qa[j] = x
      BY <2>2 DEF Asks
    <3>2. PICK j \in 1 .. Len(T[y].qa) : T[y].qa[j] = x
      BY <3>1
    <3>3. PICK i, k : Facts(y, i, k)
      BY <1>8a
    <3>4. /\ i \in 1 .. n /\ T[y].memory = R[i].memory /\ PackPlace(k, j) \in 1 .. Len(R[i].qa)
          /\ T[y].qa[j] = R[i].qa[PackPlace(k, j)]
      BY <3>3 DEF Facts
    <3> QED
      BY <3>1, <3>2, <3>4 DEF Asks
  <2> QED
    BY <2>1, <2>2
<1>13. \A x \in 1 .. Len(T) : Len(T[x].qa) <= MaxPack
  <2> TAKE x \in 1 .. Len(T)
  <2>1. PICK i, k : From(x, i, k) /\ Facts(x, i, k)
    BY <1>8a
  <2> QED
    BY <2>1 DEF Facts
<1> QED
  BY <1>6, <1>10, <1>11, <1>12, <1>13 DEF IsRows, AskSame, T, parts

\* The rows in packs of a test set.
LEMMA PackRowsAre ==
    ASSUME MaxPack \in Nat \ {0}, NEW c, IsTestSet(RowsOf(c))
    PROVE  /\ IsRows(PackRows(c)) /\ AskSame(RowsOf(c), PackRows(c))
           /\ \A k \in 1 .. Len(PackRows(c)) : Len(PackRows(c)[k].qa) <= MaxPack
<1> DEFINE R == IF c.dynamic THEN DynamicPackRows(RowsOf(c)) ELSE RowsOf(c)
           T == FlattenSeq([i \in DOMAIN R |-> SplitPack(R[i])])
<1>1. IsRows(RowsOf(c)) /\ \A i \in 1 .. Len(RowsOf(c)) : Len(RowsOf(c)[i].id) = 1
  BY TestSetRows
<1>2. IsRows(R) /\ AskSame(RowsOf(c), R) /\ \E d \in Nat : \A i \in 1 .. Len(R) : Len(R[i].id) = d
  <2>1. CASE c.dynamic
    <3>1. R = DynamicPackRows(RowsOf(c))
      BY <2>1
    <3>2. IsRows(R) /\ AskSame(RowsOf(c), R) /\ \A i \in 1 .. Len(R) : Len(R[i].id) = 2
      BY <1>1, <3>1, DynamicPackIs
    <3> QED
      BY <3>2
  <2>2. CASE ~c.dynamic
    <3>1. R = RowsOf(c)
      BY <2>2
    <3> QED
      <4>1. AskSame(RowsOf(c), R)
        BY <3>1 DEF AskSame
      <4>2. \A i \in 1 .. Len(R) : Len(R[i].id) = 1
        BY <1>1, <3>1
      <4> QED
        BY <1>1, <3>1, <4>1, <4>2
  <2> QED
    BY <2>1, <2>2
<1> HIDE DEF R
<1>3. PICK d \in Nat : \A i \in 1 .. Len(R) : Len(R[i].id) = d
  BY <1>2
<1>4. IsRows(T) /\ AskSame(R, T) /\ \A k \in 1 .. Len(T) : Len(T[k].qa) <= MaxPack
  BY <1>2, <1>3, SplitsAre
<1> HIDE DEF T
<1>5. AskSame(RowsOf(c), T)
  BY <1>2, <1>4 DEF AskSame
<1>6. PackRows(c) = T
  BY Zenon DEF PackRows, R, T
<1> QED
  BY <1>4, <1>5, <1>6

\* What has its own place among n places is no more than n.
LEMMA NoMore ==
    ASSUME NEW m \in Nat, NEW n \in Nat, NEW f, NEW X, Stood(f, m, n, X)
    PROVE  m <= n
<1> DEFINE g == [k \in 1 .. m |-> f[k]]
<1>1. g \in Injection(1 .. m, 1 .. n)
  <2>1. g \in [1 .. m -> 1 .. n]
    BY DEF Stood
  <2>2. \A k, l \in 1 .. m : g[k] = g[l] => k = l
    BY DEF Stood
  <2> QED
    BY <2>1, <2>2 DEF Injection, IsInjective
<1>2. IsFiniteSet(1 .. n) /\ Cardinality(1 .. n) = n /\ Cardinality(1 .. m) = m
  BY FS_Interval
<1>3. Cardinality(1 .. m) <= Cardinality(1 .. n)
  <2> DEFINE S == 1 .. n
             T == 1 .. m
  <2>1. IsFiniteSet(S) /\ g \in Injection(T, S)
    BY <1>1, <1>2
  <2> HIDE DEF S, T, g
  <2> QED
    BY <2>1, FS_Injection DEF S, T
<1> QED
  BY <1>2, <1>3

\* x is a question of the row that is asked.
Wanted(c, row, x) == x \in 1 .. Len(row.qa) /\ row.qa[x].cat \notin c.drop
EachOnce(row) == \A x, y \in 1 .. Len(row.qa) : row.qa[x].q = row.qa[y].q => x = y

\* The questions of a row that are asked are those of no excluded category, in order.
LEMMA AskedIs ==
    ASSUME NEW c, NEW row \in Rows, EachOnce(row)
    PROVE  LET A == Asked(c, row)
           IN  /\ A \in Seq(Qas) /\ Len(A) <= Len(row.qa)
               /\ \A k \in 1 .. Len(A) : \E x : Wanted(c, row, x) /\ A[k] = row.qa[x]
               /\ \A x : Wanted(c, row, x) => \E k \in 1 .. Len(A) : A[k] = row.qa[x]
               /\ \A k, l \in 1 .. Len(A) : A[k].q = A[l].q => k = l
<1> DEFINE A == Asked(c, row)
           n == Len(row.qa)
           X == {j \in DOMAIN row.qa : row.qa[j].cat \notin c.drop}
<1>1. row.qa \in Seq(Qas) /\ n \in Nat /\ DOMAIN row.qa = 1 .. n
  BY DEF Rows
<1>2. A = Kept(row.qa, X)
  BY Zenon DEF Asked
<1>3. PICK f : /\ Stood(f, Len(A), n, X)
               /\ A \in Seq(Qas)
               /\ \A k \in 1 .. Len(A) : A[k] = row.qa[f[k]]
  <2> DEFINE s == row.qa
  <2>1. s \in Seq(Qas) /\ n = Len(s)
    BY <1>1
  <2> HIDE DEF s, X, n, A
  <2>2. /\ Kept(s, X) \in Seq(Qas)
        /\ \E f : /\ Stood(f, Len(Kept(s, X)), n, X)
                  /\ \A k \in 1 .. Len(Kept(s, X)) : Kept(s, X)[k] = s[f[k]]
    BY <2>1, KeptIs
  <2>3. A = Kept(s, X)
    BY <1>2 DEF s
  <2>4. A \in Seq(Qas) /\ \E f : Stood(f, Len(A), n, X) /\ \A k \in 1 .. Len(A) : A[k] = s[f[k]]
    BY <2>2, <2>3, Zenon
  <2> QED
    BY <2>4 DEF s
<1>4. \A x : Wanted(c, row, x) <=> x \in 1 .. n /\ x \in X
  BY <1>1 DEF Wanted
<1> HIDE DEF X, A
<1>5. /\ \A k \in 1 .. Len(A) : f[k] \in 1 .. n /\ f[k] \in X
      /\ \A k, l \in 1 .. Len(A) : f[k] = f[l] => k = l
      /\ \A x \in 1 .. n : x \in X => \E k \in 1 .. Len(A) : f[k] = x
  BY <1>3 DEF Stood
<1>6. Len(A) <= n
  <2>1. Len(A) \in Nat
    BY <1>3
  <2> HIDE DEF n
  <2> QED
    BY <1>1, <1>3, <2>1, NoMore
<1>7. ASSUME NEW k \in 1 .. Len(A), NEW l \in 1 .. Len(A), A[k].q = A[l].q PROVE k = l
  <2>1. f[k] \in 1 .. n /\ f[l] \in 1 .. n /\ row.qa[f[k]].q = row.qa[f[l]].q
    BY <1>3, <1>5, <1>7
  <2>2. f[k] = f[l]
    BY <2>1 DEF EachOnce
  <2> QED
    BY <1>5, <2>2
<1>8. \A k \in 1 .. Len(A) : \E x : Wanted(c, row, x) /\ A[k] = row.qa[x]
  BY <1>3, <1>4, <1>5
<1>9. \A x : Wanted(c, row, x) => \E k \in 1 .. Len(A) : A[k] = row.qa[x]
  BY <1>3, <1>4, <1>5
<1> QED
  BY <1>3, <1>6, <1>7, <1>8, <1>9 DEF A

Asks1 == STRING \ {""}
RequestKinds == {"official_pack", "raw", "multi", "ttl", "single"}
PackKinds == {"official_pack", "multi", "ttl"}
Requests ==
    {r \in [id : Seq(Words), kind : RequestKinds, asked : Seq(Asks1), group : Seq(Words), memory : STRING] :
        r.kind \notin PackKinds => Len(r.asked) = 1}

\* A test set asks the questions of a row in one request or in one each.
InOnePack(c) == \/ c.kind \in {"multi", "recsys_multi", "ttl_multi"}
                \/ c.kind = "official_single" /\ c.prompt = "raw_pack"
IdTail(c, k) == IF ~InOnePack(c) THEN <<k - 1>>
                ELSE IF c.kind = "official_single" THEN << "pack" >> ELSE << >>

\* build_requests asks all questions of a row in one request, or one in each.
LEMMA BuildIs ==
    ASSUME NEW c, c.kind \in Kinds, NEW row \in Rows
    PROVE  LET A == Asked(c, row)
               B == BuildRequests(c, row)
           IN  /\ A = << >> => B = << >>
               /\ A # << >> /\ InOnePack(c) =>
                     \E kind \in PackKinds : B = << Request(row, IdTail(c, 1), kind, A) >>
               /\ A # << >> /\ ~InOnePack(c) =>
                     \E kind \in RequestKinds :
                        B = [k \in DOMAIN A |-> Request(row, IdTail(c, k), kind, << A[k] >>)]
<1> DEFINE A == Asked(c, row)
           B == BuildRequests(c, row)
<1>0. c.kind \in {"official_single", "multi", "recsys_multi", "ttl_multi", "single", "ttl_single", "recsys_single"}
  BY DEF Kinds
<1>1. CASE A = << >>
  BY <1>1 DEF BuildRequests
<1>2. CASE A # << >> /\ c.kind = "official_single"
  <2>1. B = BuildOfficialRequests(c, row)
    BY <1>2 DEF BuildRequests
  <2>2. CASE c.prompt = "raw_pack"
    <3>1. B = << Request(row, << "pack" >>, "official_pack", A) >>
      BY <2>1, <2>2 DEF BuildOfficialRequests
    <3>2. InOnePack(c) /\ IdTail(c, 1) = << "pack" >>
      BY <1>2, <2>2 DEF InOnePack, IdTail
    <3> QED
      BY <1>2, <3>1, <3>2 DEF RequestKinds, PackKinds
  <2>3. CASE c.prompt # "raw_pack"
    <3>1. B = [k \in DOMAIN A |-> Request(row, <<k - 1>>, "raw", << A[k] >>)]
      BY <2>1, <2>3 DEF BuildOfficialRequests, Each
    <3>2. ~InOnePack(c) /\ \A k : IdTail(c, k) = <<k - 1>>
      BY <1>2, <2>3 DEF InOnePack, IdTail
    <3> QED
      BY <1>2, <3>1, <3>2 DEF RequestKinds, PackKinds
  <2> QED
    BY <2>2, <2>3
<1>3. CASE A # << >> /\ c.kind \in {"multi", "recsys_multi", "ttl_multi"}
  <2>1. \E kind \in {"multi", "ttl"} : B = << Request(row, << >>, kind, A) >>
    BY <1>3 DEF BuildRequests
  <2>2. InOnePack(c) /\ IdTail(c, 1) = << >>
    BY <1>3 DEF InOnePack, IdTail
  <2> QED
    BY <1>3, <2>1, <2>2 DEF RequestKinds, PackKinds
<1>4. CASE A # << >> /\ c.kind \in {"single", "ttl_single", "recsys_single"}
  <2>1. B = [k \in DOMAIN A |-> Request(row, <<k - 1>>, "single", << A[k] >>)]
    BY <1>4 DEF BuildRequests, Each
  <2>2. ~InOnePack(c) /\ \A k : IdTail(c, k) = <<k - 1>>
    BY <1>4 DEF InOnePack, IdTail
  <2> QED
    BY <1>4, <2>1, <2>2 DEF RequestKinds, PackKinds
<1> QED
  BY <1>0, <1>1, <1>2, <1>3, <1>4

\* build_requests asks every question of the row that is not excluded, once.
Built(c, row, B) ==
    /\ B \in Seq(Requests)
    /\ \A k \in 1 .. Len(B) :
          /\ B[k].memory = row.memory /\ B[k].id = row.id \o IdTail(c, k)
          /\ Len(B[k].asked) \in 1 .. Len(row.qa)
          /\ \A j \in 1 .. Len(B[k].asked) : \E x : Wanted(c, row, x) /\ B[k].asked[j] = row.qa[x].q
    /\ \A x : Wanted(c, row, x) =>
          \E k \in 1 .. Len(B) : \E j \in 1 .. Len(B[k].asked) : B[k].asked[j] = row.qa[x].q
    /\ \A k, l \in 1 .. Len(B) : \A j \in 1 .. Len(B[k].asked), i \in 1 .. Len(B[l].asked) :
          B[k].asked[j] = B[l].asked[i] => k = l /\ j = i
    /\ InOnePack(c) => \A k \in 1 .. Len(B) : k = 1

\* What a request has: an id, its row's memory and group, the questions asked.
LEMMA RequestIs ==
    ASSUME NEW row \in Rows, NEW tail \in Seq(Words), NEW kind \in RequestKinds, NEW S \in Seq(Qas),
           kind \notin PackKinds => Len(S) = 1
    PROVE  LET r == Request(row, tail, kind, S)
           IN  /\ r \in Requests /\ r.memory = row.memory /\ r.id = row.id \o tail
               /\ Len(r.asked) = Len(S) /\ \A j \in 1 .. Len(S) : r.asked[j] = S[j].q
<1> DEFINE a == [i \in DOMAIN S |-> S[i].q]
           d == row.id \o tail
<1>1. Len(S) \in Nat /\ DOMAIN S = 1 .. Len(S) /\ \A i \in 1 .. Len(S) : S[i].q \in Asks1
  <2>1. Len(S) \in Nat /\ DOMAIN S = 1 .. Len(S) /\ \A i \in 1 .. Len(S) : S[i] \in Qas
    OBVIOUS
  <2>2. \A x \in Qas : x.q \in Asks1
    BY Zenon DEF Qas, Asks1
  <2> QED
    BY <2>1, <2>2
<1>2. a \in Seq(Asks1) /\ Len(a) = Len(S) /\ \A j \in 1 .. Len(S) : a[j] = S[j].q
  <2>1. a = [i \in 1 .. Len(S) |-> S[i].q]
    BY <1>1
  <2> HIDE DEF a
  <2>2. a \in [1 .. Len(S) -> Asks1]
    BY <1>1, <2>1
  <2> QED
    BY <1>1, <2>1, <2>2, SegmentSeq
<1>3. row.id \in Seq(Words) /\ row.memory \in STRING
  BY DEF Rows
<1>4. d \in Seq(Words)
  BY <1>3
<1>5. Request(row, tail, kind, S) = [id |-> d, kind |-> kind, asked |-> a, group |-> row.id, memory |-> row.memory]
  BY DEF Request
<1> HIDE DEF a, d
<1>6. Request(row, tail, kind, S) \in Requests
  <2> DEFINE r == Request(row, tail, kind, S)
  <2>1. r \in [id : Seq(Words), kind : RequestKinds, asked : Seq(Asks1), group : Seq(Words), memory : STRING]
    BY <1>2, <1>3, <1>4, <1>5
  <2>2. r.kind \notin PackKinds => Len(r.asked) = 1
    BY <1>2, <1>5
  <2> HIDE DEF r
  <2>3. r \in Requests
    BY <2>1, <2>2, Zenon DEF Requests
  <2> QED
    BY <2>3 DEF r
<1> QED
  BY <1>2, <1>5, <1>6 DEF d

\* The requests of a row, and which question each of them asks at which place.
LEMMA RequestsBuilt ==
    ASSUME NEW c, c.kind \in Kinds, NEW row \in Rows, EachOnce(row)
    PROVE  Built(c, row, BuildRequests(c, row))
<1> DEFINE A == Asked(c, row)
           B == BuildRequests(c, row)
           n == Len(row.qa)
<1>1. /\ A \in Seq(Qas) /\ Len(A) <= n
      /\ \A k \in 1 .. Len(A) : \E x : Wanted(c, row, x) /\ A[k] = row.qa[x]
      /\ \A x : Wanted(c, row, x) => \E k \in 1 .. Len(A) : A[k] = row.qa[x]
      /\ \A k, l \in 1 .. Len(A) : A[k].q = A[l].q => k = l
  BY AskedIs, Zenon
<1>2. /\ A = << >> => B = << >>
      /\ A # << >> /\ InOnePack(c) =>
            \E kind \in PackKinds : B = << Request(row, IdTail(c, 1), kind, A) >>
      /\ A # << >> /\ ~InOnePack(c) =>
            \E kind \in RequestKinds : B = [k \in DOMAIN A |-> Request(row, IdTail(c, k), kind, << A[k] >>)]
  BY BuildIs, Zenon
<1>3. n \in Nat /\ Len(A) \in Nat /\ DOMAIN A = 1 .. Len(A) /\ \A k \in 1 .. Len(A) : A[k] \in Qas
  BY <1>1 DEF Rows
<1>4. \A k \in 1 .. Len(A) + 1 : IdTail(c, k) \in Seq(Words)
  <2> SUFFICES ASSUME NEW k \in 1 .. Len(A) + 1 PROVE IdTail(c, k) \in Seq(Words)
    OBVIOUS
  <2>1. k - 1 \in Int
    BY <1>3
  <2>2. "pack" \in Words /\ k - 1 \in Words
    BY <2>1, Zenon DEF Words
  <2>3. \A x \in Words : << x >> \in Seq(Words)
    OBVIOUS
  <2>4. << >> \in Seq(Words)
    OBVIOUS
  <2> QED
    BY <2>2, <2>3, <2>4, Zenon DEF IdTail
<1> HIDE DEF A, B, n
<1>5. CASE A = << >>
  <2>1. B = << >> /\ Len(B) = 0 /\ 1 .. Len(B) = {}
    BY <1>2, <1>5
  <2>2. \A x : ~Wanted(c, row, x)
    BY <1>1, <1>5
  <2>3. B \in Seq(Requests)
    BY <2>1
  <2> QED
    BY <2>1, <2>2, <2>3 DEF Built, B
<1>6. CASE A # << >> /\ InOnePack(c)
  <2>1. PICK kind \in PackKinds : B = << Request(row, IdTail(c, 1), kind, A) >>
    BY <1>2, <1>6
  <2> DEFINE r == Request(row, IdTail(c, 1), kind, A)
  <2>2. /\ r \in Requests /\ r.memory = row.memory /\ r.id = row.id \o IdTail(c, 1)
        /\ Len(r.asked) = Len(A) /\ \A j \in 1 .. Len(A) : r.asked[j] = A[j].q
    <3>1. IdTail(c, 1) \in Seq(Words)
      BY <1>3, <1>4
    <3>2. kind \in RequestKinds
      BY DEF RequestKinds, PackKinds
    <3> QED
      <4> DEFINE S == A
      <4>1. S \in Seq(Qas)
        BY <1>1
      <4> HIDE DEF S
      <4> DEFINE q == Request(row, IdTail(c, 1), kind, S)
      <4>2. /\ q \in Requests /\ q.memory = row.memory /\ q.id = row.id \o IdTail(c, 1)
            /\ Len(q.asked) = Len(S) /\ \A j \in 1 .. Len(S) : q.asked[j] = S[j].q
        BY <3>1, <3>2, <4>1, RequestIs, Zenon
      <4> QED
        BY <4>2 DEF S
  <2> HIDE DEF r
  <2>3. B = << r >>
    BY <2>1 DEF r
  <2>4. B \in Seq(Requests) /\ Len(B) = 1 /\ B[1] = r
    BY <2>2, <2>3
  <2>5. 1 .. Len(B) = {1}
    BY <2>4
  <2>6. Len(A) \in 1 .. n
    BY <1>1, <1>3, <1>6
  <2>7. \A k \in 1 .. Len(B) :
          /\ B[k].memory = row.memory /\ B[k].id = row.id \o IdTail(c, k)
          /\ Len(B[k].asked) \in 1 .. Len(row.qa)
          /\ \A j \in 1 .. Len(B[k].asked) : \E x : Wanted(c, row, x) /\ B[k].asked[j] = row.qa[x].q
    <3>1. \A j \in 1 .. Len(A) : \E x : Wanted(c, row, x) /\ r.asked[j] = row.qa[x].q
      BY <1>1, <2>2
    <3> QED
      BY <2>2, <2>4, <2>5, <2>6, <3>1 DEF n
  <2>8. \A x : Wanted(c, row, x) => \E j \in 1 .. Len(r.asked) : r.asked[j] = row.qa[x].q
    <3> SUFFICES ASSUME NEW x, Wanted(c, row, x) PROVE \E j \in 1 .. Len(r.asked) : r.asked[j] = row.qa[x].q
      OBVIOUS
    <3>1. PICK j \in 1 .. Len(A) : A[j] = row.qa[x]
      BY <1>1
    <3> QED
      BY <2>2, <3>1
  <2>9. \A j, i \in 1 .. Len(r.asked) : r.asked[j] = r.asked[i] => j = i
    BY <1>1, <2>2
  <2>10. \A x : Wanted(c, row, x) =>
          \E k \in 1 .. Len(B) : \E j \in 1 .. Len(B[k].asked) : B[k].asked[j] = row.qa[x].q
    BY <2>4, <2>5, <2>8
  <2>11. \A k, l \in 1 .. Len(B) : \A j \in 1 .. Len(B[k].asked), i \in 1 .. Len(B[l].asked) :
          B[k].asked[j] = B[l].asked[i] => k = l /\ j = i
    BY <2>4, <2>5, <2>9
  <2>12. \A k \in 1 .. Len(B) : k = 1
    BY <2>5
  <2> QED
    BY <2>4, <2>7, <2>10, <2>11, <2>12 DEF Built, B
<1>7. CASE A # << >> /\ ~InOnePack(c)
  <2>1. PICK kind \in RequestKinds : B = [k \in DOMAIN A |-> Request(row, IdTail(c, k), kind, << A[k] >>)]
    BY <1>2, <1>7
  <2> DEFINE r(k) == Request(row, IdTail(c, k), kind, << A[k] >>)
  <2>2. ASSUME NEW k \in 1 .. Len(A)
        PROVE  /\ r(k) \in Requests /\ r(k).memory = row.memory /\ r(k).id = row.id \o IdTail(c, k)
               /\ Len(r(k).asked) = 1 /\ r(k).asked[1] = A[k].q
    <3> DEFINE S == << A[k] >>
    <3>1. IdTail(c, k) \in Seq(Words)
      BY <1>3, <1>4
    <3>2. S \in Seq(Qas) /\ Len(S) = 1 /\ S[1] = A[k]
      BY <1>3
    <3> HIDE DEF S
    <3> DEFINE q == Request(row, IdTail(c, k), kind, S)
    <3>3. /\ q \in Requests /\ q.memory = row.memory /\ q.id = row.id \o IdTail(c, k)
          /\ Len(q.asked) = Len(S) /\ \A j \in 1 .. Len(S) : q.asked[j] = S[j].q
      BY <3>1, <3>2, RequestIs, Zenon
    <3> HIDE DEF q
    <3>4. 1 \in 1 .. Len(S)
      BY <3>2
    <3>5. /\ q \in Requests /\ q.memory = row.memory /\ q.id = row.id \o IdTail(c, k)
          /\ Len(q.asked) = 1 /\ q.asked[1] = A[k].q
      BY <3>2, <3>3, <3>4
    <3> QED
      BY <3>5 DEF q, S
  <2>3. B = [k \in 1 .. Len(A) |-> r(k)]
    BY <1>3, <2>1
  <2> HIDE DEF r
  <2>4. B \in Seq(Requests) /\ Len(B) = Len(A) /\ \A k \in 1 .. Len(A) : B[k] = r(k)
    <3>1. B \in [1 .. Len(A) -> Requests]
      BY <2>2, <2>3
    <3> QED
      BY <1>3, <2>3, <3>1, SegmentSeq
  <2>5. \A k \in 1 .. Len(A) : /\ B[k].memory = row.memory /\ B[k].id = row.id \o IdTail(c, k)
                               /\ Len(B[k].asked) = 1 /\ B[k].asked[1] = A[k].q
    BY <2>2, <2>4
  <2>6. 1 \in 1 .. n /\ 1 .. 1 = {1}
    BY <1>1, <1>3, <1>7
  <2>7. \A k \in 1 .. Len(B) :
          /\ B[k].memory = row.memory /\ B[k].id = row.id \o IdTail(c, k)
          /\ Len(B[k].asked) \in 1 .. Len(row.qa)
          /\ \A j \in 1 .. Len(B[k].asked) : \E x : Wanted(c, row, x) /\ B[k].asked[j] = row.qa[x].q
    <3> TAKE k \in 1 .. Len(B)
    <3>1. /\ B[k].memory = row.memory /\ B[k].id = row.id \o IdTail(c, k)
          /\ Len(B[k].asked) = 1 /\ B[k].asked[1] = A[k].q /\ k \in 1 .. Len(A)
      BY <2>4, <2>5
    <3>2. PICK x : Wanted(c, row, x) /\ A[k] = row.qa[x]
      BY <1>1, <3>1
    <3>3. \A j \in 1 .. Len(B[k].asked) : j = 1
      BY <2>6, <3>1
    <3>4. Len(B[k].asked) \in 1 .. Len(row.qa)
      BY <2>6, <3>1 DEF n
    <3> QED
      BY <3>1, <3>2, <3>3, <3>4
  <2>8. ASSUME NEW x, Wanted(c, row, x)
        PROVE  \E k \in 1 .. Len(B) : \E j \in 1 .. Len(B[k].asked) : B[k].asked[j] = row.qa[x].q
    <3>1. PICK k \in 1 .. Len(A) : A[k] = row.qa[x]
      BY <1>1, <2>8
    <3>2. k \in 1 .. Len(B) /\ 1 \in 1 .. Len(B[k].asked) /\ B[k].asked[1] = row.qa[x].q
      BY <2>4, <2>5, <3>1
    <3> QED
      BY <3>2
  <2>9. \A k, l \in 1 .. Len(B) : \A j \in 1 .. Len(B[k].asked), i \in 1 .. Len(B[l].asked) :
          B[k].asked[j] = B[l].asked[i] => k = l /\ j = i
    <3> SUFFICES ASSUME NEW k \in 1 .. Len(A), NEW l \in 1 .. Len(A), B[k].asked[1] = B[l].asked[1]
                 PROVE  k = l
      BY <2>4, <2>5, <2>6
    <3> QED
      BY <1>1, <2>5
  <2> QED
    BY <1>7, <2>4, <2>7, <2>8, <2>9 DEF Built, B
<1> QED
  BY <1>5, <1>6, <1>7

\* The requests ask what is wanted, none of it twice, and no two have the same id.
AsksWanted(c, Q) ==
    /\ \A p \in 1 .. Len(Q) :
          /\ Len(Q[p].asked) \in 1 .. MaxPack
          /\ \A j \in 1 .. Len(Q[p].asked) :
                \E x : Asks(RowsOf(c), Q[p].memory, x) /\ x.cat \notin c.drop /\ Q[p].asked[j] = x.q
    /\ \A p, r \in 1 .. Len(Q) : \A j \in 1 .. Len(Q[p].asked), i \in 1 .. Len(Q[r].asked) :
          Q[p].memory = Q[r].memory /\ Q[p].asked[j] = Q[r].asked[i] => p = r /\ j = i
    /\ \A p, r \in 1 .. Len(Q) : Q[p].id = Q[r].id => p = r
AsksAllWanted(c, Q) ==
    \A m, x : Asks(RowsOf(c), m, x) /\ x.cat \notin c.drop =>
        \E p \in 1 .. Len(Q) : Q[p].memory = m /\ \E j \in 1 .. Len(Q[p].asked) : Q[p].asked[j] = x.q

\* Without a limit the requests ask all that is wanted, none of it twice.
LEMMA AllRequestsAre ==
    ASSUME MaxPack \in Nat \ {0}, NEW c, c.kind \in Kinds, IsTestSet(RowsOf(c))
    PROVE  LET Q == AllRequests(c)
           IN  Q \in Seq(Requests) /\ AsksWanted(c, Q) /\ AsksAllWanted(c, Q)
<1> DEFINE T == PackRows(c)
           n == Len(T)
           parts == [i \in DOMAIN T |-> BuildRequests(c, T[i])]
           Q == FlattenSeq(parts)
<1>0. AllRequests(c) = Q
  BY Zenon DEF AllRequests
<1>1. /\ IsRows(T) /\ AskSame(RowsOf(c), T) /\ \A k \in 1 .. n : Len(T[k].qa) <= MaxPack
      /\ \A i \in 1 .. n : T[i] \in Rows
      /\ n \in Nat /\ DOMAIN T = 1 .. n
  <2>1. IsRows(T) /\ AskSame(RowsOf(c), T) /\ \A k \in 1 .. n : Len(T[k].qa) <= MaxPack
    BY PackRowsAre, Zenon
  <2> HIDE DEF T
  <2> QED
    BY <2>1 DEF IsRows
<1> HIDE DEF T
<1>2. \A i \in 1 .. n : EachOnce(T[i])
  BY <1>1 DEF EachOnce, IsRows, AsksOnce
<1>3. \A i \in 1 .. n : Built(c, T[i], BuildRequests(c, T[i]))
  BY <1>1, <1>2, RequestsBuilt
<1>4. parts = [i \in 1 .. n |-> BuildRequests(c, T[i])]
  BY <1>1
<1> HIDE DEF parts
<1>5. Len(parts) = n /\ \A i \in 1 .. n : Built(c, T[i], parts[i])
  <2> HIDE DEF n
  <2> QED
    BY <1>1, <1>3, <1>4
<1>6. parts \in Seq(Seq(Requests))
  <2> DEFINE V == Seq(Requests)
  <2>1. \A i \in 1 .. n : BuildRequests(c, T[i]) \in V
    BY <1>3 DEF Built
  <2> HIDE DEF V, n
  <2>2. parts \in [1 .. n -> V]
    BY <1>4, <2>1
  <2>3. parts \in Seq(V)
    BY <1>1, <2>2, SegmentSeq
  <2> QED
    BY <2>3 DEF V
<1>7. /\ Q \in Seq(Requests)
      /\ \A k \in 1 .. Len(Q) : \E i, t : InPart(parts, k, i, t)
      /\ \A i \in 1 .. n : \A t \in 1 .. Len(parts[i]) :
            Pos(parts, i, t) \in 1 .. Len(Q) /\ Q[Pos(parts, i, t)] = parts[i][t]
  <2> DEFINE S == Requests
  <2> HIDE DEF S
  <2>1. parts \in Seq(Seq(S))
    BY <1>6 DEF S
  <2>2. Q \in Seq(S)
    BY <2>1, FlatIs, Zenon
  <2>3. ASSUME NEW k \in 1 .. Len(Q) PROVE \E i, t : InPart(parts, k, i, t)
    BY <2>1, FlatIs, Zenon
  <2>4. \A i \in 1 .. Len(parts) : \A t \in 1 .. Len(parts[i]) :
           /\ Pos(parts, i, t) \in 1 .. Len(FlattenSeq(parts))
           /\ FlattenSeq(parts)[Pos(parts, i, t)] = parts[i][t]
           /\ \A i2 \in 1 .. Len(parts) : \A t2 \in 1 .. Len(parts[i2]) :
                 Pos(parts, i, t) = Pos(parts, i2, t2) => i = i2 /\ t = t2
    BY <2>1, FlatIs, Zenon
  <2>5. \A i \in 1 .. Len(parts) : \A t \in 1 .. Len(parts[i]) :
           Pos(parts, i, t) \in 1 .. Len(Q) /\ Q[Pos(parts, i, t)] = parts[i][t]
    BY <2>4
  <2> QED
    BY <1>5, <2>2, <2>3, <2>5 DEF S
<1> HIDE DEF Q
\* The p-th request is the k-th of the i-th row.
<1> DEFINE From(p, i, k) == /\ i \in 1 .. n /\ k \in 1 .. Len(parts[i])
                            /\ p = Pos(parts, i, k) /\ Q[p] = parts[i][k]
           Facts(p, i, k) ==
               /\ i \in 1 .. n /\ k \in Nat \ {0}
               /\ Q[p].memory = T[i].memory /\ Q[p].id = T[i].id \o IdTail(c, k)
               /\ Len(Q[p].asked) \in 1 .. Len(T[i].qa)
               /\ \A j \in 1 .. Len(Q[p].asked) : \E x : Wanted(c, T[i], x) /\ Q[p].asked[j] = T[i].qa[x].q
               /\ InOnePack(c) => k = 1
<1>8. ASSUME NEW p \in 1 .. Len(Q) PROVE \E i, k : From(p, i, k) /\ Facts(p, i, k)
  <2>1. PICK i, k : InPart(parts, p, i, k)
    BY <1>7
  <2>2. i \in 1 .. n /\ k \in 1 .. Len(parts[i]) /\ p = Pos(parts, i, k)
    BY <1>5, <2>1 DEF InPart
  <2>3. Q[p] = parts[i][k] /\ Built(c, T[i], parts[i])
    BY <1>5, <1>7, <2>2
  <2>4. k \in Nat \ {0}
    BY <2>2
  <2>5. Facts(p, i, k)
    <3>1. \A l \in 1 .. Len(parts[i]) :
             /\ parts[i][l].memory = T[i].memory /\ parts[i][l].id = T[i].id \o IdTail(c, l)
             /\ Len(parts[i][l].asked) \in 1 .. Len(T[i].qa)
             /\ \A j \in 1 .. Len(parts[i][l].asked) :
                   \E x : Wanted(c, T[i], x) /\ parts[i][l].asked[j] = T[i].qa[x].q
      BY <2>3 DEF Built
    <3>2. InOnePack(c) => \A l \in 1 .. Len(parts[i]) : l = 1
      BY <2>3, Zenon DEF Built
    <3>3. InOnePack(c) => k = 1
      BY <2>2, <3>2
    <3>4. /\ Q[p].memory = T[i].memory /\ Q[p].id = T[i].id \o IdTail(c, k)
          /\ Len(Q[p].asked) \in 1 .. Len(T[i].qa)
          /\ \A j \in 1 .. Len(Q[p].asked) :
                \E x : Wanted(c, T[i], x) /\ Q[p].asked[j] = T[i].qa[x].q
      <4> DEFINE Fits(b, l) ==
                     /\ b.memory = T[i].memory /\ b.id = T[i].id \o IdTail(c, l)
                     /\ Len(b.asked) \in 1 .. Len(T[i].qa)
                     /\ \A j \in 1 .. Len(b.asked) : \E x : Wanted(c, T[i], x) /\ b.asked[j] = T[i].qa[x].q
      <4>1. \A l \in 1 .. Len(parts[i]) : Fits(parts[i][l], l)
        BY <3>1, Zenon
      <4> HIDE DEF Fits
      <4>2. Fits(Q[p], k)
        BY <2>2, <2>3, <4>1
      <4> QED
        BY <4>2, Zenon DEF Fits
    <3> QED
      BY <2>2, <2>4, <3>3, <3>4, Zenon
  <2> QED
    BY <2>2, <2>3, <2>5
<1> HIDE DEF From, Facts
<1>9. ASSUME NEW p \in 1 .. Len(Q)
      PROVE  /\ Len(Q[p].asked) \in 1 .. MaxPack
             /\ \A j \in 1 .. Len(Q[p].asked) :
                   \E x : Asks(RowsOf(c), Q[p].memory, x) /\ x.cat \notin c.drop /\ Q[p].asked[j] = x.q
  <2>1. PICK i, k : Facts(p, i, k)
    BY <1>8
  <2>2. Len(Q[p].asked) \in 1 .. MaxPack
    <3> DEFINE a == Len(Q[p].asked)
               b == Len(T[i].qa)
    <3>1. a \in 1 .. b /\ b \in Nat /\ b <= MaxPack
      BY <1>1, <2>1 DEF Facts, Rows
    <3> HIDE DEF a, b
    <3>2. a \in 1 .. MaxPack
      BY <3>1
    <3> QED
      BY <3>2 DEF a
  <2>3. ASSUME NEW j \in 1 .. Len(Q[p].asked)
        PROVE  \E x : Asks(RowsOf(c), Q[p].memory, x) /\ x.cat \notin c.drop /\ Q[p].asked[j] = x.q
    <3>1. PICK x : Wanted(c, T[i], x) /\ Q[p].asked[j] = T[i].qa[x].q
      BY <2>1 DEF Facts
    <3>2. i \in 1 .. n /\ T[i].memory = Q[p].memory
      BY <2>1 DEF Facts
    <3>3. x \in 1 .. Len(T[i].qa) /\ T[i].qa[x].cat \notin c.drop
      BY <3>1 DEF Wanted
    <3>4. Asks(T, Q[p].memory, T[i].qa[x])
      BY <3>2, <3>3 DEF Asks
    <3>5. Asks(RowsOf(c), Q[p].memory, T[i].qa[x])
      BY <1>1, <3>4 DEF AskSame
    <3> QED
      BY <3>1, <3>3, <3>5
  <2> QED
    BY <2>2, <2>3
<1>10. ASSUME NEW p \in 1 .. Len(Q), NEW r \in 1 .. Len(Q),
              NEW j \in 1 .. Len(Q[p].asked), NEW i \in 1 .. Len(Q[r].asked),
              Q[p].memory = Q[r].memory, Q[p].asked[j] = Q[r].asked[i]
       PROVE  p = r /\ j = i
  <2>1. PICK a, k : From(p, a, k) /\ Facts(p, a, k)
    BY <1>8
  <2>2. PICK b, l : From(r, b, l) /\ Facts(r, b, l)
    BY <1>8
  <2>3. PICK x : Wanted(c, T[a], x) /\ Q[p].asked[j] = T[a].qa[x].q
    BY <2>1 DEF Facts
  <2>4. PICK y : Wanted(c, T[b], y) /\ Q[r].asked[i] = T[b].qa[y].q
    BY <2>2 DEF Facts
  <2>5. /\ a \in 1 .. n /\ b \in 1 .. n /\ T[a].memory = T[b].memory
        /\ x \in 1 .. Len(T[a].qa) /\ y \in 1 .. Len(T[b].qa) /\ T[a].qa[x].q = T[b].qa[y].q
    BY <1>10, <2>1, <2>2, <2>3, <2>4 DEF Facts, Wanted
  <2>6. a = b
    BY <1>1, <2>5 DEF IsRows, AsksOnce
  <2>7. /\ k \in 1 .. Len(parts[a]) /\ l \in 1 .. Len(parts[a])
        /\ Q[p] = parts[a][k] /\ Q[r] = parts[a][l] /\ p = Pos(parts, a, k) /\ r = Pos(parts, a, l)
    BY <2>1, <2>2, <2>6 DEF From
  <2>8. Built(c, T[a], parts[a])
    BY <1>5, <2>5
  <2>9. \A k1, l1 \in 1 .. Len(parts[a]) : \A j1 \in 1 .. Len(parts[a][k1].asked), i1 \in 1 .. Len(parts[a][l1].asked) :
           parts[a][k1].asked[j1] = parts[a][l1].asked[i1] => k1 = l1 /\ j1 = i1
    BY <2>8 DEF Built
  <2>10. k = l /\ j = i
    <3>1. /\ j \in 1 .. Len(parts[a][k].asked) /\ i \in 1 .. Len(parts[a][l].asked)
          /\ parts[a][k].asked[j] = parts[a][l].asked[i]
      BY <1>10, <2>7
    <3> QED
      BY <2>7, <2>9, <3>1
  <2> QED
    BY <2>7, <2>10
<1>11. ASSUME NEW p \in 1 .. Len(Q), NEW r \in 1 .. Len(Q), Q[p].id = Q[r].id PROVE p = r
  <2>1. PICK a, k : From(p, a, k) /\ Facts(p, a, k)
    BY <1>8
  <2>2. PICK b, l : From(r, b, l) /\ Facts(r, b, l)
    BY <1>8
  <2> DEFINE s1 == T[a].id
             s2 == T[b].id
             t1 == IdTail(c, k)
             t2 == IdTail(c, l)
             S == Words
  <2>3. k \in Nat \ {0} /\ l \in Nat \ {0} /\ (InOnePack(c) => k = 1 /\ l = 1) /\ a \in 1 .. n /\ b \in 1 .. n
    BY <2>1, <2>2 DEF Facts
  <2>4. s1 \in Seq(S) /\ s2 \in Seq(S)
    BY <1>1, <2>3 DEF Rows
  <2>5. s1 \o t1 = s2 \o t2
    BY <1>11, <2>1, <2>2 DEF Facts
  <2>6. t1 \in Seq(S) /\ t2 \in Seq(S) /\ Len(t1) = Len(t2) /\ (t1 = t2 => k = l)
    <3>1. CASE InOnePack(c)
      <4>1. "pack" \in Words
        BY Zenon DEF Words
      <4>2. << "pack" >> \in Seq(Words) /\ << >> \in Seq(Words)
        BY <4>1
      <4>3. t1 \in {<< "pack" >>, << >>} /\ t1 = t2 /\ k = l
        BY <2>3, <3>1 DEF IdTail
      <4> QED
        BY <4>2, <4>3, Zenon
    <3>2. CASE ~InOnePack(c)
      <4>1. k - 1 \in Int /\ l - 1 \in Int
        BY <2>3
      <4>2. k - 1 \in Words /\ l - 1 \in Words
        BY <4>1, Zenon DEF Words
      <4>3. \A x \in Words : << x >> \in Seq(Words) /\ Len(<< x >>) = 1
        OBVIOUS
      <4>4. t1 = << k - 1 >> /\ t2 = << l - 1 >>
        BY <3>2, Zenon DEF IdTail
      <4>5. t1 \in Seq(S) /\ t2 \in Seq(S) /\ Len(t1) = 1 /\ Len(t2) = 1
        BY <4>2, <4>3, <4>4
      <4>6. ASSUME t1 = t2 PROVE k = l
        <5>1. << k - 1 >>[1] = << l - 1 >>[1]
          BY <4>4, <4>6, Zenon
        <5>2. k - 1 = l - 1
          BY <5>1
        <5> QED
          BY <2>3, <5>2
      <4> QED
        BY <4>5, <4>6
    <3> QED
      BY <3>1, <3>2
  <2> HIDE DEF s1, s2, t1, t2, S
  <2>7. s1 = s2 /\ t1 = t2
    <3>1. Len(t1) = Len(t2) /\ t1 \in Seq(S) /\ t2 \in Seq(S)
      BY <2>6
    <3>2. \A x1, x2, y1, y2 \in Seq(S) : Len(y1) = Len(y2) /\ x1 \o y1 = x2 \o y2 => x1 = x2 /\ y1 = y2
      BY ConcatSame, Zenon
    <3>3. Len(t1) = Len(t2) /\ s1 \o t1 = s2 \o t2 => s1 = s2 /\ t1 = t2
      BY <2>4, <3>1, <3>2, Zenon
    <3> QED
      BY <2>5, <3>1, <3>3, Zenon
  <2>8. k = l
    BY <2>6, <2>7
  <2>9. a = b
    BY <1>1, <2>3, <2>7 DEF IsRows, IdsApart, s1, s2
  <2> QED
    BY <2>1, <2>2, <2>8, <2>9 DEF From
<1>12. AsksAllWanted(c, Q)
  <2> SUFFICES ASSUME NEW m, NEW x, Asks(RowsOf(c), m, x), x.cat \notin c.drop
               PROVE  \E p \in 1 .. Len(Q) : Q[p].memory = m /\ \E j \in 1 .. Len(Q[p].asked) : Q[p].asked[j] = x.q
    BY DEF AsksAllWanted
  <2>1. Asks(T, m, x)
    BY <1>1 DEF AskSame
  <2>2. PICK i \in 1 .. n : T[i].memory = m /\ \E y \in 1 .. Len(T[i].qa) : T[i].qa[y] = x
    BY <2>1 DEF Asks
  <2>3. PICK y \in 1 .. Len(T[i].qa) : T[i].qa[y] = x
    BY <2>2
  <2>4. Wanted(c, T[i], y)
    BY <2>3 DEF Wanted
  <2>5. Built(c, T[i], parts[i])
    BY <1>5
  <2>6. PICK k \in 1 .. Len(parts[i]) : \E j \in 1 .. Len(parts[i][k].asked) : parts[i][k].asked[j] = x.q
    <3>1. \A z : Wanted(c, T[i], z) =>
             \E k \in 1 .. Len(parts[i]) : \E j \in 1 .. Len(parts[i][k].asked) : parts[i][k].asked[j] = T[i].qa[z].q
      BY <2>5 DEF Built
    <3>2. \E k \in 1 .. Len(parts[i]) : \E j \in 1 .. Len(parts[i][k].asked) : parts[i][k].asked[j] = T[i].qa[y].q
      BY <2>4, <3>1
    <3> QED
      BY <2>3, <3>2
  <2>7. Pos(parts, i, k) \in 1 .. Len(Q) /\ Q[Pos(parts, i, k)] = parts[i][k]
    BY <1>7
  <2>8. parts[i][k].memory = m
    BY <2>2, <2>5 DEF Built
  <2> QED
    BY <2>6, <2>7, <2>8
<1>13. AsksWanted(c, Q)
  <2>1. \A p \in 1 .. Len(Q) :
           /\ Len(Q[p].asked) \in 1 .. MaxPack
           /\ \A j \in 1 .. Len(Q[p].asked) :
                 \E x : Asks(RowsOf(c), Q[p].memory, x) /\ x.cat \notin c.drop /\ Q[p].asked[j] = x.q
    BY <1>9, Zenon
  <2>2. \A p, r \in 1 .. Len(Q) : \A j \in 1 .. Len(Q[p].asked), i \in 1 .. Len(Q[r].asked) :
           Q[p].memory = Q[r].memory /\ Q[p].asked[j] = Q[r].asked[i] => p = r /\ j = i
    BY <1>10, Zenon
  <2>3. \A p, r \in 1 .. Len(Q) : Q[p].id = Q[r].id => p = r
    BY <1>11, Zenon
  <2> QED
    BY <2>1, <2>2, <2>3, Zenon DEF AsksWanted
<1> QED
  BY <1>0, <1>7, <1>12, <1>13

\* A limit takes the first of them.
LEMMA MaterializedAre ==
    ASSUME MaxPack \in Nat \ {0}, NEW c, c.kind \in Kinds, c.limit \in Nat, IsTestSet(RowsOf(c))
    PROVE  LET Q == MaterializeRequests(c)
           IN  Q \in Seq(Requests) /\ AsksWanted(c, Q) /\ (c.limit = 0 => AsksAllWanted(c, Q))
<1> DEFINE Q == AllRequests(c)
           t == Min({c.limit, Len(Q)})
           P == SubSeq(Q, 1, t)
<1>1. Q \in Seq(Requests) /\ AsksWanted(c, Q) /\ AsksAllWanted(c, Q)
  BY AllRequestsAre, Zenon
<1>2. CASE c.limit = 0
  BY <1>1, <1>2 DEF MaterializeRequests
<1>3. CASE c.limit # 0
  <2>1. MaterializeRequests(c) = P
    BY <1>3 DEF MaterializeRequests
  <2> HIDE DEF Q
  <2>2. t \in 0 .. Len(Q) /\ Len(Q) \in Nat
    <3>1. {c.limit, Len(Q)} \subseteq Nat /\ {c.limit, Len(Q)} # {}
      BY <1>1
    <3>2. t \in {c.limit, Len(Q)} /\ \A x \in {c.limit, Len(Q)} : t <= x
      BY <3>1, MinOf, Zenon
    <3> QED
      BY <1>1, <3>2
  <2> HIDE DEF t
  <2>3. P \in Seq(Requests) /\ Len(P) = t /\ \A p \in 1 .. t : P[p] = Q[p] /\ p \in 1 .. Len(Q)
    <3>1. t \in Int /\ \A i \in 1 .. t : i \in 1 .. Len(Q)
      BY <2>2
    <3>2. \A i \in 1 .. t : Q[i] \in Requests
      BY <1>1, <3>1
    <3>3. /\ P \in Seq(Requests) /\ Len(P) = IF 1 <= t THEN t - 1 + 1 ELSE 0
          /\ \A i \in 1 .. t - 1 + 1 : P[i] = Q[1 + i - 1]
      BY <3>1, <3>2, SubSeqProperties
    <3>4. t - 1 + 1 = t /\ (IF 1 <= t THEN t - 1 + 1 ELSE 0) = t /\ \A i \in Int : 1 + i - 1 = i
      BY <2>2
    <3> HIDE DEF P
    <3>5. \A i \in 1 .. t : P[i] = Q[i]
      <4>1. \A i \in 1 .. t : P[i] = Q[1 + i - 1]
        BY <3>3, <3>4
      <4>2. \A i \in 1 .. t : i \in Int
        OBVIOUS
      <4> QED
        BY <3>4, <4>1, <4>2, Zenon
    <3>6. Len(P) = t
      BY <3>3, <3>4, Zenon
    <3> QED
      BY <3>1, <3>3, <3>5, <3>6
  <2> HIDE DEF P
  <2>4. AsksWanted(c, P)
    <3>1. /\ \A p \in 1 .. Len(Q) :
                /\ Len(Q[p].asked) \in 1 .. MaxPack
                /\ \A j \in 1 .. Len(Q[p].asked) :
                      \E x : Asks(RowsOf(c), Q[p].memory, x) /\ x.cat \notin c.drop /\ Q[p].asked[j] = x.q
          /\ \A p, r \in 1 .. Len(Q) : \A j \in 1 .. Len(Q[p].asked), i \in 1 .. Len(Q[r].asked) :
                Q[p].memory = Q[r].memory /\ Q[p].asked[j] = Q[r].asked[i] => p = r /\ j = i
          /\ \A p, r \in 1 .. Len(Q) : Q[p].id = Q[r].id => p = r
      BY <1>1 DEF AsksWanted
    <3>2. \A p \in 1 .. Len(P) : P[p] = Q[p] /\ p \in 1 .. Len(Q)
      BY <2>3
    <3>3. \A p \in 1 .. Len(P) :
                /\ Len(P[p].asked) \in 1 .. MaxPack
                /\ \A j \in 1 .. Len(P[p].asked) :
                      \E x : Asks(RowsOf(c), P[p].memory, x) /\ x.cat \notin c.drop /\ P[p].asked[j] = x.q
      <4> TAKE p \in 1 .. Len(P)
      <4>1. P[p] = Q[p] /\ p \in 1 .. Len(Q)
        BY <3>2
      <4>2. /\ Len(Q[p].asked) \in 1 .. MaxPack
            /\ \A j \in 1 .. Len(Q[p].asked) :
                  \E x : Asks(RowsOf(c), Q[p].memory, x) /\ x.cat \notin c.drop /\ Q[p].asked[j] = x.q
        BY <3>1, <4>1, Zenon
      <4> QED
        BY <4>1, <4>2, Zenon
    <3>4. \A p, r \in 1 .. Len(P) : \A j \in 1 .. Len(P[p].asked), i \in 1 .. Len(P[r].asked) :
                P[p].memory = P[r].memory /\ P[p].asked[j] = P[r].asked[i] => p = r /\ j = i
      <4> TAKE p, r \in 1 .. Len(P)
      <4>1. P[p] = Q[p] /\ p \in 1 .. Len(Q) /\ P[r] = Q[r] /\ r \in 1 .. Len(Q)
        BY <3>2
      <4> QED
        BY <3>1, <4>1
    <3>5. \A p, r \in 1 .. Len(P) : P[p].id = P[r].id => p = r
      BY <3>1, <3>2
    <3> QED
      BY <3>3, <3>4, <3>5 DEF AsksWanted
  <2> QED
    BY <1>3, <2>1, <2>3, <2>4
<1> QED
  BY <1>2, <1>3

\* A run asks the requests of its test set.
Materialized == cfg \in Configs /\ requests = MaterializeRequests(cfg)

\* The requests of a run stay those of its test set.
LEMMA MaterializedInv == ScoringSpec => []Materialized
<1>1. ScoringInit => Materialized
  BY DEF ScoringInit, Materialized
<1>2. Materialized /\ [ScoringNext]_scoringVars => Materialized'
  <2> SUFFICES ASSUME Materialized, [ScoringNext]_scoringVars PROVE cfg' = cfg /\ requests' = requests
    BY DEF Materialized
  <2>1. ASSUME NEW out, NEW verdicts, Score(out, verdicts) PROVE cfg' = cfg /\ requests' = requests
    BY <2>1 DEF Score
  <2> QED
    BY <2>1 DEF ScoringNext, GenerationFails, Report, scoringVars
<1> QED
  BY <1>1, <1>2, PTL DEF ScoringSpec

\* A set whose elements are all equal has at most one.
LEMMA AtMostOne ==
    ASSUME NEW S, \A x, y \in S : x = y
    PROVE  Cardinality(S) <= 1 /\ (S # {} => Cardinality(S) = 1)
<1>1. CASE S = {}
  BY <1>1, FS_EmptySet
<1>2. CASE S # {}
  <2>1. PICK x : S = {x}
    BY <1>2
  <2>2. Cardinality(S) = 1
    BY <2>1, FS_Singleton
  <2> QED
    BY <2>2
<1> QED
  BY <1>1, <1>2

\* Requests that are those of a test set ask each question once.
LEMMA MaterializedAskOnce == Materialized => AskedOnce
<1> SUFFICES ASSUME Materialized PROVE AskedOnce
  OBVIOUS
<1> DEFINE rows == RowsOf(cfg)
           wanted == UNION {{<<rows[i].memory, rows[i].qa[j].q>> :
                             j \in {k \in DOMAIN rows[i].qa : rows[i].qa[k].cat \notin cfg.drop}} :
                         i \in DOMAIN rows}
           asks(w) == {p \in (DOMAIN requests) \X (1 .. MaxPack) :
                       /\ p[2] \in DOMAIN requests[p[1]].asked
                       /\ w = <<requests[p[1]].memory, requests[p[1]].asked[p[2]]>>}
<1>1. /\ MaxPack \in Nat \ {0} /\ cfg.kind \in Kinds /\ cfg.limit \in Nat /\ IsTestSet(RowsOf(cfg))
  BY ScoringAssumption DEF Materialized
<1>2. requests \in Seq(Requests) /\ AsksWanted(cfg, requests) /\ (cfg.limit = 0 => AsksAllWanted(cfg, requests))
  <2>1. requests = MaterializeRequests(cfg)
    BY DEF Materialized
  <2> QED
    BY <1>1, <2>1, MaterializedAre
<1>3. /\ DOMAIN requests = 1 .. Len(requests)
      /\ \A p \in 1 .. Len(requests) : DOMAIN requests[p].asked = 1 .. Len(requests[p].asked)
  BY <1>2 DEF Requests
<1>4. /\ DOMAIN rows = 1 .. Len(rows)
      /\ \A i \in 1 .. Len(rows) : DOMAIN rows[i].qa = 1 .. Len(rows[i].qa)
  <2>1. IsRows(rows)
    BY <1>1, TestSetRows
  <2> HIDE DEF rows
  <2> QED
    BY <2>1 DEF IsRows, Rows
<1>5. \A m, q : <<m, q>> \in wanted <=> \E x : Asks(rows, m, x) /\ x.cat \notin cfg.drop /\ q = x.q
  <2> SUFFICES ASSUME NEW m, NEW q
               PROVE  <<m, q>> \in wanted <=> \E x : Asks(rows, m, x) /\ x.cat \notin cfg.drop /\ q = x.q
    OBVIOUS
  <2>0. <<m, q>> \in wanted <=>
           \E i \in 1 .. Len(rows) : \E j \in 1 .. Len(rows[i].qa) :
              rows[i].qa[j].cat \notin cfg.drop /\ m = rows[i].memory /\ q = rows[i].qa[j].q
    <3> DEFINE W(i) == {<<rows[i].memory, rows[i].qa[j].q>> :
                          j \in {k \in DOMAIN rows[i].qa : rows[i].qa[k].cat \notin cfg.drop}}
    <3>1. wanted = UNION {W(i) : i \in DOMAIN rows}
      OBVIOUS
    <3>2. \A i : <<m, q>> \in W(i) <=>
             \E j \in DOMAIN rows[i].qa :
                rows[i].qa[j].cat \notin cfg.drop /\ m = rows[i].memory /\ q = rows[i].qa[j].q
      OBVIOUS
    <3> HIDE DEF wanted, W, rows
    <3>3. <<m, q>> \in wanted <=> \E i \in DOMAIN rows : <<m, q>> \in W(i)
      BY <3>1
    <3> QED
      BY <1>4, <3>2, <3>3
  <2> HIDE DEF wanted, rows
  <2>1. ASSUME <<m, q>> \in wanted PROVE \E x : Asks(rows, m, x) /\ x.cat \notin cfg.drop /\ q = x.q
    <3>1. PICK i \in 1 .. Len(rows) : \E j \in 1 .. Len(rows[i].qa) :
              rows[i].qa[j].cat \notin cfg.drop /\ m = rows[i].memory /\ q = rows[i].qa[j].q
      BY <2>0, <2>1
    <3>2. PICK j \in 1 .. Len(rows[i].qa) :
              rows[i].qa[j].cat \notin cfg.drop /\ m = rows[i].memory /\ q = rows[i].qa[j].q
      BY <3>1
    <3>3. Asks(rows, m, rows[i].qa[j])
      BY <3>2 DEF Asks
    <3> QED
      BY <3>2, <3>3
  <2>2. ASSUME NEW x, Asks(rows, m, x), x.cat \notin cfg.drop, q = x.q PROVE <<m, q>> \in wanted
    <3>1. PICK i \in 1 .. Len(rows) : rows[i].memory = m /\ \E j \in 1 .. Len(rows[i].qa) : rows[i].qa[j] = x
      BY <2>2 DEF Asks
    <3>2. PICK j \in 1 .. Len(rows[i].qa) : rows[i].qa[j] = x
      BY <3>1
    <3> QED
      BY <2>0, <2>2, <3>1, <3>2
  <2> QED
    BY <2>1, <2>2
<1>6. \A w \in wanted : \E m, q : w = <<m, q>>
  OBVIOUS
<1> HIDE DEF wanted
<1>7. ASSUME NEW i \in DOMAIN requests
      PROVE  /\ Len(requests[i].asked) \in 1 .. MaxPack
             /\ \A j \in DOMAIN requests[i].asked : <<requests[i].memory, requests[i].asked[j]>> \in wanted
  <2>1. /\ Len(requests[i].asked) \in 1 .. MaxPack
        /\ \A j \in 1 .. Len(requests[i].asked) :
              \E x : Asks(rows, requests[i].memory, x) /\ x.cat \notin cfg.drop /\ requests[i].asked[j] = x.q
    BY <1>2, <1>3 DEF AsksWanted
  <2>2. DOMAIN requests[i].asked = 1 .. Len(requests[i].asked)
    BY <1>3
  <2> QED
    BY <1>5, <2>1, <2>2
<1>8. \A i, j \in DOMAIN requests : requests[i].id = requests[j].id => i = j
  BY <1>2, <1>3 DEF AsksWanted
<1>9. ASSUME NEW w \in wanted
      PROVE  IF cfg.limit = 0 THEN Cardinality(asks(w)) = 1 ELSE Cardinality(asks(w)) <= 1
  <2>1. \A p, r \in asks(w) : p = r
    <3> SUFFICES ASSUME NEW p \in asks(w), NEW r \in asks(w) PROVE p = r
      OBVIOUS
    <3>1. /\ p = <<p[1], p[2]>> /\ r = <<r[1], r[2]>>
          /\ p[1] \in DOMAIN requests /\ r[1] \in DOMAIN requests
          /\ p[2] \in DOMAIN requests[p[1]].asked /\ r[2] \in DOMAIN requests[r[1]].asked
          /\ <<requests[p[1]].memory, requests[p[1]].asked[p[2]]>> = <<requests[r[1]].memory, requests[r[1]].asked[r[2]]>>
      OBVIOUS
    <3>2. /\ p[1] \in 1 .. Len(requests) /\ r[1] \in 1 .. Len(requests)
          /\ p[2] \in 1 .. Len(requests[p[1]].asked) /\ r[2] \in 1 .. Len(requests[r[1]].asked)
          /\ requests[p[1]].memory = requests[r[1]].memory
          /\ requests[p[1]].asked[p[2]] = requests[r[1]].asked[r[2]]
      BY <1>3, <3>1
    <3>3. p[1] = r[1] /\ p[2] = r[2]
      <4>1. \A x, y \in 1 .. Len(requests) :
               \A j \in 1 .. Len(requests[x].asked), i \in 1 .. Len(requests[y].asked) :
                  requests[x].memory = requests[y].memory /\ requests[x].asked[j] = requests[y].asked[i] => x = y /\ j = i
        BY <1>2 DEF AsksWanted
      <4> DEFINE a == p[1]
                 b == p[2]
                 d == r[1]
                 e == r[2]
      <4>2. /\ a \in 1 .. Len(requests) /\ d \in 1 .. Len(requests)
            /\ b \in 1 .. Len(requests[a].asked) /\ e \in 1 .. Len(requests[d].asked)
            /\ requests[a].memory = requests[d].memory
            /\ requests[a].asked[b] = requests[d].asked[e]
        BY <3>2
      <4> HIDE DEF a, b, d, e
      <4>3. a = d /\ b = e
        BY <4>1, <4>2
      <4> QED
        BY <4>3 DEF a, b, d, e
    <3> QED
      BY <3>1, <3>3
  <2>2. ASSUME cfg.limit = 0 PROVE asks(w) # {}
    <3>1. PICK m, q : w = <<m, q>>
      BY <1>6
    <3>2. PICK x : Asks(rows, m, x) /\ x.cat \notin cfg.drop /\ q = x.q
      BY <1>5, <3>1
    <3>3. PICK p \in 1 .. Len(requests) :
             requests[p].memory = m /\ \E j \in 1 .. Len(requests[p].asked) : requests[p].asked[j] = x.q
      BY <1>2, <2>2, <3>2 DEF AsksAllWanted
    <3>4. PICK j \in 1 .. Len(requests[p].asked) : requests[p].asked[j] = x.q
      BY <3>3
    <3>5. p \in DOMAIN requests /\ j \in DOMAIN requests[p].asked /\ j \in 1 .. MaxPack
      <4>1. p \in DOMAIN requests /\ j \in DOMAIN requests[p].asked /\ Len(requests[p].asked) \in 1 .. MaxPack
        BY <1>3, <1>7
      <4> DEFINE a == Len(requests[p].asked)
      <4>2. a \in 1 .. MaxPack /\ j \in 1 .. a
        BY <4>1
      <4> HIDE DEF a
      <4>3. j \in 1 .. MaxPack
        BY <1>1, <4>2
      <4> QED
        BY <4>1, <4>3
    <3>6. <<p, j>> \in asks(w)
      BY <3>1, <3>2, <3>3, <3>4, <3>5
    <3> QED
      BY <3>6
  <2> HIDE DEF asks
  <2> QED
    BY <2>1, <2>2, AtMostOne
<1> QED
  BY <1>7, <1>8, <1>9 DEF AskedOnce, wanted, asks

\* Every wanted question is asked once, about its own memory, in packs that fit, under
\* an id no other request has: for every test set, prompt, exclusion and limit
\* (eval/materialize.py).
THEOREM QuestionsAskedOnce == ScoringSpec => []AskedOnce
<1>1. Materialized => AskedOnce
  BY MaterializedAskOnce
<1> QED
  BY <1>1, MaterializedInv, PTL

-----------------------------------------------------------------------------
\* The marks of a test set (eval/metrics.py).

\* To keep every element of a list is to keep the list.
LEMMA KeptAll ==
    ASSUME NEW S, NEW s \in Seq(S), NEW places, \A i \in 1 .. Len(s) : i \in places
    PROVE  Kept(s, places) = s
<1> DEFINE n == Len(s)
           parts == [i \in 1 .. n |-> << s[i] >>]
           docs == [i \in 1 .. n |-> [len |-> 1]]
           flat == FlattenSeq(parts)
<1>1. n \in Nat /\ DOMAIN s = 1 .. n /\ \A i \in 1 .. n : s[i] \in S
  OBVIOUS
<1>2. Kept(s, places) = flat
  <2>1. [k \in DOMAIN s |-> IF k \in places THEN << s[k] >> ELSE << >>] = parts
    BY <1>1
  <2> QED
    BY <2>1, Zenon DEF Kept
<1>3. \A i \in 1 .. n : << s[i] >> \in Seq(S) /\ Len(<< s[i] >>) = 1 /\ << s[i] >>[1] = s[i]
  BY <1>1
<1>4. parts \in Seq(Seq(S)) /\ Len(parts) = n
  <2> DEFINE V == Seq(S)
  <2>1. parts \in [1 .. n -> V]
    BY <1>3
  <2> HIDE DEF V, parts, n
  <2>2. parts \in Seq(V) /\ Len(parts) = n
    BY <1>1, <2>1, SegmentSeq
  <2> QED
    BY <2>2 DEF V
<1>5. /\ \A i \in 1 .. n : docs[i].len = 1 /\ docs[i].len \in Nat
      /\ Len(docs) = n
  BY <1>1
<1>6. \A i \in 1 .. n : Len(parts[i]) = 1 /\ parts[i][1] = s[i]
  BY <1>3
<1> HIDE DEF parts, docs
<1>7. Lays(docs, parts)
  BY <1>4, <1>5, <1>6 DEF Lays
<1>8. IsFlat(flat, parts, docs, S)
  BY <1>4, <1>7, FlattenPlaces
<1>9. /\ \A i \in 1 .. n + 1 : Offset(docs, i) \in Nat
      /\ Offset(docs, 1) = 0
      /\ \A i \in 1 .. n : Offset(docs, i + 1) = Offset(docs, i) + 1
  <2>1. /\ \A i \in 1 .. Len(docs) + 1 : Offset(docs, i) \in Nat
        /\ Offset(docs, 1) = 0
        /\ \A i \in 1 .. Len(docs) : Offset(docs, i + 1) = Offset(docs, i) + docs[i].len
    BY <1>1, <1>5, OffsetIs
  <2> QED
    BY <1>5, <2>1
<1>10. \A i \in 0 .. n : Offset(docs, i + 1) = i
  <2> DEFINE T == {i \in 0 .. n : Offset(docs, i + 1) = i}
  <2>1. 0 \in T
    BY <1>1, <1>9
  <2>2. \A k \in 0 .. n - 1 : k \in T => k + 1 \in T
    <3> SUFFICES ASSUME NEW k \in 0 .. n - 1, Offset(docs, k + 1) = k PROVE k + 1 \in T
      OBVIOUS
    <3>1. k + 1 \in 1 .. n
      BY <1>1
    <3> DEFINE m == k + 1
    <3>2. Offset(docs, m + 1) = Offset(docs, m) + 1
      <4> HIDE DEF m
      <4> QED
        BY <1>9, <3>1 DEF m
    <3> QED
      BY <1>1, <3>1, <3>2
  <2> HIDE DEF T, n
  <2>3. \A k \in 0 .. n : k \in T
    BY <1>1, <2>1, <2>2, UpTo
  <2> QED
    BY <2>3 DEF T
<1>11. flat \in Seq(S) /\ Len(flat) = n
  <2>1. Used(docs) = n
    <3>1. Used(docs) = Offset(docs, n + 1) /\ n \in 0 .. n
      BY <1>1, <1>5 DEF Used
    <3> QED
      BY <1>10, <3>1
  <2> QED
    BY <1>8, <2>1 DEF IsFlat
<1>12. \A i \in 1 .. n : flat[i] = s[i]
  <2> SUFFICES ASSUME NEW i \in 1 .. n PROVE flat[i] = s[i]
    OBVIOUS
  <2>1. flat[Offset(docs, i) + 1] = parts[i][1]
    <3>1. i \in 1 .. Len(parts) /\ 1 \in 1 .. Len(parts[i])
      BY <1>4, <1>6
    <3> QED
      BY <1>8, <3>1 DEF IsFlat
  <2>2. Offset(docs, i) + 1 = i
    <3> DEFINE k == i - 1
    <3>1. k \in 0 .. n /\ k + 1 = i
      BY <1>1
    <3> HIDE DEF k
    <3>2. Offset(docs, i) = k
      BY <1>10, <3>1
    <3> QED
      BY <3>1, <3>2
  <2> QED
    BY <1>6, <2>1, <2>2
<1> HIDE DEF flat
<1>13. flat = s
  BY <1>1, <1>11, <1>12, SeqEqual
<1> QED
  BY <1>2, <1>13

\* Of two lists of numbers the one that is nowhere more has no greater sum, and the
\* same sum only where they are the same.
LEMMA TotalLess ==
    ASSUME NEW n \in Nat, NEW s \in [1 .. n -> Nat], NEW t \in [1 .. n -> Nat],
           \A i \in 1 .. n : s[i] <= t[i]
    PROVE  Total(s) <= Total(t) /\ (Total(s) = Total(t) => \A i \in 1 .. n : s[i] = t[i])
<1> DEFINE Less(k, a, b) ==
               /\ Total(a) <= Total(b)
               /\ Total(a) = Total(b) => \A i \in 1 .. k : a[i] = b[i]
           All(k) == \A a, b \in [1 .. k -> Nat] : (\A i \in 1 .. k : a[i] <= b[i]) => Less(k, a, b)
           T == {k \in Nat : All(k)}
<1>1. 0 \in T
  <2> SUFFICES ASSUME NEW a \in [1 .. 0 -> Nat], NEW b \in [1 .. 0 -> Nat] PROVE Less(0, a, b)
    OBVIOUS
  <2>1. Total(a) = 0 /\ Total(b) = 0
    BY TotalEmpty
  <2> QED
    BY <2>1
<1>2. ASSUME NEW k \in Nat, k \in T PROVE k + 1 \in T
  <2> SUFFICES ASSUME NEW a \in [1 .. k + 1 -> Nat], NEW b \in [1 .. k + 1 -> Nat],
                      \A i \in 1 .. k + 1 : a[i] <= b[i]
               PROVE  Less(k + 1, a, b)
    <3>1. All(k + 1)
      BY Zenon
    <3> HIDE DEF All
    <3> QED
      BY <3>1
  <2> DEFINE a1 == [i \in 1 .. k |-> a[i]]
             b1 == [i \in 1 .. k |-> b[i]]
  <2>1. a1 \in [1 .. k -> Nat] /\ b1 \in [1 .. k -> Nat] /\ \A i \in 1 .. k : a1[i] = a[i] /\ b1[i] = b[i] /\ a1[i] <= b1[i]
    <3>1. a1 \in [1 .. k -> Nat] /\ b1 \in [1 .. k -> Nat]
      BY TotalLast
    <3>2. \A i \in 1 .. k : i \in 1 .. k + 1 /\ a1[i] = a[i] /\ b1[i] = b[i]
      OBVIOUS
    <3> HIDE DEF a1, b1
    <3>3. \A i \in 1 .. k : a1[i] <= b1[i]
      BY <3>2
    <3> QED
      BY <3>1, <3>2, <3>3
  <2>2. Total(a) = Total(a1) + a[k + 1] /\ Total(b) = Total(b1) + b[k + 1]
    BY TotalLast
  <2> HIDE DEF a1, b1
  <2>3. Less(k, a1, b1)
    BY <1>2, <2>1
  <2>4. Total(a1) \in Nat /\ Total(b1) \in Nat /\ a[k + 1] \in Nat /\ b[k + 1] \in Nat /\ a[k + 1] <= b[k + 1]
    <3>1. Total(a1) \in Nat /\ Total(b1) \in Nat
      BY <2>1, TotalSegmentNat
    <3>2. k + 1 \in 1 .. k + 1
      OBVIOUS
    <3>3. a[k + 1] \in Nat /\ b[k + 1] \in Nat /\ a[k + 1] <= b[k + 1]
      BY <3>2
    <3> QED
      BY <3>1, <3>3
  <2>5. Total(a) <= Total(b)
    BY <2>2, <2>3, <2>4
  <2>6. ASSUME Total(a) = Total(b), NEW i \in 1 .. k + 1 PROVE a[i] = b[i]
    <3>1. Total(a1) = Total(b1) /\ a[k + 1] = b[k + 1]
      BY <2>2, <2>3, <2>4, <2>6
    <3>2. CASE i = k + 1
      BY <3>1, <3>2
    <3>3. CASE i \in 1 .. k
      BY <2>1, <2>3, <3>1, <3>3
    <3> QED
      BY <3>2, <3>3
  <2> QED
    BY <2>5, <2>6
<1> HIDE DEF T, All, Less
<1>3. \A k \in 0 .. n : k \in T
  <2>1. \A k \in 0 .. n - 1 : k \in T => k + 1 \in T
    BY <1>2
  <2> QED
    BY <1>1, <2>1, UpTo
<1>4. n \in T
  BY <1>3
<1> QED
  BY <1>4, Zenon DEF T, All, Less

\* As many are true as there are, exactly when all are.
LEMMA TruesAre ==
    ASSUME NEW n \in Nat, NEW flags, DOMAIN flags = 1 .. n
    PROVE  LET trues == Cardinality({i \in DOMAIN flags : flags[i]})
           IN  trues \in Nat /\ trues <= n /\ (trues = n <=> AllTrue(flags))
<1> DEFINE S == 1 .. n
           T == {i \in DOMAIN flags : flags[i]}
<1>1. IsFiniteSet(S) /\ Cardinality(S) = n
  BY FS_Interval
<1>2. T \in SUBSET S
  OBVIOUS
<1>3. T = S <=> AllTrue(flags)
  BY DEF AllTrue
<1> HIDE DEF S, T
<1>4. IsFiniteSet(T) /\ Cardinality(T) <= Cardinality(S) /\ (Cardinality(S) = Cardinality(T) => S = T)
  BY <1>1, <1>2, FS_Subset
<1>5. Cardinality(T) \in Nat
  BY <1>4, FS_CardinalityType
<1> QED
  BY <1>1, <1>3, <1>4, <1>5 DEF T

\* All groups are right exactly when every question is answered right and in form.
LEMMA AggregateIs ==
    ASSUME NEW n \in Nat, NEW recs, DOMAIN recs = 1 .. n,
           \A i \in 1 .. n : Len(recs[i].correct) \in Nat /\ DOMAIN recs[i].correct = 1 .. Len(recs[i].correct)
    PROVE  LET a == Aggregate(recs)
           IN  /\ a.items = Total([i \in 1 .. n |-> Len(recs[i].correct)])
               /\ a.groupsRight = a.groups <=> a.correct = a.items /\ \A i \in 1 .. n : recs[i].format
<1> DEFINE groups == {r.group : r \in ToSet(recs)}
           right(g) == \A i \in DOMAIN recs : recs[i].group = g => recs[i].format /\ AllTrue(recs[i].correct)
           rights == {g \in groups : right(g)}
           trues(flags) == Cardinality({i \in DOMAIN flags : flags[i]})
           lens == [i \in 1 .. n |-> Len(recs[i].correct)]
           goods == [i \in 1 .. n |-> trues(recs[i].correct)]
<1>1. Aggregate(recs) = [items |-> Total(lens), correct |-> Total(goods),
                         groups |-> Cardinality(groups), groupsRight |-> Cardinality(rights)]
  BY DEF Aggregate
<1>2. \A i \in 1 .. n : trues(recs[i].correct) \in Nat /\ trues(recs[i].correct) <= Len(recs[i].correct)
                       /\ (trues(recs[i].correct) = Len(recs[i].correct) <=> AllTrue(recs[i].correct))
  BY TruesAre
<1> HIDE DEF trues
<1>3. /\ lens \in [1 .. n -> Nat] /\ goods \in [1 .. n -> Nat]
      /\ \A i \in 1 .. n : goods[i] <= lens[i] /\ (goods[i] = lens[i] <=> AllTrue(recs[i].correct))
  BY <1>2
<1> HIDE DEF lens, goods
<1>4. Total(goods) = Total(lens) <=> \A i \in 1 .. n : AllTrue(recs[i].correct)
  <2>1. Total(goods) = Total(lens) => \A i \in 1 .. n : goods[i] = lens[i]
    BY <1>3, TotalLess
  <2>2. (\A i \in 1 .. n : goods[i] = lens[i]) => goods = lens
    BY <1>3
  <2> QED
    BY <1>3, <2>1, <2>2
<1>5. IsFiniteSet(groups)
  <2> DEFINE S == 1 .. n
             f == [i \in S |-> recs[i].group]
  <2>1. IsFiniteSet(S)
    BY FS_Interval
  <2>2. groups = {recs[i].group : i \in S}
    BY DEF ToSet
  <2>3. f \in Surjection(S, groups)
    BY <2>2 DEF Surjection
  <2> HIDE DEF S, f, groups
  <2> QED
    BY <2>1, <2>3, FS_Surjection
<1>6. Cardinality(rights) = Cardinality(groups) <=> rights = groups
  <2>1. rights \in SUBSET groups
    OBVIOUS
  <2> HIDE DEF rights, groups
  <2> QED
    BY <1>5, <2>1, FS_Subset
<1>7. rights = groups <=> \A i \in 1 .. n : recs[i].format /\ AllTrue(recs[i].correct)
  <2>1. groups = {recs[i].group : i \in 1 .. n}
    BY DEF ToSet
  <2>2. rights = groups <=> \A i \in 1 .. n : right(recs[i].group)
    BY <2>1
  <2>3. (\A i \in 1 .. n : right(recs[i].group)) <=> \A i \in 1 .. n : recs[i].format /\ AllTrue(recs[i].correct)
    OBVIOUS
  <2> HIDE DEF rights, groups, right
  <2> QED
    BY <2>2, <2>3
<1> HIDE DEF rights, groups
<1> QED
  BY <1>1, <1>4, <1>6, <1>7 DEF lens

IsList(s) == \E S : s \in Seq(S)

\* What Append does to a list of anything.
LEMMA AppendIs ==
    ASSUME NEW s, IsList(s), NEW x
    PROVE  /\ IsList(Append(s, x)) /\ Len(s) \in Nat
           /\ Len(Append(s, x)) = Len(s) + 1 /\ Append(s, x)[Len(s) + 1] = x
           /\ \A i \in 1 .. Len(s) : Append(s, x)[i] = s[i]
<1>1. PICK S : s \in Seq(S)
  BY DEF IsList
<1> DEFINE T == S \cup {x}
<1>2. s \in Seq(T) /\ x \in T
  <2>1. S \subseteq T
    OBVIOUS
  <2> HIDE DEF T
  <2>2. s \in Seq(T)
    BY <1>1, <2>1, SeqMonotonic
  <2> QED
    BY <2>2 DEF T
<1> HIDE DEF T
<1>3. /\ Append(s, x) \in Seq(T) /\ Len(Append(s, x)) = Len(s) + 1
      /\ \A i \in 1 .. Len(s) : Append(s, x)[i] = s[i]
      /\ Append(s, x)[Len(s) + 1] = x
  BY <1>2, AppendProperties
<1>4. Len(s) \in Nat
  BY <1>2
<1> QED
  BY <1>3, <1>4, Zenon DEF IsList

\* The record and the reward of the i-th request are those of one of its outputs.
EarnedBy(i, out, verdicts) ==
    /\ records[i] = ScoreOne(cfg, requests[i], out, verdicts)
    /\ rewards[i] = ComputeScore(cfg, requests[i], out, verdicts)
Earned(i) ==
    \/ records[i] = Failed
    \/ \E out \in Outputs(requests[i]) : \E verdicts \in Verdicts(cfg.judge) : EarnedBy(i, out, verdicts)

\* What is reported is the aggregate of all records that are not failures.
Reported ==
    report # None =>
        /\ Len(records) = Len(requests)
        /\ report = Aggregate(Kept(records, {i \in DOMAIN records : records[i] # Failed}))

Scored ==
    /\ Materialized
    /\ IsList(records) /\ IsList(rewards)
    /\ Len(rewards) = Len(records) /\ Len(records) <= Len(requests)
    /\ \A i \in 1 .. Len(records) : Earned(i)
    /\ Reported

\* Every record and reward is that of an output of its request, at every step.
LEMMA ScoredInv == ScoringSpec => []Scored
<1>0. Materialized => Len(requests) \in Nat
  <2> SUFFICES ASSUME Materialized PROVE Len(requests) \in Nat
    OBVIOUS
  <2>1. /\ MaxPack \in Nat \ {0} /\ cfg.kind \in Kinds /\ cfg.limit \in Nat /\ IsTestSet(RowsOf(cfg))
    BY ScoringAssumption DEF Materialized
  <2>2. MaterializeRequests(cfg) \in Seq(Requests)
    BY <2>1, MaterializedAre
  <2> QED
    BY <2>2 DEF Materialized
<1>1. ScoringInit => Scored
  <2> SUFFICES ASSUME ScoringInit PROVE Scored
    OBVIOUS
  <2>1. Materialized /\ records = << >> /\ rewards = << >> /\ report = None
    BY DEF ScoringInit, Materialized
  <2>2. IsList(<< >>) /\ Len(<< >>) = 0
    <3>1. << >> \in Seq({})
      OBVIOUS
    <3> QED
      BY <3>1 DEF IsList
  <2>3. 0 <= Len(requests) /\ 1 .. 0 = {}
    BY <1>0, <2>1
  <2> QED
    BY <2>1, <2>2, <2>3 DEF Scored, Reported
<1>2. Scored /\ [ScoringNext]_scoringVars => Scored'
  <2> SUFFICES ASSUME Scored, [ScoringNext]_scoringVars PROVE Scored'
    OBVIOUS
  <2>0. /\ Materialized /\ IsList(records) /\ IsList(rewards) /\ Len(rewards) = Len(records)
        /\ Len(records) <= Len(requests) /\ Len(requests) \in Nat /\ Reported
        /\ \A i \in 1 .. Len(records) : Earned(i)
    BY <1>0 DEF Scored
  \* A record and a reward are added.
  <2>1. ASSUME NEW x, NEW y, Len(records) < Len(requests),
               records' = Append(records, x), rewards' = Append(rewards, y),
               cfg' = cfg, requests' = requests, report' = report,
               LET n == Len(records) + 1
               IN  \/ x = Failed
                   \/ \E out \in Outputs(requests[n]) : \E verdicts \in Verdicts(cfg.judge) :
                         x = ScoreOne(cfg, requests[n], out, verdicts) /\ y = ComputeScore(cfg, requests[n], out, verdicts)
        PROVE  Scored'
    <3> DEFINE n == Len(records) + 1
    <3>1. /\ IsList(records') /\ Len(records) \in Nat /\ Len(records') = n /\ records'[n] = x
          /\ \A i \in 1 .. Len(records) : records'[i] = records[i]
      BY <2>0, <2>1, AppendIs
    <3>2. /\ IsList(rewards') /\ Len(rewards') = n /\ rewards'[n] = y
          /\ \A i \in 1 .. Len(records) : rewards'[i] = rewards[i]
      <4>1. /\ IsList(Append(rewards, y)) /\ Len(Append(rewards, y)) = Len(rewards) + 1
            /\ Append(rewards, y)[Len(rewards) + 1] = y
            /\ \A i \in 1 .. Len(rewards) : Append(rewards, y)[i] = rewards[i]
        BY <2>0, AppendIs
      <4> QED
        BY <2>0, <2>1, <4>1
    <3>3. Materialized'
      BY <2>0, <2>1 DEF Materialized
    <3>4. Reported'
      <4>1. report = None
        BY <2>0, <2>1, <3>1 DEF Reported
      <4>2. report' = None
        BY <2>1, <4>1
      <4> QED
        BY <4>2 DEF Reported
    <3>5. ASSUME NEW i \in 1 .. Len(records) PROVE Earned(i)'
      <4>1. records'[i] = records[i] /\ rewards'[i] = rewards[i] /\ Earned(i)
        BY <2>0, <3>1, <3>2
      <4>2. CASE records[i] = Failed
        BY <4>1, <4>2 DEF Earned
      <4>3. CASE \E out \in Outputs(requests[i]) : \E verdicts \in Verdicts(cfg.judge) : EarnedBy(i, out, verdicts)
        <5>1. PICK out \in Outputs(requests[i]), verdicts \in Verdicts(cfg.judge) : EarnedBy(i, out, verdicts)
          BY <4>3
        <5>2. EarnedBy(i, out, verdicts)'
          BY <2>1, <4>1, <5>1 DEF EarnedBy
        <5>3. out \in Outputs(requests'[i]) /\ verdicts \in Verdicts(cfg'.judge)
          BY <2>1
        <5> QED
          BY <5>2, <5>3 DEF Earned
      <4> QED
        BY <4>1, <4>2, <4>3 DEF Earned
    <3>6. ASSUME NEW k, k = n PROVE Earned(k)'
      <4>1. records'[k] = x /\ rewards'[k] = y
        BY <3>1, <3>2, <3>6
      <4>2. CASE x = Failed
        BY <4>1, <4>2 DEF Earned
      <4>3. CASE \E out \in Outputs(requests[n]) : \E verdicts \in Verdicts(cfg.judge) :
                    x = ScoreOne(cfg, requests[n], out, verdicts) /\ y = ComputeScore(cfg, requests[n], out, verdicts)
        <5>1. PICK out \in Outputs(requests[n]), verdicts \in Verdicts(cfg.judge) :
                    x = ScoreOne(cfg, requests[n], out, verdicts) /\ y = ComputeScore(cfg, requests[n], out, verdicts)
          BY <4>3
        <5>2. records'[k] = ScoreOne(cfg', requests'[k], out, verdicts) /\ rewards'[k] = ComputeScore(cfg', requests'[k], out, verdicts)
          BY <2>1, <3>6, <4>1, <5>1, Zenon
        <5>3. out \in Outputs(requests'[k]) /\ verdicts \in Verdicts(cfg'.judge)
          BY <2>1, <3>6, <5>1, Zenon
        <5> QED
          BY <5>2, <5>3, Zenon DEF Earned, EarnedBy
      <4> QED
        BY <2>1, <4>2, <4>3
    <3>7. \A i \in 1 .. Len(records') : Earned(i)'
      <4>1. \A i \in 1 .. Len(records') : i \in 1 .. Len(records) \/ i = n
        BY <3>1
      <4> HIDE DEF n
      <4> QED
        BY <3>5, <3>6, <4>1, Zenon
    <3>8. Len(records') <= Len(requests')
      BY <2>0, <2>1, <3>1
    <3> QED
      BY <3>1, <3>2, <3>3, <3>4, <3>7, <3>8 DEF Scored
  <2>2. ASSUME NEW verdicts \in Verdicts(cfg.judge),
               NEW out, Score(out, verdicts)
        PROVE  Scored'
    <3> DEFINE x == ScoreOne(cfg, requests[Len(records) + 1], out, verdicts)
               y == ComputeScore(cfg, requests[Len(records) + 1], out, verdicts)
    <3>1. /\ Len(records) < Len(requests) /\ records' = Append(records, x) /\ rewards' = Append(rewards, y)
          /\ cfg' = cfg /\ requests' = requests /\ report' = report /\ out \in Outputs(requests[Len(records) + 1])
      BY <2>2, Zenon DEF Score
    <3>2. verdicts \in Verdicts(cfg.judge)
      OBVIOUS
    <3>3. \E o \in Outputs(requests[Len(records) + 1]) : \E v \in Verdicts(cfg.judge) :
             /\ x = ScoreOne(cfg, requests[Len(records) + 1], o, v)
             /\ y = ComputeScore(cfg, requests[Len(records) + 1], o, v)
      BY <3>1, <3>2, Zenon
    <3> HIDE DEF x, y
    <3> QED
      BY <2>1, <3>1, <3>3, Zenon
  <2>3. CASE GenerationFails
    BY <2>1, <2>3, Zenon DEF GenerationFails
  <2>4. CASE Report
    <3>1. /\ Len(records) = Len(requests)
          /\ report' = Aggregate(Kept(records, {i \in DOMAIN records : records[i] # Failed}))
          /\ cfg' = cfg /\ requests' = requests /\ records' = records /\ rewards' = rewards
      BY <2>4, Zenon DEF Report
    <3>2. Reported'
      BY <3>1, Zenon DEF Reported
    <3>3. \A i \in 1 .. Len(records) : Earned(i)'
      BY <2>0, <3>1, Zenon DEF Earned, EarnedBy
    <3>4. Materialized'
      BY <2>0, <3>1 DEF Materialized
    <3> QED
      BY <2>0, <3>1, <3>2, <3>3, <3>4 DEF Scored
  <2>5. CASE UNCHANGED scoringVars
    BY <2>5 DEF Scored, Reported, Earned, EarnedBy, Materialized, scoringVars
  <2> QED
    BY <2>2, <2>3, <2>4, <2>5, Zenon DEF ScoringNext
<1> QED
  BY <1>1, <1>2, PTL DEF ScoringSpec

\* What a record says of each of its questions.
LEMMA RecordIs ==
    ASSUME NEW c, NEW req \in Requests, NEW out, NEW verdicts
    PROVE  LET r == ScoreOne(c, req, out, verdicts)
           IN  Len(r.correct) = Len(req.asked) /\ DOMAIN r.correct = 1 .. Len(req.asked)
<1>1. Len(req.asked) \in Nat /\ DOMAIN req.asked = 1 .. Len(req.asked)
  BY DEF Requests
<1> DEFINE parsed == Extract(out, req.kind, Len(req.asked))
           pred(i) == IF i \in DOMAIN parsed.answers THEN parsed.answers[i] ELSE << >>
           marks == [i \in DOMAIN req.asked |-> JudgeAnswer(c.judge, req.asked[i], pred(i), verdicts[i])]
<1>2. ScoreOne(c, req, out, verdicts).correct = marks
  BY DEF ScoreOne
<1>3. DOMAIN marks = 1 .. Len(req.asked)
  BY <1>1
<1> HIDE DEF marks
<1>4. Len(marks) = Len(req.asked)
  BY <1>1, <1>3
<1> QED
  BY <1>2, <1>3, <1>4

\* The groups of a report are all right exactly when all its questions are.
LEMMA ScoredMarkGroups == Scored => GroupMarks
<1> SUFFICES ASSUME Scored, report # None, ~Contains(records, Failed)
             PROVE  /\ report.items = Total([i \in DOMAIN requests |-> Len(requests[i].asked)])
                    /\ report.groupsRight = report.groups <=>
                          report.correct = report.items /\ AllTrue([i \in DOMAIN records |-> records[i].format])
  BY DEF GroupMarks
<1> DEFINE n == Len(records)
<1>1. /\ requests \in Seq(Requests) /\ Len(requests) = n /\ n \in Nat
      /\ DOMAIN requests = 1 .. n /\ DOMAIN records = 1 .. n
  <2>1. Materialized /\ IsList(records) /\ Len(records) = Len(requests)
    BY DEF Scored, Reported
  <2>2. /\ MaxPack \in Nat \ {0} /\ cfg.kind \in Kinds /\ cfg.limit \in Nat /\ IsTestSet(RowsOf(cfg))
    BY <2>1, ScoringAssumption DEF Materialized
  <2>3. MaterializeRequests(cfg) \in Seq(Requests)
    BY <2>2, MaterializedAre
  <2>4. requests \in Seq(Requests)
    BY <2>1, <2>3 DEF Materialized
  <2>5. n \in Nat /\ DOMAIN records = 1 .. n
    BY <2>1 DEF IsList
  <2> QED
    BY <2>1, <2>4, <2>5
<1>2. \A i \in 1 .. n : records[i] # Failed
  BY DEF Contains
<1>3. report = Aggregate(records)
  <2> DEFINE X == {i \in DOMAIN records : records[i] # Failed}
  <2>1. report = Aggregate(Kept(records, X))
    BY DEF Scored, Reported
  <2>2. \A i \in 1 .. n : i \in X
    BY <1>1, <1>2
  <2>3. PICK S : records \in Seq(S)
    BY DEF Scored, IsList
  <2> HIDE DEF X
  <2>4. Kept(records, X) = records
    BY <2>2, <2>3, KeptAll
  <2> QED
    BY <2>1, <2>4
<1>4. \A i \in 1 .. n : Len(records[i].correct) = Len(requests[i].asked) /\ DOMAIN records[i].correct = 1 .. Len(requests[i].asked)
                       /\ Len(requests[i].asked) \in Nat
  <2> SUFFICES ASSUME NEW i \in 1 .. n
               PROVE  Len(records[i].correct) = Len(requests[i].asked) /\ DOMAIN records[i].correct = 1 .. Len(requests[i].asked)
                      /\ Len(requests[i].asked) \in Nat
    OBVIOUS
  <2>1. Earned(i) /\ requests[i] \in Requests
    BY <1>1 DEF Scored
  <2>2. PICK out \in Outputs(requests[i]), verdicts \in Verdicts(cfg.judge) : EarnedBy(i, out, verdicts)
    BY <1>2, <2>1 DEF Earned
  <2>3. records[i] = ScoreOne(cfg, requests[i], out, verdicts)
    BY <2>2 DEF EarnedBy
  <2>4. Len(requests[i].asked) \in Nat
    BY <2>1 DEF Requests
  <2> QED
    BY <2>1, <2>3, <2>4, RecordIs
<1>5. /\ report.items = Total([i \in 1 .. n |-> Len(records[i].correct)])
      /\ report.groupsRight = report.groups <=> report.correct = report.items /\ \A i \in 1 .. n : records[i].format
  <2>1. \A i \in 1 .. n : Len(records[i].correct) \in Nat /\ DOMAIN records[i].correct = 1 .. Len(records[i].correct)
    BY <1>4
  <2> HIDE DEF n
  <2> QED
    BY <1>1, <1>3, <2>1, AggregateIs
<1>6. [i \in 1 .. n |-> Len(records[i].correct)] = [i \in DOMAIN requests |-> Len(requests[i].asked)]
  BY <1>1, <1>4
<1>7. AllTrue([i \in DOMAIN records |-> records[i].format]) <=> \A i \in 1 .. n : records[i].format
  BY <1>1 DEF AllTrue
<1> QED
  BY <1>5, <1>6, <1>7

-----------------------------------------------------------------------------
\* The marks of an output (eval/extract.py, eval/pipeline.py, train/rl/reward.py).

\* The elements of a suffix are the last of the list.
LEMMA SuffixIs ==
    ASSUME NEW S, NEW s \in Seq(S), NEW t \in Seq(S), IsSuffix(s, t)
    PROVE  Len(s) <= Len(t) /\ \A i \in 1 .. Len(s) : t[Len(t) - Len(s) + i] = s[i]
<1> DEFINE a == Len(s)
           b == Len(t)
<1>1. a \in Nat /\ b \in Nat
  OBVIOUS
<1>2. /\ Len(Reverse(s)) = a /\ \A k \in 1 .. a : Reverse(s)[k] = s[(a - k) + 1] /\ Reverse(s)[k] \in S
      /\ Len(Reverse(t)) = b /\ \A k \in 1 .. b : Reverse(t)[k] = t[(b - k) + 1] /\ Reverse(t)[k] \in S
  <2>1. Reverse(s) \in [1 .. a -> S] /\ \A k \in 1 .. a : Reverse(s)[k] = s[(a - k) + 1]
    BY DEF Reverse
  <2>2. Reverse(t) \in [1 .. b -> S] /\ \A k \in 1 .. b : Reverse(t)[k] = t[(b - k) + 1]
    BY DEF Reverse
  <2>3. Len(Reverse(s)) = a /\ Len(Reverse(t)) = b
    BY <1>1, <2>1, <2>2, SegmentSeq
  <2> QED
    BY <2>1, <2>2, <2>3
<1> DEFINE u == Reverse(s)
           v == Reverse(t)
<1>3. a <= b /\ SubSeq(u, 1, a) = SubSeq(v, 1, a)
  BY <1>2 DEF IsSuffix, IsPrefix
<1> HIDE DEF u, v
<1>4. \A k \in 1 .. a : u[k] = v[k]
  <2>1. \A k \in 1 .. a : u[k] \in S /\ v[k] \in S
    BY <1>1, <1>2, <1>3 DEF u, v
  <2> HIDE DEF a, b
  <2>2. \A i \in 1 .. a - 1 + 1 : SubSeq(u, 1, a)[i] = u[1 + i - 1]
    BY <1>1, <2>1, SubSeqProperties
  <2>3. \A i \in 1 .. a - 1 + 1 : SubSeq(v, 1, a)[i] = v[1 + i - 1]
    BY <1>1, <2>1, SubSeqProperties
  <2>4. a - 1 + 1 = a /\ \A i \in Int : 1 + i - 1 = i
    BY <1>1
  <2>5. \A i \in 1 .. a : i \in Int
    OBVIOUS
  <2>6. \A i \in 1 .. a : u[1 + i - 1] = v[1 + i - 1]
    BY <1>3, <2>2, <2>3, <2>4
  <2> QED
    BY <2>4, <2>5, <2>6, Zenon
<1>5. ASSUME NEW i \in 1 .. a PROVE t[b - a + i] = s[i]
  <2> DEFINE k == a - i + 1
  <2>1. k \in 1 .. a /\ k \in 1 .. b /\ (a - k) + 1 = i /\ (b - k) + 1 = b - a + i
    BY <1>1, <1>3
  <2> HIDE DEF k, a, b
  <2>2. u[k] = s[i] /\ v[k] = t[b - a + i]
    <3>1. u[k] = s[(a - k) + 1] /\ v[k] = t[(b - k) + 1]
      BY <1>2, <2>1 DEF u, v
    <3> QED
      BY <2>1, <3>1
  <2> QED
    BY <1>4, <2>1, <2>2
<1> QED
  BY <1>3, <1>5

FencedKinds == {"single", "multi", "ttl"}
MarkOf(kind) == IF kind = "single" THEN "Answer" ELSE Marker[kind]

\* Answers are marked by a marker, never as a fence or as text.
LEMMA MarkOfIs ==
    ASSUME NEW kind \in FencedKinds
    PROVE  MarkOf(kind) \in {"Answer", "A", "L"}
  BY DEF FencedKinds, MarkOf, Marker

\* What outputs and gold answers are made of.
Written == Lines \cup {Fence("open"), Fence("close")}

\* The answer SFT trains: a fence around one line for each question.
LEMMA GoldIs ==
    ASSUME NEW req \in Requests, req.kind \in FencedKinds
    PROVE  LET n == Len(req.asked)
               g == Gold(req)
           IN  /\ n \in Nat /\ g \in Seq(Written) /\ Len(g) = n + 2
               /\ g[1].at = "open" /\ g[n + 2].at = "close"
               /\ \A i \in 1 .. n : /\ g[i + 1].at = MarkOf(req.kind) /\ g[i + 1].is = req.asked[i]
                                    /\ req.kind # "single" => g[i + 1].no = i
<1> DEFINE n == Len(req.asked)
           line(i) == IF req.kind = "single" THEN [at |-> "Answer", no |-> 0, is |-> req.asked[i]]
                      ELSE [at |-> Marker[req.kind], no |-> i, is |-> req.asked[i]]
           lines == [i \in DOMAIN req.asked |-> line(i)]
           first == Fence("open")
           last == Fence("close")
<1>1. n \in Nat /\ DOMAIN req.asked = 1 .. n /\ \A i \in 1 .. n : req.asked[i] \in STRING
  <2>1. req.asked \in Seq(Asks1)
    BY DEF Requests
  <2>2. \A x \in Asks1 : x \in STRING
    BY Zenon DEF Asks1
  <2> QED
    BY <2>1, <2>2
<1>2. first = [at |-> "open", no |-> 0, is |-> ""] /\ last = [at |-> "close", no |-> 0, is |-> ""]
  BY DEF Fence
<1>3. first \in Written /\ last \in Written
  BY DEF Written
<1>4. \A i \in 1 .. n : line(i) \in Written
  <2> SUFFICES ASSUME NEW i \in 1 .. n PROVE line(i) \in Written
    OBVIOUS
  <2>1. i \in Nat /\ req.asked[i] \in STRING
    BY <1>1
  <2>2. MarkOf(req.kind) \in {"Answer", "A", "L"}
    BY MarkOfIs
  <2>3. line(i) = [at |-> MarkOf(req.kind), no |-> IF req.kind = "single" THEN 0 ELSE i, is |-> req.asked[i]]
    BY DEF MarkOf
  <2> HIDE DEF line
  <2> QED
    BY <2>1, <2>2, <2>3 DEF Lines, Written
<1>5. lines \in Seq(Written) /\ Len(lines) = n /\ \A i \in 1 .. n : lines[i] = line(i)
  <2>1. lines = [i \in 1 .. n |-> line(i)]
    BY <1>1
  <2> HIDE DEF line, lines
  <2>2. lines \in [1 .. n -> Written]
    BY <1>4, <2>1
  <2> QED
    BY <1>1, <2>1, <2>2, SegmentSeq
<1>6. \A i \in 1 .. n : /\ line(i).at = MarkOf(req.kind) /\ line(i).is = req.asked[i]
                        /\ req.kind # "single" => line(i).no = i
  BY DEF MarkOf
<1>7. Gold(req) = << first >> \o lines \o << last >>
  BY DEF Gold
<1>8. first.at = "open" /\ last.at = "close"
  <2> HIDE DEF first, last
  <2> QED
    BY <1>2
<1> HIDE DEF first, last, lines, line, n
<1> DEFINE h == << first >> \o lines
           g == h \o << last >>
<1>9. h \in Seq(Written) /\ Len(h) = n + 1 /\ h[1] = first /\ \A i \in 1 .. n : h[i + 1] = lines[i]
  <2> DEFINE f == << first >>
  <2>0. f \in Seq(Written) /\ Len(f) = 1 /\ f[1] = first
    BY <1>3
  <2> HIDE DEF f
  <2>1. /\ f \o lines \in Seq(Written) /\ Len(f \o lines) = Len(f) + Len(lines)
        /\ \A i \in 1 .. Len(f) + Len(lines) :
              (f \o lines)[i] = IF i <= Len(f) THEN f[i] ELSE lines[i - Len(f)]
    BY <1>5, <2>0, ConcatProperties
  <2>2. h = f \o lines
    BY DEF f
  <2> HIDE DEF h
  <2>3. h[1] = first
    BY <1>1, <1>5, <2>0, <2>1, <2>2
  <2>4. ASSUME NEW i \in 1 .. n PROVE h[i + 1] = lines[i]
    <3>1. i + 1 \in 1 .. Len(f) + Len(lines) /\ ~(i + 1 <= Len(f)) /\ i + 1 - Len(f) = i
      BY <1>1, <1>5, <2>0
    <3> QED
      BY <2>1, <2>2, <3>1
  <2> QED
    BY <1>1, <1>5, <2>0, <2>1, <2>2, <2>3, <2>4
<1> HIDE DEF h
<1>10. g \in Seq(Written) /\ Len(g) = n + 2 /\ g[n + 2] = last /\ \A i \in 1 .. n + 1 : g[i] = h[i]
  <2> DEFINE f == << last >>
  <2>0. f \in Seq(Written) /\ Len(f) = 1 /\ f[1] = last
    BY <1>3
  <2> HIDE DEF f
  <2>1. /\ h \o f \in Seq(Written) /\ Len(h \o f) = Len(h) + Len(f)
        /\ \A i \in 1 .. Len(h) + Len(f) :
              (h \o f)[i] = IF i <= Len(h) THEN h[i] ELSE f[i - Len(h)]
    BY <1>9, <2>0, ConcatProperties
  <2>2. g = h \o f
    BY DEF f
  <2> HIDE DEF g
  <2>3. g[n + 2] = last
    <3>1. n + 2 \in 1 .. Len(h) + Len(f) /\ ~(n + 2 <= Len(h)) /\ n + 2 - Len(h) = 1
      BY <1>1, <1>9, <2>0
    <3> QED
      BY <2>0, <2>1, <2>2, <3>1
  <2>4. \A i \in 1 .. n + 1 : g[i] = h[i]
    BY <1>1, <1>9, <2>0, <2>1, <2>2
  <2> QED
    BY <1>1, <1>9, <2>0, <2>1, <2>2, <2>3, <2>4
<1> HIDE DEF g
<1>11. Gold(req) = g
  BY <1>7 DEF g, h
<1>12. g[1] = first /\ \A i \in 1 .. n : g[i + 1] = line(i)
  <2>1. 1 \in 1 .. n + 1 /\ \A i \in 1 .. n : i + 1 \in 1 .. n + 1
    BY <1>1
  <2> QED
    BY <1>5, <1>9, <1>10, <2>1
<1> QED
  BY <1>1, <1>6, <1>8, <1>10, <1>11, <1>12 DEF n

\* The last block lies behind every opening fence.
LEMMA LastBlockIs ==
    ASSUME NEW out \in Seq(Lines), At(out, "open") # {}
    PROVE  LET from == Max(At(out, "open"))
               block == LastTextBlock(out)
           IN  /\ from \in At(out, "open") /\ \A o \in At(out, "open") : o <= from
               /\ from \in 1 .. Len(out) /\ block \in Seq(Lines)
               /\ \A b \in 1 .. Len(block) : from + b \in 1 .. Len(out) /\ block[b] = out[from + b]
               /\ \A k \in from .. Len(out) :
                     (\A b \in from + 1 .. k : out[b].at # "close") =>
                        /\ k = Len(out) => Len(block) = k - from
                        /\ k < Len(out) /\ out[k + 1].at = "close" => Len(block) = k - from
<1> DEFINE opens == At(out, "open")
           n == Len(out)
           from == Max(opens)
           closes == {i \in At(out, "close") : i >= from + 1}
           top == IF closes = {} THEN n ELSE Min(closes) - 1
           block == SubSeq(out, from + 1, top)
<1>1. n \in Nat /\ DOMAIN out = 1 .. n /\ \A i \in 1 .. n : out[i] \in Lines
  OBVIOUS
<1>2. opens \subseteq 1 .. n /\ opens \subseteq Nat
  BY <1>1 DEF At
<1>3. from \in opens /\ \A o \in opens : o <= from
  <2>1. \A x \in opens : x <= n
    BY <1>1, <1>2
  <2>2. opens # {}
    OBVIOUS
  <2> HIDE DEF opens, n
  <2> QED
    BY <1>1, <1>2, <2>1, <2>2, MaxOf
<1>4. from \in 1 .. n
  BY <1>2, <1>3
<1> HIDE DEF opens, from
<1>5. closes = {i \in from + 1 .. n : out[i].at = "close"}
  BY <1>1, <1>4 DEF At
<1> HIDE DEF closes
<1>6. top \in from .. n /\ (closes # {} => top + 1 \in closes /\ \A x \in closes : top + 1 <= x)
  <2>1. CASE closes = {}
    BY <1>4, <2>1
  <2>2. CASE closes # {}
    <3>1. closes \subseteq Nat
      BY <1>1, <1>4, <1>5
    <3>2. Min(closes) \in closes /\ \A x \in closes : Min(closes) <= x
      BY <2>2, <3>1, MinOf
    <3>3. Min(closes) \in from + 1 .. n
      BY <1>5, <3>2
    <3>4. top = Min(closes) - 1
      BY <2>2
    <3> HIDE DEF top
    <3> QED
      BY <1>4, <3>2, <3>3, <3>4
  <2> QED
    BY <2>1, <2>2
<1>7. closes = {} => top = n
  OBVIOUS
<1> HIDE DEF top
<1>8. LastTextBlock(out) = block
  BY DEF LastTextBlock, opens, from, closes, top
<1>9. block \in Seq(Lines) /\ Len(block) = top - from /\ \A b \in 1 .. top - from : block[b] = out[from + b]
  <2> DEFINE a == from + 1
  <2>1. a \in Int /\ top \in Int /\ \A i \in a .. top : out[i] \in Lines
    BY <1>1, <1>4, <1>6
  <2>2. top - a + 1 = top - from /\ (IF a <= top THEN top - a + 1 ELSE 0) = top - from
        /\ \A i \in Int : a + i - 1 = from + i
    BY <1>4, <1>6
  <2> HIDE DEF a
  <2>3. /\ SubSeq(out, a, top) \in Seq(Lines)
        /\ Len(SubSeq(out, a, top)) = IF a <= top THEN top - a + 1 ELSE 0
        /\ \A i \in 1 .. top - a + 1 : SubSeq(out, a, top)[i] = out[a + i - 1]
    BY <2>1, SubSeqProperties
  <2>4. block = SubSeq(out, a, top)
    BY DEF a
  <2> HIDE DEF block
  <2>5. Len(block) = top - from
    BY <2>2, <2>3, <2>4, Zenon
  <2>6. \A i \in 1 .. top - from : block[i] = out[a + i - 1] /\ i \in Int
    BY <2>2, <2>3, <2>4
  <2>7. \A i \in 1 .. top - from : block[i] = out[from + i]
    BY <2>2, <2>6, Zenon
  <2> QED
    BY <2>3, <2>4, <2>5, <2>7, Zenon
<1> HIDE DEF block
<1>10. \A b \in 1 .. Len(block) : from + b \in 1 .. n /\ block[b] = out[from + b]
  BY <1>1, <1>4, <1>6, <1>9
<1>11. ASSUME NEW k \in from .. n, \A b \in from + 1 .. k : out[b].at # "close",
              k = n \/ (k < n /\ out[k + 1].at = "close")
       PROVE  Len(block) = k - from
  <2>1. \A x \in closes : x > k
    BY <1>4, <1>5, <1>11
  <2>2. CASE k = n
    <3>1. closes = {}
      BY <1>1, <1>4, <1>5, <2>1, <2>2
    <3> QED
      BY <1>7, <1>9, <2>2, <3>1
  <2>3. CASE k < n /\ out[k + 1].at = "close"
    <3>1. k + 1 \in closes
      BY <1>1, <1>4, <1>5, <2>3
    <3>2. top + 1 <= k + 1 /\ top + 1 > k
      BY <1>6, <2>1, <3>1
    <3>3. top = k
      BY <1>1, <1>4, <1>6, <3>2
    <3> QED
      BY <1>9, <3>3
  <2> QED
    BY <1>11, <2>2, <2>3
<1> QED
  BY <1>3, <1>4, <1>8, <1>9, <1>10, <1>11 DEF opens, from

\* An output that ends with the gold answer has its lines for last block.
LEMMA GoldBlock ==
    ASSUME NEW req \in Requests, req.kind \in FencedKinds, NEW out \in Seq(Lines), IsSuffix(Gold(req), out)
    PROVE  LET n == Len(req.asked)
               block == LastTextBlock(out)
           IN  /\ At(out, "open") # {} /\ block \in Seq(Lines) /\ Len(block) = n /\ n \in Nat
               /\ \A i \in 1 .. n : /\ block[i].at = MarkOf(req.kind) /\ block[i].is = req.asked[i]
                                    /\ req.kind # "single" => block[i].no = i
<1> DEFINE n == Len(req.asked)
           g == Gold(req)
           m == Len(out) - (n + 2)
           k == m + n + 1
           from == Max(At(out, "open"))
           block == LastTextBlock(out)
<1>1. /\ n \in Nat /\ g \in Seq(Written) /\ Len(g) = n + 2
      /\ g[1].at = "open" /\ g[n + 2].at = "close"
      /\ \A i \in 1 .. n : /\ g[i + 1].at = MarkOf(req.kind) /\ g[i + 1].is = req.asked[i]
                           /\ req.kind # "single" => g[i + 1].no = i
  BY GoldIs, Zenon
<1> HIDE DEF g
<1>2. Len(g) <= Len(out) /\ \A i \in 1 .. Len(g) : out[Len(out) - Len(g) + i] = g[i]
  <2>1. Lines \subseteq Written
    BY DEF Written
  <2>2. out \in Seq(Written)
    BY <2>1, SeqMonotonic
  <2>3. IsSuffix(g, out)
    BY DEF g
  <2> QED
    BY <1>1, <2>2, <2>3, SuffixIs
<1> HIDE DEF n
<1>3. /\ m \in Nat /\ k \in Nat /\ Len(out) = m + n + 2 /\ DOMAIN out = 1 .. Len(out)
      /\ \A i \in 1 .. n + 2 : out[m + i] = g[i]
  BY <1>1, <1>2
<1>4. MarkOf(req.kind) # "open" /\ MarkOf(req.kind) # "close"
  BY MarkOfIs
<1> HIDE DEF m
<1>5. /\ out[m + 1].at = "open" /\ out[m + n + 2].at = "close"
      /\ \A i \in 1 .. n : out[m + 1 + i] = g[i + 1]
  <2>1. 1 \in 1 .. n + 2 /\ n + 2 \in 1 .. n + 2 /\ m + (n + 2) = m + n + 2
    BY <1>1, <1>3
  <2>2. \A i \in 1 .. n : i + 1 \in 1 .. n + 2 /\ m + (i + 1) = m + 1 + i
    BY <1>1, <1>3
  <2>3. out[m + 1] = g[1] /\ out[m + (n + 2)] = g[n + 2]
    BY <1>3, <2>1
  <2>4. \A i \in 1 .. n : out[m + (i + 1)] = g[i + 1]
    BY <1>3, <2>2
  <2>5. \A i \in 1 .. n : out[m + 1 + i] = g[i + 1]
    BY <2>2, <2>4
  <2> QED
    BY <1>1, <2>1, <2>3, <2>5
<1>6. m + 1 \in At(out, "open")
  BY <1>1, <1>3, <1>5 DEF At
<1>7. \A b \in m + 2 .. m + n + 1 : out[b].at = MarkOf(req.kind)
  <2> SUFFICES ASSUME NEW b \in m + 2 .. m + n + 1 PROVE out[b].at = MarkOf(req.kind)
    OBVIOUS
  <2> DEFINE i == b - m - 1
  <2>1. i \in 1 .. n /\ m + 1 + i = b
    BY <1>1, <1>3
  <2> HIDE DEF i
  <2> QED
    BY <1>1, <1>5, <2>1
<1>8. \A o \in At(out, "open") : o <= m + 1
  <2> SUFFICES ASSUME NEW o \in 1 .. Len(out), out[o].at = "open" PROVE o <= m + 1
    BY <1>3 DEF At
  <2>1. o # m + n + 2
    BY <1>5
  <2>2. ~(o \in m + 2 .. m + n + 1)
    BY <1>4, <1>7
  <2> QED
    BY <1>1, <1>3, <2>1, <2>2
<1>9. /\ from \in At(out, "open") /\ (\A o \in At(out, "open") : o <= from)
      /\ from \in 1 .. Len(out) /\ block \in Seq(Lines)
      /\ \A b \in 1 .. Len(block) : from + b \in 1 .. Len(out) /\ block[b] = out[from + b]
      /\ \A j \in from .. Len(out) :
            (\A b \in from + 1 .. j : out[b].at # "close") =>
               /\ j = Len(out) => Len(block) = j - from
               /\ j < Len(out) /\ out[j + 1].at = "close" => Len(block) = j - from
  <2>1. At(out, "open") # {}
    BY <1>6
  <2> QED
    BY <2>1, LastBlockIs, Zenon
<1> HIDE DEF from, block
<1>10. from = m + 1
  <2>1. from <= m + 1 /\ m + 1 <= from
    BY <1>6, <1>8, <1>9
  <2>2. from \in Int
    BY <1>9
  <2> QED
    BY <1>3, <2>1, <2>2
<1>11. Len(block) = n
  <2>1. /\ k \in from .. Len(out) /\ k < Len(out) /\ k + 1 = m + n + 2 /\ k - from = n
        /\ \A b \in from + 1 .. k : b \in m + 2 .. m + n + 1
    <3>1. from = m + 1 /\ m \in Nat /\ n \in Nat /\ Len(out) = m + n + 2
      BY <1>1, <1>3, <1>10
    <3>2. k = m + n + 1
      OBVIOUS
    <3> HIDE DEF k
    <3>3. k \in from .. Len(out) /\ k < Len(out) /\ k + 1 = m + n + 2 /\ k - from = n
      BY <3>1, <3>2
    <3>4. \A b \in from + 1 .. k : b \in m + 2 .. m + n + 1
      BY <3>1, <3>2
    <3> QED
      BY <3>3, <3>4
  <2>2. \A b \in from + 1 .. k : out[b].at # "close"
    BY <1>4, <1>7, <2>1
  <2>3. out[k + 1].at = "close"
    BY <1>5, <2>1
  <2> HIDE DEF k
  <2> QED
    BY <1>9, <2>1, <2>2, <2>3
<1>12. \A i \in 1 .. n : block[i] = g[i + 1]
  BY <1>5, <1>9, <1>10, <1>11
<1> QED
  BY <1>1, <1>6, <1>9, <1>11, <1>12 DEF n, block

\* Of one line with the right answer it is the answer.
LEMMA OnlyOfGold ==
    ASSUME NEW block \in Seq(Lines), Len(block) = 1, block[1].at = "Answer"
    PROVE  Only(block) = << Plain(block[1].is) >>
<1> DEFINE marks == At(block, "Answer")
<1>1. marks = {1}
  BY DEF At
<1>2. Min(marks) = 1
  <2> HIDE DEF marks
  <2>1. marks \subseteq Nat /\ marks # {}
    BY <1>1
  <2>2. Min(marks) \in marks
    BY <2>1, MinOf
  <2> QED
    BY <1>1, <2>2
<1> HIDE DEF marks
<1>3. marks # {}
  BY <1>1
<1> QED
  BY <1>2, <1>3 DEF Only, marks

\* What a line says is a line of plain text, and its number a number.
LEMMA PlainIs ==
    ASSUME NEW block \in Seq(Lines), NEW i \in 1 .. Len(block)
    PROVE  Plain(block[i].is) \in Lines /\ block[i].no \in Nat
<1>1. block[i] \in Lines
  OBVIOUS
<1>2. \A l \in Lines : l.is \in STRING /\ l.no \in Nat
  BY DEF Lines
<1>3. \A x \in STRING : [at |-> "text", no |-> 0, is |-> x] \in Lines
  BY DEF Lines
<1> QED
  BY <1>1, <1>2, <1>3 DEF Plain

\* b is the last line with the number, and the lines s up to the next marker follow.
Begins(block, mark, j, b, s) ==
    /\ b \in 1 .. Len(block) /\ s \in Seq(Lines)
    /\ block[b].at = mark /\ block[b].no = j
    /\ \A x \in 1 .. Len(block) : block[x].at = mark /\ block[x].no = j => x <= b
    /\ Numbered(block, mark)[j] = << Plain(block[b].is) >> \o s
    /\ s = SubSeq(block, b + 1, Min({x \in 1 .. Len(block) : block[x].at = mark /\ x > b} \cup {Len(block) + 1}) - 1)

\* The answer under a number begins with the last line that has it.
LEMMA NumberedIs ==
    ASSUME NEW block \in Seq(Lines), NEW mark, NEW j \in DOMAIN Numbered(block, mark)
    PROVE  \E b, s : Begins(block, mark, j, b, s)
<1> DEFINE marks == At(block, mark)
           last(n) == Max({i \in marks : block[i].no = n})
           next(i) == Min({x \in marks : x > i} \cup {Len(block) + 1})
           text(i) == << Plain(block[i].is) >> \o SubSeq(block, i + 1, next(i) - 1)
           nums == {block[i].no : i \in marks}
           L == Len(block)
           T == {i \in marks : block[i].no = j}
           b == last(j)
           ahead == {x \in marks : x > b} \cup {L + 1}
           s == SubSeq(block, b + 1, next(b) - 1)
<1>1. L \in Nat /\ DOMAIN block = 1 .. L /\ \A i \in 1 .. L : block[i] \in Lines
  OBVIOUS
<1>2. Numbered(block, mark) = [n \in nums |-> text(last(n))]
  BY DEF Numbered
<1>3. j \in nums
  BY <1>2
<1>4. Numbered(block, mark)[j] = text(b)
  BY <1>2, <1>3
<1>5. marks = {i \in 1 .. L : block[i].at = mark}
  BY <1>1 DEF At
<1> HIDE DEF marks
<1>6. b \in T /\ \A x \in T : x <= b
  <2>1. T \subseteq Nat /\ T # {} /\ \A x \in T : x <= L
    BY <1>1, <1>3, <1>5
  <2> HIDE DEF T
  <2>2. Max(T) \in T /\ \A x \in T : x <= Max(T)
    BY <1>1, <2>1, MaxOf
  <2> QED
    BY <2>2 DEF T
<1>7. b \in 1 .. L /\ block[b].at = mark /\ block[b].no = j
  BY <1>5, <1>6
<1>8. \A x \in 1 .. L : block[x].at = mark /\ block[x].no = j => x <= b
  BY <1>5, <1>6
<1> HIDE DEF b, T
<1>9. next(b) \in b + 1 .. L + 1
  <2>1. ahead \subseteq Nat /\ ahead # {} /\ ahead \subseteq b + 1 .. L + 1
    BY <1>1, <1>5, <1>7
  <2> HIDE DEF ahead
  <2>2. Min(ahead) \in ahead
    BY <2>1, MinOf
  <2>3. Min(ahead) \in b + 1 .. L + 1
    BY <2>1, <2>2
  <2> QED
    BY <2>3 DEF ahead
<1>10. ahead = {x \in 1 .. L : block[x].at = mark /\ x > b} \cup {L + 1}
  BY <1>5
<1>11. s \in Seq(Lines)
  <2> DEFINE a == b + 1
             t == next(b) - 1
  <2>1. a \in Int /\ t \in Int /\ \A i \in a .. t : block[i] \in Lines
    <3> HIDE DEF next
    <3> QED
      BY <1>1, <1>7, <1>9
  <2> HIDE DEF a, t
  <2>2. SubSeq(block, a, t) \in Seq(Lines)
    BY <2>1, SubSeqProperties
  <2> QED
    BY <2>2 DEF a, t
<1>12. Numbered(block, mark)[j] = << Plain(block[b].is) >> \o s
  BY <1>4
<1>13. s = SubSeq(block, b + 1, Min({x \in 1 .. L : block[x].at = mark /\ x > b} \cup {L + 1}) - 1)
  BY <1>10, Zenon
<1> HIDE DEF s, next
<1> QED
  BY <1>7, <1>8, <1>11, <1>12, <1>13, Zenon DEF Begins

\* Under every number the answers of the gold lines.
LEMMA NumberedOfGold ==
    ASSUME NEW block \in Seq(Lines), NEW mark, NEW n \in Nat, Len(block) = n,
           \A i \in 1 .. n : block[i].at = mark /\ block[i].no = i
    PROVE  /\ DOMAIN Numbered(block, mark) = 1 .. n
           /\ \A j \in 1 .. n : Numbered(block, mark)[j] = << Plain(block[j].is) >>
<1>1. DOMAIN block = 1 .. n
  OBVIOUS
<1>2. DOMAIN Numbered(block, mark) = 1 .. n
  <2>1. DOMAIN Numbered(block, mark) = {block[i].no : i \in At(block, mark)}
    BY DEF Numbered
  <2>2. At(block, mark) = 1 .. n
    BY <1>1 DEF At
  <2> QED
    BY <2>1, <2>2
<1>3. ASSUME NEW j \in 1 .. n PROVE Numbered(block, mark)[j] = << Plain(block[j].is) >>
  <2>1. PICK b, s : Begins(block, mark, j, b, s)
    BY <1>2, NumberedIs, Zenon
  <2>2. b = j
    BY <2>1 DEF Begins
  <2> DEFINE ahead == {x \in 1 .. n : block[x].at = mark /\ x > j} \cup {n + 1}
  <2>3. Numbered(block, mark)[j] = << Plain(block[j].is) >> \o SubSeq(block, j + 1, Min(ahead) - 1)
    BY <2>1, <2>2, Zenon DEF Begins
  <2>4. Min(ahead) = j + 1
    <3>1. ahead \subseteq Nat /\ ahead # {} /\ (\A x \in ahead : x >= j + 1) /\ j + 1 \in ahead
      BY <1>1
    <3> HIDE DEF ahead
    <3> DEFINE v == Min(ahead)
    <3>2. v \in ahead /\ v <= j + 1
      BY <3>1, MinOf
    <3> HIDE DEF v
    <3>3. v \in Nat /\ v >= j + 1
      BY <3>1, <3>2
    <3>4. v = j + 1
      BY <3>2, <3>3
    <3> QED
      BY <3>4 DEF v
  <2> HIDE DEF ahead
  <2>5. SubSeq(block, j + 1, Min(ahead) - 1) = << >>
    <3> DEFINE a == j + 1
               t == Min(ahead) - 1
    <3>1. a \in Int /\ t \in Int /\ t < a
      BY <2>4
    <3> HIDE DEF a, t
    <3>2. SubSeq(block, a, t) = << >>
      BY <3>1, SubSeqEmpty
    <3> QED
      BY <3>2 DEF a, t
  <2> DEFINE p == << Plain(block[j].is) >>
  <2>6. p \in Seq(Lines)
    <3>1. Plain(block[j].is) \in Lines
      BY PlainIs
    <3> QED
      BY <3>1
  <2> HIDE DEF p
  <2>7. p \o << >> = p
    BY <2>6, ConcatEmptySeq
  <2> QED
    BY <2>3, <2>5, <2>7 DEF p
<1> QED
  BY <1>2, <1>3

\* What is found in an output: answers in its last block, or for a single question
\* the output itself.
LEMMA ExtractIs ==
    ASSUME NEW kind \in FencedKinds, NEW out, NEW n
    PROVE  LET e == Extract(out, kind, n)
           IN  /\ At(out, "open") # {} =>
                     /\ e.block
                     /\ e.answers = IF kind = "single" THEN << Only(LastTextBlock(out)) >>
                                    ELSE Numbered(LastTextBlock(out), MarkOf(kind))
               /\ At(out, "open") = {} =>
                     /\ ~e.block
                     /\ e.answers = << >> \/ (kind = "single" /\ e.answers = << out >>)
<1> DEFINE e == Extract(out, kind, n)
           parsed == ParseAnswers(out, kind)
<1>1. kind # "official_pack" /\ kind # "raw"
  BY DEF FencedKinds
<1>2. e = IF DOMAIN parsed.answers = {} /\ kind = "single" /\ n = 1 /\ ~Blank(out)
          THEN [answers |-> << out >>, block |-> parsed.block] ELSE parsed
  BY <1>1, Zenon DEF Extract
<1>3. CASE At(out, "open") # {}
  <2> DEFINE a == IF kind = "single" THEN << Only(LastTextBlock(out)) >>
                  ELSE Numbered(LastTextBlock(out), Marker[kind])
  <2>1. parsed = [answers |-> a, block |-> TRUE]
    BY <1>3, Zenon DEF ParseAnswers
  <2>2. kind = "single" => DOMAIN a # {}
    <3> DEFINE v == Only(LastTextBlock(out))
    <3> HIDE DEF v
    <3>1. DOMAIN << v >> # {}
      OBVIOUS
    <3> QED
      BY <3>1 DEF v
  <2> HIDE DEF a, parsed
  <2>3. parsed.answers = a /\ parsed.block
    BY <2>1
  <2>4. e = parsed
    BY <1>2, <2>2, <2>3, Zenon
  <2>5. a = IF kind = "single" THEN << Only(LastTextBlock(out)) >>
            ELSE Numbered(LastTextBlock(out), MarkOf(kind))
    BY Zenon DEF a, MarkOf
  <2> HIDE DEF e
  <2> QED
    BY <1>3, <2>3, <2>4, <2>5, Zenon DEF e
<1>4. CASE At(out, "open") = {}
  <2>1. parsed = [answers |-> << >>, block |-> FALSE]
    BY <1>4, Zenon DEF ParseAnswers
  <2> HIDE DEF parsed
  <2>2. parsed.answers = << >> /\ ~parsed.block
    BY <2>1
  <2>3. CASE kind = "single" /\ n = 1 /\ ~Blank(out)
    <3>1. DOMAIN << >> = {}
      OBVIOUS
    <3>2. e = [answers |-> << out >>, block |-> parsed.block]
      BY <1>2, <2>2, <2>3, <3>1, Zenon
    <3> HIDE DEF e
    <3>3. e.answers = << out >> /\ ~e.block
      BY <2>2, <3>2
    <3> QED
      BY <1>4, <2>3, <3>3, Zenon DEF e
  <2>4. CASE ~(kind = "single" /\ n = 1 /\ ~Blank(out))
    <3>1. e = parsed
      BY <1>2, <2>4, Zenon
    <3> HIDE DEF e
    <3> QED
      BY <1>4, <2>2, <3>1, Zenon DEF e
  <2> QED
    BY <2>3, <2>4
<1> QED
  BY <1>3, <1>4

\* An answer is credited.
Credit(judge, req, e, verdicts, j) ==
    j \in DOMAIN e.answers /\ JudgeAnswer(judge, req.asked[j], e.answers[j], verdicts[j])

\* The record and the reward of an output, by the answers found in it.
LEMMA RecordMarks ==
    ASSUME NEW c, NEW req \in Requests, NEW out, NEW verdicts
    PROVE  LET e == Extract(out, req.kind, Len(req.asked))
               n == Len(req.asked)
               r == ScoreOne(c, req, out, verdicts)
           IN  /\ r.raw = out /\ (r.block <=> e.block)
               /\ r.format <=> Cardinality(DOMAIN e.answers) = n
               /\ DOMAIN r.correct = 1 .. n
               /\ \A j \in 1 .. n : r.correct[j] <=> Credit(c.judge, req, e, verdicts, j)
<1> DEFINE e == Extract(out, req.kind, Len(req.asked))
           n == Len(req.asked)
           r == ScoreOne(c, req, out, verdicts)
           pred(i) == IF i \in DOMAIN e.answers THEN e.answers[i] ELSE << >>
           marks == [i \in DOMAIN req.asked |-> JudgeAnswer(c.judge, req.asked[i], pred(i), verdicts[i])]
           form == Cardinality(DOMAIN e.answers) = n
<1>1. DOMAIN req.asked = 1 .. n
  BY DEF Requests
<1>2. r = [group |-> req.group, correct |-> marks, block |-> e.block, format |-> form, raw |-> out]
  BY Zenon DEF ScoreOne
<1>3. \A q, v : ~JudgeAnswer(c.judge, q, << >>, v)
  <2>1. Blank(<< >>)
    <3>1. DOMAIN << >> = {}
      OBVIOUS
    <3> QED
      BY <3>1, Zenon DEF Blank
  <2> QED
    BY <2>1, Zenon DEF JudgeAnswer
<1>4. \A j \in 1 .. n : marks[j] <=> Credit(c.judge, req, e, verdicts, j)
  <2> SUFFICES ASSUME NEW j \in 1 .. n PROVE marks[j] <=> Credit(c.judge, req, e, verdicts, j)
    OBVIOUS
  <2>1. marks[j] = JudgeAnswer(c.judge, req.asked[j], pred(j), verdicts[j])
    BY <1>1, Zenon
  <2> HIDE DEF marks, e
  <2>2. CASE j \in DOMAIN e.answers
    <3>1. pred(j) = e.answers[j]
      BY <2>2, Zenon
    <3> HIDE DEF pred
    <3> QED
      BY <2>1, <2>2, <3>1, Zenon DEF Credit
  <2>3. CASE j \notin DOMAIN e.answers
    <3>1. pred(j) = << >>
      BY <2>3, Zenon
    <3> HIDE DEF pred
    <3> QED
      BY <1>3, <2>1, <2>3, <3>1, Zenon DEF Credit
  <2> QED
    BY <2>2, <2>3
<1>5. DOMAIN marks = 1 .. n
  BY <1>1, Zenon
<1> HIDE DEF marks, form, e, r
<1>6. r.correct = marks /\ r.block = e.block /\ r.format = form /\ r.raw = out
  BY <1>2
<1> QED
  BY <1>4, <1>5, <1>6, Zenon DEF e, r, form

\* The reward of an output, by how many of the answers found in it are right.
LEMMA RewardMarks ==
    ASSUME NEW c, NEW req \in Requests, NEW out, NEW verdicts
    PROVE  LET e == Extract(out, req.kind, Len(req.asked))
               n == Len(req.asked)
               good(j) == j \in DOMAIN e.answers /\ RewardJudge(c.judge, req.asked[j], e.answers[j], verdicts[j])
           IN  \E hits \in 0 .. n :
                  /\ hits = n <=> \A j \in 1 .. n : good(j)
                  /\ ComputeScore(c, req, out, verdicts) =
                        IF ~e.block \/ DOMAIN e.answers = {} THEN -n
                        ELSE 2 * hits + (IF hits = n THEN n ELSE 0)
                                - (IF Cardinality(DOMAIN e.answers) = n THEN 0 ELSE n)
<1> DEFINE e == Extract(out, req.kind, Len(req.asked))
           n == Len(req.asked)
           good(j) == j \in DOMAIN e.answers /\ RewardJudge(c.judge, req.asked[j], e.answers[j], verdicts[j])
           T == {i \in DOMAIN req.asked : good(i)}
           hits == Cardinality(T)
<1>1. DOMAIN req.asked = 1 .. n /\ n \in Nat
  BY DEF Requests
<1>2. ComputeScore(c, req, out, verdicts) =
                        IF ~e.block \/ DOMAIN e.answers = {} THEN -n
                        ELSE 2 * hits + (IF hits = n THEN n ELSE 0)
                                - (IF Cardinality(DOMAIN e.answers) = n THEN 0 ELSE n)
  BY Zenon DEF ComputeScore
<1> HIDE DEF good
<1>3. T \in SUBSET (1 .. n) /\ (T = 1 .. n <=> \A j \in 1 .. n : good(j))
  BY <1>1
<1> HIDE DEF T, n, e
<1>4. hits \in 0 .. n /\ (hits = n <=> T = 1 .. n)
  <2> DEFINE S == 1 .. n
  <2>1. IsFiniteSet(S) /\ Cardinality(S) = n
    BY <1>1, FS_Interval
  <2>2. T \in SUBSET S
    BY <1>3
  <2> HIDE DEF S
  <2>3. IsFiniteSet(T) /\ Cardinality(T) <= Cardinality(S) /\ (Cardinality(S) = Cardinality(T) => S = T)
    BY <2>1, <2>2, FS_Subset
  <2>4. Cardinality(T) \in Nat
    BY <2>3, FS_CardinalityType
  <2>5. Cardinality(T) \in 0 .. n /\ (Cardinality(T) = n <=> T = S)
    BY <1>1, <2>1, <2>3, <2>4
  <2> QED
    BY <2>5 DEF S
<1> HIDE DEF hits
<1>5. hits = n <=> \A j \in 1 .. n : good(j)
  BY <1>3, <1>4, Zenon
<1> QED
  BY <1>2, <1>4, <1>5, Zenon DEF good, e, n

\* Exact match credits what stands alone, and only that.
LEMMA ExactIs ==
    ASSUME NEW q, NEW pred, NEW verdict
    PROVE  /\ JudgeAnswer("em", q, pred, verdict) => pred = << Plain(q) >>
           /\ q # "" /\ pred = << Plain(q) >> =>
                 /\ JudgeAnswer("em", q, pred, verdict) /\ JudgeAnswer("contains", q, pred, verdict)
<1>1. JudgeAnswer("em", q, pred, verdict) <=> ~Blank(pred) /\ pred = << Plain(q) >>
  BY DEF JudgeAnswer
<1>2. JudgeAnswer("contains", q, pred, verdict) <=> ~Blank(pred) /\ \E i \in DOMAIN pred : pred[i].is = q
  BY DEF JudgeAnswer
<1>3. ASSUME q # "", pred = << Plain(q) >> PROVE ~Blank(pred) /\ \E i \in DOMAIN pred : pred[i].is = q
  <2> DEFINE p == Plain(q)
  <2>1. p.is = q /\ Plain("").is = ""
    BY DEF Plain
  <2> HIDE DEF p
  <2>2. pred = << p >>
    BY <1>3 DEF p
  <2>3. DOMAIN pred = {1} /\ pred[1] = p
    BY <2>2
  <2>4. pred[1] # Plain("")
    BY <1>3, <2>1, <2>3
  <2> QED
    BY <2>1, <2>3, <2>4 DEF Blank
<1> QED
  BY <1>1, <1>2, <1>3

\* The answers found in an output that ends with the gold answer.
LEMMA GoldFound ==
    ASSUME NEW req \in Requests, req.kind \in FencedKinds, NEW out \in Seq(Lines), IsSuffix(Gold(req), out)
    PROVE  LET e == Extract(out, req.kind, Len(req.asked))
           IN  /\ e.block /\ DOMAIN e.answers = 1 .. Len(req.asked)
               /\ \A j \in 1 .. Len(req.asked) : e.answers[j] = << Plain(req.asked[j]) >>
<1> DEFINE n == Len(req.asked)
           block == LastTextBlock(out)
           e == Extract(out, req.kind, n)
<1>1. /\ At(out, "open") # {} /\ block \in Seq(Lines) /\ Len(block) = n /\ n \in Nat
      /\ \A i \in 1 .. n : /\ block[i].at = MarkOf(req.kind) /\ block[i].is = req.asked[i]
                           /\ req.kind # "single" => block[i].no = i
  BY GoldBlock, Zenon
<1>2. e.block /\ e.answers = IF req.kind = "single" THEN << Only(block) >> ELSE Numbered(block, MarkOf(req.kind))
  <2>1. At(out, "open") # {}
    BY <1>1
  <2> QED
    BY <2>1, ExtractIs, Zenon
<1> HIDE DEF e, block
<1>3. CASE req.kind = "single"
  <2>1. n = 1
    BY <1>3 DEF Requests, PackKinds
  <2>2. block[1].at = "Answer" /\ block[1].is = req.asked[1]
    BY <1>1, <1>3, <2>1 DEF MarkOf
  <2>3. Only(block) = << Plain(block[1].is) >>
    BY <1>1, <2>1, <2>2, OnlyOfGold
  <2> DEFINE v == << Plain(block[1].is) >>
  <2>4. e.answers = << v >> /\ v = << Plain(req.asked[1]) >>
    BY <1>2, <1>3, <2>2, <2>3
  <2> HIDE DEF v
  <2>5. DOMAIN e.answers = {1} /\ e.answers[1] = v
    BY <2>4
  <2>6. 1 .. n = {1}
    BY <2>1
  <2> QED
    BY <1>2, <2>4, <2>5, <2>6 DEF e
<1>4. CASE req.kind # "single"
  <2>1. \A i \in 1 .. n : block[i].at = MarkOf(req.kind) /\ block[i].no = i
    BY <1>1, <1>4
  <2> DEFINE mk == MarkOf(req.kind)
             a == Numbered(block, mk)
  <2>2. DOMAIN a = 1 .. n /\ \A j \in 1 .. n : a[j] = << Plain(block[j].is) >>
    <3> HIDE DEF mk
    <3>1. \A i \in 1 .. n : block[i].at = mk /\ block[i].no = i
      BY <2>1 DEF mk
    <3> HIDE DEF n
    <3>2. block \in Seq(Lines) /\ Len(block) = n /\ n \in Nat
      BY <1>1
    <3> QED
      BY <3>1, <3>2, NumberedOfGold
  <2>3. e.answers = a
    BY <1>2, <1>4, Zenon
  <2> HIDE DEF a
  <2>4. \A j \in 1 .. n : block[j].is = req.asked[j]
    BY <1>1
  <2> QED
    BY <1>2, <2>2, <2>3, <2>4, Zenon DEF e
<1> QED
  BY <1>3, <1>4

\* A single answer that matches exactly is what one line of the block says.
LEMMA OnlyIs ==
    ASSUME NEW block \in Seq(Lines), NEW q, Only(block) = << Plain(q) >>
    PROVE  \E b \in 1 .. Len(block) : block[b].is = q
<1> DEFINE marks == At(block, "Answer")
<1>1. marks \subseteq 1 .. Len(block)
  BY DEF At
<1>2. Plain(q).is = q
  BY DEF Plain
<1> HIDE DEF marks
<1>3. CASE marks = {}
  <2>1. block = << Plain(q) >>
    BY <1>3 DEF Only, marks
  <2> DEFINE p == Plain(q)
  <2> HIDE DEF p
  <2>2. Len(block) = 1 /\ block[1] = p
    BY <2>1 DEF p
  <2>3. p.is = q
    BY <1>2 DEF p
  <2> QED
    BY <2>2, <2>3
<1>4. CASE marks # {}
  <2> DEFINE m == Min(marks)
  <2>1. m \in marks
    <3>1. marks \subseteq Nat
      BY <1>1
    <3> QED
      BY <1>4, <3>1, MinOf
  <2>2. << Plain(block[m].is) >> = << Plain(q) >>
    BY <1>4 DEF Only, marks
  <2> HIDE DEF m
  <2>3. Plain(block[m].is) = Plain(q)
    <3> DEFINE x == Plain(block[m].is)
               y == Plain(q)
    <3>1. << x >> = << y >>
      BY <2>2
    <3> HIDE DEF x, y
    <3>2. x = y
      BY <3>1
    <3> QED
      BY <3>2 DEF x, y
  <2>4. Plain(block[m].is).is = block[m].is
    BY DEF Plain
  <2>5. block[m].is = q
    BY <1>2, <2>3, <2>4, Zenon
  <2> QED
    BY <1>1, <2>1, <2>5
<1> QED
  BY <1>3, <1>4

\* What exact match credits stands after the last fence, a numbered answer under its
\* own number.
LEMMA ExactFound ==
    ASSUME NEW req \in Requests, req.kind \in FencedKinds, NEW out \in Seq(Lines), NEW j \in 1 .. Len(req.asked),
           LET e == Extract(out, req.kind, Len(req.asked))
           IN  j \in DOMAIN e.answers /\ e.answers[j] = << Plain(req.asked[j]) >>
    PROVE  \E k \in DOMAIN out : /\ out[k].is = req.asked[j]
                                 /\ req.kind # "single" => out[k].no = j
                                 /\ \A o \in At(out, "open") : o < k
<1> DEFINE e == Extract(out, req.kind, Len(req.asked))
           q == req.asked[j]
           block == LastTextBlock(out)
           from == Max(At(out, "open"))
<1>1. Plain(q).is = q
  BY DEF Plain
<1>2. j \in DOMAIN e.answers /\ e.answers[j] = << Plain(q) >>
  OBVIOUS
<1>3. CASE At(out, "open") = {}
  <2>1. e.answers = << >> \/ (req.kind = "single" /\ e.answers = << out >>)
    BY <1>3, ExtractIs, Zenon
  <2> HIDE DEF e, q
  <2>2. req.kind = "single" /\ e.answers = << out >>
    BY <1>2, <2>1
  <2>3. j = 1 /\ out = << Plain(q) >>
    BY <1>2, <2>2
  <2> DEFINE p == Plain(q)
  <2> HIDE DEF p
  <2>4. 1 \in DOMAIN out /\ out[1] = p
    BY <2>3 DEF p
  <2>5. p.is = q
    BY <1>1 DEF p
  <2> QED
    BY <1>3, <2>2, <2>4, <2>5 DEF q
<1>4. CASE At(out, "open") # {}
  <2>1. /\ from \in At(out, "open") /\ (\A o \in At(out, "open") : o <= from)
        /\ from \in 1 .. Len(out) /\ block \in Seq(Lines)
        /\ \A b \in 1 .. Len(block) : from + b \in 1 .. Len(out) /\ block[b] = out[from + b]
    BY <1>4, LastBlockIs, Zenon
  <2>2. e.answers = IF req.kind = "single" THEN << Only(block) >> ELSE Numbered(block, MarkOf(req.kind))
    BY <1>4, ExtractIs, Zenon
  <2>3. At(out, "open") \subseteq Nat
    BY DEF At
  <2> HIDE DEF e, block, from, q
  <2>4. \E b \in 1 .. Len(block) : block[b].is = q /\ (req.kind # "single" => block[b].no = j)
    <3>1. CASE req.kind = "single"
      <4> DEFINE v == Only(block)
      <4>1. e.answers = << v >>
        BY <2>2, <3>1
      <4> HIDE DEF v
      <4>2. v = << Plain(q) >>
        BY <1>2, <4>1
      <4> QED
        BY <2>1, <3>1, <4>2, OnlyIs DEF v
    <3>2. CASE req.kind # "single"
      <4> DEFINE mk == MarkOf(req.kind)
      <4>1. e.answers = Numbered(block, mk)
        BY <2>2, <3>2
      <4> HIDE DEF mk
      <4>2. j \in DOMAIN Numbered(block, mk) /\ Numbered(block, mk)[j] = << Plain(q) >>
        BY <1>2, <4>1
      <4>3. PICK b, s : Begins(block, mk, j, b, s)
        BY <2>1, <4>2, NumberedIs, Zenon
      <4>4. /\ b \in 1 .. Len(block) /\ s \in Seq(Lines) /\ block[b].no = j
            /\ << Plain(block[b].is) >> \o s = << Plain(q) >>
        BY <4>2, <4>3, Zenon DEF Begins
      <4> DEFINE p == Plain(block[b].is)
                 r == Plain(q)
                 f == << p >>
      <4>5. p \in Lines
        BY <2>1, <4>4, PlainIs
      <4>6. f \o s = << r >>
        BY <4>4
      <4>7. p.is = block[b].is /\ r.is = q
        BY DEF Plain
      <4> HIDE DEF p, r
      <4>8. f \in Seq(Lines) /\ Len(f) = 1 /\ f[1] = p
        BY <4>5
      <4> HIDE DEF f
      <4>9. /\ Len(f \o s) = Len(f) + Len(s)
            /\ \A i \in 1 .. Len(f) + Len(s) : (f \o s)[i] = IF i <= Len(f) THEN f[i] ELSE s[i - Len(f)]
        BY <4>4, <4>8, ConcatProperties
      <4>10. (f \o s)[1] = p
        <5>1. 1 \in 1 .. Len(f) + Len(s) /\ 1 <= Len(f)
          BY <4>4, <4>8
        <5> QED
          BY <4>8, <4>9, <5>1
      <4>11. p = r
        BY <4>6, <4>10
      <4> QED
        BY <4>4, <4>7, <4>11
    <3> QED
      BY <3>1, <3>2
  <2>5. PICK b \in 1 .. Len(block) : block[b].is = q /\ (req.kind # "single" => block[b].no = j)
    BY <2>4
  <2>6. from + b \in DOMAIN out /\ out[from + b] = block[b]
    BY <2>1
  <2>7. \A o \in At(out, "open") : o < from + b
    BY <2>1, <2>3
  <2> QED
    BY <2>5, <2>6, <2>7 DEF q
<1> QED
  BY <1>3, <1>4

\* What is left of a record and a reward: the answers found, and whether each is right.
LEMMA MarksAre ==
    ASSUME NEW c, NEW req \in Requests, NEW out, NEW verdicts
    PROVE  LET e == Extract(out, req.kind, Len(req.asked))
               n == Len(req.asked)
               r == ScoreOne(c, req, out, verdicts)
               full == r.format /\ AllTrue(r.correct)
           IN  /\ n \in Nat
               /\ full <=> /\ Cardinality(DOMAIN e.answers) = n
                           /\ \A j \in 1 .. n : Credit(c.judge, req, e, verdicts, j)
<1> DEFINE e == Extract(out, req.kind, Len(req.asked))
           n == Len(req.asked)
           r == ScoreOne(c, req, out, verdicts)
<1>1. /\ r.raw = out /\ (r.block <=> e.block)
      /\ r.format <=> Cardinality(DOMAIN e.answers) = n
      /\ DOMAIN r.correct = 1 .. n
      /\ \A j \in 1 .. n : r.correct[j] <=> Credit(c.judge, req, e, verdicts, j)
  BY RecordMarks
<1>2. n \in Nat
  BY DEF Requests
<1> HIDE DEF e, r, n
<1>3. AllTrue(r.correct) <=> \A j \in 1 .. n : Credit(c.judge, req, e, verdicts, j)
  BY <1>1, Zenon DEF AllTrue
<1> QED
  BY <1>1, <1>2, <1>3, Zenon DEF e, r, n

\* Full marks in RL are all answers right and none but them, which takes a block.
LEMMA FullReward ==
    ASSUME NEW c, NEW req \in Requests, Len(req.asked) # 0, NEW out, NEW verdicts
    PROVE  LET e == Extract(out, req.kind, Len(req.asked))
               n == Len(req.asked)
               good(j) == j \in DOMAIN e.answers /\ RewardJudge(c.judge, req.asked[j], e.answers[j], verdicts[j])
           IN  ComputeScore(c, req, out, verdicts) = 3 * n <=>
                   e.block /\ Cardinality(DOMAIN e.answers) = n /\ \A j \in 1 .. n : good(j)
<1> DEFINE e == Extract(out, req.kind, Len(req.asked))
           n == Len(req.asked)
           good(j) == j \in DOMAIN e.answers /\ RewardJudge(c.judge, req.asked[j], e.answers[j], verdicts[j])
           w == ComputeScore(c, req, out, verdicts)
           all == \A j \in 1 .. n : good(j)
           D == DOMAIN e.answers
<1>1. n \in Nat /\ n > 0
  BY DEF Requests
<1>2. \E hits \in 0 .. n :
         /\ hits = n <=> all
         /\ w = IF ~e.block \/ D = {} THEN -n
                ELSE 2 * hits + (IF hits = n THEN n ELSE 0) - (IF Cardinality(D) = n THEN 0 ELSE n)
  BY RewardMarks, Zenon
<1>3. D = {} => Cardinality(D) = 0
  BY FS_EmptySet
<1> HIDE DEF e, n, w, all, D
<1>4. PICK hits \in 0 .. n :
         /\ hits = n <=> all
         /\ w = IF ~e.block \/ D = {} THEN -n
                ELSE 2 * hits + (IF hits = n THEN n ELSE 0) - (IF Cardinality(D) = n THEN 0 ELSE n)
  BY <1>2
<1>5. w = 3 * n <=> e.block /\ Cardinality(D) = n /\ all
  <2>1. CASE ~e.block \/ D = {}
    <3>1. w = -n
      BY <1>4, <2>1
    <3>2. w # 3 * n
      BY <1>1, <3>1
    <3>3. ~(e.block /\ Cardinality(D) = n)
      BY <1>1, <1>3, <2>1
    <3> QED
      BY <3>2, <3>3
  <2>2. CASE ~(~e.block \/ D = {})
    <3>1. w = 2 * hits + (IF hits = n THEN n ELSE 0) - (IF Cardinality(D) = n THEN 0 ELSE n)
      BY <1>4, <2>2
    <3>2. w = 3 * n <=> hits = n /\ Cardinality(D) = n
      BY <1>1, <1>4, <3>1
    <3> QED
      BY <1>4, <2>2, <3>2
  <2> QED
    BY <2>1, <2>2
<1> QED
  BY <1>5, Zenon DEF e, n, w, all, D

\* Where no language model judges, RL and evaluation give full marks alike.
LEMMA MarksAlike ==
    ASSUME NEW c, c.judge # "lm", NEW req \in Requests, Len(req.asked) # 0, NEW out, NEW verdicts
    PROVE  LET r == ScoreOne(c, req, out, verdicts)
               full == r.format /\ AllTrue(r.correct)
           IN  ComputeScore(c, req, out, verdicts) = 3 * Len(req.asked) <=> full /\ r.block
<1> DEFINE e == Extract(out, req.kind, Len(req.asked))
           n == Len(req.asked)
           good(j) == j \in DOMAIN e.answers /\ RewardJudge(c.judge, req.asked[j], e.answers[j], verdicts[j])
           r == ScoreOne(c, req, out, verdicts)
           full == r.format /\ AllTrue(r.correct)
           w == ComputeScore(c, req, out, verdicts)
<1>1. \A j : good(j) <=> Credit(c.judge, req, e, verdicts, j)
  BY Zenon DEF RewardJudge, Credit
<1>2. w = 3 * n <=> e.block /\ Cardinality(DOMAIN e.answers) = n /\ \A j \in 1 .. n : good(j)
  BY FullReward, Zenon
<1>3. full <=> Cardinality(DOMAIN e.answers) = n /\ \A j \in 1 .. n : Credit(c.judge, req, e, verdicts, j)
  BY MarksAre, Zenon
<1>4. r.block <=> e.block
  BY RecordMarks, Zenon
<1> HIDE DEF e, n, good, r, w, full
<1> QED
  BY <1>1, <1>2, <1>3, <1>4, Zenon DEF n, r, w, full

\* An output that ends with the gold answer has full marks.
LEMMA MarksOfGold ==
    ASSUME NEW c, c.judge \in {"em", "contains", "lm"}, NEW req \in Requests, req.kind \in FencedKinds,
           Len(req.asked) # 0, NEW out \in Seq(Lines), IsSuffix(Gold(req), out), NEW verdicts
    PROVE  LET r == ScoreOne(c, req, out, verdicts)
           IN  /\ ComputeScore(c, req, out, verdicts) = 3 * Len(req.asked)
               /\ c.judge # "lm" => r.format /\ AllTrue(r.correct)
<1> DEFINE e == Extract(out, req.kind, Len(req.asked))
           n == Len(req.asked)
           good(j) == j \in DOMAIN e.answers /\ RewardJudge(c.judge, req.asked[j], e.answers[j], verdicts[j])
           r == ScoreOne(c, req, out, verdicts)
           full == r.format /\ AllTrue(r.correct)
           w == ComputeScore(c, req, out, verdicts)
<1>1. n \in Nat /\ \A j \in 1 .. n : req.asked[j] # ""
  <2>1. req.asked \in Seq(Asks1)
    BY DEF Requests
  <2>2. n \in Nat /\ \A j \in 1 .. n : req.asked[j] \in Asks1
    BY <2>1
  <2> QED
    BY <2>2 DEF Asks1
<1>2. e.block /\ DOMAIN e.answers = 1 .. n /\ \A j \in 1 .. n : e.answers[j] = << Plain(req.asked[j]) >>
  BY GoldFound
<1>3. w = 3 * n <=> e.block /\ Cardinality(DOMAIN e.answers) = n /\ \A j \in 1 .. n : good(j)
  BY FullReward, Zenon
<1>4. c.judge # "lm" => (w = 3 * n <=> full /\ r.block)
  BY MarksAlike, Zenon
<1> HIDE DEF e, n, r, w, full
<1>5. Cardinality(DOMAIN e.answers) = n
  <2>1. Cardinality(1 .. n) = n
    <3>0. n \in Nat
      BY <1>1, Zenon
    <3>1. n \in Int /\ 1 \in Int /\ (1 > n => n = 0) /\ n - 1 + 1 = n
      BY <3>0
    <3>2. Cardinality(1 .. n) = IF 1 > n THEN 0 ELSE n - 1 + 1
      BY <3>1, FS_Interval, Zenon
    <3> QED
      BY <3>1, <3>2
  <2> QED
    BY <1>2, <2>1
<1>6. ASSUME NEW j \in 1 .. n PROVE good(j)
  <2> DEFINE q == req.asked[j]
             pred == e.answers[j]
  <2>1. q # "" /\ pred = << Plain(q) >> /\ j \in DOMAIN e.answers
    BY <1>1, <1>2
  <2> HIDE DEF q, pred
  <2>2. JudgeAnswer("em", q, pred, verdicts[j]) /\ JudgeAnswer("contains", q, pred, verdicts[j])
    BY <2>1, ExactIs, Zenon
  <2>3. RewardJudge(c.judge, q, pred, verdicts[j])
    BY <2>2 DEF RewardJudge
  <2> QED
    BY <2>1, <2>3, Zenon DEF q, pred
<1>7. w = 3 * n
  BY <1>2, <1>3, <1>5, <1>6, Zenon
<1> QED
  BY <1>4, <1>7, Zenon DEF n, r, w, full

\* What exact match credits is in its place in the output.
LEMMA MarksExact ==
    ASSUME NEW c, c.judge = "em", NEW req \in Requests, req.kind \in FencedKinds,
           NEW out \in Seq(Lines), NEW verdicts, NEW j \in 1 .. Len(req.asked),
           ScoreOne(c, req, out, verdicts).correct[j]
    PROVE  \E k \in DOMAIN out : /\ out[k].is = req.asked[j]
                                 /\ req.kind # "single" => out[k].no = j
                                 /\ \A o \in At(out, "open") : o < k
<1> DEFINE e == Extract(out, req.kind, Len(req.asked))
           r == ScoreOne(c, req, out, verdicts)
<1>1. r.correct[j] <=> Credit(c.judge, req, e, verdicts, j)
  BY RecordMarks, Zenon
<1>2. j \in DOMAIN e.answers /\ JudgeAnswer("em", req.asked[j], e.answers[j], verdicts[j])
  BY <1>1, Zenon DEF Credit
<1>3. e.answers[j] = << Plain(req.asked[j]) >>
  BY <1>2, ExactIs, Zenon
<1> QED
  BY <1>2, <1>3, ExactFound, Zenon

\* Every output of a run is of a request of the test set.
LEMMA OutputsAre ==
    ASSUME Scored, NEW i \in 1 .. Len(records)
    PROVE  /\ requests[i] \in Requests /\ Len(requests[i].asked) # 0
           /\ Outputs(requests[i]) \subseteq Seq(Lines)
           /\ cfg.judge \in {"em", "contains", "lm"}
<1>1. /\ MaxPack \in Nat \ {0} /\ cfg.kind \in Kinds /\ cfg.limit \in Nat /\ IsTestSet(RowsOf(cfg))
      /\ cfg.judge \in {"em", "contains", "lm"} /\ requests = MaterializeRequests(cfg)
      /\ \A req \in ToSet(MaterializeRequests(cfg)) : Outputs(req) \subseteq Seq(Lines)
  BY ScoringAssumption DEF Scored, Materialized
<1>2. requests \in Seq(Requests) /\ AsksWanted(cfg, requests)
  BY <1>1, MaterializedAre
<1>3. Len(records) \in Nat /\ Len(records) <= Len(requests) /\ Len(requests) \in Nat
  BY <1>2 DEF Scored, IsList
<1>4. i \in 1 .. Len(requests) /\ DOMAIN requests = 1 .. Len(requests)
  BY <1>2, <1>3
<1>5. requests[i] \in Requests /\ requests[i] \in ToSet(requests)
  BY <1>2, <1>4 DEF ToSet
<1>6. Len(requests[i].asked) \in 1 .. MaxPack
  BY <1>2, <1>4 DEF AsksWanted
<1> QED
  BY <1>1, <1>5, <1>6

\* The marks of every output of a run.
LEMMA ScoredMarkOutputs == Scored => OutputMarks
<1> SUFFICES ASSUME Scored, NEW i \in DOMAIN records,
                    records[i] # Failed, requests[i].kind \in {"single", "multi", "ttl"}
             PROVE  LET r == records[i]
                        req == requests[i]
                        n == Len(req.asked)
                        full == r.format /\ AllTrue(r.correct)
                    IN  /\ IsSuffix(Gold(req), r.raw) => rewards[i] = 3 * n /\ (cfg.judge # "lm" => full)
                        /\ cfg.judge = "em" => \A j \in DOMAIN req.asked :
                              r.correct[j] => \E k \in DOMAIN r.raw :
                                  /\ r.raw[k].is = req.asked[j]
                                  /\ req.kind # "single" => r.raw[k].no = j
                                  /\ \A o \in At(r.raw, "open") : o < k
                        /\ cfg.judge # "lm" => (rewards[i] = 3 * n <=> full /\ r.block)
  BY Zenon DEF OutputMarks
<1> DEFINE r == records[i]
           req == requests[i]
<1>1. i \in 1 .. Len(records)
  BY DEF Scored, IsList
<1>2. req \in Requests /\ Len(req.asked) # 0 /\ Outputs(req) \subseteq Seq(Lines)
      /\ cfg.judge \in {"em", "contains", "lm"}
  BY <1>1, OutputsAre
<1>3. Earned(i)
  BY <1>1 DEF Scored
<1>4. PICK out \in Outputs(req), verdicts \in Verdicts(cfg.judge) : EarnedBy(i, out, verdicts)
  BY <1>3 DEF Earned
<1>5. r = ScoreOne(cfg, req, out, verdicts) /\ rewards[i] = ComputeScore(cfg, req, out, verdicts)
  BY <1>4 DEF EarnedBy
<1>6. out \in Seq(Lines) /\ req.kind \in FencedKinds
  BY <1>2, <1>4 DEF FencedKinds
<1> DEFINE n == Len(req.asked)
           full == r.format /\ AllTrue(r.correct)
<1> HIDE DEF req
<1>7. r.raw = out
  <2>1. ScoreOne(cfg, req, out, verdicts).raw = out
    BY <1>2, RecordMarks
  <2> QED
    BY <1>5, <2>1
<1>8. DOMAIN req.asked = 1 .. n
  BY <1>2 DEF Requests
<1> DEFINE s == ScoreOne(cfg, req, out, verdicts)
           w == ComputeScore(cfg, req, out, verdicts)
<1>9. IsSuffix(Gold(req), out) => rewards[i] = 3 * n /\ (cfg.judge # "lm" => full)
  <2>1. IsSuffix(Gold(req), out) => w = 3 * n /\ (cfg.judge # "lm" => s.format /\ AllTrue(s.correct))
    BY <1>2, <1>6, MarksOfGold
  <2> HIDE DEF s, w
  <2> QED
    BY <1>5, <2>1 DEF s, w
<1>10. ASSUME cfg.judge = "em", NEW j \in 1 .. n, r.correct[j]
       PROVE  \E k \in DOMAIN out : /\ out[k].is = req.asked[j]
                                    /\ req.kind # "single" => out[k].no = j
                                    /\ \A o \in At(out, "open") : o < k
  <2>1. s.correct[j]
    BY <1>5, <1>10
  <2> QED
    BY <1>2, <1>6, <1>10, <2>1, MarksExact
<1>11. cfg.judge # "lm" => (rewards[i] = 3 * n <=> full /\ r.block)
  <2>1. cfg.judge # "lm" => (w = 3 * n <=> (s.format /\ AllTrue(s.correct)) /\ s.block)
    BY <1>2, MarksAlike
  <2> HIDE DEF s, w
  <2> QED
    BY <1>5, <2>1 DEF s, w
<1> HIDE DEF r, full
<1> QED
  BY <1>7, <1>8, <1>9, <1>10, <1>11, Zenon DEF r, req, full

\* An output that ends as SFT trains has full marks, exact match credits only what
\* stands in its place, RL and evaluation agree on full marks, and a test set has them
\* exactly when all its questions are right: whatever the models answer.
THEOREM FullMarksGiven == ScoringSpec => []FullMarks
<1>1. Scored => FullMarks
  BY ScoredMarkOutputs, ScoredMarkGroups DEF FullMarks
<1> QED
  BY <1>1, ScoredInv, PTL
====

---- MODULE Lists_proofs ----
(***************************************************************************)
(* What the proofs of several components keep needing: division, the least  *)
(* and the largest of a set of numbers, iteration along a list, and what    *)
(* Total, Offset and FlattenSeq return.                                     *)
(***************************************************************************)
EXTENDS Lists, FiniteSetTheorems, SequenceTheorems, FunctionTheorems, WellFoundedInduction, TLAPS

-----------------------------------------------------------------------------
\* Numbers.

\* Multiplication is monotone.
LEMMA MulMono ==
    ASSUME NEW a \in Int, NEW b \in Int, NEW k \in Nat, a <= b
    PROVE  k * a <= k * b
<1>1. (b - a) \in Nat
  OBVIOUS
<1>2. k * (b - a) \in Nat
  BY <1>1
<1>3. k * (b - a) = k * b - k * a
  OBVIOUS
<1>4. k * a \in Int /\ k * b \in Int
  OBVIOUS
<1> QED
  BY <1>2, <1>3, <1>4

\* Division by a positive number.
LEMMA Division ==
    ASSUME NEW a \in Int, NEW k \in Nat \ {0}
    PROVE  /\ a \div k \in Int
           /\ k * (a \div k) <= a
           /\ a < k * (a \div k) + k
           /\ a \in Nat => a \div k \in Nat
<1>1. a = k * (a \div k) + (a % k) /\ a \div k \in Int /\ (a % k) \in 0 .. k - 1
  OBVIOUS
<1>2. k * (a \div k) \in Int
  BY <1>1
<1>3. a \in Nat => a \div k \in Nat
  OBVIOUS
<1> QED
  BY <1>1, <1>2, <1>3

\* An order between multiples is one between the factors.
LEMMA MulCancel ==
    ASSUME NEW a \in Int, NEW b \in Int, NEW k \in Nat \ {0}, k * a < k * b
    PROVE  a < b
<1> SUFFICES ASSUME b <= a PROVE FALSE
  OBVIOUS
<1>1. k * b <= k * a
  BY MulMono
<1>2. k * a \in Int /\ k * b \in Int
  OBVIOUS
<1> QED
  BY <1>1, <1>2

\* Quotient and remainder are known by their bounds.
LEMMA DivisionUnique ==
    ASSUME NEW k \in Nat \ {0}, NEW q \in Int, NEW m \in 0 .. k - 1
    PROVE  (k * q + m) \div k = q /\ (k * q + m) % k = m
<1> DEFINE a == k * q + m
           d == a \div k
           e == a % k
<1>0. k * q \in Int
  OBVIOUS
<1>1. a \in Int
  BY <1>0
<1>2. d \in Int /\ a = k * d + e /\ e \in 0 .. k - 1
  BY <1>1
<1>3. a = k * q + m
  OBVIOUS
<1> HIDE DEF d, e, a
<1>4. k * d \in Int /\ k * (q + 1) = k * q + k /\ k * (d + 1) = k * d + k
  BY <1>2
<1>5. k * q < k * (d + 1) /\ k * d < k * (q + 1)
  BY <1>0, <1>2, <1>3, <1>4
<1>6. q < d + 1 /\ d < q + 1
  BY <1>2, <1>5, MulCancel
<1>7. q = d
  BY <1>2, <1>6
<1> QED
  BY <1>0, <1>2, <1>3, <1>4, <1>7 DEF d, e, a

\* Smallest and largest elements.
LEMMA MinOf ==
    ASSUME NEW T, T \subseteq Nat, T # {}
    PROVE  Min(T) \in T /\ \A x \in T : Min(T) <= x
<1>1. PICK k \in T : \A j \in T : <<j, k>> \notin OpToRel(<, Nat)
  BY WFMin, NatLessThanWellFounded
<1>2. ASSUME NEW j \in T PROVE k <= j
  <2>1. ~(j < k)
    BY <1>1 DEF OpToRel
  <2> QED
    BY <2>1
<1> QED
  BY <1>2, Zenon DEF Min

\* A bounded set of numbers has a maximum.
LEMMA MaxOf ==
    ASSUME NEW T, T \subseteq Nat, T # {}, NEW n \in Nat, \A x \in T : x <= n
    PROVE  Max(T) \in T /\ \A x \in T : x <= Max(T)
<1> DEFINE U == {m \in Nat : \A x \in T : x <= m}
           m == Min(U)
<1>1. U \subseteq Nat /\ n \in U
  OBVIOUS
<1>2. m \in U /\ \A y \in U : m <= y
  BY <1>1, MinOf
<1>3. m \in T
  <2> SUFFICES ASSUME m \notin T PROVE FALSE
    OBVIOUS
  <2>0. m \in Nat /\ \A x \in T : x <= m
    BY <1>2
  <2> HIDE DEF m
  <2>1. \A x \in T : x < m
    BY <2>0
  <2>2. PICK x \in T : TRUE
    OBVIOUS
  <2>3. m - 1 \in Nat /\ \A y \in T : y <= m - 1
    BY <2>0, <2>1, <2>2
  <2> QED
    BY <1>2, <2>0, <2>3
<1>4. \A x \in T : m >= x
  BY <1>2
<1> HIDE DEF m
<1>5. Max(T) \in T /\ \A x \in T : Max(T) >= x
  BY <1>3, <1>4, Zenon DEF Max
<1>6. \A x \in T : x \in Nat
  OBVIOUS
<1> QED
  BY <1>5, <1>6

-----------------------------------------------------------------------------
\* Induction up to a bound, and the functions defined by it.

\* A set of numbers that holds 0 and with a number its successor holds all.
LEMMA UpTo ==
    ASSUME NEW n \in Nat, NEW T, 0 \in T, \A k \in 0 .. n - 1 : k \in T => k + 1 \in T
    PROVE  \A k \in 0 .. n : k \in T
<1> DEFINE bad == {k \in 0 .. n : k \notin T}
           m == Min(bad)
<1> SUFFICES ASSUME bad # {} PROVE FALSE
  OBVIOUS
<1>1. bad \subseteq Nat
  OBVIOUS
<1>2. m \in bad /\ \A x \in bad : m <= x
  BY <1>1, MinOf
<1> HIDE DEF m
<1>3. m \in 1 .. n /\ m - 1 \in 0 .. n - 1
  BY <1>2
<1>4. m - 1 \notin bad
  BY <1>2, <1>3
<1>5. m - 1 \in T
  BY <1>3, <1>4
<1>6. (m - 1) + 1 \in T
  BY <1>3, <1>5
<1> QED
  BY <1>2, <1>3, <1>6

\* f iterates a step n times from a base.
IsIteration(f, n, V, base, next) ==
    /\ f \in [0 .. n -> V]
    /\ f[0] = base
    /\ \A j \in 1 .. n : f[j] = next[<<j, f[j - 1]>>]

\* A step can be iterated.
LEMMA Iterates ==
    ASSUME NEW n \in Nat, NEW V, NEW base \in V, NEW next \in [(1 .. n) \X V -> V]
    PROVE  \E f : IsIteration(f, n, V, base, next)
<1> DEFINE Good(k, f) ==
        /\ f \in [0 .. k -> V]
        /\ f[0] = base
        /\ \A j \in 1 .. k : f[j] = next[<<j, f[j - 1]>>]
           T == {k \in 0 .. n : \E f : Good(k, f)}
<1>1. 0 \in T
  <2> DEFINE f == [j \in 0 .. 0 |-> base]
  <2>1. f \in [0 .. 0 -> V] /\ f[0] = base /\ \A j \in 1 .. 0 : FALSE
    OBVIOUS
  <2>2. Good(0, f)
    BY <2>1
  <2> HIDE DEF f
  <2>3. \E g : Good(0, g)
    BY <2>2
  <2> QED
    BY <2>3
<1>2. ASSUME NEW k \in 0 .. n - 1, k \in T PROVE k + 1 \in T
  <2>1. PICK g : Good(k, g)
    BY <1>2
  <2> DEFINE f == [j \in 0 .. k + 1 |-> IF j = k + 1 THEN next[<<k + 1, g[k]>>] ELSE g[j]]
  <2>0. k + 1 \in 1 .. n /\ k \in 0 .. k
    OBVIOUS
  <2>2. <<k + 1, g[k]>> \in (1 .. n) \X V
    BY <2>0, <2>1
  <2>3. next[<<k + 1, g[k]>>] \in V
    BY <2>2
  <2>4. f \in [0 .. k + 1 -> V]
    <3>1. ASSUME NEW j \in 0 .. k + 1, j # k + 1 PROVE g[j] \in V
      <4>1. j \in 0 .. k
        BY <3>1
      <4> QED
        BY <2>1, <4>1
    <3> QED
      BY <2>3, <3>1
  <2>5. f[0] = base
    BY <2>1
  <2>6. ASSUME NEW j \in 1 .. k + 1 PROVE f[j] = next[<<j, f[j - 1]>>]
    <3>1. CASE j = k + 1
      <4>1. f[j - 1] = g[k] /\ f[j] = next[<<k + 1, g[k]>>]
        BY <3>1
      <4> QED
        BY <3>1, <4>1
    <3>2. CASE j # k + 1
      <4>1. j \in 1 .. k /\ f[j] = g[j] /\ f[j - 1] = g[j - 1]
        BY <3>2
      <4> QED
        BY <2>1, <4>1
    <3> QED
      BY <3>1, <3>2
  <2>7. Good(k + 1, f)
    BY <2>4, <2>5, <2>6
  <2> HIDE DEF f
  <2> QED
    BY <2>0, <2>7
<1> HIDE DEF T
<1>3. n \in T
  BY <1>1, <1>2, UpTo
<1>4. PICK f : Good(n, f)
  BY <1>3 DEF T
<1> QED
  BY <1>4 DEF IsIteration

-----------------------------------------------------------------------------
\* Sums and flattened sequences.

\* The tokens before a document of a pack, one document after the other.
LEMMA OffsetIs ==
    ASSUME NEW docs, Len(docs) \in Nat, \A j \in 1 .. Len(docs) : docs[j].len \in Nat
    PROVE  /\ \A i \in 1 .. Len(docs) + 1 : Offset(docs, i) \in Nat
           /\ Offset(docs, 1) = 0
           /\ \A i \in 1 .. Len(docs) : Offset(docs, i + 1) = Offset(docs, i) + docs[i].len
<1> DEFINE n == Len(docs)
           next == [x \in (1 .. n) \X Nat |-> x[2] + docs[x[1]].len]
           IsUpTo(f) == f = [j \in 0 .. n |-> IF j = 0 THEN 0 ELSE f[j - 1] + docs[j].len]
           upTo == CHOOSE f : IsUpTo(f)
<1>0. n \in Nat /\ 0 \in Nat
  OBVIOUS
<1>1. next \in [(1 .. n) \X Nat -> Nat]
  OBVIOUS
<1> HIDE DEF next
<1>2. PICK f : IsIteration(f, n, Nat, 0, next)
  BY <1>0, <1>1, Iterates, Zenon
<1>3. f \in [0 .. n -> Nat] /\ f[0] = 0 /\ \A j \in 1 .. n : f[j] = next[<<j, f[j - 1]>>]
  BY <1>2 DEF IsIteration
<1>4. ASSUME NEW j \in 0 .. n PROVE f[j] = IF j = 0 THEN 0 ELSE f[j - 1] + docs[j].len
  <2>1. CASE j = 0
    BY <1>3, <2>1
  <2>2. CASE j # 0
    <3>1. j \in 1 .. n /\ j - 1 \in 0 .. n
      BY <1>0, <2>2
    <3>2. f[j - 1] \in Nat
      BY <1>3, <3>1
    <3>3. <<j, f[j - 1]>> \in (1 .. n) \X Nat
      BY <3>1, <3>2
    <3>4. next[<<j, f[j - 1]>>] = f[j - 1] + docs[j].len
      BY <3>3 DEF next
    <3> QED
      BY <1>3, <2>2, <3>1, <3>4
  <2> QED
    BY <2>1, <2>2
<1>5. IsUpTo(f)
  <2>1. f = [j \in 0 .. n |-> f[j]]
    BY <1>3
  <2> QED
    BY <1>4, <2>1, Zenon
<1>6. IsUpTo(upTo)
  BY <1>5
<1>7. \A i : Offset(docs, i) = upTo[i - 1]
  BY DEF Offset
<1> HIDE DEF upTo
<1>8. upTo[0] = 0 /\ \A j \in 1 .. n : upTo[j] = upTo[j - 1] + docs[j].len
  BY <1>6
<1>9. \A j \in 0 .. n : upTo[j] \in Nat
  <2> DEFINE T == {j \in 0 .. n : upTo[j] \in Nat}
  <2>1. 0 \in T
    BY <1>8
  <2>2. ASSUME NEW k \in 0 .. n - 1, k \in T PROVE k + 1 \in T
    <3>1. k + 1 \in 1 .. n /\ (k + 1) - 1 = k
      OBVIOUS
    <3>2. upTo[k + 1] = upTo[k] + docs[k + 1].len
      BY <1>8, <3>1
    <3> QED
      BY <2>2, <3>1, <3>2
  <2> HIDE DEF T
  <2>3. \A k \in 0 .. n : k \in T
    BY <2>1, <2>2, UpTo
  <2> QED
    BY <2>3 DEF T
<1>10. ASSUME NEW i \in 1 .. n PROVE Offset(docs, i + 1) = Offset(docs, i) + docs[i].len
  <2>1. Offset(docs, i + 1) = upTo[i] /\ Offset(docs, i) = upTo[i - 1]
    BY <1>7
  <2> QED
    BY <1>8, <2>1
<1>11. ASSUME NEW i \in 1 .. n + 1 PROVE Offset(docs, i) \in Nat
  <2>1. i - 1 \in 0 .. n
    OBVIOUS
  <2> QED
    BY <1>7, <1>9, <2>1
<1>12. Offset(docs, 1) = 0
  BY <1>7, <1>8
<1> QED
  BY <1>10, <1>11, <1>12

\* The sum of a sequence, through its running sums.
LEMMA TotalIs ==
    ASSUME NEW s \in Seq(Nat)
    PROVE  \E f \in [0 .. Len(s) -> Nat] :
              /\ f[0] = 0
              /\ \A j \in 1 .. Len(s) : f[j] = f[j - 1] + s[j]
              /\ Total(s) = f[Len(s)]
<1> DEFINE n == Len(s)
           next == [x \in (1 .. n) \X Nat |-> x[2] + s[x[1]]]
           IsUpTo(f) == f = [k \in 0 .. n |-> IF k = 0 THEN 0 ELSE f[k - 1] + s[k]]
           upTo == CHOOSE f : IsUpTo(f)
<1>0. n \in Nat /\ \A j \in 1 .. n : s[j] \in Nat
  OBVIOUS
<1>1. next \in [(1 .. n) \X Nat -> Nat]
  BY <1>0
<1> HIDE DEF next
<1>2. PICK f : IsIteration(f, n, Nat, 0, next)
  <2>1. n \in Nat /\ 0 \in Nat
    BY <1>0
  <2> QED
    BY <1>1, <2>1, Iterates, Zenon
<1>3. f \in [0 .. n -> Nat] /\ f[0] = 0 /\ \A j \in 1 .. n : f[j] = next[<<j, f[j - 1]>>]
  BY <1>2 DEF IsIteration
<1>4. ASSUME NEW j \in 0 .. n PROVE f[j] = IF j = 0 THEN 0 ELSE f[j - 1] + s[j]
  <2>1. CASE j = 0
    BY <1>3, <2>1
  <2>2. CASE j # 0
    <3>1. j \in 1 .. n /\ j - 1 \in 0 .. n
      BY <1>0, <2>2
    <3>2. f[j - 1] \in Nat
      BY <1>3, <3>1
    <3>3. <<j, f[j - 1]>> \in (1 .. n) \X Nat
      BY <3>1, <3>2
    <3>4. next[<<j, f[j - 1]>>] = f[j - 1] + s[j]
      BY <3>3 DEF next
    <3> QED
      BY <1>3, <2>2, <3>1, <3>4
  <2> QED
    BY <2>1, <2>2
<1>5. IsUpTo(f)
  <2>1. f = [j \in 0 .. n |-> f[j]]
    BY <1>3
  <2> QED
    BY <1>4, <2>1, Zenon
<1>6. IsUpTo(upTo)
  BY <1>5
<1>7. Total(s) = upTo[n]
  BY DEF Total
<1> HIDE DEF upTo
<1>8. upTo[0] = 0 /\ \A j \in 1 .. n : upTo[j] = upTo[j - 1] + s[j]
  BY <1>0, <1>6
<1>9. \A j \in 0 .. n : upTo[j] \in Nat
  <2> DEFINE T == {j \in 0 .. n : upTo[j] \in Nat}
  <2>1. 0 \in T
    BY <1>0, <1>8
  <2>2. ASSUME NEW k \in 0 .. n - 1, k \in T PROVE k + 1 \in T
    <3>1. k + 1 \in 1 .. n /\ (k + 1) - 1 = k
      BY <1>0
    <3>2. upTo[k + 1] = upTo[k] + s[k + 1]
      BY <1>8, <3>1
    <3> QED
      BY <1>0, <2>2, <3>1, <3>2
  <2> HIDE DEF T
  <2>3. \A k \in 0 .. n : k \in T
    BY <1>0, <2>1, <2>2, UpTo
  <2> QED
    BY <2>3 DEF T
<1>10. upTo \in [0 .. n -> Nat]
  BY <1>6, <1>9
<1> QED
  BY <1>7, <1>8, <1>10

\* A sum of numbers is a number.
LEMMA TotalNat ==
    ASSUME NEW s \in Seq(Nat)
    PROVE  Total(s) \in Nat
<1>1. PICK f \in [0 .. Len(s) -> Nat] :
         /\ f[0] = 0
         /\ \A j \in 1 .. Len(s) : f[j] = f[j - 1] + s[j]
         /\ Total(s) = f[Len(s)]
  BY TotalIs
<1> QED
  BY <1>1

\* Flattening, through the sequences flattened so far.
LEMMA FlattenIs ==
    ASSUME NEW S, NEW parts \in Seq(Seq(S))
    PROVE  \E f \in [0 .. Len(parts) -> Seq(S)] :
              /\ f[0] = << >>
              /\ \A j \in 1 .. Len(parts) : f[j] = f[j - 1] \o parts[j]
              /\ FlattenSeq(parts) = f[Len(parts)]
<1> DEFINE n == Len(parts)
           V == Seq(S)
<1>0. n \in Nat /\ (\A j \in 1 .. n : parts[j] \in V) /\ << >> \in V
  OBVIOUS
<1>1. CASE n = 0
  <2>1. parts = << >>
    BY <1>1
  <2>2. FlattenSeq(parts) = << >>
    BY <1>1, <2>1 DEF FlattenSeq
  <2> DEFINE f == [j \in 0 .. n |-> << >>]
  <2>3. f \in [0 .. n -> V] /\ f[0] = << >> /\ f[n] = << >> /\ 1 .. n = {}
    BY <1>1
  <2> HIDE DEF f
  <2> QED
    BY <2>2, <2>3
<1>2. CASE n # 0
  <2> DEFINE next == [x \in (1 .. n) \X V |-> x[2] \o parts[x[1]]]
             IsFlat(f) == f = [i \in 1 .. n |-> IF i = 1 THEN parts[i] ELSE f[i - 1] \o parts[i]]
             flat == CHOOSE f : IsFlat(f)
  <2>1. next \in [(1 .. n) \X V -> V]
    <3>1. ASSUME NEW x \in (1 .. n) \X V PROVE x[2] \o parts[x[1]] \in V
      <4>1. x[2] \in Seq(S) /\ parts[x[1]] \in Seq(S)
        BY <1>0
      <4> QED
        BY <4>1, ConcatProperties
    <3> QED
      BY <3>1
  <2> HIDE DEF next
  <2>2. PICK f : IsIteration(f, n, V, << >>, next)
    BY <1>0, <2>1, Iterates, Zenon
  <2>3. f \in [0 .. n -> V] /\ f[0] = << >> /\ \A j \in 1 .. n : f[j] = next[<<j, f[j - 1]>>]
    BY <2>2 DEF IsIteration
  <2> HIDE DEF V
  <2>4. ASSUME NEW j \in 1 .. n PROVE f[j] = f[j - 1] \o parts[j]
    <3>1. j - 1 \in 0 .. n
      BY <1>0
    <3>2. f[j - 1] \in V
      BY <2>3, <3>1
    <3>3. <<j, f[j - 1]>> \in (1 .. n) \X V
      BY <3>2
    <3>4. next[<<j, f[j - 1]>>] = f[j - 1] \o parts[j]
      BY <3>3 DEF next
    <3> QED
      BY <2>3, <3>4
  <2>5. f[0] = << >>
    BY <2>3
  <2>6. f[1] = parts[1]
    <3>1. 1 \in 1 .. n
      BY <1>0, <1>2
    <3>2. f[1] = f[1 - 1] \o parts[1]
      BY <2>4, <3>1, Zenon
    <3>3. 1 - 1 = 0
      OBVIOUS
    <3> QED
      <4>1. parts[1] \in Seq(S)
        BY <1>0, <3>1 DEF V
      <4>2. << >> \o parts[1] = parts[1]
        BY <4>1, ConcatEmptySeq
      <4> QED
        BY <2>5, <3>2, <3>3, <4>2
  <2> DEFINE h == [i \in 1 .. n |-> f[i]]
  <2>7. IsFlat(h)
    <3>1. ASSUME NEW i \in 1 .. n
          PROVE  h[i] = IF i = 1 THEN parts[i] ELSE h[i - 1] \o parts[i]
      <4>1. CASE i = 1
        BY <2>6, <4>1
      <4>2. CASE i # 1
        <5>1. i - 1 \in 1 .. n
          BY <1>0, <4>2
        <5> QED
          BY <2>4, <4>2, <5>1
      <4> QED
        BY <4>1, <4>2
    <3>2. h = [i \in 1 .. n |-> h[i]]
      OBVIOUS
    <3> HIDE DEF h
    <3> QED
      BY <3>1, <3>2
  <2> HIDE DEF h
  <2>8. IsFlat(flat)
    BY <2>7
  <2>9. FlattenSeq(parts) = flat[n]
    BY <1>0, <1>2 DEF FlattenSeq
  <2> HIDE DEF flat
  <2> DEFINE g == [j \in 0 .. n |-> IF j = 0 THEN << >> ELSE flat[j]]
             T == {j \in 0 .. n : g[j] = f[j]}
  <2>10. 0 \in T
    BY <1>0, <2>5
  <2>11. ASSUME NEW k \in 0 .. n - 1, k \in T PROVE k + 1 \in T
    <3>1. k + 1 \in 1 .. n /\ (k + 1) - 1 = k /\ g[k] = f[k]
      BY <1>0, <2>11
    <3>2. g[k + 1] = flat[k + 1]
      BY <3>1
    <3>3. CASE k = 0
      BY <2>6, <2>8, <3>1, <3>2, <3>3
    <3>4. CASE k # 0
      <4>0. k + 1 # 1
        BY <1>0, <3>4
      <4>1. flat[k + 1] = flat[k] \o parts[k + 1]
        BY <2>8, <3>1, <4>0
      <4>2. flat[k] = f[k]
        BY <3>1, <3>4
      <4>3. f[k + 1] = f[k] \o parts[k + 1]
        BY <2>4, <3>1
      <4>4. flat[k + 1] = f[k + 1]
        BY <4>1, <4>2, <4>3
      <4> HIDE DEF g
      <4> QED
        BY <1>0, <3>1, <3>2, <4>4 DEF T
    <3> QED
      BY <3>3, <3>4
  <2> HIDE DEF T
  <2>12. \A k \in 0 .. n : k \in T
    BY <1>0, <2>10, <2>11, UpTo
  <2>13. g[n] = f[n] /\ g[n] = flat[n]
    BY <1>0, <1>2, <2>12 DEF T
  <2> HIDE DEF g
  <2> QED
    BY <2>3, <2>4, <2>5, <2>9, <2>13 DEF V
<1> QED
  BY <1>1, <1>2

\* Documents follow each other without overlap.
LEMMA OffsetMono ==
    ASSUME NEW docs, Len(docs) \in Nat, \A j \in 1 .. Len(docs) : docs[j].len \in Nat,
           NEW i \in 1 .. Len(docs), NEW k \in i + 1 .. Len(docs) + 1
    PROVE  Offset(docs, i) + docs[i].len <= Offset(docs, k)
<1> DEFINE n == Len(docs) + 1 - (i + 1)
           T == {d \in 0 .. n : Offset(docs, i) + docs[i].len <= Offset(docs, i + 1 + d)}
<1>0. n \in Nat /\ i \in Nat
  OBVIOUS
<1>1. 0 \in T
  <2>1. Offset(docs, i + 1) = Offset(docs, i) + docs[i].len /\ Offset(docs, i + 1) \in Nat
    BY OffsetIs
  <2>2. i + 1 + 0 = i + 1
    OBVIOUS
  <2> QED
    BY <1>0, <2>1, <2>2
<1>2. ASSUME NEW d \in 0 .. n - 1, d \in T PROVE d + 1 \in T
  <2>1. i + 1 + d \in 1 .. Len(docs) /\ i + 1 + (d + 1) = (i + 1 + d) + 1
        /\ i + 1 + d \in 1 .. Len(docs) + 1
    BY <1>0
  <2>2. /\ Offset(docs, (i + 1 + d) + 1) = Offset(docs, i + 1 + d) + docs[i + 1 + d].len
        /\ Offset(docs, i + 1 + d) \in Nat /\ docs[i + 1 + d].len \in Nat
    BY <2>1, OffsetIs
  <2>3. Offset(docs, i) \in Nat /\ docs[i].len \in Nat
    BY OffsetIs, SMTT(30)
  <2>4. Offset(docs, i) + docs[i].len <= Offset(docs, i + 1 + d)
    BY <1>2
  <2>5. Offset(docs, i + 1 + (d + 1)) = Offset(docs, (i + 1 + d) + 1)
    BY <2>1
  <2>6. Offset(docs, i) + docs[i].len <= Offset(docs, (i + 1 + d) + 1)
    <3> DEFINE a == Offset(docs, (i + 1 + d) + 1)
               b == Offset(docs, i + 1 + d)
               c == docs[i + 1 + d].len
    <3>1. a = b + c /\ b \in Nat /\ c \in Nat /\ Offset(docs, i) + docs[i].len <= b
      BY <2>2, <2>4, Zenon
    <3> HIDE DEF a, b, c
    <3>2. Offset(docs, i) + docs[i].len <= a
      BY <2>3, <3>1
    <3> QED
      BY <3>2 DEF a
  <2>7. d + 1 \in 0 .. n
    BY <1>0
  <2>8. Offset(docs, i) + docs[i].len <= Offset(docs, i + 1 + (d + 1))
    BY <2>5, <2>6, Zenon
  <2> QED
    BY <2>7, <2>8
<1> HIDE DEF T
<1>3. \A d \in 0 .. n : d \in T
  BY <1>0, <1>1, <1>2, UpTo
<1>4. k - (i + 1) \in 0 .. n /\ i + 1 + (k - (i + 1)) = k
  BY <1>0
<1>5. k - (i + 1) \in T
  BY <1>3, <1>4
<1> QED
  BY <1>4, <1>5 DEF T

\* Every place of a row is a token of one document.
LEMMA PlaceIn ==
    ASSUME NEW docs, Len(docs) \in Nat, \A j \in 1 .. Len(docs) : docs[j].len \in Nat,
           NEW q \in 1 .. Used(docs)
    PROVE  \E i \in 1 .. Len(docs) : \E t \in 1 .. docs[i].len : q = Offset(docs, i) + t
<1> DEFINE n == Len(docs)
           T == {i \in Nat : i \in 1 .. n + 1 /\ q <= Offset(docs, i)}
           m == Min(T)
<1>0. /\ \A i \in 1 .. n + 1 : Offset(docs, i) \in Nat
      /\ Offset(docs, 1) = 0
      /\ \A i \in 1 .. n : Offset(docs, i + 1) = Offset(docs, i) + docs[i].len
  BY OffsetIs
<1>1. n + 1 \in T
  BY DEF Used
<1>2. m \in T /\ \A x \in T : m <= x
  BY <1>1, MinOf
<1> HIDE DEF m
<1>3. m \in 2 .. n + 1
  BY <1>0, <1>2
<1>4. m - 1 \in 1 .. n /\ (m - 1) + 1 = m
  BY <1>3
<1>5. m - 1 \notin T
  BY <1>2, <1>3
<1>6. Offset(docs, m - 1) < q
  BY <1>0, <1>4, <1>5
<1>7. Offset(docs, m) = Offset(docs, m - 1) + docs[m - 1].len
  BY <1>0, <1>4
<1>8. q - Offset(docs, m - 1) \in 1 .. docs[m - 1].len
      /\ q = Offset(docs, m - 1) + (q - Offset(docs, m - 1))
  <2> DEFINE a == Offset(docs, m - 1)
             b == Offset(docs, m)
             c == docs[m - 1].len
  <2>1. a \in Nat /\ b \in Nat /\ c \in Nat
    BY <1>0, <1>3, <1>4
  <2>2. a < q /\ q <= b /\ b = a + c
    BY <1>2, <1>6, <1>7
  <2>3. q \in Int
    BY <1>0 DEF Used
  <2> HIDE DEF a, b, c
  <2>4. q - a \in 1 .. c /\ q = a + (q - a)
    BY <2>1, <2>2, <2>3
  <2> QED
    BY <2>4 DEF a, c
<1> QED
  BY <1>4, <1>8

\* And of no other.
LEMMA PlaceUnique ==
    ASSUME NEW docs, Len(docs) \in Nat, \A j \in 1 .. Len(docs) : docs[j].len \in Nat
    PROVE  \A i, k \in 1 .. Len(docs) : \A t \in 1 .. docs[i].len : \A u \in 1 .. docs[k].len :
              Offset(docs, i) + t = Offset(docs, k) + u => i = k /\ t = u
<1> SUFFICES ASSUME NEW i \in 1 .. Len(docs), NEW k \in 1 .. Len(docs),
                    NEW t \in 1 .. docs[i].len, NEW u \in 1 .. docs[k].len,
                    Offset(docs, i) + t = Offset(docs, k) + u
             PROVE  i = k /\ t = u
  OBVIOUS
<1>0. /\ Offset(docs, i) \in Nat /\ Offset(docs, k) \in Nat
      /\ docs[i].len \in Nat /\ docs[k].len \in Nat
  BY OffsetIs
<1>1. ~(i < k)
  <2> SUFFICES ASSUME i < k PROVE FALSE
    OBVIOUS
  <2>1. k \in i + 1 .. Len(docs) + 1
    OBVIOUS
  <2>2. Offset(docs, i) + docs[i].len <= Offset(docs, k)
    BY <2>1, OffsetMono
  <2> QED
    BY <1>0, <2>2
<1>2. ~(k < i)
  <2> SUFFICES ASSUME k < i PROVE FALSE
    OBVIOUS
  <2>1. i \in k + 1 .. Len(docs) + 1
    OBVIOUS
  <2>2. Offset(docs, k) + docs[k].len <= Offset(docs, i)
    BY <2>1, OffsetMono
  <2> QED
    BY <1>0, <2>2
<1>3. i = k
  BY <1>1, <1>2
<1> QED
  BY <1>0, <1>3

\* A token of a document stands inside the row.
LEMMA PlaceBound ==
    ASSUME NEW docs, Len(docs) \in Nat, \A j \in 1 .. Len(docs) : docs[j].len \in Nat,
           NEW i \in 1 .. Len(docs), NEW t \in 1 .. docs[i].len
    PROVE  Offset(docs, i) + t \in 1 .. Used(docs)
<1>1. Len(docs) + 1 \in i + 1 .. Len(docs) + 1
  OBVIOUS
<1>2. Offset(docs, i) + docs[i].len <= Offset(docs, Len(docs) + 1)
  BY <1>1, OffsetMono
<1>3. Offset(docs, i) \in Nat /\ Offset(docs, Len(docs) + 1) \in Nat
  BY OffsetIs
<1> QED
  BY <1>2, <1>3 DEF Used

\* The parts are as long as the documents.
Lays(docs, parts) ==
    /\ Len(docs) = Len(parts)
    /\ \A i \in 1 .. Len(parts) : docs[i].len = Len(parts[i])

\* flat holds the parts where the documents stand.
IsFlat(flat, parts, docs, S) ==
    /\ flat \in Seq(S)
    /\ Len(flat) = Used(docs)
    /\ \A i \in 1 .. Len(parts) : \A t \in 1 .. Len(parts[i]) :
          flat[Offset(docs, i) + t] = parts[i][t]

\* Parts the size of the documents, flattened, stand where the documents do.
LEMMA FlattenPlaces ==
    ASSUME NEW S, NEW parts \in Seq(Seq(S)), NEW docs, Lays(docs, parts)
    PROVE  IsFlat(FlattenSeq(parts), parts, docs, S)
<1>a. Len(docs) = Len(parts) /\ \A i \in 1 .. Len(parts) : docs[i].len = Len(parts[i])
  BY DEF Lays
<1> USE <1>a
<1> DEFINE n == Len(parts)
<1>0. n \in Nat /\ (\A i \in 1 .. n : parts[i] \in Seq(S) /\ Len(parts[i]) \in Nat)
  OBVIOUS
<1>1. PICK f \in [0 .. n -> Seq(S)] :
         /\ f[0] = << >>
         /\ \A j \in 1 .. n : f[j] = f[j - 1] \o parts[j]
         /\ FlattenSeq(parts) = f[n]
  BY FlattenIs
<1>2. Len(docs) \in Nat /\ \A i \in 1 .. Len(docs) : docs[i].len \in Nat
  BY <1>0
<1>3. /\ \A i \in 1 .. n + 1 : Offset(docs, i) \in Nat
      /\ Offset(docs, 1) = 0
      /\ \A i \in 1 .. n : Offset(docs, i + 1) = Offset(docs, i) + docs[i].len
  BY <1>2, OffsetIs
<1> DEFINE Placed(k) ==
        /\ Len(f[k]) = Offset(docs, k + 1)
        /\ \A i \in 1 .. k : \A t \in 1 .. Len(parts[i]) :
              f[k][Offset(docs, i) + t] = parts[i][t]
           T == {k \in 0 .. n : Placed(k)}
<1>4. 0 \in T
  <2>1. Len(f[0]) = 0 /\ 0 + 1 = 1
    BY <1>1
  <2>2. Placed(0)
    BY <1>3, <2>1
  <2> QED
    BY <1>0, <2>2
<1>5. ASSUME NEW k \in 0 .. n - 1, k \in T PROVE k + 1 \in T
  <2>1. k \in 0 .. n /\ k + 1 \in 1 .. n /\ k + 1 \in 0 .. n /\ (k + 1) - 1 = k
    BY <1>0
  <2>2. Placed(k)
    BY <1>5
  <2>3. f[k + 1] = f[k] \o parts[k + 1] /\ f[k] \in Seq(S) /\ parts[k + 1] \in Seq(S)
    BY <1>0, <1>1, <2>1
  <2>4. /\ Len(f[k + 1]) = Len(f[k]) + Len(parts[k + 1])
        /\ \A x \in 1 .. Len(f[k]) + Len(parts[k + 1]) :
              f[k + 1][x] = IF x <= Len(f[k]) THEN f[k][x] ELSE parts[k + 1][x - Len(f[k])]
    <3> DEFINE a == f[k]
               b == parts[k + 1]
    <3>1. a \in Seq(S) /\ b \in Seq(S) /\ f[k + 1] = a \o b
      BY <2>3
    <3> HIDE DEF a, b
    <3>2. /\ Len(a \o b) = Len(a) + Len(b)
          /\ \A x \in 1 .. Len(a) + Len(b) :
                (a \o b)[x] = IF x <= Len(a) THEN a[x] ELSE b[x - Len(a)]
      BY <3>1, ConcatProperties
    <3> QED
      BY <3>1, <3>2 DEF a, b
  <2>5. Offset(docs, (k + 1) + 1) = Offset(docs, k + 1) + Len(parts[k + 1])
    BY <1>3, <2>1
  <2>6. Len(f[k + 1]) = Offset(docs, (k + 1) + 1)
    BY <2>2, <2>4, <2>5
  <2>7. ASSUME NEW i \in 1 .. k + 1, NEW t \in 1 .. Len(parts[i])
        PROVE  f[k + 1][Offset(docs, i) + t] = parts[i][t]
    <3>0. i \in 1 .. n /\ i \in 1 .. Len(docs) /\ Len(parts[i]) \in Nat /\ Offset(docs, i) \in Nat
          /\ docs[i].len = Len(parts[i]) /\ Len(parts[k + 1]) \in Nat
          /\ Offset(docs, k + 1) \in Nat
      <4>1. i \in 1 .. n /\ i \in 1 .. n + 1
        BY <1>0, <2>1
      <4> QED
        BY <1>0, <1>3, <2>1, <4>1
    <3> DEFINE o == Offset(docs, i) + t
               l == Len(f[k])
               p == Len(parts[k + 1])
    <3>a. o \in Int /\ l \in Int /\ p \in Nat /\ t \in Int /\ t >= 1 /\ t <= Len(parts[i])
          /\ l = Offset(docs, k + 1)
      BY <2>2, <3>0
    <3>1. CASE i = k + 1
      <4>1. o = l + t /\ t <= p
        BY <3>a, <3>1
      <4> HIDE DEF o, l, p
      <4>2. o \in 1 .. l + p /\ ~(o <= l) /\ o - l = t
        <5>1. l \in Nat
          BY <3>0, <3>a
        <5> QED
          BY <3>a, <4>1, <5>1, SMTT(30)
      <4>3. f[k + 1][o] = parts[k + 1][o - l]
        BY <2>4, <4>2 DEF l, p
      <4> QED
        BY <3>1, <4>2, <4>3 DEF o
    <3>2. CASE i # k + 1
      <4>1. i \in 1 .. k /\ k + 1 \in i + 1 .. Len(docs) + 1
        BY <2>1, <3>2
      <4>2. Offset(docs, i) + docs[i].len <= Offset(docs, k + 1)
        BY <1>2, <3>0, <4>1, OffsetMono
      <4>3. o >= 1 /\ o <= l
        BY <3>0, <3>a, <4>2, SMTT(30)
      <4>4. f[k][o] = parts[i][t]
        BY <2>2, <4>1
      <4> HIDE DEF o, l, p
      <4>5. o \in 1 .. l + p
        BY <3>a, <4>3
      <4>6. f[k + 1][o] = f[k][o]
        BY <2>4, <4>3, <4>5 DEF l, p
      <4> QED
        BY <4>4, <4>6 DEF o
    <3> QED
      BY <3>1, <3>2
  <2>8. Placed(k + 1)
    BY <2>6, <2>7
  <2> QED
    BY <2>1, <2>8
<1> HIDE DEF T
<1>6. n \in T
  <2>1. \A k \in 0 .. n : k \in T
    BY <1>0, <1>4, <1>5, UpTo
  <2> QED
    BY <1>0, <2>1
<1>7. Placed(n)
  BY <1>6 DEF T
<1>8. f[n] \in Seq(S)
  BY <1>0, <1>1
<1> QED
  BY <1>1, <1>7, <1>8 DEF Used, IsFlat

\* Flattening a list of lists over S gives a list over S.
LEMMA FlattenIn ==
    ASSUME NEW S, NEW parts \in Seq(Seq(S))
    PROVE  FlattenSeq(parts) \in Seq(S)
<1>1. PICK f \in [0 .. Len(parts) -> Seq(S)] : FlattenSeq(parts) = f[Len(parts)]
  BY FlattenIs
<1>2. Len(parts) \in Nat
  OBVIOUS
<1> QED
  BY <1>1, <1>2

-----------------------------------------------------------------------------
\* Sums do not depend on the order.

\* An injection of an initial segment of the numbers into itself reaches all.
LEMMA SegmentInjection ==
    ASSUME NEW n \in Nat, NEW f \in [1 .. n -> 1 .. n],
           \A i, j \in 1 .. n : f[i] = f[j] => i = j
    PROVE  \A k \in 1 .. n : \E j \in 1 .. n : f[j] = k
<1>1. IsFiniteSet(1 .. n)
  BY FS_Interval
<1>2. f \in Injection(1 .. n, 1 .. n)
  BY DEF Injection, IsInjective
<1>3. f \in Surjection(1 .. n, 1 .. n)
  BY <1>1, <1>2, FS_Injection
<1> QED
  BY <1>3 DEF Surjection

\* A function on an initial segment is a sequence.
LEMMA SegmentSeq ==
    ASSUME NEW S, NEW n \in Nat, NEW s \in [1 .. n -> S]
    PROVE  s \in Seq(S) /\ Len(s) = n /\ DOMAIN s = 1 .. n
<1>1. s = [i \in 1 .. n |-> s[i]] /\ \A i \in 1 .. n : s[i] \in S
  OBVIOUS
<1>2. [i \in 1 .. n |-> s[i]] \in Seq(S) /\ Len([i \in 1 .. n |-> s[i]]) = n
  BY <1>1
<1> QED
  BY <1>1, <1>2

\* The sum of all but the last element, and the last.
LEMMA TotalLast ==
    ASSUME NEW n \in Nat, NEW s \in [1 .. n + 1 -> Nat]
    PROVE  /\ [i \in 1 .. n |-> s[i]] \in [1 .. n -> Nat]
           /\ Total(s) = Total([i \in 1 .. n |-> s[i]]) + s[n + 1]
<1> DEFINE r == [i \in 1 .. n |-> s[i]]
<1>0. n + 1 \in Nat
  OBVIOUS
<1>1. r \in [1 .. n -> Nat] /\ \A i \in 1 .. n : r[i] = s[i]
  <2>1. \A i \in 1 .. n : i \in 1 .. n + 1 /\ s[i] \in Nat
    OBVIOUS
  <2> QED
    BY <2>1
<1> HIDE DEF r
<1>2. r \in Seq(Nat) /\ Len(r) = n /\ s \in Seq(Nat) /\ Len(s) = n + 1
  BY <1>0, <1>1, SegmentSeq
<1>3. PICK f \in [0 .. Len(s) -> Nat] :
         /\ f[0] = 0
         /\ \A j \in 1 .. Len(s) : f[j] = f[j - 1] + s[j]
         /\ Total(s) = f[Len(s)]
  BY <1>2, TotalIs
<1>4. PICK g \in [0 .. Len(r) -> Nat] :
         /\ g[0] = 0
         /\ \A j \in 1 .. Len(r) : g[j] = g[j - 1] + r[j]
         /\ Total(r) = g[Len(r)]
  BY <1>2, TotalIs
<1> DEFINE T == {k \in 0 .. n : f[k] = g[k]}
<1>5. 0 \in T
  BY <1>3, <1>4
<1>6. ASSUME NEW k \in 0 .. n - 1, k \in T PROVE k + 1 \in T
  <2>1. k + 1 \in 1 .. n /\ k + 1 \in 1 .. n + 1 /\ (k + 1) - 1 = k /\ k + 1 \in 0 .. n
    OBVIOUS
  <2>2. f[k + 1] = f[(k + 1) - 1] + s[k + 1]
    BY <1>2, <1>3, <2>1
  <2>3. g[k + 1] = g[(k + 1) - 1] + r[k + 1]
    BY <1>2, <1>4, <2>1
  <2>4. f[k] = g[k] /\ r[k + 1] = s[k + 1]
    BY <1>1, <1>6, <2>1
  <2> HIDE DEF T
  <2>5. f[k + 1] = g[k + 1]
    BY <2>1, <2>2, <2>3, <2>4, Zenon
  <2> QED
    BY <2>1, <2>5 DEF T
<1>7. f[n] = g[n]
  <2> HIDE DEF T
  <2>1. \A k \in 0 .. n : k \in T
    BY <1>5, <1>6, UpTo
  <2>2. n \in T
    BY <2>1
  <2> QED
    BY <2>2 DEF T
<1>8. f[n + 1] = f[n] + s[n + 1]
  <2>1. n + 1 \in 1 .. Len(s) /\ (n + 1) - 1 = n
    BY <1>2
  <2> QED
    BY <1>3, <2>1
<1> QED
  BY <1>1, <1>2, <1>3, <1>4, <1>7, <1>8 DEF r

\* Nothing adds up to 0.
LEMMA TotalEmpty ==
    ASSUME NEW s \in [1 .. 0 -> Nat]
    PROVE  Total(s) = 0
<1>1. s \in Seq(Nat) /\ Len(s) = 0
  BY SegmentSeq
<1>2. PICK f \in [0 .. Len(s) -> Nat] :
         /\ f[0] = 0
         /\ \A j \in 1 .. Len(s) : f[j] = f[j - 1] + s[j]
         /\ Total(s) = f[Len(s)]
  BY <1>1, TotalIs
<1> QED
  BY <1>1, <1>2

\* A sum of numbers is a number.
LEMMA TotalSegmentNat ==
    ASSUME NEW n \in Nat, NEW s \in [1 .. n -> Nat]
    PROVE  Total(s) \in Nat
BY SegmentSeq, TotalNat

\* One element replaced by another.
LEMMA TotalExcept ==
    ASSUME NEW top \in Nat, NEW s \in [1 .. top -> Nat], NEW m \in 1 .. top, NEW x \in Nat
    PROVE  Total([s EXCEPT ![m] = x]) + s[m] = Total(s) + x
<1> DEFINE Ok(n) == \A f \in [1 .. n -> Nat] : \A i \in 1 .. n : \A y \in Nat :
                       Total([f EXCEPT ![i] = y]) + f[i] = Total(f) + y
           T == {n \in 0 .. top : Ok(n)}
<1>1. 0 \in T
  <2>1. (\A i \in 1 .. 0 : FALSE) /\ 0 \in 0 .. top
    OBVIOUS
  <2>2. Ok(0)
    BY <2>1
  <2> QED
    BY <2>1, <2>2
<1>2. ASSUME NEW n \in 0 .. top - 1, n \in T PROVE n + 1 \in T
  <2> SUFFICES ASSUME NEW f \in [1 .. n + 1 -> Nat], NEW i \in 1 .. n + 1, NEW y \in Nat
               PROVE  Total([f EXCEPT ![i] = y]) + f[i] = Total(f) + y
    <3>1. n + 1 \in 0 .. top
      OBVIOUS
    <3>2. Ok(n + 1) => n + 1 \in T
      BY <3>1
    <3> HIDE DEF T
    <3> QED
      BY <3>2
  <2> DEFINE g == [f EXCEPT ![i] = y]
             r == [j \in 1 .. n |-> f[j]]
             q == [j \in 1 .. n |-> g[j]]
  <2>0. n \in Nat
    OBVIOUS
  <2>1. g \in [1 .. n + 1 -> Nat]
    OBVIOUS
  <2>2. Total(f) = Total(r) + f[n + 1] /\ r \in [1 .. n -> Nat]
    BY <2>0, TotalLast
  <2>3. Total(g) = Total(q) + g[n + 1] /\ q \in [1 .. n -> Nat]
    <3> HIDE DEF g
    <3> QED
      BY <2>0, <2>1, TotalLast
  <2>4. Total(r) \in Nat /\ Total(q) \in Nat
    <3> HIDE DEF r, q
    <3> QED
      BY <2>0, <2>2, <2>3, TotalSegmentNat
  <2>5. CASE i = n + 1
    <3>1. q = r /\ g[n + 1] = y
      BY <2>5
    <3>2. f[i] \in Nat
      OBVIOUS
    <3> HIDE DEF q, r, g
    <3>3. Total(g) = Total(r) + y /\ Total(f) = Total(r) + f[i]
      BY <2>2, <2>3, <2>5, <3>1
    <3>4. Total(g) + f[i] = Total(f) + y
      BY <2>4, <3>2, <3>3
    <3> QED
      BY <3>4 DEF g
  <2>6. CASE i # n + 1
    <3>1. i \in 1 .. n
      BY <2>6
    <3>2. q = [r EXCEPT ![i] = y] /\ g[n + 1] = f[n + 1] /\ r[i] = f[i]
      <4>1. DOMAIN q = 1 .. n /\ DOMAIN [r EXCEPT ![i] = y] = 1 .. n
        OBVIOUS
      <4>2. ASSUME NEW j \in 1 .. n PROVE q[j] = [r EXCEPT ![i] = y][j]
        <5>1. j \in 1 .. n + 1
          OBVIOUS
        <5> QED
          BY <3>1, <5>1
      <4>3. q = [j \in 1 .. n |-> q[j]]
            /\ [r EXCEPT ![i] = y] = [j \in 1 .. n |-> [r EXCEPT ![i] = y][j]]
        <5>1. [r EXCEPT ![i] = y] \in [1 .. n -> Nat] /\ q \in [1 .. n -> Nat]
          BY <2>2, <2>3
        <5> HIDE DEF q, r
        <5> QED
          BY <5>1
      <4>4. q = [r EXCEPT ![i] = y]
        <5> HIDE DEF q, r
        <5> QED
          BY <4>2, <4>3
      <4> QED
        BY <2>6, <3>1, <4>4
    <3>3. f[i] \in Nat /\ f[n + 1] \in Nat
      OBVIOUS
    <3>4. Total([r EXCEPT ![i] = y]) + r[i] = Total(r) + y
      <4> HIDE DEF r
      <4> QED
        BY <1>2, <2>2, <3>1
    <3> HIDE DEF q, r, g
    <3>5. Total(q) + f[i] = Total(r) + y
      BY <3>2, <3>4
    <3>6. Total(g) + f[i] = Total(f) + y
      <4>1. Total(g) = Total(q) + f[n + 1] /\ Total(f) = Total(r) + f[n + 1]
        BY <2>2, <2>3, <3>2
      <4> DEFINE a == Total(g)
                 b == Total(q)
                 c == Total(f)
                 d == Total(r)
                 e == f[i]
                 h == f[n + 1]
      <4>2. a = b + h /\ c = d + h /\ b \in Nat /\ d \in Nat /\ b + e = d + y
        BY <2>4, <3>5, <4>1, Zenon
      <4>3. e \in Nat /\ h \in Nat
        BY <3>3
      <4> HIDE DEF a, b, c, d, e, h
      <4>4. a + e = c + y
        BY <4>2, <4>3
      <4> QED
        BY <4>4 DEF a, c, e
    <3> QED
      BY <3>6 DEF g
  <2> QED
    BY <2>5, <2>6
<1>3. top \in T
  <2> HIDE DEF T
  <2>1. \A k \in 0 .. top : k \in T
    BY <1>1, <1>2, UpTo
  <2> QED
    BY <2>1
<1>4. Ok(top)
  BY <1>3
<1> HIDE DEF T
<1> QED
  BY <1>4

\* A bijection of an initial segment that leaves out its last element.
LEMMA BijectionFront ==
    ASSUME NEW n \in Nat, NEW p \in Bijection(1 .. n + 1, 1 .. n + 1)
    PROVE  [i \in 1 .. n |-> IF p[i] = n + 1 THEN p[n + 1] ELSE p[i]]
               \in Bijection(1 .. n, 1 .. n)
<1> DEFINE q == [i \in 1 .. n |-> IF p[i] = n + 1 THEN p[n + 1] ELSE p[i]]
<1>1. /\ p \in [1 .. n + 1 -> 1 .. n + 1]
      /\ \A i, j \in 1 .. n + 1 : p[i] = p[j] => i = j
  BY DEF Bijection, Injection, IsInjective
<1>2. ASSUME NEW i \in 1 .. n PROVE q[i] \in 1 .. n
  <2>1. i \in 1 .. n + 1 /\ n + 1 \in 1 .. n + 1 /\ i # n + 1
    OBVIOUS
  <2>2. p[i] \in 1 .. n + 1 /\ p[n + 1] \in 1 .. n + 1 /\ p[i] # p[n + 1]
    BY <1>1, <2>1
  <2> QED
    BY <2>2
<1>3. ASSUME NEW i \in 1 .. n, NEW j \in 1 .. n, q[i] = q[j] PROVE i = j
  <2>1. /\ i \in 1 .. n + 1 /\ j \in 1 .. n + 1 /\ n + 1 \in 1 .. n + 1
        /\ i # n + 1 /\ j # n + 1
    OBVIOUS
  <2>2. /\ q[i] = IF p[i] = n + 1 THEN p[n + 1] ELSE p[i]
        /\ q[j] = IF p[j] = n + 1 THEN p[n + 1] ELSE p[j]
    OBVIOUS
  <2>3. p[i] # p[n + 1] /\ p[j] # p[n + 1]
    BY <1>1, <2>1
  <2> HIDE DEF q
  <2> QED
    BY <1>1, <1>3, <2>1, <2>2, <2>3
<1>4. q \in [1 .. n -> 1 .. n]
  <2>1. q = [i \in 1 .. n |-> q[i]]
    OBVIOUS
  <2> HIDE DEF q
  <2> QED
    BY <1>2, <2>1
<1> HIDE DEF q
<1>5. q \in Injection(1 .. n, 1 .. n)
  BY <1>3, <1>4 DEF Injection, IsInjective
<1>6. \A k \in 1 .. n : \E j \in 1 .. n : q[j] = k
  BY <1>3, <1>4, SegmentInjection
<1>7. q \in Surjection(1 .. n, 1 .. n)
  BY <1>4, <1>6 DEF Surjection
<1>8. q \in Bijection(1 .. n, 1 .. n)
  BY <1>5, <1>7 DEF Bijection
<1> QED
  BY <1>8 DEF q

\* The sum of a list in another order.
LEMMA TotalPermuted ==
    ASSUME NEW top \in Nat, NEW s \in [1 .. top -> Nat], NEW p \in Bijection(1 .. top, 1 .. top)
    PROVE  Total([i \in 1 .. top |-> s[p[i]]]) = Total(s)
<1> DEFINE Ok(n) == \A f \in [1 .. n -> Nat] : \A b \in Bijection(1 .. n, 1 .. n) :
                       Total([i \in 1 .. n |-> f[b[i]]]) = Total(f)
           T == {n \in 0 .. top : Ok(n)}
<1>1. 0 \in T
  <2>1. 0 \in 0 .. top
    OBVIOUS
  <2>2. ASSUME NEW f \in [1 .. 0 -> Nat], NEW b \in Bijection(1 .. 0, 1 .. 0)
        PROVE  Total([i \in 1 .. 0 |-> f[b[i]]]) = Total(f)
    <3>1. [i \in 1 .. 0 |-> f[b[i]]] \in [1 .. 0 -> Nat]
      OBVIOUS
    <3> QED
      BY <3>1, TotalEmpty
  <2> QED
    BY <2>1, <2>2
<1>2. ASSUME NEW n \in 0 .. top - 1, n \in T PROVE n + 1 \in T
  <2> SUFFICES ASSUME NEW f \in [1 .. n + 1 -> Nat], NEW b \in Bijection(1 .. n + 1, 1 .. n + 1)
               PROVE  Total([i \in 1 .. n + 1 |-> f[b[i]]]) = Total(f)
    BY DEF T
  <2> DEFINE g == [i \in 1 .. n + 1 |-> f[b[i]]]
             q == [i \in 1 .. n |-> IF b[i] = n + 1 THEN b[n + 1] ELSE b[i]]
             m == b[n + 1]
             r == [j \in 1 .. n |-> f[j]]
             a == IF m = n + 1 THEN r ELSE [r EXCEPT ![m] = f[n + 1]]
             h == [j \in 1 .. n |-> g[j]]
  <2>0. n \in Nat /\ n + 1 \in 1 .. n + 1
    OBVIOUS
  <2>1. b \in [1 .. n + 1 -> 1 .. n + 1] /\ \A i, j \in 1 .. n + 1 : b[i] = b[j] => i = j
    BY DEF Bijection, Injection, IsInjective
  <2>2. g \in [1 .. n + 1 -> Nat] /\ m \in 1 .. n + 1
    BY <2>0, <2>1
  <2>3. q \in Bijection(1 .. n, 1 .. n)
    BY <2>0, BijectionFront
  <2>4. Total(f) = Total(r) + f[n + 1] /\ r \in [1 .. n -> Nat]
    BY <2>0, TotalLast
  <2>5. Total(g) = Total(h) + g[n + 1] /\ h \in [1 .. n -> Nat]
    <3> HIDE DEF g
    <3> QED
      BY <2>0, <2>2, TotalLast
  <2>6. g[n + 1] = f[m] /\ f[m] \in Nat /\ f[n + 1] \in Nat
    BY <2>0, <2>2
  <2>7. a \in [1 .. n -> Nat]
    <3> HIDE DEF r, m
    <3> QED
      BY <2>4, <2>6
  <2>8. Total(a) + f[m] = Total(r) + f[n + 1]
    <3>1. CASE m = n + 1
      BY <3>1, <2>4
    <3>2. CASE m # n + 1
      <4>1. m \in 1 .. n /\ r[m] = f[m]
        BY <2>2, <3>2
      <4> HIDE DEF r, m
      <4>2. Total([r EXCEPT ![m] = f[n + 1]]) + r[m] = Total(r) + f[n + 1]
        <5> DEFINE y == f[n + 1]
        <5>1. y \in Nat /\ r \in [1 .. n -> Nat]
          BY <2>4, <2>6
        <5> HIDE DEF y
        <5>2. Total([r EXCEPT ![m] = y]) + r[m] = Total(r) + y
          BY <2>0, <4>1, <5>1, TotalExcept
        <5> QED
          BY <5>2 DEF y
      <4> QED
        BY <3>2, <4>1, <4>2
    <3> QED
      BY <3>1, <3>2
  <2>9. h = [i \in 1 .. n |-> a[q[i]]]
    <3>1. ASSUME NEW i \in 1 .. n PROVE h[i] = a[q[i]]
      <4>0. i \in 1 .. n + 1 /\ i # n + 1
        OBVIOUS
      <4>1. h[i] = f[b[i]]
        BY <4>0
      <4>2. b[i] \in 1 .. n + 1 /\ b[i] # m
        BY <2>0, <2>1, <4>0
      <4>3. q[i] = IF b[i] = n + 1 THEN m ELSE b[i]
        OBVIOUS
      <4>4. CASE b[i] = n + 1
        <5>1. m # n + 1 /\ m \in 1 .. n
          <6> HIDE DEF m
          <6> QED
            BY <2>2, <4>2, <4>4
        <5>2. a[m] = f[n + 1]
          <6> HIDE DEF m, r
          <6> QED
            BY <2>4, <5>1
        <5> HIDE DEF a, h, q
        <5> QED
          BY <4>1, <4>3, <4>4, <5>2
      <4>5. CASE b[i] # n + 1
        <5>1. b[i] \in 1 .. n
          <6> DEFINE y == b[i]
          <6>1. y \in 1 .. n + 1 /\ y # n + 1 /\ n \in Nat
            BY <2>0, <4>2, <4>5
          <6> HIDE DEF y
          <6>2. y \in 1 .. n
            BY <6>1
          <6> QED
            BY <6>2 DEF y
        <5>2. r[b[i]] = f[b[i]]
          BY <5>1
        <5>3. a[b[i]] = r[b[i]]
          <6> HIDE DEF r, m
          <6> QED
            BY <2>4, <4>2, <5>1
        <5> HIDE DEF a, h, q
        <5> QED
          BY <4>1, <4>3, <4>5, <5>2, <5>3
      <4> QED
        BY <4>4, <4>5
    <3>2. h = [i \in 1 .. n |-> h[i]]
      OBVIOUS
    <3> HIDE DEF h, a, q
    <3> QED
      BY <3>1, <3>2
  <2>10. Total(h) = Total(a)
    <3> HIDE DEF a, q, h
    <3>1. Ok(n)
      BY <1>2
    <3>2. Total([i \in 1 .. n |-> a[q[i]]]) = Total(a)
      BY <2>3, <2>7, <3>1
    <3> QED
      BY <2>9, <3>2
  <2>11. Total(g) = Total(f)
    <3>1. Total(a) \in Nat /\ Total(r) \in Nat
      <4> HIDE DEF a, r
      <4> QED
        BY <2>0, <2>4, <2>7, TotalSegmentNat
    <3> HIDE DEF a, r, h, g, m
    <3> DEFINE x == f[m]
               y == f[n + 1]
               ta == Total(a)
               tr == Total(r)
    <3>2. Total(g) = ta + x /\ Total(f) = tr + y /\ ta + x = tr + y
      BY <2>4, <2>5, <2>6, <2>8, <2>10, Zenon
    <3> QED
      BY <3>2, Zenon
  <2> QED
    BY <2>11
<1>3. top \in T
  <2> HIDE DEF T
  <2>1. \A k \in 0 .. top : k \in T
    BY <1>1, <1>2, UpTo
  <2> QED
    BY <2>1
<1>4. Ok(top)
  BY <1>3
<1> HIDE DEF T
<1> QED
  BY <1>4
====

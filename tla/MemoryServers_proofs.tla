---- MODULE MemoryServers_proofs ----
(***************************************************************************)
(* The memory servers, for any requests, memories and limits: each of the   *)
(* four keeps the safety part of MemoryService, the retrieval server embeds *)
(* a memory by one task at a time, and the recurrent server reads one as    *)
(* often as evictions and failures explain.                                 *)
(*                                                                          *)
(* Every server has an invariant over the variables it uses (RagInv,        *)
(* DeltaInv, RecurrentInv, C2LInv); the deployment keeps the one of the     *)
(* server it runs.                                                          *)
(*                                                                          *)
(* Last comes the adapter cache that instances of the C2L server share, for *)
(* every set of instances, crashes included: the types, the commit marker,  *)
(* and how many instances can train (AdapterInv).                           *)
(***************************************************************************)
EXTENDS MemoryServers, C2LAdapter, Lists_proofs

-----------------------------------------------------------------------------
\* The units of a memory (eval/baselines_common.py): what is read or retrieved is the
\* memory, token for token.

\* Flattening goes on with what is appended.
LEMMA FlattenAppend ==
    ASSUME NEW S, NEW parts \in Seq(Seq(S)), NEW x \in Seq(S)
    PROVE  /\ FlattenSeq(parts) \in Seq(S)
           /\ FlattenSeq(Append(parts, x)) = FlattenSeq(parts) \o x
<1> DEFINE n == Len(parts)
           more == Append(parts, x)
<1>0. n \in Nat
  OBVIOUS
<1>1. /\ more \in Seq(Seq(S)) /\ Len(more) = n + 1
      /\ \A j \in 1 .. n : more[j] = parts[j]
      /\ more[n + 1] = x
  BY AppendProperties
<1>2. PICK f \in [0 .. n -> Seq(S)] :
         /\ f[0] = << >>
         /\ \A j \in 1 .. n : f[j] = f[j - 1] \o parts[j]
         /\ FlattenSeq(parts) = f[n]
  BY FlattenIs
<1> HIDE DEF more, n
<1>9. more \in Seq(Seq(S))
  BY <1>1
<1>10. PICK g \in [0 .. Len(more) -> Seq(S)] :
         /\ g[0] = << >>
         /\ \A j \in 1 .. Len(more) : g[j] = g[j - 1] \o more[j]
         /\ FlattenSeq(more) = g[Len(more)]
  BY <1>9, FlattenIs
<1>3. /\ g \in [0 .. n + 1 -> Seq(S)] /\ g[0] = << >>
      /\ \A j \in 1 .. n + 1 : g[j] = g[j - 1] \o more[j]
      /\ FlattenSeq(more) = g[n + 1]
  BY <1>1, <1>10, Zenon
<1> DEFINE T == {k \in 0 .. n : g[k] = f[k]}
<1>4. 0 \in T
  BY <1>0, <1>2, <1>3
<1>5. ASSUME NEW k \in 0 .. n - 1, k \in T PROVE k + 1 \in T
  <2>1. k + 1 \in 1 .. n /\ k + 1 \in 0 .. n /\ k + 1 \in 1 .. n + 1 /\ (k + 1) - 1 = k
    BY <1>0
  <2>2. f[k + 1] = f[k] \o parts[k + 1]
    BY <1>2, <2>1
  <2>3. g[k + 1] = g[k] \o parts[k + 1]
    BY <1>1, <1>3, <2>1
  <2> QED
    BY <1>5, <2>1, <2>2, <2>3
<1> HIDE DEF T
<1>6. \A k \in 0 .. n : k \in T
  BY <1>0, <1>4, <1>5, UpTo
<1>7. n + 1 \in 1 .. n + 1 /\ (n + 1) - 1 = n /\ n \in 0 .. n
  BY <1>0
<1>8. g[n + 1] = g[n] \o x
  BY <1>1, <1>3, <1>7
<1> QED
  BY <1>2, <1>3, <1>6, <1>7, <1>8 DEF T, more

\* The empty sequence is flat.
LEMMA FlattenEmpty == FlattenSeq(<< >>) = << >>
BY DEF FlattenSeq

\* A beginning of a sequence, and the next one.
LEMMA PrefixNext ==
    ASSUME NEW S, NEW s \in Seq(S), NEW k \in 0 .. Len(s) - 1
    PROVE  /\ SubSeq(s, 1, k) \in Seq(S) /\ Len(SubSeq(s, 1, k)) = k
           /\ s[k + 1] \in S
           /\ SubSeq(s, 1, k + 1) = Append(SubSeq(s, 1, k), s[k + 1])
<1>1. k + 1 \in 1 .. Len(s) /\ (k + 1) - 1 = k /\ 1 \in 1 .. Len(s) /\ k + 1 \in 1 .. Len(s)
  OBVIOUS
<1>2. SubSeq(s, 1, k) \in Seq(S) /\ Len(SubSeq(s, 1, k)) = k
  BY SubSeqProperties
<1>3. s[k + 1] \in S
  BY <1>1
<1>4. SubSeq(s, 1, k + 1) = SubSeq(s, 1, k) \o << s[k + 1] >>
  BY <1>1, SubSeqRecursiveSecond
<1> QED
  BY <1>2, <1>3, <1>4, AppendIsConcat

\* Flattening two sequences, one after the other.
LEMMA FlattenConcat ==
    ASSUME NEW S, NEW u \in Seq(Seq(S)), NEW v \in Seq(Seq(S))
    PROVE  FlattenSeq(u \o v) = FlattenSeq(u) \o FlattenSeq(v)
<1> DEFINE n == Len(v)
           V == Seq(S)
           a(k) == SubSeq(v, 1, k)
           T == {k \in 0 .. n : FlattenSeq(u \o a(k)) = FlattenSeq(u) \o FlattenSeq(a(k))}
<1>0. n \in Nat
  OBVIOUS
<1>1. 0 \in T
  <2>1. a(0) = << >>
    BY SubSeqEmpty
  <2>2. u \o << >> = u
    BY ConcatEmptySeq
  <2>3. FlattenSeq(u) \in Seq(S)
    <3>1. << >> \in Seq(S)
      OBVIOUS
    <3> QED
      BY <3>1, FlattenAppend
  <2>4. FlattenSeq(u) \o << >> = FlattenSeq(u)
    BY <2>3, ConcatEmptySeq
  <2>5. FlattenSeq(u \o a(0)) = FlattenSeq(u) \o FlattenSeq(a(0))
    BY <2>1, <2>2, <2>4, FlattenEmpty, Zenon
  <2> QED
    BY <1>0, <2>5
<1>2. ASSUME NEW k \in 0 .. n - 1, k \in T PROVE k + 1 \in T
  <2> DEFINE p == a(k)
             x == v[k + 1]
  <2>1. p \in Seq(V) /\ x \in V /\ a(k + 1) = Append(p, x)
    BY PrefixNext
  <2>2. FlattenSeq(u \o p) = FlattenSeq(u) \o FlattenSeq(p) /\ k + 1 \in 0 .. n
    BY <1>0, <1>2
  <2> HIDE DEF p, x
  <2>3. u \o p \in Seq(V)
    BY <2>1, ConcatProperties
  <2>4. u \o Append(p, x) = Append(u \o p, x)
    <3>1. << x >> \in Seq(V)
      BY <2>1
    <3>2. Append(p, x) = p \o << x >>
      BY <2>1, AppendIsConcat
    <3>3. Append(u \o p, x) = (u \o p) \o << x >>
      BY <2>1, <2>3, AppendIsConcat
    <3>4. u \in Seq(V) /\ p \in Seq(V)
      BY <2>1
    <3> HIDE DEF V
    <3>5. (u \o p) \o << x >> = u \o (p \o << x >>)
      BY <3>1, <3>4, SMTT(60)
    <3> QED
      BY <3>2, <3>3, <3>5, Zenon
  <2>5. FlattenSeq(Append(u \o p, x)) = FlattenSeq(u \o p) \o x
    BY <2>1, <2>3, FlattenAppend
  <2>6. FlattenSeq(Append(p, x)) = FlattenSeq(p) \o x /\ FlattenSeq(p) \in V
    BY <2>1, FlattenAppend
  <2>7. FlattenSeq(u) \in V
    BY <2>1, FlattenAppend
  <2>8. (FlattenSeq(u) \o FlattenSeq(p)) \o x = FlattenSeq(u) \o (FlattenSeq(p) \o x)
    <3> DEFINE b == FlattenSeq(u)
               c == FlattenSeq(p)
    <3>1. b \in Seq(S) /\ c \in Seq(S) /\ x \in Seq(S)
      BY <2>1, <2>6, <2>7
    <3> HIDE DEF b, c
    <3>2. (b \o c) \o x = b \o (c \o x)
      BY <3>1, SMTT(60)
    <3> QED
      BY <3>2, Zenon DEF b, c
  <2>9. FlattenSeq(u \o a(k + 1)) = FlattenSeq(u) \o FlattenSeq(a(k + 1))
    BY <2>1, <2>2, <2>4, <2>5, <2>6, <2>8, Zenon
  <2> QED
    BY <2>2, <2>9
<1>3. a(n) = v
  BY SubSeqFull
<1> HIDE DEF T
<1>4. \A k \in 0 .. n : k \in T
  BY <1>0, <1>1, <1>2, UpTo
<1>5. n \in 0 .. n
  BY <1>0
<1> QED
  BY <1>3, <1>4, <1>5 DEF T

\* The smaller of two numbers.
LEMMA LesserIs ==
    ASSUME NEW a \in Nat, NEW b \in Nat
    PROVE  Min({a, b}) = IF a <= b THEN a ELSE b
<1>1. {a, b} \subseteq Nat /\ {a, b} # {}
  OBVIOUS
<1>2. Min({a, b}) \in {a, b} /\ \A x \in {a, b} : Min({a, b}) <= x
  BY <1>1, MinOf
<1> QED
  BY <1>2

-----------------------------------------------------------------------------
\* The units of a memory are the memory.

\* Where the pieces of a text that is cut every w tokens end.
LEMMA CutsCover ==
    ASSUME NEW n \in Nat, NEW w \in Nat \ {0}
    PROVE  /\ (n + w - 1) \div w \in Nat
           /\ n <= w * ((n + w - 1) \div w)
           /\ \A k \in 0 .. (n + w - 1) \div w - 1 : k * w \in Nat /\ k * w < n
<1> DEFINE b == n + w - 1
           q == b \div w
           x == w * q
<1>1. b \in Nat /\ b = n + w - 1
  OBVIOUS
<1> HIDE DEF b
<1>2. q \in Nat /\ x <= b /\ b < x + w
  BY <1>1, Division
<1> HIDE DEF q
<1>3. x \in Int
  BY <1>2
<1>4. n <= x
  <2> HIDE DEF x
  <2> QED
    BY <1>1, <1>2, <1>3
<1>5. ASSUME NEW k \in 0 .. q - 1 PROVE k * w \in Nat /\ k * w < n
  <2> DEFINE y == w * k
  <2>1. k + 1 <= q /\ k + 1 \in Int /\ q \in Int
    BY <1>2
  <2>2. w * (k + 1) <= x
    BY <2>1, MulMono
  <2>3. w * (k + 1) = y + w /\ y \in Nat /\ k * w = y
    OBVIOUS
  <2> HIDE DEF x, y
  <2>4. y + w <= x
    BY <2>2, <2>3
  <2>5. y < n
    BY <1>1, <1>2, <1>3, <2>3, <2>4
  <2> QED
    BY <2>3, <2>5
<1> QED
  BY <1>2, <1>4, <1>5 DEF q, b, x

\* _pack_pieces cuts a long piece without loss.
LEMMA HardSplitWhole ==
    ASSUME NEW S, NEW piece \in Seq(S), NEW w \in Nat \ {0}
    PROVE  /\ HardSplit(piece, w) \in Seq(Seq(S))
           /\ FlattenSeq(HardSplit(piece, w)) = piece
<1> DEFINE n == Len(piece)
           q == (n + w - 1) \div w
           end(k) == Min({k * w, n})
           cut(i) == SubSeq(piece, (i - 1) * w + 1, end(i))
           hs == HardSplit(piece, w)
<1>0. n \in Nat /\ \A i \in 1 .. n : piece[i] \in S
  OBVIOUS
<1>1. q \in Nat /\ n <= w * q /\ \A k \in 0 .. q - 1 : k * w \in Nat /\ k * w < n
  BY <1>0, CutsCover
<1>2. hs = [i \in 1 .. q |-> cut(i)]
  BY DEF HardSplit
<1> HIDE DEF hs, q, n
<1>3. \A k \in 0 .. q : k * w \in Nat
  BY <1>1
<1>4. \A k \in 0 .. q : end(k) = (IF k * w <= n THEN k * w ELSE n) /\ end(k) \in 0 .. n
  <2> SUFFICES ASSUME NEW k \in 0 .. q
               PROVE  end(k) = (IF k * w <= n THEN k * w ELSE n) /\ end(k) \in 0 .. n
    OBVIOUS
  <2> DEFINE y == k * w
  <2>1. y \in Nat
    BY <1>3
  <2> HIDE DEF y
  <2>2. Min({y, n}) = IF y <= n THEN y ELSE n
    BY <1>0, <2>1, LesserIs
  <2>3. Min({y, n}) \in 0 .. n
    BY <1>0, <2>1, <2>2
  <2> QED
    BY <2>2, <2>3, Zenon DEF y
<1> HIDE DEF end
<1>5. \A k \in 0 .. q - 1 : end(k) = k * w
  BY <1>1, <1>4
<1>6. ASSUME NEW i \in 1 .. q
      PROVE  cut(i) \in Seq(S) /\ cut(i) = SubSeq(piece, end(i - 1) + 1, end(i))
  <2>1. i - 1 \in 0 .. q - 1 /\ i \in 0 .. q
    BY <1>1
  <2>2. end(i - 1) = (i - 1) * w /\ end(i - 1) \in Nat /\ end(i) \in 0 .. n
    BY <1>1, <1>4, <1>5, <2>1
  <2> DEFINE a == end(i - 1) + 1
             b == end(i)
  <2>3. a \in Int /\ b \in Int /\ a >= 1 /\ b <= n
    BY <1>0, <2>2
  <2> HIDE DEF a, b
  <2>4. \A j \in a .. b : piece[j] \in S
    BY <1>0, <2>3
  <2>5. SubSeq(piece, a, b) \in Seq(S)
    BY <2>3, <2>4, SubSeqProperties
  <2> QED
    BY <2>2, <2>5, Zenon DEF a, b
<1> HIDE DEF cut
<1>7. hs \in Seq(Seq(S)) /\ Len(hs) = q
  <2>1. hs \in [1 .. q -> Seq(S)]
    BY <1>2, <1>6
  <2> DEFINE V == Seq(S)
  <2> HIDE DEF V
  <2>2. hs \in Seq(V) /\ Len(hs) = q
    BY <1>1, <2>1 DEF V
  <2> QED
    BY <2>2 DEF V
<1> DEFINE T == {k \in 0 .. q : FlattenSeq(SubSeq(hs, 1, k)) = SubSeq(piece, 1, end(k))}
<1>8. 0 \in T
  <2>1. 0 \in 0 .. q /\ 0 * w = 0 /\ 0 <= n
    BY <1>0, <1>1
  <2>2. end(0) = 0
    BY <1>4, <2>1
  <2>3. SubSeq(hs, 1, 0) = << >> /\ SubSeq(piece, 1, 0) = << >>
    BY SubSeqEmpty
  <2> QED
    BY <2>1, <2>2, <2>3, FlattenEmpty
<1>9. ASSUME NEW k \in 0 .. q - 1, k \in T PROVE k + 1 \in T
  <2>1. k \in 0 .. q /\ k + 1 \in 1 .. q /\ k + 1 \in 0 .. q /\ (k + 1) - 1 = k
    BY <1>1
  <2> DEFINE p == SubSeq(hs, 1, k)
             x == hs[k + 1]
             a == end(k)
             b == end(k + 1)
  <2>2. p \in Seq(Seq(S)) /\ x \in Seq(S) /\ SubSeq(hs, 1, k + 1) = Append(p, x)
    <3> DEFINE V == Seq(S)
    <3>1. hs \in Seq(V) /\ k \in 0 .. Len(hs) - 1
      BY <1>7
    <3> HIDE DEF V
    <3>2. p \in Seq(V) /\ x \in V /\ SubSeq(hs, 1, k + 1) = Append(p, x)
      BY <3>1, PrefixNext
    <3> QED
      BY <3>2 DEF V
  <2>3. FlattenSeq(Append(p, x)) = FlattenSeq(p) \o x
    BY <2>2, FlattenAppend
  <2>4. FlattenSeq(p) = SubSeq(piece, 1, a)
    BY <1>9
  <2>5. x = SubSeq(piece, a + 1, b)
    BY <1>2, <1>6, <2>1
  <2>6. a \in 0 .. n /\ b \in a .. n
    <3>1. a = k * w /\ a \in 0 .. n /\ b \in 0 .. n
      BY <1>4, <1>5, <2>1
    <3>2. b = (IF (k + 1) * w <= n THEN (k + 1) * w ELSE n)
      BY <1>4, <2>1
    <3>3. (k + 1) * w = k * w + w /\ k * w \in Nat
      BY <1>1
    <3> HIDE DEF a, b
    <3> QED
      BY <1>0, <3>1, <3>2, <3>3
  <2> HIDE DEF a, b, p, x
  <2>7. SubSeq(piece, 1, a) \o SubSeq(piece, a + 1, b) = SubSeq(piece, 1, b)
    <3>1. n = Len(piece)
      BY DEF n
    <3>2. 1 \in 1 .. Len(piece) + 1 /\ a \in (1 - 1) .. Len(piece) /\ b \in a .. Len(piece)
      BY <1>0, <2>6, <3>1
    <3> QED
      BY <3>2, ConcatAdjacentSubSeq
  <2>8. FlattenSeq(SubSeq(hs, 1, k + 1)) = SubSeq(piece, 1, end(k + 1))
    BY <2>2, <2>3, <2>4, <2>5, <2>7, Zenon DEF b
  <2> QED
    BY <2>1, <2>8
<1> HIDE DEF T
<1>10. \A k \in 0 .. q : k \in T
  BY <1>1, <1>8, <1>9, UpTo
<1>11. q \in 0 .. q
  BY <1>1
<1>12. FlattenSeq(SubSeq(hs, 1, q)) = SubSeq(piece, 1, end(q))
  BY <1>10, <1>11 DEF T
<1>13. end(q) = n
  <2> DEFINE y == q * w
  <2>1. end(q) = (IF y <= n THEN y ELSE n)
    BY <1>4, <1>11
  <2>2. y = w * q /\ y \in Nat
    BY <1>1
  <2>3. n <= y
    BY <1>1, <2>2
  <2> HIDE DEF y
  <2> QED
    BY <1>0, <2>1, <2>2, <2>3
<1>14. SubSeq(hs, 1, q) = hs
  <2> DEFINE V == Seq(S)
  <2>1. hs \in Seq(V) /\ q = Len(hs)
    BY <1>7
  <2> HIDE DEF V
  <2> QED
    BY <2>1, SubSeqFull
<1>15. SubSeq(piece, 1, n) = piece
  BY SubSeqFull DEF n
<1> QED
  BY <1>7, <1>12, <1>13, <1>14, <1>15, Zenon DEF hs

\* Running sums of token counts.
LEMMA TokensUpToIs ==
    ASSUME NEW docs \in Seq(Nat)
    PROVE  /\ TokensUpTo(docs) \in [0 .. Len(docs) -> Nat]
           /\ TokensUpTo(docs)[0] = 0
           /\ \A j \in 1 .. Len(docs) : TokensUpTo(docs)[j] = TokensUpTo(docs)[j - 1] + docs[j]
<1> DEFINE n == Len(docs)
           next == [x \in (1 .. n) \X Nat |-> x[2] + docs[x[1]]]
           IsSum(f) == f = [i \in 0 .. n |-> IF i = 0 THEN 0 ELSE f[i - 1] + docs[i]]
           sum == CHOOSE f : IsSum(f)
<1>0. n \in Nat /\ \A j \in 1 .. n : docs[j] \in Nat
  OBVIOUS
<1>1. next \in [(1 .. n) \X Nat -> Nat]
  BY <1>0
<1> HIDE DEF next
<1>2. PICK f : IsIteration(f, n, Nat, 0, next)
  <2>1. n \in Nat /\ 0 \in Nat
    BY <1>0
  <2> QED
    BY <1>1, <2>1, Iterates, Zenon
<1>3. f \in [0 .. n -> Nat] /\ f[0] = 0 /\ \A j \in 1 .. n : f[j] = next[<<j, f[j - 1]>>]
  BY <1>2 DEF IsIteration
<1>4. ASSUME NEW j \in 0 .. n PROVE f[j] = IF j = 0 THEN 0 ELSE f[j - 1] + docs[j]
  <2>1. CASE j = 0
    BY <1>3, <2>1
  <2>2. CASE j # 0
    <3>1. j \in 1 .. n /\ j - 1 \in 0 .. n
      BY <1>0, <2>2
    <3>2. f[j - 1] \in Nat
      BY <1>3, <3>1
    <3>3. <<j, f[j - 1]>> \in (1 .. n) \X Nat
      BY <3>1, <3>2
    <3>4. next[<<j, f[j - 1]>>] = f[j - 1] + docs[j]
      BY <3>3 DEF next
    <3> QED
      BY <1>3, <2>2, <3>1, <3>4
  <2> QED
    BY <2>1, <2>2
<1>5. IsSum(f)
  <2>1. f = [j \in 0 .. n |-> f[j]]
    BY <1>3
  <2> QED
    BY <1>4, <2>1, Zenon
<1>6. IsSum(sum)
  BY <1>5
<1>7. TokensUpTo(docs) = sum
  BY DEF TokensUpTo
<1> HIDE DEF sum
<1>8. sum[0] = 0 /\ \A j \in 1 .. n : sum[j] = sum[j - 1] + docs[j]
  BY <1>0, <1>6
<1> DEFINE T == {j \in 0 .. n : sum[j] \in Nat}
<1>9. 0 \in T
  BY <1>0, <1>8
<1>10. ASSUME NEW k \in 0 .. n - 1, k \in T PROVE k + 1 \in T
  <2>1. k + 1 \in 1 .. n /\ (k + 1) - 1 = k
    BY <1>0
  <2>2. sum[k + 1] = sum[k] + docs[k + 1]
    BY <1>8, <2>1
  <2> QED
    BY <1>0, <1>10, <2>1, <2>2
<1> HIDE DEF T
<1>11. \A k \in 0 .. n : k \in T
  BY <1>0, <1>9, <1>10, UpTo
<1>12. \A j \in 0 .. n : sum[j] \in Nat
  BY <1>11 DEF T
<1>13. sum \in [0 .. n -> Nat]
  BY <1>6, <1>12
<1> QED
  BY <1>7, <1>8, <1>13

\* Numbers in a row.
LEMMA NumberedIs ==
    ASSUME NEW a \in Nat, NEW n \in Nat
    PROVE  /\ Numbered(a, n) \in Seq(Nat) /\ Len(Numbered(a, n)) = n
           /\ \A i \in 1 .. n : Numbered(a, n)[i] = a + i - 1
<1> DEFINE s == [i \in 1 .. n |-> a + i - 1]
<1>1. s \in [1 .. n -> Nat] /\ \A i \in 1 .. n : s[i] = a + i - 1
  OBVIOUS
<1>2. Numbered(a, n) = s
  BY DEF Numbered
<1> HIDE DEF s
<1>3. s \in Seq(Nat) /\ Len(s) = n
  BY <1>1
<1> QED
  BY <1>1, <1>2, <1>3

\* Two such rows that follow each other.
LEMMA NumberedJoin ==
    ASSUME NEW a \in Nat, NEW n \in Nat
    PROVE  Numbered(1, a) \o Numbered(a + 1, n) = Numbered(1, a + n)
<1> DEFINE s == Numbered(1, a)
           t == Numbered(a + 1, n)
           u == Numbered(1, a + n)
<1>0. 1 \in Nat /\ a + 1 \in Nat /\ a + n \in Nat
  OBVIOUS
<1>1. s \in Seq(Nat) /\ Len(s) = a /\ \A i \in 1 .. a : s[i] = 1 + i - 1
  BY <1>0, NumberedIs
<1>2. t \in Seq(Nat) /\ Len(t) = n /\ \A i \in 1 .. n : t[i] = (a + 1) + i - 1
  BY <1>0, NumberedIs
<1>3. u \in Seq(Nat) /\ Len(u) = a + n /\ \A i \in 1 .. a + n : u[i] = 1 + i - 1
  BY <1>0, NumberedIs
<1> HIDE DEF s, t, u
<1>4. /\ s \o t \in Seq(Nat) /\ Len(s \o t) = a + n
      /\ \A i \in 1 .. a + n : (s \o t)[i] = IF i <= a THEN s[i] ELSE t[i - a]
  BY <1>1, <1>2, ConcatProperties
<1>5. ASSUME NEW i \in 1 .. a + n PROVE (s \o t)[i] = u[i]
  <2>1. CASE i <= a
    BY <1>1, <1>3, <1>4, <2>1
  <2>2. CASE ~(i <= a)
    <3>1. i - a \in 1 .. n
      BY <2>2
    <3>2. (s \o t)[i] = t[i - a]
      BY <1>4, <2>2
    <3>3. t[i - a] = (a + 1) + (i - a) - 1
      BY <1>2, <3>1
    <3> QED
      BY <1>3, <3>2, <3>3
  <2> QED
    BY <2>1, <2>2, Zenon
<1> DEFINE st == s \o t
<1>6. st \in Seq(Nat) /\ Len(st) = Len(u) /\ \A i \in 1 .. Len(st) : st[i] = u[i]
  BY <1>3, <1>4, <1>5
<1> HIDE DEF st
<1>7. st = u
  BY <1>3, <1>6, SeqEqual
<1> QED
  BY <1>7, Zenon DEF st, s, t, u

\* One sequence in a sequence.
LEMMA FlattenOne ==
    ASSUME NEW S, NEW x \in Seq(S)
    PROVE  << x >> \in Seq(Seq(S)) /\ FlattenSeq(<< x >>) = x
<1>1. << >> \in Seq(Seq(S)) /\ Append(<< >>, x) = << x >> /\ << x >> \in Seq(Seq(S))
  OBVIOUS
<1>2. FlattenSeq(Append(<< >>, x)) = FlattenSeq(<< >>) \o x
  BY <1>1, FlattenAppend
<1>3. << >> \o x = x
  BY ConcatEmptySeq
<1> QED
  BY <1>1, <1>2, <1>3, FlattenEmpty, Zenon

\* The documents of a memory are the memory.
LEMMA SplitWhole ==
    ASSUME NEW docs \in Seq(Nat)
    PROVE  /\ Split(docs) \in Seq(Seq(Nat))
           /\ FlattenSeq(Split(docs)) = Numbered(1, TokensUpTo(docs)[Len(docs)])
<1> DEFINE n == Len(docs)
           V == Seq(Nat)
           sum == TokensUpTo(docs)
           row(i) == Numbered(sum[i - 1] + 1, docs[i])
           part(i) == IF docs[i] = 0 THEN << >> ELSE << row(i) >>
           parts == [i \in 1 .. n |-> part(i)]
<1>0. n \in Nat /\ \A i \in 1 .. n : docs[i] \in Nat
  OBVIOUS
<1>1. sum \in [0 .. n -> Nat] /\ sum[0] = 0 /\ \A j \in 1 .. n : sum[j] = sum[j - 1] + docs[j]
  BY TokensUpToIs
<1>2. Split(docs) = FlattenSeq(parts)
  BY Zenon DEF Split
<1> HIDE DEF sum, n
<1>3. ASSUME NEW i \in 1 .. n
      PROVE  /\ row(i) \in V /\ part(i) \in Seq(V) /\ FlattenSeq(part(i)) = row(i)
  <2>1. i - 1 \in 0 .. n
    BY <1>0
  <2>2. sum[i - 1] + 1 \in Nat /\ docs[i] \in Nat
    <3>1. sum[i - 1] \in Nat
      BY <1>1, <2>1, Zenon
    <3> QED
      BY <1>0, <3>1
  <2>3. row(i) \in V /\ Len(row(i)) = docs[i]
    BY <2>2, NumberedIs
  <2> HIDE DEF row
  <2>4. CASE docs[i] = 0
    <3>1. row(i) = << >>
      BY <2>3, <2>4
    <3>2. << >> \in Seq(V)
      OBVIOUS
    <3> QED
      BY <2>3, <2>4, <3>1, <3>2, FlattenEmpty
  <2>5. CASE docs[i] # 0
    <3> DEFINE x == row(i)
    <3>1. x \in Seq(Nat)
      BY <2>3
    <3> HIDE DEF x
    <3>2. << x >> \in Seq(Seq(Nat)) /\ FlattenSeq(<< x >>) = x
      BY <3>1, FlattenOne
    <3>3. part(i) = << x >>
      BY <2>5 DEF x
    <3> QED
      BY <2>3, <3>2, <3>3 DEF x
  <2> QED
    BY <2>4, <2>5
<1>4. \A i \in 1 .. n : parts[i] = part(i)
  OBVIOUS
<1> DEFINE W == Seq(V)
<1>5. parts \in Seq(W) /\ Len(parts) = n
  <2>1. \A i \in 1 .. n : part(i) \in W
    BY <1>3
  <2> HIDE DEF W, part
  <2>2. parts \in [1 .. n -> W]
    BY <2>1
  <2> HIDE DEF parts
  <2> QED
    BY <1>0, <2>2
<1> HIDE DEF part, parts
<1> DEFINE a(k) == SubSeq(parts, 1, k)
           T == {k \in 0 .. n : FlattenSeq(FlattenSeq(a(k))) = Numbered(1, sum[k])}
<1>6. 0 \in T
  <2>1. a(0) = << >>
    BY SubSeqEmpty
  <2>2. Len(Numbered(1, 0)) = 0 /\ Numbered(1, 0) \in Seq(Nat)
    <3>1. 1 \in Nat /\ 0 \in Nat
      OBVIOUS
    <3> QED
      BY <3>1, NumberedIs
  <2> DEFINE z == Numbered(1, 0)
  <2>3. z \in Seq(Nat) /\ Len(z) = 0
    BY <2>2
  <2> HIDE DEF z
  <2>4. z = << >>
    BY <2>3
  <2>5. FlattenSeq(FlattenSeq(a(0))) = Numbered(1, sum[0])
    BY <1>1, <2>1, <2>4, FlattenEmpty, Zenon DEF z
  <2> QED
    BY <1>0, <2>5
<1>7. ASSUME NEW k \in 0 .. n - 1, k \in T PROVE k + 1 \in T
  <2>1. k + 1 \in 1 .. n /\ k + 1 \in 0 .. n /\ k \in 0 .. n /\ (k + 1) - 1 = k
    BY <1>0
  <2> DEFINE p == a(k)
             x == parts[k + 1]
             s == sum[k]
             c == docs[k + 1]
  <2>2. p \in Seq(W) /\ x \in W /\ a(k + 1) = Append(p, x)
    <3>1. k \in 0 .. Len(parts) - 1
      BY <1>5
    <3> HIDE DEF W
    <3> QED
      BY <1>5, <3>1, PrefixNext
  <2>3. FlattenSeq(x) = Numbered(s + 1, c) /\ FlattenSeq(FlattenSeq(p)) = Numbered(1, s)
    BY <1>3, <1>4, <1>7, <2>1
  <2>4. sum[k + 1] = s + c /\ s \in Nat /\ c \in Nat
    BY <1>0, <1>1, <2>1
  <2> HIDE DEF p, x, s, c, V
  <2>5. FlattenSeq(Append(p, x)) = FlattenSeq(p) \o x /\ FlattenSeq(p) \in Seq(V)
    BY <2>2, FlattenAppend
  <2>6. FlattenSeq(FlattenSeq(p) \o x) = FlattenSeq(FlattenSeq(p)) \o FlattenSeq(x)
    <3> DEFINE u == FlattenSeq(p)
    <3>1. u \in Seq(Seq(Nat)) /\ x \in Seq(Seq(Nat))
      BY <2>2, <2>5 DEF V
    <3> HIDE DEF u
    <3>2. FlattenSeq(u \o x) = FlattenSeq(u) \o FlattenSeq(x)
      BY <3>1, FlattenConcat
    <3> QED
      BY <3>2 DEF u
  <2>7. Numbered(1, s) \o Numbered(s + 1, c) = Numbered(1, s + c)
    BY <2>4, NumberedJoin
  <2>8. FlattenSeq(FlattenSeq(a(k + 1))) = Numbered(1, sum[k + 1])
    BY <2>2, <2>3, <2>4, <2>5, <2>6, <2>7, Zenon
  <2> QED
    BY <2>1, <2>8
<1> HIDE DEF T
<1>8. \A k \in 0 .. n : k \in T
  BY <1>0, <1>6, <1>7, UpTo
<1>9. n \in 0 .. n
  BY <1>0
<1>10. a(n) = parts
  <2> HIDE DEF W
  <2> QED
    BY <1>5, SubSeqFull
<1>11. FlattenSeq(FlattenSeq(parts)) = Numbered(1, sum[n])
  BY <1>8, <1>9, <1>10 DEF T
<1>12. FlattenSeq(parts) \in Seq(V)
  <2>1. << >> \in V
    OBVIOUS
  <2> HIDE DEF V
  <2> QED
    BY <1>5, <2>1, FlattenAppend
<1> QED
  BY <1>2, <1>11, <1>12 DEF n, sum, parts, part

\* What _pack_pieces has read: the units it has made, then its buffer.
Packing(pack) == {acc \in [units : Seq(Seq(Nat)), buf : Seq(Nat)] : pack \/ acc.buf = << >>}
Held(acc) == FlattenSeq(acc.units) \o acc.buf

\* The buffer becomes a unit.
LEMMA FlushWhole ==
    ASSUME NEW units \in Seq(Seq(Nat)), NEW buf \in Seq(Nat), NEW acc,
           acc.units = units, acc.buf = buf
    PROVE  Flush(acc) \in Seq(Seq(Nat)) /\ FlattenSeq(Flush(acc)) = FlattenSeq(units) \o buf
<1> DEFINE V == Seq(Nat)
<1>1. FlattenSeq(units) \in V
  <2>1. << >> \in V
    OBVIOUS
  <2> QED
    BY <2>1, FlattenAppend
<1>2. CASE buf = << >>
  <2>1. Flush(acc) = units
    BY <1>2, Zenon DEF Flush
  <2>2. FlattenSeq(units) \o << >> = FlattenSeq(units)
    BY <1>1, ConcatEmptySeq
  <2> QED
    BY <1>2, <2>1, <2>2, Zenon
<1>3. CASE buf # << >>
  <2>1. Flush(acc) = Append(units, buf)
    BY <1>3, Zenon DEF Flush
  <2>2. FlattenSeq(Append(units, buf)) = FlattenSeq(units) \o buf
    BY FlattenAppend
  <2>3. Append(units, buf) \in Seq(V)
    <3>1. units \in Seq(V) /\ buf \in V
      OBVIOUS
    <3> HIDE DEF V
    <3> QED
      BY <3>1, AppendProperties
  <2> QED
    BY <2>1, <2>2, <2>3, Zenon
<1> QED
  BY <1>2, <1>3

\* A round of the loop reads one piece.
LEMMA AddPieceWhole ==
    ASSUME NEW w \in Nat \ {0}, NEW pack \in BOOLEAN, NEW acc \in Packing(pack),
           NEW piece \in Seq(Nat)
    PROVE  /\ AddPiece(acc, piece, w, pack) \in Packing(pack)
           /\ Held(AddPiece(acc, piece, w, pack)) = Held(acc) \o piece
<1> DEFINE V == Seq(Nat)
           U == acc.units
           B == acc.buf
           F == FlattenSeq(U)
           new == AddPiece(acc, piece, w, pack)
           IsNew(u, b) == new.units = u /\ new.buf = b /\ new = [units |-> u, buf |-> b]
<1>1. U \in Seq(V) /\ B \in V /\ (pack \/ B = << >>) /\ acc = [units |-> U, buf |-> B]
  BY DEF Packing
<1>2. F \in V /\ Len(piece) \in Nat /\ << >> \in V
  <2>1. << >> \in V
    OBVIOUS
  <2> HIDE DEF U
  <2> QED
    BY <1>1, <2>1, FlattenAppend
<1>3. ASSUME NEW u \in Seq(V), NEW b \in V, pack \/ b = << >>, new = [units |-> u, buf |-> b],
             FlattenSeq(u) \o b = (F \o B) \o piece
      PROVE  new \in Packing(pack) /\ Held(new) = Held(acc) \o piece
  <2>1. [units |-> u, buf |-> b] \in Packing(pack)
    BY <1>3 DEF Packing
  <2>2. [units |-> u, buf |-> b].units = u /\ [units |-> u, buf |-> b].buf = b
    OBVIOUS
  <2>3. Held([units |-> u, buf |-> b]) = FlattenSeq(u) \o b
    BY <2>2, Zenon DEF Held
  <2>4. Held(acc) = F \o B
    BY Zenon DEF Held
  <2> QED
    BY <1>3, <2>1, <2>3, <2>4, Zenon
<1>4. CASE Len(piece) > w
  <2> DEFINE hs == HardSplit(piece, w)
             fl == Flush(acc)
  <2>0. ~(Len(piece) <= w)
    BY <1>2, <1>4
  <2>1. new = [units |-> fl \o hs, buf |-> << >>]
    BY <1>4, <2>0, Zenon DEF AddPiece
  <2>2. hs \in Seq(V) /\ FlattenSeq(hs) = piece
    BY HardSplitWhole
  <2>3. fl \in Seq(V) /\ FlattenSeq(fl) = F \o B
    <3> HIDE DEF U, B
    <3>1. acc.units = U /\ acc.buf = B
      BY DEF U, B
    <3> QED
      BY <1>1, <3>1, FlushWhole
  <2> HIDE DEF hs, fl
  <2>4. fl \o hs \in Seq(V)
    <3> HIDE DEF V
    <3> QED
      BY <2>2, <2>3, ConcatProperties
  <2>5. FlattenSeq(fl \o hs) = (F \o B) \o piece
    <3>1. FlattenSeq(fl \o hs) = FlattenSeq(fl) \o FlattenSeq(hs)
      BY <2>2, <2>3, FlattenConcat
    <3> QED
      BY <2>2, <2>3, <3>1, Zenon
  <2>6. FlattenSeq(fl \o hs) \o << >> = FlattenSeq(fl \o hs)
    <3>1. FlattenSeq(fl \o hs) \in V
      BY <1>2, <2>4, FlattenAppend
    <3> DEFINE x == FlattenSeq(fl \o hs)
    <3>2. x \in V
      BY <3>1
    <3> HIDE DEF x
    <3>3. x \o << >> = x
      BY <3>2, ConcatEmptySeq
    <3> QED
      BY <3>3, Zenon DEF x
  <2> QED
    BY <1>2, <1>3, <2>1, <2>4, <2>5, <2>6, Zenon
<1>5. CASE Len(piece) <= w /\ pack
  <2>0. ~(Len(piece) > w)
    BY <1>2, <1>5
  <2>1. CASE Len(B) + Len(piece) <= w
    <3>1. new = [units |-> U, buf |-> B \o piece]
      <4>1. new = [acc EXCEPT !.buf = @ \o piece]
        BY <1>5, <2>0, <2>1, Zenon DEF AddPiece
      <4> HIDE DEF U, B, new
      <4> QED
        BY <1>1, <4>1
    <3>2. B \o piece \in V
      <4> HIDE DEF B
      <4> QED
        BY <1>1, ConcatProperties
    <3>3. F \o (B \o piece) = (F \o B) \o piece
      <4>1. F \in Seq(Nat) /\ B \in Seq(Nat) /\ piece \in Seq(Nat)
        BY <1>1, <1>2
      <4> HIDE DEF B, F, V
      <4> QED
        BY <4>1
    <3> QED
      BY <1>1, <1>3, <1>5, <3>1, <3>2, <3>3, Zenon
  <2>2. CASE ~(Len(B) + Len(piece) <= w)
    <3>1. new = [units |-> Append(U, B), buf |-> piece]
      BY <1>5, <2>0, <2>2, Zenon DEF AddPiece
    <3>2. Append(U, B) \in Seq(V)
      <4> HIDE DEF U, B, V
      <4> QED
        BY <1>1, AppendProperties
    <3>3. FlattenSeq(Append(U, B)) = F \o B
      <4> HIDE DEF U, B
      <4> QED
        BY <1>1, FlattenAppend DEF F
    <3>4. FlattenSeq(Append(U, B)) \o piece = (F \o B) \o piece
      BY <3>3, Zenon
    <3> QED
      BY <1>3, <1>5, <3>1, <3>2, <3>4, Zenon
  <2> QED
    BY <2>1, <2>2, Zenon
<1>6. CASE ~(Len(piece) > w) /\ ~pack
  <2>1. new = [units |-> Append(U, piece), buf |-> B]
    <3>1. new = [acc EXCEPT !.units = Append(@, piece)]
      BY <1>6, Zenon DEF AddPiece
    <3> HIDE DEF U, B, new
    <3> QED
      BY <1>1, <3>1
  <2>2. B = << >>
    BY <1>1, <1>6
  <2>3. Append(U, piece) \in Seq(V)
    <3>1. piece \in V
      OBVIOUS
    <3> HIDE DEF U, V
    <3> QED
      BY <1>1, <3>1, AppendProperties
  <2>4. FlattenSeq(Append(U, piece)) = F \o piece
    <3> HIDE DEF U
    <3> QED
      BY <1>1, FlattenAppend DEF F
  <2>5. F \o B = F /\ (F \o piece) \o B = F \o piece
    <3> HIDE DEF F, B
    <3>1. F \o piece \in V
      BY <1>2, ConcatProperties
    <3> QED
      BY <1>2, <2>2, <3>1, ConcatEmptySeq
  <2>6. FlattenSeq(Append(U, piece)) \o B = (F \o B) \o piece
    BY <2>4, <2>5, Zenon
  <2> QED
    BY <1>1, <1>3, <2>1, <2>3, <2>6, Zenon
<1>7. Len(piece) > w \/ Len(piece) <= w
  BY <1>2
<1> QED
  BY <1>4, <1>5, <1>6, <1>7, Zenon

\* What _pack_pieces makes of the documents of a memory, one after the other, is the
\* memory: no token is lost, doubled or moved.
THEOREM UnitsAreWhole ==
    ASSUME NEW docs \in Seq(Nat), NEW w \in Nat \ {0}, NEW pack \in BOOLEAN
    PROVE  /\ Units(docs, w, pack) \in Seq(Seq(Nat))
           /\ FlattenSeq(Units(docs, w, pack)) = Numbered(1, TokensUpTo(docs)[Len(docs)])
<1> DEFINE pieces == Split(docs)
           n == Len(pieces)
           V == Packing(pack)
           base == [units |-> << >>, buf |-> << >>]
           next == [x \in (1 .. n) \X V |-> AddPiece(x[2], pieces[x[1]], w, pack)]
           IsPacked(f) == f = [i \in 0 .. n |->
                            IF i = 0 THEN base ELSE AddPiece(f[i - 1], pieces[i], w, pack)]
           packed == CHOOSE f : IsPacked(f)
           whole == Numbered(1, TokensUpTo(docs)[Len(docs)])
<1>0. pieces \in Seq(Seq(Nat)) /\ FlattenSeq(pieces) = whole
  BY SplitWhole, Zenon
<1> HIDE DEF whole
<1>1. Units(docs, w, pack) = Flush(packed[n])
  BY Zenon DEF Units
<1> HIDE DEF pieces
<1>2. n \in Nat /\ \A i \in 1 .. n : pieces[i] \in Seq(Nat)
  <2> DEFINE S == Seq(Nat)
  <2>1. pieces \in Seq(S)
    BY <1>0
  <2> HIDE DEF S
  <2>2. n \in Nat /\ \A i \in 1 .. n : pieces[i] \in S
    BY <2>1
  <2> QED
    BY <2>2 DEF S
<1>3. base \in V /\ Held(base) = << >>
  <2>1. base.units = << >> /\ base.buf = << >> /\ base \in V
    BY DEF Packing
  <2>2. Held(base) = FlattenSeq(<< >>) \o << >>
    BY <2>1, Zenon DEF Held
  <2>3. << >> \o << >> = << >>
    BY ConcatEmptySeq
  <2> QED
    BY <2>1, <2>2, <2>3, FlattenEmpty, Zenon
<1> HIDE DEF V, base
<1>4. ASSUME NEW acc \in V, NEW i \in 1 .. n
      PROVE  /\ AddPiece(acc, pieces[i], w, pack) \in V
             /\ Held(AddPiece(acc, pieces[i], w, pack)) = Held(acc) \o pieces[i]
  <2> DEFINE piece == pieces[i]
  <2>1. piece \in Seq(Nat) /\ acc \in Packing(pack)
    BY <1>2 DEF V
  <2> HIDE DEF piece
  <2>2. /\ AddPiece(acc, piece, w, pack) \in Packing(pack)
        /\ Held(AddPiece(acc, piece, w, pack)) = Held(acc) \o piece
    BY <2>1, AddPieceWhole
  <2> QED
    BY <2>2, Zenon DEF piece, V
<1>5. next \in [(1 .. n) \X V -> V]
  <2>1. ASSUME NEW x \in (1 .. n) \X V PROVE AddPiece(x[2], pieces[x[1]], w, pack) \in V
    <3>1. x[1] \in 1 .. n /\ x[2] \in V
      OBVIOUS
    <3> QED
      BY <1>4, <3>1
  <2> QED
    BY <2>1
<1>6. \A x \in (1 .. n) \X V : next[x] = AddPiece(x[2], pieces[x[1]], w, pack)
  OBVIOUS
<1> HIDE DEF next
<1>7. PICK f : IsIteration(f, n, V, base, next)
  BY <1>2, <1>3, <1>5, Iterates, Zenon
<1>8. f \in [0 .. n -> V] /\ f[0] = base /\ \A j \in 1 .. n : f[j] = next[<<j, f[j - 1]>>]
  BY <1>7 DEF IsIteration
<1>9. ASSUME NEW j \in 0 .. n
      PROVE  f[j] = IF j = 0 THEN base ELSE AddPiece(f[j - 1], pieces[j], w, pack)
  <2>1. CASE j = 0
    BY <1>8, <2>1
  <2>2. CASE j # 0
    <3>1. j \in 1 .. n /\ j - 1 \in 0 .. n
      BY <1>2, <2>2
    <3> DEFINE b == f[j - 1]
               x == <<j, b>>
    <3>2. b \in V
      BY <1>8, <3>1
    <3> HIDE DEF b
    <3>3. x \in (1 .. n) \X V /\ x[1] = j /\ x[2] = b
      BY <3>1, <3>2
    <3>4. f[j] = next[x]
      BY <1>8, <3>1, Zenon DEF b
    <3> HIDE DEF x
    <3>5. next[x] = AddPiece(b, pieces[j], w, pack)
      BY <1>6, <3>3, Zenon
    <3> QED
      BY <2>2, <3>4, <3>5, Zenon DEF b
  <2> QED
    BY <2>1, <2>2
<1>10. IsPacked(f)
  <2>1. f = [j \in 0 .. n |-> f[j]]
    BY <1>8
  <2> QED
    BY <1>9, <2>1, Zenon
<1>11. IsPacked(packed)
  BY <1>10, Zenon
<1> HIDE DEF packed
<1>12. /\ packed[0] = base
       /\ \A j \in 1 .. n : packed[j] = AddPiece(packed[j - 1], pieces[j], w, pack)
  <2>1. 0 \in 0 .. n
    BY <1>2
  <2>2. packed[0] = base
    BY <1>11, <2>1, Zenon
  <2>3. ASSUME NEW j \in 1 .. n PROVE packed[j] = AddPiece(packed[j - 1], pieces[j], w, pack)
    <3>1. j \in 0 .. n /\ j # 0
      BY <1>2
    <3> QED
      BY <1>11, <3>1, Zenon
  <2> QED
    BY <2>2, <2>3, Zenon
<1> DEFINE a(k) == SubSeq(pieces, 1, k)
           T == {k \in 0 .. n : packed[k] \in V /\ Held(packed[k]) = FlattenSeq(a(k))}
<1>13. 0 \in T
  <2>1. a(0) = << >>
    BY SubSeqEmpty
  <2>2. packed[0] \in V /\ Held(packed[0]) = FlattenSeq(a(0))
    BY <1>3, <1>12, <2>1, FlattenEmpty, Zenon
  <2> QED
    BY <1>2, <2>2
<1>14. ASSUME NEW k \in 0 .. n - 1, k \in T PROVE k + 1 \in T
  <2>1. k + 1 \in 1 .. n /\ k + 1 \in 0 .. n /\ (k + 1) - 1 = k
    BY <1>2
  <2> DEFINE p == a(k)
             x == pieces[k + 1]
             acc == packed[k]
  <2>2. acc \in V /\ Held(acc) = FlattenSeq(p)
    BY <1>14
  <2>3. p \in Seq(Seq(Nat)) /\ x \in Seq(Nat) /\ a(k + 1) = Append(p, x)
    <3> DEFINE S == Seq(Nat)
    <3>1. pieces \in Seq(S) /\ k \in 0 .. Len(pieces) - 1
      BY <1>0
    <3> HIDE DEF S
    <3>2. p \in Seq(S) /\ x \in S /\ a(k + 1) = Append(p, x)
      BY <3>1, PrefixNext
    <3> QED
      BY <3>2 DEF S
  <2>4. packed[k + 1] = AddPiece(acc, x, w, pack)
    BY <1>12, <2>1
  <2>5. AddPiece(acc, x, w, pack) \in V /\ Held(AddPiece(acc, x, w, pack)) = Held(acc) \o x
    BY <1>4, <2>1, <2>2
  <2> HIDE DEF p, x, acc
  <2>6. FlattenSeq(Append(p, x)) = FlattenSeq(p) \o x
    BY <2>3, FlattenAppend
  <2>7. packed[k + 1] \in V /\ Held(packed[k + 1]) = FlattenSeq(a(k + 1))
    BY <2>2, <2>3, <2>4, <2>5, <2>6, Zenon
  <2> QED
    BY <2>1, <2>7
<1> HIDE DEF T
<1>15. \A k \in 0 .. n : k \in T
  BY <1>2, <1>13, <1>14, UpTo
<1>16. n \in 0 .. n
  BY <1>2
<1>17. a(n) = pieces
  <2> DEFINE S == Seq(Nat)
  <2>1. pieces \in Seq(S)
    BY <1>0
  <2> HIDE DEF S
  <2> QED
    BY <2>1, SubSeqFull
<1> DEFINE last == packed[n]
<1>18. last \in V /\ Held(last) = whole
  BY <1>0, <1>15, <1>16, <1>17 DEF T
<1> HIDE DEF last
<1> DEFINE U == last.units
           B == last.buf
<1>19. U \in Seq(Seq(Nat)) /\ B \in Seq(Nat)
  BY <1>18 DEF V, Packing
<1>20. last.units = U /\ last.buf = B
  OBVIOUS
<1>21. FlattenSeq(U) \o B = whole
  BY <1>18, Zenon DEF Held
<1> HIDE DEF U, B
<1>22. Flush(last) \in Seq(Seq(Nat)) /\ FlattenSeq(Flush(last)) = FlattenSeq(U) \o B
  BY <1>19, <1>20, FlushWhole
<1> QED
  BY <1>1, <1>21, <1>22, Zenon DEF last, whole

-----------------------------------------------------------------------------
\* The retrieval server.

RagSteps == {"idle", "await", "query", "ask", "done"}
TaskSteps == {"none", "queued", "embed", "built", "failed"}

Full(m) == Len(IndexUnits[m])
WholeEntries == [mem : Memories, read : Nat]
Created == {t \in G!Tasks : task[t].step # "none"}
Arrived == {r \in Requests : pc[r] # "idle"}

\* Where a request stands says what its client has got.
RagReplyInv ==
    /\ pc \in [Requests -> RagSteps]
    /\ DOMAIN reply = Requests
    /\ \A r \in Requests :
          /\ pc[r] = "idle" => reply[r] = Absent
          /\ pc[r] \notin {"idle", "done"} => reply[r] = Asked

\* Tasks are created by requests that arrive, at most one by each; requests
\* wait for tasks of their own memory.
TaskInv ==
    /\ task \in [G!Tasks -> [step : TaskSteps, done : Nat]]
    /\ inflight \in [Memories -> Nat]
    /\ DOMAIN waits = Requests
    /\ \A r \in Requests :
          pc[r] = "await" => MemOf[r] \in Memories /\ waits[r] \in G!Tasks /\ waits[r][1] = MemOf[r]
    /\ IsFiniteSet(Created) /\ Cardinality(Created) <= Cardinality(Arrived)
    /\ \A m \in Memories : inflight[m] # 0 => inflight[m] \in 1 .. Cardinality(Requests)

\* A sequence of whole indexes.
Whole(c) == c \in Seq(WholeEntries) /\ \A i \in 1 .. Len(c) : c[i].read = Full(c[i].mem)

\* Whatever is called an index holds all units of its memory.
WholeInv ==
    /\ Whole(cache)
    /\ \A t \in G!Tasks : task[t].step = "built" => task[t].done = Full(t[1])
    /\ DOMAIN held = Requests
    /\ \A r \in Requests :
          pc[r] \in {"query", "ask"} /\ MemOf[r] # NoMemory => held[r] = Full(MemOf[r])

RagInv == RagReplyInv /\ TaskInv /\ WholeInv /\ G!OneIndexTask

-----------------------------------------------------------------------------

\* The instance's finite sets, cardinalities, maxima and removals are the
\* library's.
LEMMA RagFinite == ASSUME NEW S PROVE G!IsFiniteSet(S) <=> IsFiniteSet(S)
BY DEF G!IsFiniteSet, IsFiniteSet

\* G!'s cardinalities are the library's.
LEMMA RagCardinality == ASSUME NEW S PROVE G!Cardinality(S) = Cardinality(S)
BY DEF G!Cardinality, Cardinality

\* G!'s maxima are the library's.
LEMMA RagMax == ASSUME NEW S PROVE G!Max(S) = Max(S)
BY DEF G!Max, Max

\* The tasks of a memory, numbered.
LEMMA RagTasks == G!Tasks = Memories \X (1 .. Cardinality(Requests))
BY RagCardinality DEF G!Tasks

\* What the retrieval server may assume of its constants.
LEMMA RagConstants ==
    ASSUME G!ServerAssumption
    PROVE  /\ IsFiniteSet(Requests) /\ Cardinality(Requests) \in Nat
           /\ MemOf \in [Requests -> Memories \cup {NoMemory}] /\ NoMemory \notin Memories
           /\ \A m \in Memories : Full(m) \in Nat
           /\ BatchSize \in Nat /\ CacheSize \in Nat /\ CacheSize > 0
<1>1. IsFiniteSet(Requests) /\ Cardinality(Requests) \in Nat
    BY FS_CardinalityType, RagFinite DEF G!ServerAssumption
<1>2. ASSUME NEW m \in Memories PROVE Full(m) \in Nat
  <2> DEFINE docs == Docs[m]
             units == Units(docs, Window, FALSE)
  <2>1. docs \in Seq(Nat) /\ Window \in Nat \ {0} /\ FALSE \in BOOLEAN
    BY DEF G!ServerAssumption
  <2>2. IndexUnits[m] = units
    BY DEF IndexUnits
  <2> HIDE DEF docs
  <2>3. units \in Seq(Seq(Nat))
    BY <2>1, UnitsAreWhole, Zenon
  <2> HIDE DEF units
  <2> QED
    BY <2>2, <2>3 DEF Full
<1> QED
    BY <1>1, <1>2 DEF G!ServerAssumption

\* The entry of a memory that is cached.
LEMMA EntryWhole ==
    ASSUME Whole(cache), NEW m, G!Cached(m)
    PROVE  G!Entry(m) \in WholeEntries /\ G!Entry(m).mem = m /\ G!Entry(m).read = Full(m)
<1>1. PICK i \in 1 .. Len(cache) : cache[i].mem = m
    BY DEF G!Cached, Whole
<1>2. G!Place(m) \in DOMAIN cache /\ cache[G!Place(m)].mem = m
    BY <1>1 DEF G!Place, Whole
<1>3. G!Place(m) \in 1 .. Len(cache)
    BY <1>2 DEF Whole
<1> QED
    BY <1>2, <1>3 DEF Whole, G!Entry

\* A piece of a sequence of whole indexes.
LEMMA WholeSubSeq ==
    ASSUME NEW c, Whole(c), NEW a \in Nat, a >= 1, NEW b \in Nat, b <= Len(c)
    PROVE  Whole(SubSeq(c, a, b))
<1>0. c \in Seq(WholeEntries) /\ Len(c) \in Nat
    BY DEF Whole
<1>1. \A i \in a .. b : c[i] \in WholeEntries
    BY <1>0
<1> DEFINE s == SubSeq(c, a, b)
<1>2. /\ s \in Seq(WholeEntries)
      /\ Len(s) = IF a <= b THEN b - a + 1 ELSE 0
      /\ \A i \in 1 .. b - a + 1 : s[i] = c[a + i - 1]
    BY <1>1, SubSeqProperties
<1> HIDE DEF s
<1>3. ASSUME NEW i \in 1 .. Len(s) PROVE s[i].read = Full(s[i].mem)
  <2>1. i \in 1 .. b - a + 1 /\ a + i - 1 \in 1 .. Len(c)
    BY <1>0, <1>2
  <2> QED
    BY <1>2, <2>1 DEF Whole
<1> QED
    BY <1>2, <1>3 DEF Whole, s

\* Two sequences of whole indexes, one after the other.
LEMMA WholeConcat ==
    ASSUME NEW c, Whole(c), NEW d, Whole(d)
    PROVE  Whole(c \o d)
<1> DEFINE s == c \o d
<1>1. c \in Seq(WholeEntries) /\ d \in Seq(WholeEntries) /\ Len(c) \in Nat /\ Len(d) \in Nat
    BY DEF Whole
<1>2. /\ s \in Seq(WholeEntries) /\ Len(s) = Len(c) + Len(d)
      /\ \A i \in 1 .. Len(c) + Len(d) : s[i] = IF i <= Len(c) THEN c[i] ELSE d[i - Len(c)]
    BY <1>1, ConcatProperties
<1> HIDE DEF s
<1>3. ASSUME NEW i \in 1 .. Len(s) PROVE s[i].read = Full(s[i].mem)
  <2>1. CASE i <= Len(c)
    BY <1>1, <1>2, <2>1 DEF Whole
  <2>2. CASE i > Len(c)
    <3>1. s[i] = d[i - Len(c)] /\ i - Len(c) \in 1 .. Len(d)
      BY <1>1, <1>2, <2>2
    <3> QED
      BY <3>1 DEF Whole
  <2> QED
    BY <1>1, <1>2, <2>1, <2>2
<1> QED
    BY <1>2, <1>3 DEF Whole, s

\* A whole index is added.
LEMMA WholeAppend ==
    ASSUME NEW c, Whole(c), NEW e \in WholeEntries, e.read = Full(e.mem)
    PROVE  Whole(Append(c, e))
<1>1. c \in Seq(WholeEntries) /\ Len(c) \in Nat
    BY DEF Whole
<1>2. /\ Append(c, e) \in Seq(WholeEntries) /\ Len(Append(c, e)) = Len(c) + 1
      /\ \A i \in 1 .. Len(c) : Append(c, e)[i] = c[i]
      /\ Append(c, e)[Len(c) + 1] = e
    BY <1>1, AppendProperties
<1>3. ASSUME NEW i \in 1 .. Len(c) + 1
      PROVE  Append(c, e)[i].read = Full(Append(c, e)[i].mem)
  <2>1. CASE i <= Len(c)
    BY <1>1, <1>2, <2>1 DEF Whole
  <2>2. CASE i = Len(c) + 1
    BY <1>2, <2>2
  <2> QED
    BY <1>1, <2>1, <2>2
<1> QED
    BY <1>2, <1>3 DEF Whole

\* One is taken out.
LEMMA WholeOthers ==
    ASSUME Whole(cache), NEW m
    PROVE  Whole(G!Others(m))
<1>1. CASE ~G!Cached(m)
    BY <1>1 DEF G!Others
<1>2. CASE G!Cached(m)
  <2> DEFINE i == G!Place(m)
  <2>1. Len(cache) \in Nat /\ DOMAIN cache = 1 .. Len(cache)
    BY DEF Whole
  <2>2. i \in 1 .. Len(cache)
    BY <1>2, <2>1, Zenon DEF G!Cached, G!Place
  <2> HIDE DEF i
  <2>3. Whole(SubSeq(cache, 1, i - 1)) /\ Whole(SubSeq(cache, i + 1, Len(cache)))
    BY <2>1, <2>2, WholeSubSeq
  <2>4. G!Others(m) = SubSeq(cache, 1, i - 1) \o SubSeq(cache, i + 1, Len(cache))
    BY <1>2 DEF G!Others, G!RemoveAt, i
  <2> QED
    BY <2>3, <2>4, WholeConcat
<1> QED
    BY <1>1, <1>2

\* The oldest ones are cut.
LEMMA WholeKept ==
    ASSUME G!ServerAssumption, NEW c, Whole(c)
    PROVE  Whole(G!Kept(c))
<1>1. Len(c) \in Nat /\ CacheSize \in Nat /\ CacheSize > 0
    BY RagConstants DEF Whole
<1> DEFINE S == {1, Len(c) - CacheSize + 1}
           a == Max(S)
<1>2. a \in S /\ \A y \in S : a >= y
  <2>1. \E x \in S : \A y \in S : x >= y
    BY <1>1
  <2> QED
    BY <2>1, Zenon DEF Max
<1>3. a \in Nat /\ a >= 1
    BY <1>1, <1>2
<1> HIDE DEF a
<1>4. Whole(SubSeq(c, a, Len(c)))
    BY <1>1, <1>3, WholeSubSeq
<1> QED
    BY <1>4, RagMax DEF G!Kept, a

-----------------------------------------------------------------------------

Number(m) == 1 + Cardinality({t \in G!Tasks : t[1] = m /\ task[t].step # "none"})

\* The tasks are numerous enough: a request that arrives finds a number left.
LEMMA NumberLeft ==
    ASSUME G!ServerAssumption, RagInv, NEW r \in Requests, pc[r] = "idle", NEW m
    PROVE  Number(m) \in 1 .. Cardinality(Requests)
<1> DEFINE own == {t \in G!Tasks : t[1] = m /\ task[t].step # "none"}
<1>1. IsFiniteSet(Requests) /\ Cardinality(Requests) \in Nat
    BY RagConstants
<1>2. /\ IsFiniteSet(Requests \ {r})
      /\ Cardinality(Requests \ {r}) = Cardinality(Requests) - 1
    BY <1>1, FS_RemoveElement
<1>3. Arrived \in SUBSET (Requests \ {r})
    BY DEF Arrived
<1>4. IsFiniteSet(Arrived) /\ Cardinality(Arrived) <= Cardinality(Requests) - 1
    BY <1>2, <1>3, FS_Subset
<1>5. IsFiniteSet(Created) /\ Cardinality(Created) <= Cardinality(Arrived)
    BY DEF RagInv, TaskInv
<1>6. own \in SUBSET Created
    BY DEF Created
<1> HIDE DEF own
<1>7. IsFiniteSet(own) /\ Cardinality(own) <= Cardinality(Created)
    BY <1>5, <1>6, FS_Subset
<1>8. Cardinality(own) \in Nat /\ Cardinality(Created) \in Nat /\ Cardinality(Arrived) \in Nat
    BY <1>4, <1>5, <1>7, FS_CardinalityType
<1>9. 1 + Cardinality(own) \in 1 .. Cardinality(Requests)
    BY <1>1, <1>4, <1>5, <1>7, <1>8
<1> QED
    BY <1>9 DEF Number, own

\* No task is there at first.
LEMMA RagInit == ASSUME G!ServerAssumption PROVE G!Init => RagInv
<1> SUFFICES ASSUME G!Init PROVE RagInv
    OBVIOUS
<1>1. RagReplyInv
    BY DEF G!Init, RagReplyInv, RagSteps
<1>2. TaskInv
  <2>1. Created = {} /\ Arrived = {}
    BY DEF G!Init, Created, Arrived
  <2>2. IsFiniteSet(Created) /\ Cardinality(Created) <= Cardinality(Arrived)
    BY <2>1, FS_EmptySet
  <2> QED
    BY <2>2 DEF G!Init, TaskInv, TaskSteps
<1>3. WholeInv
    BY DEF G!Init, WholeInv, Whole
<1>4. G!OneIndexTask
    BY DEF G!Init, G!OneIndexTask
<1> QED
    BY <1>1, <1>2, <1>3, <1>4 DEF RagInv

\* RagSteps of one request r that go from s to t, reply with x, and leave the tasks.
LEMMA RagReplyKept ==
    ASSUME RagReplyInv, NEW r \in Requests, pc[r] # "idle", NEW t \in RagSteps \ {"idle"},
           pc' = [pc EXCEPT ![r] = t],
           \/ t = "done" /\ \E x : reply' = [reply EXCEPT ![r] = x]
           \/ pc[r] # "done" /\ reply' = reply
    PROVE  RagReplyInv' /\ Arrived' = Arrived
<1>1. pc' \in [Requests -> RagSteps] /\ DOMAIN reply' = Requests
    BY DEF RagReplyInv
<1>2. ASSUME NEW q \in Requests
      PROVE  /\ pc'[q] = "idle" => reply'[q] = Absent
             /\ pc'[q] \notin {"idle", "done"} => reply'[q] = Asked
    BY DEF RagReplyInv
<1>3. Arrived' = Arrived
    BY DEF Arrived, RagReplyInv
<1> QED
    BY <1>1, <1>2, <1>3 DEF RagReplyInv

\* RagSteps that neither create a task nor register one.
LEMMA TasksSame ==
    ASSUME TaskInv, Arrived' = Arrived \/ Cardinality(Arrived) + 1 = Cardinality(Arrived'),
           Cardinality(Arrived) \in Nat,
           task' \in [G!Tasks -> [step : TaskSteps, done : Nat]],
           \A t \in G!Tasks : task'[t].step = "none" <=> task[t].step = "none",
           inflight' \in [Memories -> Nat],
           \A m \in Memories : inflight'[m] \in {0, inflight[m]},
           DOMAIN waits' = Requests,
           \A q \in Requests : pc'[q] = "await" =>
               \/ pc[q] = "await" /\ waits'[q] = waits[q]
               \/ MemOf[q] \in Memories /\ waits'[q] \in G!Tasks /\ waits'[q][1] = MemOf[q]
    PROVE  TaskInv'
<1>1. Created' = Created
    BY DEF Created
<1>2. Cardinality(Created) \in Nat
    BY FS_CardinalityType DEF TaskInv
<1>3. IsFiniteSet(Created') /\ Cardinality(Created') <= Cardinality(Arrived')
    BY <1>1, <1>2 DEF TaskInv
<1>4. ASSUME NEW q \in Requests, pc'[q] = "await"
      PROVE  MemOf[q] \in Memories /\ waits'[q] \in G!Tasks /\ waits'[q][1] = MemOf[q]
    BY <1>4 DEF TaskInv
<1>5. \A m \in Memories : inflight'[m] # 0 => inflight'[m] \in 1 .. Cardinality(Requests)
    BY DEF TaskInv
<1> QED
    BY <1>3, <1>4, <1>5 DEF TaskInv

\* The requests that have arrived are finitely many.
LEMMA ArrivedFinite ==
    ASSUME G!ServerAssumption
    PROVE  IsFiniteSet(Arrived) /\ Cardinality(Arrived) \in Nat
<1>1. Arrived \in SUBSET Requests
    BY DEF Arrived
<1>2. IsFiniteSet(Arrived)
    BY <1>1, RagConstants, FS_Subset
<1> QED
    BY <1>2, FS_CardinalityType

\* A request arrives: it finds an index, finds a task, or creates one.
LEMMA RagArrive ==
    ASSUME G!ServerAssumption, RagInv, NEW r \in Requests, G!Arrive(r)
    PROVE  RagInv'
<1> DEFINE m == MemOf[r]
           new == Number(m)
<1>1. /\ pc[r] = "idle" /\ reply' = [reply EXCEPT ![r] = Asked]
      /\ m \in Memories \cup {NoMemory} /\ NoMemory \notin Memories
    BY RagConstants DEF G!Arrive
<1>2. PICK t \in {"ask", "query", "await"} :
        /\ pc' = [pc EXCEPT ![r] = t]
        /\ t = "ask" => m = NoMemory
        /\ t # "ask" => m \in Memories
    BY <1>1 DEF G!Arrive
<1>3. RagReplyInv'
  <2>1. pc' \in [Requests -> RagSteps] /\ DOMAIN reply' = Requests
    BY <1>1, <1>2 DEF RagInv, RagReplyInv, RagSteps
  <2>2. ASSUME NEW q \in Requests
        PROVE  /\ pc'[q] = "idle" => reply'[q] = Absent
               /\ pc'[q] \notin {"idle", "done"} => reply'[q] = Asked
    BY <1>1, <1>2 DEF RagInv, RagReplyInv
  <2> QED
    BY <2>1, <2>2 DEF RagReplyInv
<1>4. IsFiniteSet(Arrived) /\ Arrived' = Arrived \cup {r} /\ r \notin Arrived
  <2>1. IsFiniteSet(Arrived)
    BY ArrivedFinite
  <2>2. \A q \in Requests : pc'[q] # "idle" <=> pc[q] # "idle" \/ q = r
    BY <1>1, <1>2 DEF RagInv, RagReplyInv
  <2> QED
    BY <1>1, <2>1, <2>2 DEF Arrived
<1>5. Cardinality(Arrived') = Cardinality(Arrived) + 1 /\ Cardinality(Arrived) \in Nat
    BY <1>4, FS_AddElement, FS_CardinalityType
<1>6. IsFiniteSet(Created) /\ Cardinality(Created) <= Cardinality(Arrived)
      /\ Cardinality(Created) \in Nat
    BY FS_CardinalityType DEF RagInv, TaskInv
<1>7. new \in 1 .. Cardinality(Requests)
    BY <1>1, NumberLeft
<1>8. CASE m = NoMemory /\ UNCHANGED <<held, cache, task, waits, inflight>>
  <2>1. t = "ask"
    BY <1>1, <1>2, <1>8
  <2>2. TaskInv'
    BY <1>2, <1>5, <1>8, <2>1, TasksSame DEF RagInv, TaskInv, RagReplyInv
  <2>3. WholeInv'
    BY <1>2, <1>8, <2>1 DEF RagInv, WholeInv, RagReplyInv
  <2>4. G!OneIndexTask'
    BY <1>8 DEF RagInv, G!OneIndexTask
  <2> QED
    BY <1>3, <2>2, <2>3, <2>4 DEF RagInv
<1>9. CASE /\ m \in Memories /\ G!Cached(m) /\ pc' = [pc EXCEPT ![r] = "query"]
           /\ cache' = Append(G!Others(m), G!Entry(m)) /\ held' = [held EXCEPT ![r] = G!Entry(m).read]
           /\ UNCHANGED <<task, waits, inflight>>
  <2>1. TaskInv'
    BY <1>5, <1>9, TasksSame DEF RagInv, TaskInv, RagReplyInv
  <2>2. Whole(cache)
    BY DEF RagInv, WholeInv
  <2>3. Whole(cache')
    BY <1>9, <2>2, EntryWhole, WholeOthers, WholeAppend
  <2>4. held'[r] = Full(m)
    BY <1>9, <2>2, EntryWhole DEF RagInv, WholeInv
  <2>5. ASSUME NEW q \in Requests, pc'[q] \in {"query", "ask"}, MemOf[q] # NoMemory
        PROVE  held'[q] = Full(MemOf[q])
    BY <1>9, <2>4, <2>5 DEF RagInv, WholeInv, RagReplyInv
  <2>6. WholeInv'
    BY <1>9, <2>3, <2>5 DEF RagInv, WholeInv
  <2>7. G!OneIndexTask'
    BY <1>9 DEF RagInv, G!OneIndexTask
  <2> QED
    BY <1>3, <2>1, <2>6, <2>7 DEF RagInv
<1>10. CASE /\ m \in Memories /\ inflight[m] # 0 /\ pc' = [pc EXCEPT ![r] = "await"]
            /\ waits' = [waits EXCEPT ![r] = <<m, inflight[m]>>]
            /\ UNCHANGED <<held, cache, task, inflight>>
  <2>1. <<m, inflight[m]>> \in G!Tasks
    BY <1>10, RagTasks DEF RagInv, TaskInv
  <2>2. waits'[r] \in G!Tasks /\ waits'[r][1] = m /\ DOMAIN waits' = Requests
    BY <1>10, <2>1 DEF RagInv, TaskInv
  <2>3. \A q \in Requests : q # r => waits'[q] = waits[q] /\ pc'[q] = pc[q]
    BY <1>10 DEF RagInv, RagReplyInv
  <2>4. TaskInv'
    BY <1>5, <1>10, <2>2, <2>3, TasksSame DEF RagInv, TaskInv
  <2>5. WholeInv'
    BY <1>10 DEF RagInv, WholeInv, RagReplyInv
  <2>6. G!OneIndexTask'
    BY <1>10 DEF RagInv, G!OneIndexTask
  <2> QED
    BY <1>3, <2>4, <2>5, <2>6 DEF RagInv
<1>11. CASE /\ m \in Memories /\ inflight[m] = 0 /\ pc' = [pc EXCEPT ![r] = "await"]
            /\ task' = [task EXCEPT ![<<m, new>>].step = "queued"]
            /\ inflight' = [inflight EXCEPT ![m] = new]
            /\ waits' = [waits EXCEPT ![r] = <<m, new>>]
            /\ UNCHANGED <<held, cache>>
  <2> HIDE DEF new
  <2>1. <<m, new>> \in G!Tasks
    BY <1>7, <1>11, RagTasks
  <2>2. task' \in [G!Tasks -> [step : TaskSteps, done : Nat]]
    BY <1>11, <2>1 DEF RagInv, TaskInv, TaskSteps
  <2>3. inflight' \in [Memories -> Nat]
        /\ \A k \in Memories : inflight'[k] # 0 => inflight'[k] \in 1 .. Cardinality(Requests)
    BY <1>7, <1>11 DEF RagInv, TaskInv
  <2>4. DOMAIN waits' = Requests
        /\ \A q \in Requests : pc'[q] = "await" =>
               MemOf[q] \in Memories /\ waits'[q] \in G!Tasks /\ waits'[q][1] = MemOf[q]
    BY <1>11, <2>1 DEF RagInv, TaskInv, RagReplyInv
  <2>5. \A t1 \in G!Tasks : task'[t1] = IF t1 = <<m, new>>
                                      THEN [task[t1] EXCEPT !.step = "queued"] ELSE task[t1]
    BY <1>11 DEF RagInv, TaskInv
  <2>6. task'[<<m, new>>].step = "queued"
    BY <2>1, <2>5 DEF RagInv, TaskInv
  <2>7. Created' = Created \cup {<<m, new>>}
    BY <2>1, <2>5, <2>6 DEF Created
  <2>8. IsFiniteSet(Created') /\ Cardinality(Created') <= Cardinality(Created) + 1
    <3>1. /\ IsFiniteSet(Created \cup {<<m, new>>})
          /\ Cardinality(Created \cup {<<m, new>>})
               = IF <<m, new>> \in Created THEN Cardinality(Created) ELSE Cardinality(Created) + 1
      BY <1>6, FS_AddElement
    <3> QED
      BY <1>6, <2>7, <3>1
  <2>9. TaskInv'
    <3>1. Cardinality(Created') \in Nat
      BY <2>8, FS_CardinalityType
    <3>2. Cardinality(Created') <= Cardinality(Arrived')
      BY <1>5, <1>6, <2>8, <3>1
    <3> QED
      BY <2>2, <2>3, <2>4, <2>8, <3>2 DEF TaskInv
  <2>10. WholeInv'
    <3>1. \A t1 \in G!Tasks : task'[t1].step = "built" => task'[t1].done = Full(t1[1])
      BY <2>5, <2>6 DEF RagInv, WholeInv
    <3> QED
      BY <1>11, <3>1 DEF RagInv, WholeInv, RagReplyInv
  <2>11. G!OneIndexTask'
    <3> SUFFICES ASSUME NEW t1 \in G!Tasks, task'[t1].step \in {"queued", "embed"}
                 PROVE  inflight'[t1[1]] = t1[2]
      BY DEF G!OneIndexTask
    <3>1. t1[1] \in Memories /\ t1[2] \in 1 .. Cardinality(Requests) /\ t1 = <<t1[1], t1[2]>>
      BY RagTasks
    <3>2. CASE t1 = <<m, new>>
      BY <1>11, <3>2 DEF RagInv, TaskInv
    <3>3. CASE t1 # <<m, new>>
      <4>1. inflight[t1[1]] = t1[2]
        BY <2>5, <3>3 DEF RagInv, G!OneIndexTask
      <4>2. t1[1] # m
        BY <1>11, <3>1, <4>1
      <4> QED
        BY <1>11, <3>1, <4>1, <4>2 DEF RagInv, TaskInv
    <3> QED
      BY <3>2, <3>3
  <2> QED
    BY <1>3, <2>9, <2>10, <2>11 DEF RagInv
<1> QED
    BY <1>1, <1>8, <1>9, <1>10, <1>11, RagCardinality DEF G!Arrive, Number

\* Steps of one task t, which becomes v.
LEMMA IndexKept ==
    ASSUME RagInv, NEW t \in G!Tasks, NEW v \in [step : TaskSteps, done : Nat],
           task' = [task EXCEPT ![t] = v],
           task[t].step \in {"queued", "embed"}, v.step # "none",
           v.step = "built" => v.done = Full(t[1]),
           Whole(cache'), UNCHANGED <<pc, reply, held, waits, inflight>>
    PROVE  RagInv'
<1>1. \A u \in G!Tasks : task'[u] = IF u = t THEN v ELSE task[u]
    BY DEF RagInv, TaskInv
<1>2. RagReplyInv'
    BY DEF RagInv, RagReplyInv
<1>3. TaskInv'
  <2>1. task' \in [G!Tasks -> [step : TaskSteps, done : Nat]]
    BY DEF RagInv, TaskInv
  <2>2. Created' = Created /\ Arrived' = Arrived
    BY <1>1 DEF Created, Arrived
  <2> QED
    BY <2>1, <2>2 DEF RagInv, TaskInv
<1>4. WholeInv'
    BY <1>1 DEF RagInv, WholeInv
<1>5. G!OneIndexTask'
    BY <1>1 DEF RagInv, G!OneIndexTask
<1> QED
    BY <1>2, <1>3, <1>4, <1>5 DEF RagInv

\* A task gets past the semaphore.
LEMMA RagStartEmbedding ==
    ASSUME G!ServerAssumption, RagInv, NEW t \in G!Tasks, G!StartEmbedding(t)
    PROVE  RagInv'
<1>1. Whole(cache)
    BY DEF RagInv, WholeInv
<1>2. CASE G!Cached(t[1])
  <2> DEFINE v == [step |-> "built", done |-> G!Entry(t[1]).read]
  <2>1. G!Entry(t[1]).read \in Nat /\ G!Entry(t[1]).read = Full(t[1]) /\ Whole(cache')
    BY <1>1, <1>2, EntryWhole, WholeOthers, WholeAppend DEF G!StartEmbedding, G!Admitted, WholeEntries
  <2>2. v \in [step : TaskSteps, done : Nat] /\ v.step = "built" /\ v.done = Full(t[1])
    BY <2>1 DEF TaskSteps
  <2>3. task' = [task EXCEPT ![t] = v]
    BY <1>2 DEF G!StartEmbedding
  <2> HIDE DEF v
  <2> QED
    BY <2>1, <2>2, <2>3, IndexKept DEF G!StartEmbedding, G!Admitted
<1>3. CASE ~G!Cached(t[1])
  <2> DEFINE v == [step |-> "embed", done |-> 0]
  <2>1. v \in [step : TaskSteps, done : Nat] /\ v.step = "embed"
    BY DEF TaskSteps
  <2>2. task' = [task EXCEPT ![t] = v] /\ cache' = cache
    BY <1>3 DEF G!StartEmbedding
  <2> HIDE DEF v
  <2> QED
    BY <1>1, <2>1, <2>2, IndexKept DEF G!StartEmbedding, G!Admitted
<1> QED
    BY <1>2, <1>3

\* A batch that is not the last is embedded.
LEMMA RagEmbedBatch ==
    ASSUME G!ServerAssumption, RagInv, NEW t \in G!Tasks, G!EmbedBatch(t)
    PROVE  RagInv'
<1> DEFINE v == [task[t] EXCEPT !.done = @ + BatchSize]
<1>1. task[t] \in [step : TaskSteps, done : Nat] /\ BatchSize \in Nat
    BY RagConstants DEF RagInv, TaskInv
<1>2. v \in [step : TaskSteps, done : Nat] /\ v.step = "embed"
    BY <1>1 DEF G!EmbedBatch
<1>3. task' = [task EXCEPT ![t] = v]
    BY DEF G!EmbedBatch
<1>4. Whole(cache')
    BY DEF G!EmbedBatch, RagInv, WholeInv
<1> HIDE DEF v
<1> QED
    BY <1>2, <1>3, <1>4, IndexKept DEF G!EmbedBatch

\* An index of all units of its memory is stored.
LEMMA RagStore ==
    ASSUME G!ServerAssumption, RagInv, NEW t \in G!Tasks,
           task[t].step \in {"queued", "embed"}, G!Store(t, Full(t[1]))
    PROVE  RagInv'
<1> DEFINE m == t[1]
           all == Full(m)
           v == [step |-> "built", done |-> all]
           e == [mem |-> m, read |-> all]
<1>1. m \in Memories /\ all \in Nat
  <2>1. m \in Memories
    BY DEF G!Tasks
  <2> QED
    BY <2>1, RagConstants
<1>2. /\ task' = [task EXCEPT ![t] = v] /\ cache' = G!Kept(Append(G!Others(m), e))
      /\ UNCHANGED <<pc, reply, held, waits, inflight>>
    BY DEF G!Store
<1>3. v \in [step : TaskSteps, done : Nat] /\ v.step = "built" /\ v.done = Full(m)
    BY <1>1 DEF TaskSteps
<1>4. e \in WholeEntries /\ e.read = Full(e.mem)
    BY <1>1 DEF WholeEntries
<1> HIDE DEF v, e
<1>5. Whole(Append(G!Others(m), e))
  <2>1. Whole(G!Others(m))
    BY WholeOthers DEF RagInv, WholeInv
  <2> QED
    BY <1>4, <2>1, WholeAppend
<1>6. Whole(cache')
    BY <1>2, <1>5, WholeKept
<1> QED
    BY <1>2, <1>3, <1>6, IndexKept

\* A memory without units is stored at once.
LEMMA RagIndexEmpty ==
    ASSUME G!ServerAssumption, RagInv, NEW t \in G!Tasks, G!IndexEmpty(t)
    PROVE  RagInv'
<1>1. task[t].step = "queued" /\ IndexUnits[t[1]] = <<>> /\ G!Store(t, 0)
    BY DEF G!IndexEmpty, G!Admitted
<1>2. Full(t[1]) = 0
    BY <1>1 DEF Full
<1> QED
    BY <1>1, <1>2, RagStore

\* The last batch returns.
LEMMA RagStoreIndex ==
    ASSUME G!ServerAssumption, RagInv, NEW t \in G!Tasks, G!StoreIndex(t)
    PROVE  RagInv'
<1>1. task[t].step = "embed" /\ G!Store(t, task[t].done + G!Left(t))
    BY DEF G!StoreIndex
<1>2. t[1] \in Memories /\ task[t] \in [step : TaskSteps, done : Nat]
    BY DEF G!Tasks, RagInv, TaskInv
<1>3. Full(t[1]) \in Nat
    BY <1>2, RagConstants
<1>4. task[t].done + G!Left(t) = Full(t[1])
    BY <1>2, <1>3 DEF G!Left, Full
<1> QED
    BY <1>1, <1>4, RagStore

\* A task fails.
LEMMA RagEmbeddingFails ==
    ASSUME RagInv, NEW t \in G!Tasks, G!EmbeddingFails(t)
    PROVE  RagInv'
<1> DEFINE v == [task[t] EXCEPT !.step = "failed"]
<1>1. task[t] \in [step : TaskSteps, done : Nat]
    BY DEF RagInv, TaskInv
<1>2. v \in [step : TaskSteps, done : Nat] /\ v.step = "failed"
    BY <1>1 DEF TaskSteps
<1>3. task' = [task EXCEPT ![t] = v]
    BY DEF G!EmbeddingFails
<1>4. Whole(cache')
    BY DEF G!EmbeddingFails, RagInv, WholeInv
<1> HIDE DEF v
<1> QED
    BY <1>2, <1>3, <1>4, IndexKept DEF G!EmbeddingFails

\* The first request to leave a task takes it out: it has ended, so no task
\* under way loses its registration.
LEMMA RagResume ==
    ASSUME G!ServerAssumption, RagInv, NEW r \in Requests, G!Resume(r)
    PROVE  RagInv'
<1> DEFINE t == waits[r]
<1>1. /\ pc[r] = "await" /\ MemOf[r] \in Memories /\ t \in G!Tasks /\ t[1] = MemOf[r]
      /\ task[t].step \in {"built", "failed"} /\ task[t].step \notin {"queued", "embed"}
      /\ UNCHANGED <<cache, task>>
    BY DEF G!Resume, G!Ended, RagInv, TaskInv
<1>2. waits' = [waits EXCEPT ![r] = G!NoTask]
    BY DEF G!Resume
<1>3. PICK s \in {"query", "done"} :
        /\ pc' = [pc EXCEPT ![r] = s]
        /\ s = "query" => /\ task[t].step = "built" /\ reply' = reply
                          /\ held' = [held EXCEPT ![r] = task[t].done]
        /\ s = "done" => reply' = [reply EXCEPT ![r] = Failed] /\ held' = held
    BY DEF G!Resume
<1>4. inflight' = G!Unregister(t)
    BY DEF G!Resume
<1> HIDE DEF t
<1>5. RagReplyInv' /\ Arrived' = Arrived
    BY <1>1, <1>3, RagReplyKept DEF RagInv, RagSteps
<1>6. /\ inflight' \in [Memories -> Nat]
      /\ \A m \in Memories : inflight'[m] # inflight[m] =>
            inflight'[m] = 0 /\ t = <<m, inflight[m]>>
  <2>1. t = <<t[1], t[2]>> /\ t[1] \in Memories
    BY <1>1 DEF G!Tasks
  <2> QED
    BY <1>4, <2>1 DEF G!Unregister, RagInv, TaskInv
<1>7. TaskInv'
  <2>1. \A q \in Requests : pc'[q] = "await" => pc[q] = "await" /\ waits'[q] = waits[q]
    BY <1>2, <1>3 DEF RagInv, RagReplyInv, TaskInv
  <2>2. DOMAIN waits' = Requests
    BY <1>2 DEF RagInv, TaskInv
  <2>3. \A m \in Memories : inflight'[m] \in {0, inflight[m]}
    BY <1>6
  <2> QED
    BY <1>1, <1>5, <1>6, <2>1, <2>2, <2>3, ArrivedFinite, TasksSame DEF RagInv, TaskInv
<1>8. WholeInv'
  <2>1. ASSUME NEW q \in Requests, pc'[q] \in {"query", "ask"}, MemOf[q] # NoMemory
        PROVE  held'[q] = Full(MemOf[q])
    <3>1. CASE q = r
      BY <1>1, <1>3, <2>1, <3>1 DEF RagInv, WholeInv, RagReplyInv
    <3>2. CASE q # r
      BY <1>3, <2>1, <3>2 DEF RagInv, WholeInv, RagReplyInv
    <3> QED
      BY <3>1, <3>2
  <2>2. DOMAIN held' = Requests
    BY <1>3 DEF RagInv, WholeInv
  <2> QED
    BY <1>1, <2>1, <2>2 DEF RagInv, WholeInv
<1>9. G!OneIndexTask'
  <2> SUFFICES ASSUME NEW u \in G!Tasks, task[u].step \in {"queued", "embed"}
               PROVE  inflight'[u[1]] = u[2]
    BY <1>1 DEF G!OneIndexTask
  <2>1. u # t /\ inflight[u[1]] = u[2] /\ u[1] \in Memories /\ u = <<u[1], u[2]>>
    BY <1>1 DEF RagInv, G!OneIndexTask, G!Tasks
  <2> QED
    BY <1>6, <2>1
<1> QED
    BY <1>5, <1>7, <1>8, <1>9 DEF RagInv

\* The query is embedded, or asked.
LEMMA RagRead ==
    ASSUME G!ServerAssumption, RagInv, NEW r \in Requests, G!EmbedQuery(r) \/ G!Ask(r)
    PROVE  RagInv'
<1>1. PICK s \in {"ask", "done"} :
        /\ pc' = [pc EXCEPT ![r] = s]
        /\ s = "done" => \E x : reply' = [reply EXCEPT ![r] = x]
        /\ s = "ask" => reply' = reply
    BY DEF G!EmbedQuery, G!Ask
<1>2. pc[r] \in {"query", "ask"} /\ UNCHANGED <<held, cache, task, waits, inflight>>
    BY DEF G!EmbedQuery, G!Ask
<1>3. RagReplyInv' /\ Arrived' = Arrived
  <2>1. s \in RagSteps \ {"idle"} /\ pc[r] \notin {"idle", "done"}
    BY <1>2 DEF RagSteps
  <2> QED
    BY <1>1, <2>1, RagReplyKept DEF RagInv
<1>4. TaskInv'
  <2>1. \A q \in Requests : pc'[q] = "await" => pc[q] = "await"
    BY <1>1 DEF RagInv, RagReplyInv
  <2> QED
    BY <1>2, <1>3, <2>1, ArrivedFinite, TasksSame DEF RagInv, TaskInv
<1>5. WholeInv'
    BY <1>1, <1>2 DEF RagInv, WholeInv, RagReplyInv
<1>6. G!OneIndexTask'
    BY <1>2 DEF RagInv, G!OneIndexTask
<1> QED
    BY <1>3, <1>4, <1>5, <1>6 DEF RagInv

\* Nothing happens.
LEMMA RagStutter == RagInv /\ UNCHANGED G!vars => RagInv'
<1> SUFFICES ASSUME RagInv, UNCHANGED G!vars PROVE RagInv'
    OBVIOUS
<1>1. RagReplyInv' /\ WholeInv' /\ G!OneIndexTask'
    BY DEF RagInv, RagReplyInv, WholeInv, G!OneIndexTask, G!vars
<1>2. TaskInv'
    BY DEF RagInv, TaskInv, Created, Arrived, G!vars
<1> QED
    BY <1>1, <1>2 DEF RagInv

-----------------------------------------------------------------------------
\* The delta server: the names of its steps.
DeltaSteps == {"idle", "wait", "snapshot", "load", "prefill", "start", "generate", "done"}
Past(r) == pc[r] \notin {"idle", "wait", "done"}

\* The first in line is the one past the lock, and where a request stands says
\* what its client has got.
LineInv ==
    /\ pc \in [Requests -> DeltaSteps]
    /\ DOMAIN reply = Requests
    /\ line \in Seq(Requests)
    /\ \A r \in Requests : Past(r) => line # <<>> /\ Head(line) = r
    /\ \A r \in Requests :
          /\ pc[r] = "idle" => reply[r] = Absent
          /\ pc[r] \notin {"idle", "done"} => reply[r] = Asked

\* A snapshot is its memory, or all but the last token of it.
SnapInv ==
    /\ snapKey \in Memories \cup {NoMemory}
    /\ snapKey # NoMemory => snap \in {D!MemoryTokens(snapKey), Front(D!MemoryTokens(snapKey))}

\* What the model has taken in when it reads a memory, and when it goes on to
\* the answer; it writes until then.
StateInv ==
    \A r \in Requests :
        /\ pc[r] = "snapshot" => MemOf[r] # NoMemory /\ written = <<>> /\ write
        /\ pc[r] = "load" => MemOf[r] # NoMemory /\ snapKey = MemOf[r]
        /\ pc[r] \in {"start", "generate"} => [mem |-> MemOf[r], read |-> written] \in D!Own[r]
        /\ pc[r] = "generate" => ~write

DeltaInv == LineInv /\ SnapInv /\ StateInv

-----------------------------------------------------------------------------

\* D! has the sequence operators under names of its own.
LEMMA DeltaNames ==
    /\ \A s : D!Front(s) = Front(s)
    /\ \A s, t : D!IsPrefix(s, t) = IsPrefix(s, t)
    /\ \A S : D!Max(S) = Max(S) /\ D!Min(S) = Min(S)
<1>1. \A s : D!Front(s) = Front(s)
    BY DEF D!Front, Front
<1>2. \A s, t : D!IsPrefix(s, t) = IsPrefix(s, t)
    BY DEF D!IsPrefix, IsPrefix
<1>3. \A S : D!Max(S) = Max(S) /\ D!Min(S) = Min(S)
    BY DEF D!Max, Max, D!Min, Min
<1> QED
    BY <1>1, <1>2, <1>3

\* The maximum of a set that has it.
LEMMA MaxIs ==
    ASSUME NEW S, S \subseteq Nat, NEW x \in S, \A y \in S : y <= x
    PROVE  Max(S) = x
<1> DEFINE top == Max(S)
<1>1. x \in S /\ x \in Nat /\ \A y \in S : x >= y
    OBVIOUS
<1>2. top \in S /\ \A y \in S : top >= y
    BY <1>1, Zenon DEF Max
<1> HIDE DEF top
<1>3. top \in Nat /\ top <= x /\ top >= x
    BY <1>1, <1>2
<1> QED
    BY <1>1, <1>3 DEF top

\* The minimum of two numbers.
LEMMA MinOfTwo ==
    ASSUME NEW a \in Nat, NEW b \in Nat, a <= b
    PROVE  Min({a, b}) = a /\ Min({b, a}) = a
<1> DEFINE S == {a, b}
<1>1. {b, a} = S
    OBVIOUS
<1>2. Min(S) \in S /\ \A y \in S : Min(S) <= y
    BY DEF Min
<1> QED
    BY <1>1, <1>2

\* The prompt is the memory or all but its last token, and the query.
LEMMA PromptTokens ==
    ASSUME D!ServerAssumption, NEW r \in Requests, MemOf[r] # NoMemory,
           NEW m, m = D!MemoryTokens(MemOf[r])
    PROVE  LET T == {MemOf[r], r} \X Nat
               base == IF r \in Merged THEN Front(m) ELSE m
               p == D!Prompt(r)
           IN  /\ m \in Seq(T) /\ Len(m) \in Nat /\ Len(m) > 1
               /\ m[Len(m)] = <<MemOf[r], Len(m)>>
               /\ base \in Seq(T)
               /\ Len(base) = IF r \in Merged THEN Len(m) - 1 ELSE Len(m)
               /\ p \in Seq(T) /\ Len(p) = Len(base) + 1
               /\ p[Len(p)] = <<r, 0>>
               /\ SubSeq(p, 1, Len(base)) = base
               /\ SubSeq(m, 1, Len(base)) = base
<1> DEFINE T == {MemOf[r], r} \X Nat
           L == Length[MemOf[r]]
           base == IF r \in Merged THEN Front(m) ELSE m
           query == <<<<r, 0>>>>
           p == D!Prompt(r)
<1>1. L \in Nat /\ L > 1
    BY DEF D!ServerAssumption
<1>2. m \in Seq(T) /\ Len(m) = L /\ m[L] = <<MemOf[r], L>>
  <2>1. m = [i \in 1 .. L |-> <<MemOf[r], i>>]
    BY DEF D!MemoryTokens
  <2>2. \A i \in 1 .. L : <<MemOf[r], i>> \in T
    OBVIOUS
  <2> HIDE DEF T, L
  <2> QED
    BY <1>1, <2>1, <2>2
<1>3. query \in Seq(T) /\ Len(query) = 1 /\ query[1] = <<r, 0>>
  <2>1. <<r, 0>> \in T
    OBVIOUS
  <2> HIDE DEF T
  <2> QED
    BY <2>1
<1> HIDE DEF T, L, query
<1>4. /\ base \in Seq(T) /\ SubSeq(m, 1, Len(base)) = base
      /\ Len(base) = IF r \in Merged THEN Len(m) - 1 ELSE Len(m)
  <2>1. CASE r \in Merged
    <3>1. base = SubSeq(m, 1, L - 1)
      BY <1>2, <2>1 DEF Front
    <3>2. base \in Seq(T) /\ Len(base) = L - 1
      BY <1>1, <1>2, <3>1, SubSeqProperties
    <3> QED
      BY <1>2, <2>1, <3>1, <3>2
  <2>2. CASE r \notin Merged
    BY <1>1, <1>2, <2>2, SubSeqFull
  <2> QED
    BY <2>1, <2>2
<1>5. p = base \o query
    BY DeltaNames DEF D!Prompt, query
<1> HIDE DEF base, p
<1>6. Len(base) \in Nat /\ Len(base) >= 1
    BY <1>1, <1>2, <1>4
<1>7. /\ p \in Seq(T) /\ Len(p) = Len(base) + 1
      /\ p[Len(base) + 1] = query[1]
  <2>1. /\ base \o query \in Seq(T)
        /\ Len(base \o query) = Len(base) + Len(query)
        /\ \A i \in 1 .. Len(base) + Len(query) : (base \o query)[i] =
               IF i <= Len(base) THEN base[i] ELSE query[i - Len(base)]
    BY <1>3, <1>4, ConcatProperties
  <2> QED
    BY <1>3, <1>5, <1>6, <2>1
<1>8. SubSeq(p, 1, Len(base)) = SubSeq(base, 1, Len(base))
    BY <1>3, <1>4, <1>5, <1>6, SubSeqOfConcat1
<1>9. SubSeq(base, 1, Len(base)) = base
    BY <1>4, SubSeqFull
<1> QED
    BY <1>1, <1>2, <1>3, <1>4, <1>7, <1>8, <1>9 DEF T, base, p

\* What the prompt and the memory alone have in common is the memory, or all
\* but its last token.
LEMMA SharedTokens ==
    ASSUME D!ServerAssumption, NEW r \in Requests, MemOf[r] # NoMemory,
           NEW m, m = D!MemoryTokens(MemOf[r])
    PROVE  D!CommonPrefix(D!Prompt(r), m) \in {m, Front(m)}
<1> DEFINE T == {MemOf[r], r} \X Nat
           base == IF r \in Merged THEN Front(m) ELSE m
           n == Len(base)
           L == Len(m)
           p == D!Prompt(r)
           shared == {k \in 1 .. Min({Len(p), L}) : SubSeq(p, 1, k) = SubSeq(m, 1, k)}
<1>1. /\ m \in Seq(T) /\ L \in Nat /\ L > 1 /\ m[L] = <<MemOf[r], L>>
      /\ n = IF r \in Merged THEN L - 1 ELSE L
      /\ p \in Seq(T) /\ Len(p) = n + 1 /\ p[Len(p)] = <<r, 0>>
      /\ SubSeq(p, 1, n) = base /\ SubSeq(m, 1, n) = base
    BY PromptTokens
<1>2. base \in {m, Front(m)}
    OBVIOUS
<1>3. D!CommonPrefix(p, m) = SubSeq(p, 1, Max({0} \cup shared))
    BY DeltaNames DEF D!CommonPrefix
<1> HIDE DEF base, p, T, L, n
<1>4. n \in Nat /\ n >= 1 /\ (n = L \/ n = L - 1)
    BY <1>1
<1>5. Min({Len(p), L}) = L
    BY <1>1, <1>4, MinOfTwo
<1>6. shared = {k \in 1 .. L : SubSeq(p, 1, k) = SubSeq(m, 1, k)}
    BY <1>5
<1> HIDE DEF shared
<1>7. n \in shared
  <2>1. SubSeq(p, 1, n) = SubSeq(m, 1, n) /\ n \in 1 .. L
    BY <1>1, <1>4
  <2> QED
    BY <1>6, <2>1
<1>8. ASSUME NEW k \in shared PROVE k <= n
  <2>0. k \in 1 .. L /\ SubSeq(p, 1, k) = SubSeq(m, 1, k)
    BY <1>6
  <2> SUFFICES ASSUME k > n PROVE FALSE
    BY <1>1, <1>4, <2>0
  <2>1. k = L /\ k = Len(p)
    BY <1>1, <1>4, <2>0
  <2>2. SubSeq(p, 1, k) = p /\ SubSeq(m, 1, k) = m
    BY <1>1, <2>1, SubSeqFull DEF L
  <2>3. p = m
    BY <2>0, <2>2
  <2>4. <<r, 0>> = <<MemOf[r], L>>
    BY <1>1, <2>1, <2>3
  <2> QED
    BY <1>1, <2>4
<1>9. {0} \cup shared \subseteq Nat
    BY <1>1, <1>6
<1>10. Max({0} \cup shared) = n
  <2> DEFINE S == {0} \cup shared
  <2>1. S \subseteq Nat /\ n \in S /\ \A y \in S : y <= n
    BY <1>4, <1>7, <1>8, <1>9
  <2> HIDE DEF S
  <2>2. Max(S) = n
    BY <2>1, MaxIs
  <2> QED
    BY <2>2 DEF S
<1> QED
    BY <1>1, <1>2, <1>3, <1>10 DEF p

\* What a reply may rest on.
LEMMA OwnAnswers ==
    ASSUME NEW r \in Requests
    PROVE  /\ [mem |-> MemOf[r], read |-> Front(D!Prompt(r))] \in D!Own[r]
           /\ \A s \in {D!MemoryTokens(MemOf[r]), Front(D!MemoryTokens(MemOf[r]))} :
                 MemOf[r] # NoMemory /\ IsPrefix(s, D!Prompt(r)) =>
                     [mem |-> MemOf[r], read |-> s] \in D!Own[r]
    BY DeltaNames DEF D!Own

-----------------------------------------------------------------------------
\* The lock: nobody else is past it while r stands first in line.

\* Two requests past the lock are the same one.
LEMMA OnePast ==
    ASSUME LineInv, NEW s, NEW r \in Requests, D!Holds(r, s), NEW q \in Requests, Past(q)
    PROVE  q = r
    BY DEF LineInv, D!Holds

\* A request past the lock goes on: the line stays.
LEMMA GoKeepsLine ==
    ASSUME LineInv, NEW r \in Requests, NEW s \in DeltaSteps \ {"idle", "done"}, D!Holds(r, s),
           NEW t \in DeltaSteps \ {"idle", "wait", "done"}, D!Go(r, t)
    PROVE  LineInv'
<1>1. pc' = [pc EXCEPT ![r] = t] /\ reply' = reply /\ line' = line
    BY DEF D!Go
<1>2. pc' \in [Requests -> DeltaSteps] /\ DOMAIN reply' = Requests /\ line' \in Seq(Requests)
    BY <1>1 DEF LineInv
<1>3. ASSUME NEW q \in Requests, Past(q)' PROVE line' # <<>> /\ Head(line') = q
    BY <1>1, <1>3 DEF LineInv, D!Holds, Past
<1>4. ASSUME NEW q \in Requests
      PROVE  /\ pc'[q] = "idle" => reply'[q] = Absent
             /\ pc'[q] \notin {"idle", "done"} => reply'[q] = Asked
    BY <1>1 DEF LineInv, D!Holds
<1> QED
    BY <1>2, <1>3, <1>4 DEF LineInv

\* A call ends: the next in line is first.
LEMMA EndKeepsLine ==
    ASSUME LineInv, NEW r \in Requests, NEW s \in DeltaSteps \ {"idle", "done"}, D!Holds(r, s),
           NEW a, D!End(r, a)
    PROVE  LineInv'
<1>1. pc' = [pc EXCEPT ![r] = "done"] /\ reply' = [reply EXCEPT ![r] = a] /\ line' = Tail(line)
    BY DEF D!End
<1>2. line # <<>> /\ line \in Seq(Requests)
    BY DEF LineInv, D!Holds
<1>3. pc' \in [Requests -> DeltaSteps] /\ DOMAIN reply' = Requests
    BY <1>1 DEF LineInv, DeltaSteps
<1>4. line' \in Seq(Requests)
    BY <1>1, <1>2, HeadTailProperties
<1>5. ASSUME NEW q \in Requests PROVE ~Past(q)'
  <2>1. CASE q = r
    BY <1>1, <2>1 DEF LineInv, Past
  <2>2. CASE q # r
    BY <1>1, <2>2, OnePast DEF LineInv, Past
  <2> QED
    BY <2>1, <2>2
<1>6. ASSUME NEW q \in Requests
      PROVE  /\ pc'[q] = "idle" => reply'[q] = Absent
             /\ pc'[q] \notin {"idle", "done"} => reply'[q] = Asked
    BY <1>1 DEF LineInv
<1> QED
    BY <1>3, <1>4, <1>5, <1>6 DEF LineInv

\* Only the request past the lock has a step to say anything about.
LEMMA GoKeepsState ==
    ASSUME LineInv, NEW r \in Requests, NEW s \in DeltaSteps \ {"idle", "done"}, D!Holds(r, s),
           NEW t \in DeltaSteps, D!Go(r, t),
           t = "snapshot" => MemOf[r] # NoMemory /\ written' = <<>> /\ write',
           t = "load" => MemOf[r] # NoMemory /\ snapKey' = MemOf[r],
           t \in {"start", "generate"} => [mem |-> MemOf[r], read |-> written'] \in D!Own[r],
           t = "generate" => ~write'
    PROVE  StateInv'
<1>1. pc' = [pc EXCEPT ![r] = t]
    BY DEF D!Go
<1>2. ASSUME NEW q \in Requests, q # r PROVE pc'[q] = pc[q] /\ ~Past(q)
    BY <1>1, <1>2, OnePast DEF LineInv
<1>3. pc'[r] = t
    BY <1>1 DEF LineInv
<1>4. D!Own' = D!Own
    BY DEF D!Own, D!Prompt, D!MemoryTokens
<1> QED
    BY <1>2, <1>3, <1>4 DEF StateInv, Past

\* A call ends, and no other is past the lock.
LEMMA EndKeepsState ==
    ASSUME LineInv, NEW r \in Requests, NEW s \in DeltaSteps \ {"idle", "done"}, D!Holds(r, s),
           NEW a, D!End(r, a)
    PROVE  StateInv'
<1>1. pc' = [pc EXCEPT ![r] = "done"]
    BY DEF D!End
<1>2. ASSUME NEW q \in Requests PROVE pc'[q] \in {"idle", "wait", "done"}
  <2>1. CASE q = r
    BY <1>1, <2>1 DEF LineInv
  <2>2. CASE q # r
    BY <1>1, <2>2, OnePast DEF LineInv, Past
  <2> QED
    BY <2>1, <2>2
<1> QED
    BY <1>2 DEF StateInv

-----------------------------------------------------------------------------

\* Nobody is in line at first.
LEMMA DeltaInit == ASSUME D!ServerAssumption PROVE D!Init => DeltaInv
<1> SUFFICES ASSUME D!Init PROVE DeltaInv
    OBVIOUS
<1>1. LineInv
    BY DEF D!Init, LineInv, DeltaSteps, Past
<1>2. SnapInv /\ StateInv
    BY DEF D!Init, SnapInv, StateInv
<1> QED
    BY <1>1, <1>2 DEF DeltaInv

\* A request joins the line.
LEMMA DeltaArrive ==
    ASSUME DeltaInv, NEW r \in Requests, D!Arrive(r)
    PROVE  DeltaInv'
<1>1. /\ pc' = [pc EXCEPT ![r] = "wait"] /\ reply' = [reply EXCEPT ![r] = Asked]
      /\ line' = Append(line, r) /\ pc[r] = "idle"
      /\ UNCHANGED <<snapKey, snap, written, write>>
    BY DEF D!Arrive
<1>2. line \in Seq(Requests) /\ line' \in Seq(Requests) /\ line' # <<>>
      /\ (line # <<>> => Head(line') = Head(line))
    BY <1>1, AppendProperties, HeadTailAppend DEF DeltaInv, LineInv
<1>3. LineInv'
  <2>1. pc' \in [Requests -> DeltaSteps] /\ DOMAIN reply' = Requests
    BY <1>1 DEF DeltaInv, LineInv, DeltaSteps
  <2>2. ASSUME NEW q \in Requests, Past(q)' PROVE line' # <<>> /\ Head(line') = q
    <3>1. Past(q)
      BY <1>1, <2>2 DEF DeltaInv, LineInv, Past
    <3> QED
      BY <1>2, <3>1 DEF DeltaInv, LineInv
  <2>3. ASSUME NEW q \in Requests
        PROVE  /\ pc'[q] = "idle" => reply'[q] = Absent
               /\ pc'[q] \notin {"idle", "done"} => reply'[q] = Asked
    BY <1>1 DEF DeltaInv, LineInv
  <2> QED
    BY <1>2, <2>1, <2>2, <2>3 DEF LineInv
<1>4. SnapInv'
    BY <1>1 DEF DeltaInv, SnapInv, D!MemoryTokens
<1>5. StateInv'
  <2>1. \A q \in Requests : pc'[q] = IF q = r THEN "wait" ELSE pc[q]
    BY <1>1 DEF DeltaInv, LineInv
  <2>2. D!Own' = D!Own
    BY DEF D!Own, D!Prompt, D!MemoryTokens
  <2> QED
    BY <1>1, <2>1, <2>2 DEF DeltaInv, StateInv
<1> QED
    BY <1>3, <1>4, <1>5 DEF DeltaInv

\* A snapshot that is not touched stays clean.
LEMMA SnapKept ==
    ASSUME SnapInv, UNCHANGED <<snapKey, snap>>
    PROVE  SnapInv'
    BY DEF SnapInv, D!MemoryTokens

\* The lock is acquired.
LEMMA DeltaBegin ==
    ASSUME D!ServerAssumption, DeltaInv, NEW r \in Requests, D!Begin(r)
    PROVE  DeltaInv'
<1>1. D!Holds(r, "wait") /\ "wait" \in DeltaSteps \ {"idle", "done"}
    BY DEF D!Begin, DeltaSteps
<1>2. CASE MemOf[r] = NoMemory /\ D!Go(r, "prefill") /\ UNCHANGED <<snapKey, snap, written, write>>
  <2>1. LineInv' /\ StateInv'
    BY <1>1, <1>2, GoKeepsLine, GoKeepsState DEF DeltaInv, DeltaSteps
  <2> QED
    BY <1>2, <2>1, SnapKept DEF DeltaInv
<1>3. CASE /\ MemOf[r] # NoMemory /\ snapKey = MemOf[r] /\ D!Go(r, "load")
           /\ UNCHANGED <<snapKey, snap, written, write>>
  <2>1. LineInv' /\ StateInv'
    BY <1>1, <1>3, GoKeepsLine, GoKeepsState DEF DeltaInv, DeltaSteps
  <2> QED
    BY <1>3, <2>1, SnapKept DEF DeltaInv
<1>4. CASE /\ MemOf[r] # NoMemory /\ snapKey' = NoMemory /\ snap' = <<>>
           /\ written' = <<>> /\ write' = TRUE /\ D!Go(r, "snapshot")
  <2>1. LineInv' /\ StateInv'
    BY <1>1, <1>4, GoKeepsLine, GoKeepsState DEF DeltaInv, DeltaSteps
  <2>2. SnapInv'
    BY <1>4 DEF SnapInv
  <2> QED
    BY <2>1, <2>2 DEF DeltaInv
<1> QED
    BY <1>2, <1>3, <1>4 DEF D!Begin

\* The memory is read and becomes the snapshot.
LEMMA DeltaBuildSnapshot ==
    ASSUME D!ServerAssumption, DeltaInv, NEW r \in Requests, D!BuildSnapshot(r)
    PROVE  DeltaInv'
<1> DEFINE m == D!MemoryTokens(MemOf[r])
           ids == D!CommonPrefix(D!Prompt(r), m)
<1>1. /\ D!Holds(r, "snapshot") /\ "snapshot" \in DeltaSteps \ {"idle", "done"}
      /\ snapKey' = MemOf[r] /\ snap' = D!Fed(ids) /\ D!Go(r, "load")
    BY DEF D!BuildSnapshot, DeltaSteps
<1>2. MemOf[r] # NoMemory /\ MemOf[r] \in Memories /\ written = <<>> /\ write
  <2>1. pc[r] = "snapshot"
    BY <1>1 DEF D!Holds
  <2> QED
    BY <2>1 DEF DeltaInv, StateInv, D!ServerAssumption
<1>3. ids \in {m, Front(m)}
    BY <1>2, SharedTokens
<1>4. D!Fed(ids) = ids
  <2> DEFINE T == {MemOf[r], r} \X Nat
  <2>1. m \in Seq(T) /\ Len(m) \in Nat /\ Len(m) > 1
    BY <1>2, PromptTokens
  <2> HIDE DEF T, m
  <2>2. Front(m) \in Seq(T)
    BY <2>1 DEF Front
  <2>3. ids \in Seq(T)
    BY <1>3, <2>1, <2>2
  <2> HIDE DEF ids
  <2> QED
    BY <1>2, <2>3, ConcatEmptySeq DEF D!Fed
<1>5. LineInv' /\ StateInv'
    BY <1>1, <1>2, GoKeepsLine, GoKeepsState DEF DeltaInv, DeltaSteps
<1>6. SnapInv'
    BY <1>1, <1>2, <1>3, <1>4 DEF SnapInv, D!MemoryTokens
<1> QED
    BY <1>5, <1>6 DEF DeltaInv

\* The snapshot is restored where it fits.
LEMMA DeltaLoad ==
    ASSUME D!ServerAssumption, DeltaInv, NEW r \in Requests, D!Load(r)
    PROVE  DeltaInv'
<1>1. /\ D!Holds(r, "load") /\ "load" \in DeltaSteps \ {"idle", "done"}
      /\ UNCHANGED <<snapKey, snap, write>>
    BY DEF D!Load, DeltaSteps
<1>2. MemOf[r] # NoMemory /\ snapKey = MemOf[r]
    BY <1>1 DEF D!Holds, DeltaInv, StateInv
<1>3. CASE IsPrefix(snap, D!Prompt(r)) /\ written' = snap /\ D!Go(r, "start")
  <2>1. snap \in {D!MemoryTokens(MemOf[r]), Front(D!MemoryTokens(MemOf[r]))}
    BY <1>2 DEF DeltaInv, SnapInv
  <2>2. [mem |-> MemOf[r], read |-> snap] \in D!Own[r]
    BY <1>2, <1>3, <2>1, OwnAnswers
  <2>3. LineInv' /\ StateInv'
    BY <1>1, <1>3, <2>2, GoKeepsLine, GoKeepsState DEF DeltaInv, DeltaSteps
  <2> QED
    BY <1>1, <2>3, SnapKept DEF DeltaInv
<1>4. CASE D!Go(r, "prefill")
  <2>1. LineInv' /\ StateInv'
    BY <1>1, <1>4, GoKeepsLine, GoKeepsState DEF DeltaInv, DeltaSteps
  <2> QED
    BY <1>1, <2>1, SnapKept DEF DeltaInv
<1> QED
    BY <1>3, <1>4, DeltaNames DEF D!Load

\* The prompt is read from nothing.
LEMMA DeltaPrefill ==
    ASSUME D!ServerAssumption, DeltaInv, NEW r \in Requests, D!Prefill(r)
    PROVE  DeltaInv'
<1>1. /\ D!Holds(r, "prefill") /\ "prefill" \in DeltaSteps \ {"idle", "done"}
      /\ written' = Front(D!Prompt(r)) /\ D!Go(r, "start") /\ UNCHANGED <<snapKey, snap>>
    BY DeltaNames DEF D!Prefill, DeltaSteps
<1>2. [mem |-> MemOf[r], read |-> written'] \in D!Own[r]
    BY <1>1, OwnAnswers
<1>3. LineInv' /\ StateInv'
    BY <1>1, <1>2, GoKeepsLine, GoKeepsState DEF DeltaInv, DeltaSteps
<1> QED
    BY <1>1, <1>3, SnapKept DEF DeltaInv

\* Writing is switched off.
LEMMA DeltaStopWriting ==
    ASSUME D!ServerAssumption, DeltaInv, NEW r \in Requests, D!StopWriting(r)
    PROVE  DeltaInv'
<1>1. /\ D!Holds(r, "start") /\ "start" \in DeltaSteps \ {"idle", "done"}
      /\ write' = FALSE /\ D!Go(r, "generate") /\ UNCHANGED <<snapKey, snap, written>>
    BY DEF D!StopWriting, DeltaSteps
<1>2. [mem |-> MemOf[r], read |-> written'] \in D!Own[r]
    BY <1>1 DEF D!Holds, DeltaInv, StateInv
<1>3. LineInv' /\ StateInv'
    BY <1>1, <1>2, GoKeepsLine, GoKeepsState DEF DeltaInv, DeltaSteps
<1> QED
    BY <1>1, <1>3, SnapKept DEF DeltaInv

\* The two steps that end a call.
LEMMA DeltaEnd ==
    ASSUME DeltaInv, NEW r \in Requests, D!Generate(r) \/ D!ReadFails(r)
    PROVE  DeltaInv'
<1>1. PICK s \in DeltaSteps \ {"idle", "done"} : D!Holds(r, s)
    BY DEF D!Generate, D!ReadFails, DeltaSteps
<1>2. PICK a : D!End(r, a)
    BY DEF D!Generate, D!ReadFails
<1>3. UNCHANGED <<snapKey, snap>>
    BY DEF D!Generate, D!ReadFails
<1>4. LineInv' /\ StateInv'
    BY <1>1, <1>2, EndKeepsLine, EndKeepsState DEF DeltaInv
<1> QED
    BY <1>3, <1>4, SnapKept DEF DeltaInv

\* Nothing happens.
LEMMA DeltaStutter == DeltaInv /\ UNCHANGED D!vars => DeltaInv'
<1> SUFFICES ASSUME DeltaInv, UNCHANGED D!vars PROVE DeltaInv'
    OBVIOUS
<1>1. LineInv'
    BY DEF DeltaInv, LineInv, Past, D!vars
<1>2. SnapInv'
    BY SnapKept DEF DeltaInv, D!vars
<1>3. StateInv'
  <2>1. D!Own' = D!Own
    BY DEF D!Own, D!Prompt, D!MemoryTokens
  <2> QED
    BY <2>1 DEF DeltaInv, StateInv, D!vars
<1> QED
    BY <1>1, <1>2, <1>3 DEF DeltaInv

\* Every step of the retrieval server keeps its invariant.
LEMMA RagNext ==
    ASSUME G!ServerAssumption, RagInv, G!Next
    PROVE  RagInv'
    BY RagArrive, RagStartEmbedding, RagIndexEmpty, RagEmbedBatch, RagStoreIndex,
       RagEmbeddingFails, RagResume, RagRead
    DEF G!Next, G!Serve, G!Index

\* Every step of the delta server keeps its invariant.
LEMMA DeltaNext ==
    ASSUME D!ServerAssumption, DeltaInv, D!Next
    PROVE  DeltaInv'
    BY DeltaArrive, DeltaBegin, DeltaBuildSnapshot, DeltaLoad, DeltaPrefill,
       DeltaStopWriting, DeltaEnd
    DEF D!Next, D!Serve

-----------------------------------------------------------------------------
\* Replies.

\* What a step may do to the replies: a request that had not arrived arrives, or
\* one that had gets one of its own answers or the error.
ReplyStep(own) ==
    \/ reply' = reply
    \/ \E r \in Requests :
          reply[r] = Absent /\ reply' = [reply EXCEPT ![r] = Asked]
    \/ \E r \in Requests : \E a \in own[r] \cup {Failed} :
          reply[r] = Asked /\ reply' = [reply EXCEPT ![r] = a]

\* What a step of the retrieval server may do to the replies.
LEMMA RagReply ==
    ASSUME RagInv, G!Next
    PROVE  ReplyStep(G!Own)
<1>1. ASSUME NEW r \in Requests, G!Arrive(r) PROVE ReplyStep(G!Own)
  <2>1. pc[r] = "idle" /\ reply' = [reply EXCEPT ![r] = Asked]
    BY <1>1 DEF G!Arrive
  <2> QED
    BY <2>1 DEF ReplyStep, RagInv, RagReplyInv
<1>2. ASSUME NEW r \in Requests, pc[r] \notin {"idle", "done"},
             NEW a \in G!Own[r] \cup {Failed}, reply' = [reply EXCEPT ![r] = a]
      PROVE  ReplyStep(G!Own)
  <2>1. reply[r] = Asked
    BY <1>2 DEF RagInv, RagReplyInv
  <2> QED
    BY <1>2, <2>1 DEF ReplyStep
<1>3. ASSUME NEW r \in Requests, G!Ask(r) PROVE ReplyStep(G!Own)
  <2>1. pc[r] = "ask"
    BY <1>3 DEF G!Ask
  <2>2. G!Answers(MemOf[r], held[r]) \subseteq G!Own[r]
    <3>1. CASE MemOf[r] = NoMemory
      BY <3>1 DEF G!Own, G!Answers
    <3>2. CASE MemOf[r] # NoMemory
      <4>1. held[r] = Len(IndexUnits[MemOf[r]])
        BY <2>1, <3>2 DEF RagInv, WholeInv, Full
      <4> QED
        BY <3>2, <4>1 DEF G!Own
    <3> QED
      BY <3>1, <3>2
  <2>3. PICK a \in G!Answers(MemOf[r], held[r]) \cup {Failed} :
          reply' = [reply EXCEPT ![r] = a]
    BY <1>3 DEF G!Ask
  <2> QED
    BY <1>2, <2>1, <2>2, <2>3
<1>4. ASSUME NEW r \in Requests, G!Resume(r) \/ G!EmbedQuery(r) PROVE ReplyStep(G!Own)
  <2>1. pc[r] \notin {"idle", "done"}
    BY <1>4 DEF G!Resume, G!EmbedQuery
  <2>2. reply' = reply \/ reply' = [reply EXCEPT ![r] = Failed]
    BY <1>4 DEF G!Resume, G!EmbedQuery
  <2> QED
    BY <1>2, <2>1, <2>2 DEF ReplyStep
<1>5. ASSUME NEW t \in G!Tasks, G!Index(t) PROVE ReplyStep(G!Own)
  <2>1. reply' = reply
    BY <1>5 DEF G!Index, G!StartEmbedding, G!IndexEmpty, G!EmbedBatch, G!StoreIndex,
                G!Store, G!EmbeddingFails
  <2> QED
    BY <2>1 DEF ReplyStep
<1> QED
    BY <1>1, <1>3, <1>4, <1>5 DEF G!Next, G!Serve

\* What a step of the delta server may do to the replies.
LEMMA DeltaReply ==
    ASSUME DeltaInv, D!Next
    PROVE  ReplyStep(D!Own)
<1>1. ASSUME NEW r \in Requests, D!Arrive(r) PROVE ReplyStep(D!Own)
  <2>1. pc[r] = "idle" /\ reply' = [reply EXCEPT ![r] = Asked]
    BY <1>1 DEF D!Arrive
  <2> QED
    BY <2>1 DEF ReplyStep, DeltaInv, LineInv
<1>2. ASSUME NEW r \in Requests, NEW s \in DeltaSteps \ {"idle", "done"}, D!Holds(r, s),
             NEW a \in D!Own[r] \cup {Failed}, D!End(r, a)
      PROVE  ReplyStep(D!Own)
  <2>1. reply[r] = Asked /\ reply' = [reply EXCEPT ![r] = a]
    BY <1>2 DEF D!Holds, D!End, DeltaInv, LineInv
  <2> QED
    BY <2>1 DEF ReplyStep
<1>3. ASSUME NEW r \in Requests, D!Generate(r) PROVE ReplyStep(D!Own)
  <2> DEFINE rest == SubSeq(D!Prompt(r), Len(written) + 1, Len(D!Prompt(r)))
  <2>1. D!Holds(r, "generate") /\ "generate" \in DeltaSteps \ {"idle", "done"}
    BY <1>3 DEF D!Generate, DeltaSteps
  <2>2. [mem |-> MemOf[r], read |-> D!Fed(rest)] \in D!Own[r]
    BY <2>1 DEF D!Holds, DeltaInv, StateInv, D!Fed
  <2>3. PICK a \in {[mem |-> MemOf[r], read |-> D!Fed(rest)], Failed} : D!End(r, a)
    BY <1>3 DEF D!Generate
  <2> QED
    BY <1>2, <2>1, <2>2, <2>3
<1>4. ASSUME NEW r \in Requests, D!ReadFails(r) PROVE ReplyStep(D!Own)
  <2>1. D!End(r, Failed) /\ \E s \in DeltaSteps \ {"idle", "done"} : D!Holds(r, s)
    BY <1>4 DEF D!ReadFails, DeltaSteps
  <2> QED
    BY <1>2, <2>1
<1>5. ASSUME NEW r \in Requests,
             D!Begin(r) \/ D!BuildSnapshot(r) \/ D!Load(r) \/ D!Prefill(r) \/ D!StopWriting(r)
      PROVE  ReplyStep(D!Own)
  <2>1. reply' = reply
    BY <1>5 DEF D!Begin, D!BuildSnapshot, D!Load, D!Prefill, D!StopWriting, D!Go
  <2> QED
    BY <2>1 DEF ReplyStep
<1> QED
    BY <1>1, <1>3, <1>4, <1>5 DEF D!Next, D!Serve

-----------------------------------------------------------------------------
\* The recurrent server: the names of its steps, its locks and its blocks.
RecSteps == {"idle", "wait", "read", "ask", "done"}
Locks == Memories \X (0 .. R!Cardinality(Requests))
Blocks == {[mem |-> m, read |-> Len(ReadUnits[m])] : m \in Memories}

\* A line of a lock is made of requests of its memory, and only locks that have
\* been registered have one.
Lines(ln, pp) ==
    /\ ln \in [Locks -> Seq(Requests)]
    /\ \A l \in Locks : \A i \in 1 .. Len(ln[l]) :
          MemOf[ln[l][i]] = l[1] /\ l[2] <= pp[l[1]]

\* Where a request stands says what its client has got; one that builds a block
\* holds a lock of its memory, also when the lock was removed.
PlaceInv ==
    /\ pc \in [Requests -> RecSteps]
    /\ DOMAIN reply = Requests
    /\ pops \in [Memories -> Nat]
    /\ Lines(line, pops)
    /\ \A r \in Requests :
          /\ pc[r] = "idle" => reply[r] = Absent
          /\ pc[r] \notin {"idle", "done"} => reply[r] = Asked
          /\ pc[r] \in {"wait", "read"} => MemOf[r] \in Memories
          /\ pc[r] = "read" => R!First(r)

Refusals(m) == Cardinality(R!Refused(m))
Building(m) == R!Cached(m) \/ R!Builders(m) # {}

\* While no lock of a memory was removed, its block is there, or is being built,
\* for all builds but those that failed.
Explained(m) ==
    pops[m] = 0 => builds[m] <= Refusals(m) + IF Building(m) THEN 1 ELSE 0

BuildInv ==
    /\ cache \in Seq(Blocks)
    /\ builds \in [Memories -> Nat]
    /\ \A m \in Memories : Explained(m)

\* A request goes on to its question with all units of its memory read.
HeldInv ==
    /\ DOMAIN held = Requests
    /\ \A r \in Requests :
          pc[r] = "ask" /\ MemOf[r] # NoMemory => held[r] = Len(ReadUnits[MemOf[r]])

RecurrentInv == PlaceInv /\ BuildInv /\ HeldInv

RecConstants == R!ServerAssumption /\ IsFiniteSet(Requests)

-----------------------------------------------------------------------------

\* R! has cardinalities and maxima under names of its own.
LEMMA RecNames ==
    /\ \A S : R!Cardinality(S) = Cardinality(S)
    /\ \A S : R!Max(S) = Max(S)
    /\ \A s, i : R!RemoveAt(s, i) = RemoveAt(s, i)
<1>1. \A S : R!Cardinality(S) = Cardinality(S)
    BY DEF R!Cardinality, Cardinality
<1>2. \A S : R!Max(S) = Max(S)
    BY DEF R!Max, Max
<1>3. \A s, i : R!RemoveAt(s, i) = RemoveAt(s, i)
    BY DEF R!RemoveAt, RemoveAt
<1> QED
    BY <1>1, <1>2, <1>3

\* A lock is a memory and a number.
LEMMA LocksAre ==
    ASSUME RecConstants, NEW l \in Locks
    PROVE  l[1] \in Memories /\ l[2] \in Nat /\ l = <<l[1], l[2]>>
<1>1. Cardinality(Requests) \in Nat
    BY FS_CardinalityType DEF RecConstants
<1> QED
    BY <1>1, RecNames DEF Locks

\* The requests whose client was told of a failure are finitely many.
LEMMA RefusedFinite ==
    ASSUME RecConstants, NEW m
    PROVE  IsFiniteSet(R!Refused(m)) /\ Refusals(m) \in Nat
<1>1. R!Refused(m) \in SUBSET Requests
    BY DEF R!Refused
<1> QED
    BY <1>1, FS_Subset, FS_CardinalityType DEF RecConstants, Refusals

\* The holder of a lock stands at the head of a line of its memory, and as long
\* as no lock of the memory was removed there is one such line.
LEMMA HolderOf ==
    ASSUME RecConstants, PlaceInv, NEW r \in Requests, R!First(r)
    PROVE  \E l \in Locks : /\ line[l] # <<>> /\ Head(line[l]) = r
                            /\ l = <<MemOf[r], l[2]>> /\ l[2] \in 0 .. pops[MemOf[r]]
                            /\ MemOf[r] \in Memories
<1>1. PICK l \in Locks : line[l] # <<>> /\ Head(line[l]) = r
    BY DEF R!First, PlaceInv, Lines
<1>2. line[l] \in Seq(Requests)
    BY DEF PlaceInv, Lines
<1>3. 1 \in 1 .. Len(line[l]) /\ line[l][1] = r
    BY <1>1, <1>2
<1>4. MemOf[r] = l[1] /\ l[2] <= pops[l[1]]
    BY <1>3 DEF PlaceInv, Lines
<1>5. l[1] \in Memories /\ l[2] \in Nat /\ l = <<l[1], l[2]>> /\ pops[l[1]] \in Nat
    BY LocksAre DEF PlaceInv
<1> QED
    BY <1>1, <1>4, <1>5

\* A line that loses its holder.
LEMMA TailOf ==
    ASSUME NEW s \in Seq(Requests), s # <<>>
    PROVE  /\ Tail(s) \in Seq(Requests) /\ Len(Tail(s)) = Len(s) - 1
           /\ \A i \in 1 .. Len(s) - 1 : Tail(s)[i] = s[i + 1]
    BY HeadTailProperties

\* A request lets its lock go: the lines stay in order, and the others that
\* hold a lock still do.
LEMMA LeaveKeeps ==
    ASSUME RecConstants, PlaceInv, NEW r \in Requests, R!Leave(r),
           pops' \in [Memories -> Nat], \A m \in Memories : pops[m] <= pops'[m]
    PROVE  /\ Lines(line', pops')
           /\ \A q \in Requests \ {r} : R!First(q) => R!First(q)'
<1>0. line \in [Locks -> Seq(Requests)]
    BY DEF PlaceInv, Lines
<1>1. line' = [l \in Locks |-> IF line[l] # <<>> /\ Head(line[l]) = r
                                THEN Tail(line[l]) ELSE line[l]]
    BY <1>0 DEF R!Leave
<1>2. ASSUME NEW l \in Locks
      PROVE  /\ line'[l] \in Seq(Requests)
             /\ \A i \in 1 .. Len(line'[l]) :
                   MemOf[line'[l][i]] = l[1] /\ l[2] <= pops'[l[1]]
  <2>0. line[l] \in Seq(Requests) /\ l[1] \in Memories /\ l[2] \in Nat
    BY <1>0, LocksAre
  <2>1. pops[l[1]] \in Nat /\ pops'[l[1]] \in Nat /\ pops[l[1]] <= pops'[l[1]]
    BY <2>0 DEF PlaceInv
  <2>2. \A i \in 1 .. Len(line[l]) : MemOf[line[l][i]] = l[1] /\ l[2] <= pops[l[1]]
    BY DEF PlaceInv, Lines
  <2>3. CASE line[l] # <<>> /\ Head(line[l]) = r
    <3>1. line'[l] = Tail(line[l])
      BY <1>1, <2>3
    <3>2. /\ Tail(line[l]) \in Seq(Requests) /\ Len(Tail(line[l])) = Len(line[l]) - 1
          /\ \A i \in 1 .. Len(line[l]) - 1 : Tail(line[l])[i] = line[l][i + 1]
      BY <2>0, <2>3, TailOf
    <3>3. \A i \in 1 .. Len(line[l]) - 1 : i + 1 \in 1 .. Len(line[l])
      BY <2>0
    <3> QED
      BY <2>0, <2>1, <2>2, <3>1, <3>2, <3>3
  <2>4. CASE ~(line[l] # <<>> /\ Head(line[l]) = r)
    <3>1. line'[l] = line[l]
      BY <1>1, <2>4
    <3> QED
      BY <2>0, <2>1, <2>2, <3>1
  <2> QED
    BY <2>3, <2>4
<1>3. line' \in [Locks -> Seq(Requests)]
    BY <1>1, <1>2
<1>4. ASSUME NEW q \in Requests \ {r}, R!First(q) PROVE R!First(q)'
  <2>1. PICK l \in Locks : line[l] # <<>> /\ Head(line[l]) = q
    BY <1>0, <1>4 DEF R!First
  <2>2. line'[l] = line[l]
    BY <1>1, <2>1
  <2> QED
    BY <1>3, <2>1, <2>2 DEF R!First
<1> QED
    BY <1>2, <1>3, <1>4 DEF Lines

-----------------------------------------------------------------------------
\* The block cache.

Has(c, m) == \E i \in 1 .. Len(c) : c[i].mem = m

\* A memory is cached when an entry of the cache is its.
LEMMA CachedHas ==
    ASSUME cache \in Seq(Blocks), NEW m
    PROVE  R!Cached(m) <=> Has(cache, m)
    BY DEF R!Cached, Has

\* An entry that is added is there, and the others stay.
LEMMA HasAppend ==
    ASSUME NEW c \in Seq(Blocks), NEW e \in Blocks
    PROVE  /\ Append(c, e) \in Seq(Blocks)
           /\ \A m : Has(c, m) \/ m = e.mem => Has(Append(c, e), m)
<1>1. /\ Append(c, e) \in Seq(Blocks) /\ Len(Append(c, e)) = Len(c) + 1 /\ Len(c) \in Nat
      /\ \A i \in 1 .. Len(c) : Append(c, e)[i] = c[i]
      /\ Append(c, e)[Len(c) + 1] = e
    BY AppendProperties
<1>2. \A i \in 1 .. Len(c) : i \in 1 .. Len(c) + 1
    BY <1>1
<1>3. Len(c) + 1 \in 1 .. Len(c) + 1
    BY <1>1
<1> QED
    BY <1>1, <1>2, <1>3 DEF Has

\* Taking the entry of one memory out leaves those of the others.
LEMMA HasOthers ==
    ASSUME cache \in Seq(Blocks), NEW m
    PROVE  /\ R!Others(m) \in Seq(Blocks)
           /\ \A k : k # m /\ Has(cache, k) => Has(R!Others(m), k)
<1>1. CASE ~R!Cached(m)
    BY <1>1 DEF R!Others
<1>2. CASE R!Cached(m)
  <2> DEFINE p == R!Place(m)
             n == Len(cache)
             s == SubSeq(cache, 1, p - 1)
             t == SubSeq(cache, p + 1, n)
  <2>1. n \in Nat /\ DOMAIN cache = 1 .. n
    OBVIOUS
  <2>2. p \in 1 .. n /\ cache[p].mem = m
    BY <1>2, <2>1, Zenon DEF R!Cached, R!Place
  <2>3. R!Others(m) = s \o t
    BY <1>2, RecNames DEF R!Others, RemoveAt
  <2> HIDE DEF p, n
  <2>4. p - 1 \in Nat /\ p + 1 \in Nat /\ p - 1 <= n
    BY <2>1, <2>2
  <2>5. \A i \in 1 .. n : cache[i] \in Blocks
    BY DEF n
  <2>6. \A i \in 1 .. p - 1 : cache[i] \in Blocks
    BY <2>1, <2>2, <2>5
  <2>7. \A i \in p + 1 .. n : cache[i] \in Blocks
    BY <2>1, <2>2, <2>5
  <2>8. s \in Seq(Blocks) /\ Len(s) = p - 1 /\ \A i \in 1 .. p - 1 : s[i] = cache[i]
    <3>1. /\ SubSeq(cache, 1, p - 1) \in Seq(Blocks)
          /\ Len(SubSeq(cache, 1, p - 1)) = IF 1 <= p - 1 THEN p - 1 - 1 + 1 ELSE 0
          /\ \A i \in 1 .. p - 1 - 1 + 1 : SubSeq(cache, 1, p - 1)[i] = cache[1 + i - 1]
      BY <2>4, <2>6, SubSeqProperties
    <3>2. p - 1 - 1 + 1 = p - 1 /\ \A i \in 1 .. p - 1 : 1 + i - 1 = i
      BY <2>4
    <3> HIDE DEF s
    <3> QED
      BY <2>4, <3>1, <3>2 DEF s
  <2>9. t \in Seq(Blocks) /\ Len(t) = n - p /\ \A i \in 1 .. n - p : t[i] = cache[p + i]
    <3>1. /\ SubSeq(cache, p + 1, n) \in Seq(Blocks)
          /\ Len(SubSeq(cache, p + 1, n)) = IF p + 1 <= n THEN n - (p + 1) + 1 ELSE 0
          /\ \A i \in 1 .. n - (p + 1) + 1 : SubSeq(cache, p + 1, n)[i] = cache[p + 1 + i - 1]
      BY <2>1, <2>4, <2>7, SubSeqProperties
    <3>2. n - (p + 1) + 1 = n - p /\ \A i \in 1 .. n - p : p + 1 + i - 1 = p + i
      BY <2>1, <2>2
    <3> HIDE DEF t
    <3> QED
      BY <2>1, <2>2, <3>1, <3>2 DEF t
  <2> HIDE DEF s, t
  <2>10. /\ s \o t \in Seq(Blocks) /\ Len(s \o t) = n - 1
         /\ \A i \in 1 .. n - 1 : (s \o t)[i] = IF i <= p - 1 THEN cache[i] ELSE cache[i + 1]
    <3>1. /\ s \o t \in Seq(Blocks) /\ Len(s \o t) = Len(s) + Len(t)
          /\ \A i \in 1 .. Len(s) + Len(t) :
                (s \o t)[i] = IF i <= Len(s) THEN s[i] ELSE t[i - Len(s)]
      BY <2>8, <2>9, ConcatProperties
    <3>2. Len(s) + Len(t) = n - 1
      BY <2>1, <2>2, <2>8, <2>9
    <3>3. ASSUME NEW i \in 1 .. n - 1
          PROVE  (s \o t)[i] = IF i <= p - 1 THEN cache[i] ELSE cache[i + 1]
      <4>1. (s \o t)[i] = IF i <= p - 1 THEN s[i] ELSE t[i - (p - 1)]
        BY <2>8, <3>1, <3>2
      <4>2. i <= p - 1 => i \in 1 .. p - 1
        BY <2>1, <2>2
      <4>3. i > p - 1 => i - (p - 1) \in 1 .. n - p /\ p + (i - (p - 1)) = i + 1
        BY <2>1, <2>2
      <4>4. CASE i <= p - 1
        <5>1. s[i] = cache[i]
          BY <2>8, <4>2, <4>4
        <5> QED
          BY <4>1, <4>4, <5>1
      <4>5. CASE i > p - 1
        <5> DEFINE j == i - (p - 1)
        <5>1. j \in 1 .. n - p /\ p + j = i + 1
          BY <4>3, <4>5
        <5> HIDE DEF j
        <5>2. t[j] = cache[i + 1]
          BY <2>9, <5>1
        <5>3. ~(i <= p - 1)
          BY <2>2, <4>5
        <5> QED
          BY <4>1, <5>2, <5>3 DEF j
      <4>6. i <= p - 1 \/ i > p - 1
        BY <2>1, <2>2
      <4> QED
        BY <4>4, <4>5, <4>6, Zenon
    <3> QED
      BY <3>1, <3>2, <3>3
  <2>11. ASSUME NEW k, k # m, Has(cache, k) PROVE Has(s \o t, k)
    <3>1. PICK i \in 1 .. n : cache[i].mem = k
      BY <2>11 DEF Has, n
    <3>2. i # p
      BY <2>2, <2>11, <3>1
    <3>3. CASE i < p
      <4>1. i \in 1 .. n - 1 /\ i <= p - 1
        BY <2>1, <2>2, <3>3
      <4> QED
        BY <2>10, <3>1, <4>1 DEF Has
    <3>4. CASE i > p
      <4>1. i - 1 \in 1 .. n - 1 /\ ~(i - 1 <= p - 1) /\ i - 1 + 1 = i
        BY <2>1, <2>2, <3>4
      <4>2. (s \o t)[i - 1] = cache[i]
        BY <2>10, <4>1
      <4> QED
        BY <2>10, <3>1, <4>1, <4>2 DEF Has
    <3> QED
      BY <2>1, <2>2, <3>2, <3>3, <3>4
  <2> QED
    BY <2>3, <2>10, <2>11
<1> QED
    BY <1>1, <1>2

\* The entry of a memory that is cached.
LEMMA EntryOf ==
    ASSUME cache \in Seq(Blocks), NEW m, R!Cached(m)
    PROVE  R!Entry(m) \in Blocks /\ R!Entry(m).mem = m
<1>1. R!Place(m) \in DOMAIN cache /\ cache[R!Place(m)].mem = m
    BY Zenon DEF R!Cached, R!Place
<1> QED
    BY <1>1 DEF R!Entry

\* What the cut does not count as evicted stays.
LEMMA HasKept ==
    ASSUME RecConstants, NEW c \in Seq(Blocks)
    PROVE  /\ R!Kept(c) \in Seq(Blocks)
           /\ \A k : Has(c, k) /\ k \notin R!Evicted(c) => Has(R!Kept(c), k)
<1> DEFINE n == Len(c)
           S == {1, n - CacheSize + 1}
           a == Max(S)
           t == SubSeq(c, a, n)
<1>1. n \in Nat /\ CacheSize \in Nat
    BY DEF RecConstants, R!ServerAssumption
<1>2. a \in S /\ \A y \in S : a >= y
  <2>1. \E x \in S : \A y \in S : x >= y
    BY <1>1
  <2> QED
    BY <2>1, Zenon DEF Max
<1>3. R!Kept(c) = t
    BY RecNames DEF R!Kept
<1>4. a \in Nat /\ a >= 1 /\ (a = 1 \/ a = n - CacheSize + 1)
    BY <1>1, <1>2
<1> HIDE DEF a, n
<1>5. \A i \in 1 .. n : c[i] \in Blocks
    BY DEF n
<1>6. \A i \in a .. n : c[i] \in Blocks
    BY <1>1, <1>4, <1>5
<1>7. /\ t \in Seq(Blocks)
      /\ Len(t) = IF a <= n THEN n - a + 1 ELSE 0
      /\ \A i \in 1 .. n - a + 1 : t[i] = c[a + i - 1]
    BY <1>1, <1>4, <1>6, SubSeqProperties
<1> HIDE DEF t
<1>8. ASSUME NEW k, Has(c, k), k \notin R!Evicted(c) PROVE Has(t, k)
  <2>1. PICK i \in 1 .. n : c[i].mem = k
    BY <1>8 DEF Has, n
  <2>2. i \notin 1 .. n - CacheSize
    BY <1>8, <2>1 DEF R!Evicted, n
  <2>3. i >= a
    BY <1>1, <1>4, <2>2
  <2>4. i - a + 1 \in 1 .. Len(t) /\ i - a + 1 \in 1 .. n - a + 1 /\ a + (i - a + 1) - 1 = i
    BY <1>1, <1>4, <1>7, <2>3
  <2>5. t[i - a + 1] = c[i]
    BY <1>7, <2>4
  <2> QED
    BY <2>1, <2>4, <2>5 DEF Has
<1> QED
    BY <1>3, <1>7, <1>8

-----------------------------------------------------------------------------

\* A refusal is one more unless it was counted.
LEMMA RefusalsMono ==
    ASSUME RecConstants, NEW m, R!Refused(m) \subseteq R!Refused(m)'
    PROVE  /\ Refusals(m) \in Nat /\ Refusals(m)' \in Nat /\ Refusals(m) <= Refusals(m)'
           /\ R!Refused(m)' # R!Refused(m) => Refusals(m) + 1 <= Refusals(m)'
<1>1. R!Refused(m)' \in SUBSET Requests /\ R!Refused(m) \in SUBSET Requests
    BY DEF R!Refused
<1>2. IsFiniteSet(R!Refused(m)') /\ IsFiniteSet(R!Refused(m))
    BY <1>1, FS_Subset DEF RecConstants
<1>3. Refusals(m) \in Nat /\ Refusals(m)' \in Nat
    BY <1>2, FS_CardinalityType DEF Refusals
<1>4. Refusals(m) <= Refusals(m)' /\ (Refusals(m) = Refusals(m)' => R!Refused(m)' = R!Refused(m))
    BY <1>2, FS_Subset DEF Refusals
<1> QED
    BY <1>3, <1>4

\* A step that starts no build keeps the count explained, when the block stays
\* there or in the making, or a failure accounts for it.
LEMMA ExplainedKept ==
    ASSUME RecConstants, PlaceInv, BuildInv, NEW m \in Memories,
           builds'[m] = builds[m], pops'[m] = 0 => pops[m] = 0,
           R!Refused(m) \subseteq R!Refused(m)',
           pops'[m] = 0 /\ Building(m) => Building(m)' \/ R!Refused(m)' # R!Refused(m)
    PROVE  Explained(m)'
<1>1. /\ Refusals(m) \in Nat /\ Refusals(m)' \in Nat /\ Refusals(m) <= Refusals(m)'
      /\ R!Refused(m)' # R!Refused(m) => Refusals(m) + 1 <= Refusals(m)'
    BY RefusalsMono
<1>2. builds[m] \in Nat /\ Explained(m)
    BY DEF BuildInv
<1> SUFFICES ASSUME pops'[m] = 0
             PROVE  builds'[m] <= Refusals(m)' + IF Building(m)' THEN 1 ELSE 0
    BY DEF Explained
<1>3. builds[m] <= Refusals(m) + IF Building(m) THEN 1 ELSE 0
    BY <1>2 DEF Explained
<1>4. CASE Building(m)'
  <2>1. builds[m] <= Refusals(m) + 1
    BY <1>1, <1>2, <1>3
  <2>2. builds'[m] <= Refusals(m)' + 1
    BY <1>1, <1>2, <2>1
  <2> QED
    BY <1>4, <2>2
<1>5. CASE ~Building(m)' /\ ~Building(m)
  <2>1. builds[m] <= Refusals(m)
    BY <1>1, <1>2, <1>3, <1>5
  <2>2. builds'[m] <= Refusals(m)' + 0
    BY <1>1, <1>2, <2>1
  <2> QED
    BY <1>5, <2>2
<1>6. CASE ~Building(m)' /\ Building(m)
  <2>1. R!Refused(m)' # R!Refused(m)
    BY <1>6
  <2>2. builds[m] <= Refusals(m) + 1
    BY <1>3, <1>6
  <2>3. builds'[m] <= Refusals(m)' + 0
    BY <1>1, <1>2, <2>1, <2>2
  <2> QED
    BY <1>6, <2>3
<1> QED
    BY <1>4, <1>5, <1>6

\* Only a request that had an answer coming is refused: refusals stay.
LEMMA RefusedStay ==
    ASSUME RecConstants, PlaceInv, NEW r \in Requests, NEW a, NEW m,
           reply' = [reply EXCEPT ![r] = a], reply[r] \in {Absent, Asked}
    PROVE  /\ R!Refused(m) \subseteq R!Refused(m)'
           /\ a = Failed /\ MemOf[r] = m => R!Refused(m)' # R!Refused(m)
<1>1. reply[r] # Failed
    BY DEF RecConstants, R!ServerAssumption
<1>2. \A q \in Requests : reply'[q] = IF q = r THEN a ELSE reply[q]
    BY DEF PlaceInv
<1> QED
    BY <1>1, <1>2 DEF R!Refused

\* Without a reply no request is refused.
LEMMA RefusedSame ==
    ASSUME reply' = reply, NEW m
    PROVE  R!Refused(m)' = R!Refused(m)
    BY DEF R!Refused

\* No lock is taken and nothing is read at first.
LEMMA RecInit == ASSUME RecConstants PROVE R!Init => RecurrentInv
<1> SUFFICES ASSUME R!Init PROVE RecurrentInv
    OBVIOUS
<1>0. pops = [m \in Memories |-> 0] /\ line = [l \in Locks |-> <<>>]
    BY DEF R!Init, Locks
<1>1. Lines(line, pops)
    BY <1>0 DEF Lines
<1>2. PlaceInv
    BY <1>0, <1>1 DEF R!Init, PlaceInv, RecSteps
<1>3. ASSUME NEW m \in Memories PROVE Explained(m)
    BY RefusedFinite DEF R!Init, Explained
<1> QED
    BY <1>2, <1>3 DEF RecurrentInv, BuildInv, HeldInv, R!Init

\* A request joins the line of the lock that is registered.
LEMMA RecArrive ==
    ASSUME RecConstants, RecurrentInv, NEW r \in Requests, R!Arrive(r)
    PROVE  RecurrentInv'
<1>1. /\ pc[r] = "idle" /\ reply' = [reply EXCEPT ![r] = Asked]
      /\ UNCHANGED <<held, cache, pops, builds>>
    BY DEF R!Arrive
<1>2. reply[r] = Absent
    BY <1>1 DEF RecurrentInv, PlaceInv
<1>3. PICK s \in {"ask", "wait"} :
        /\ pc' = [pc EXCEPT ![r] = s]
        /\ s = "ask" => line' = line /\ MemOf[r] = NoMemory
        /\ s = "wait" => /\ MemOf[r] # NoMemory
                         /\ line' = [line EXCEPT ![R!Lock(MemOf[r])] = Append(@, r)]
    BY DEF R!Arrive
<1>4. s = "wait" => MemOf[r] \in Memories
    BY <1>3 DEF RecConstants, R!ServerAssumption
<1>5. Lines(line', pops') /\ \A q \in Requests : R!First(q) => R!First(q)'
  <2>1. CASE s = "ask"
    BY <1>1, <1>3, <2>1 DEF RecurrentInv, PlaceInv, R!First
  <2>2. CASE s = "wait"
    <3> DEFINE k == R!Lock(MemOf[r])
    <3>0. line \in [Locks -> Seq(Requests)] /\ line' = [line EXCEPT ![k] = Append(@, r)]
      BY <1>3, <2>2 DEF RecurrentInv, PlaceInv, Lines
    <3>1. k[1] = MemOf[r] /\ k[2] = pops[MemOf[r]] /\ pops[MemOf[r]] \in Nat
      BY <1>4, <2>2 DEF R!Lock, RecurrentInv, PlaceInv
    <3> HIDE DEF k
    <3>2. ASSUME NEW l \in Locks
          PROVE  /\ line'[l] \in Seq(Requests)
                 /\ \A i \in 1 .. Len(line'[l]) :
                       MemOf[line'[l][i]] = l[1] /\ l[2] <= pops[l[1]]
                 /\ line[l] # <<>> => line'[l] # <<>> /\ Head(line'[l]) = Head(line[l])
      <4>1. /\ line[l] \in Seq(Requests)
            /\ \A i \in 1 .. Len(line[l]) : MemOf[line[l][i]] = l[1] /\ l[2] <= pops[l[1]]
        BY DEF RecurrentInv, PlaceInv, Lines
      <4>2. CASE l # k
        BY <3>0, <4>1, <4>2
      <4>3. CASE l = k
        <5>1. line'[l] = Append(line[l], r)
          BY <3>0, <4>3
        <5>2. /\ Append(line[l], r) \in Seq(Requests)
              /\ Len(Append(line[l], r)) = Len(line[l]) + 1
              /\ \A i \in 1 .. Len(line[l]) : Append(line[l], r)[i] = line[l][i]
              /\ Append(line[l], r)[Len(line[l]) + 1] = r
          BY <4>1, AppendProperties
        <5>3. ASSUME NEW i \in 1 .. Len(line[l]) + 1
              PROVE  MemOf[line'[l][i]] = l[1] /\ l[2] <= pops[l[1]]
          <6>1. CASE i \in 1 .. Len(line[l])
            BY <4>1, <5>1, <5>2, <6>1
          <6>2. CASE i = Len(line[l]) + 1
            BY <3>1, <4>3, <5>1, <5>2, <6>2
          <6> QED
            BY <4>1, <6>1, <6>2
        <5>4. line[l] # <<>> => line'[l] # <<>> /\ Head(line'[l]) = Head(line[l])
          BY <4>1, <5>1, HeadTailAppend
        <5> QED
          BY <5>1, <5>2, <5>3, <5>4
      <4> QED
        BY <4>2, <4>3
    <3>3. line' \in [Locks -> Seq(Requests)]
      BY <3>0, <3>2
    <3>4. Lines(line', pops')
      BY <1>1, <3>2, <3>3 DEF Lines
    <3>5. ASSUME NEW q \in Requests, R!First(q) PROVE R!First(q)'
      BY <3>0, <3>2, <3>3, <3>5 DEF R!First
    <3> QED
      BY <3>4, <3>5
  <2> QED
    BY <2>1, <2>2
<1>6. PlaceInv'
  <2>1. pc' \in [Requests -> RecSteps] /\ DOMAIN reply' = Requests /\ pops' \in [Memories -> Nat]
    BY <1>1, <1>3 DEF RecurrentInv, PlaceInv, RecSteps
  <2>2. ASSUME NEW q \in Requests
        PROVE  /\ pc'[q] = "idle" => reply'[q] = Absent
               /\ pc'[q] \notin {"idle", "done"} => reply'[q] = Asked
               /\ pc'[q] \in {"wait", "read"} => MemOf[q] \in Memories
               /\ pc'[q] = "read" => R!First(q)'
    BY <1>1, <1>3, <1>4, <1>5 DEF RecurrentInv, PlaceInv
  <2> QED
    BY <1>5, <2>1, <2>2 DEF PlaceInv
<1>7. ASSUME NEW m \in Memories PROVE Explained(m)'
  <2>1. R!Refused(m) \subseteq R!Refused(m)'
    BY <1>1, <1>2, RefusedStay DEF RecurrentInv
  <2>2. Building(m) => Building(m)'
    BY <1>1, <1>3 DEF Building, R!Cached, R!Builders, RecurrentInv, PlaceInv
  <2> QED
    BY <1>1, <2>1, <2>2, ExplainedKept DEF RecurrentInv
<1> QED
    BY <1>1, <1>3, <1>6, <1>7 DEF RecurrentInv, PlaceInv, BuildInv, HeldInv

\* A request that lets its lock go and goes on, or ends.
LEMMA LeavePlace ==
    ASSUME RecConstants, PlaceInv, NEW r \in Requests, pc[r] \in {"wait", "read"}, R!Leave(r),
           pops' \in [Memories -> Nat], \A m \in Memories : pops[m] <= pops'[m],
           NEW s \in {"ask", "done"}, pc' = [pc EXCEPT ![r] = s],
           s = "ask" => reply' = reply,
           s = "done" => \E a : reply' = [reply EXCEPT ![r] = a]
    PROVE  PlaceInv'
<1>1. Lines(line', pops') /\ \A q \in Requests \ {r} : R!First(q) => R!First(q)'
    BY LeaveKeeps
<1>2. pc' \in [Requests -> RecSteps] /\ DOMAIN reply' = Requests
    BY DEF PlaceInv, RecSteps
<1>3. ASSUME NEW q \in Requests
      PROVE  /\ pc'[q] = "idle" => reply'[q] = Absent
             /\ pc'[q] \notin {"idle", "done"} => reply'[q] = Asked
             /\ pc'[q] \in {"wait", "read"} => MemOf[q] \in Memories
             /\ pc'[q] = "read" => R!First(q)'
  <2>1. CASE q = r
    BY <2>1 DEF PlaceInv
  <2>2. CASE q # r
    BY <1>1, <2>2 DEF PlaceInv
  <2> QED
    BY <2>1, <2>2
<1> QED
    BY <1>1, <1>2, <1>3 DEF PlaceInv

\* The block is there.
LEMMA RecHit ==
    ASSUME RecConstants, RecurrentInv, NEW r \in Requests, R!Hit(r)
    PROVE  RecurrentInv'
<1> DEFINE m == MemOf[r]
<1>1. /\ pc[r] = "wait" /\ R!Cached(m) /\ R!Leave(r)
      /\ cache' = Append(R!Others(m), R!Entry(m))
      /\ held' = [held EXCEPT ![r] = R!Entry(m).read]
      /\ pc' = [pc EXCEPT ![r] = "ask"]
      /\ UNCHANGED <<reply, pops, builds>>
    BY DEF R!Hit
<1>2. PlaceInv'
  <2>1. pops' \in [Memories -> Nat] /\ \A k \in Memories : pops[k] <= pops'[k]
    BY <1>1 DEF RecurrentInv, PlaceInv
  <2> QED
    BY <1>1, <2>1, LeavePlace DEF RecurrentInv
<1>3. cache \in Seq(Blocks)
    BY DEF RecurrentInv, BuildInv
<1>4. R!Entry(m) \in Blocks /\ R!Entry(m).mem = m /\ R!Entry(m).read = Len(ReadUnits[m])
  <2>1. R!Entry(m) \in Blocks /\ R!Entry(m).mem = m
    BY <1>1, <1>3, EntryOf
  <2> HIDE DEF m
  <2>2. PICK k \in Memories : R!Entry(m) = [mem |-> k, read |-> Len(ReadUnits[k])]
    BY <2>1, Zenon DEF Blocks
  <2>3. R!Entry(m).mem = k /\ R!Entry(m).read = Len(ReadUnits[k])
    BY <2>2
  <2> QED
    BY <2>1, <2>3
<1>5. /\ R!Others(m) \in Seq(Blocks)
      /\ \A k : k # m /\ Has(cache, k) => Has(R!Others(m), k)
    BY <1>3, HasOthers
<1>6. /\ cache' \in Seq(Blocks)
      /\ \A k : Has(R!Others(m), k) \/ k = m => Has(cache', k)
    BY <1>1, <1>4, <1>5, HasAppend
<1>7. ASSUME NEW k, R!Cached(k) PROVE R!Cached(k)'
  <2>1. Has(cache, k)
    BY <1>3, <1>7, CachedHas
  <2>2. Has(cache', k)
    BY <1>5, <1>6, <2>1
  <2> QED
    BY <1>6, <2>2 DEF R!Cached, Has
<1>8. ASSUME NEW k \in Memories PROVE Explained(k)'
  <2>1. R!Builders(k)' = R!Builders(k)
    BY <1>1 DEF R!Builders, RecurrentInv, PlaceInv
  <2>2. Building(k) => Building(k)'
    BY <1>7, <2>1 DEF Building
  <2>3. R!Refused(k)' = R!Refused(k)
    BY <1>1, RefusedSame
  <2> QED
    BY <1>1, <2>2, <2>3, ExplainedKept DEF RecurrentInv
<1>9. HeldInv' /\ builds' \in [Memories -> Nat]
    BY <1>1, <1>4 DEF RecurrentInv, PlaceInv, BuildInv, HeldInv
<1> QED
    BY <1>2, <1>6, <1>8, <1>9 DEF RecurrentInv, BuildInv

\* As long as no lock of a memory was removed, its lock has one holder.
LEMMA OneHolder ==
    ASSUME RecConstants, PlaceInv, NEW r \in Requests, R!First(r), NEW q \in Requests, R!First(q),
           MemOf[q] = MemOf[r], pops[MemOf[r]] = 0
    PROVE  q = r
<1>1. PICK l \in Locks : /\ line[l] # <<>> /\ Head(line[l]) = r
                         /\ l = <<MemOf[r], l[2]>> /\ l[2] \in 0 .. pops[MemOf[r]]
    BY HolderOf
<1>2. PICK k \in Locks : /\ line[k] # <<>> /\ Head(line[k]) = q
                         /\ k = <<MemOf[q], k[2]>> /\ k[2] \in 0 .. pops[MemOf[q]]
    BY HolderOf
<1>3. l[2] = 0 /\ k[2] = 0
    BY <1>1, <1>2
<1>4. l = k
    BY <1>1, <1>2, <1>3
<1> QED
    BY <1>1, <1>2, <1>4

\* The block is not there: its reading starts.
LEMMA RecBuild ==
    ASSUME RecConstants, RecurrentInv, NEW r \in Requests, R!Build(r)
    PROVE  RecurrentInv'
<1> DEFINE m == MemOf[r]
<1>1. /\ pc[r] = "wait" /\ R!First(r) /\ ~R!Cached(m)
      /\ pc' = [pc EXCEPT ![r] = "read"]
      /\ held' = [held EXCEPT ![r] = 0]
      /\ builds' = [builds EXCEPT ![m] = @ + 1]
      /\ UNCHANGED <<reply, cache, line, pops>>
    BY DEF R!Build
<1>2. PlaceInv'
  <2>1. pc' \in [Requests -> RecSteps]
    BY <1>1 DEF RecurrentInv, PlaceInv, RecSteps
  <2>2. ASSUME NEW q \in Requests
        PROVE  /\ pc'[q] = "idle" => reply'[q] = Absent
               /\ pc'[q] \notin {"idle", "done"} => reply'[q] = Asked
               /\ pc'[q] \in {"wait", "read"} => MemOf[q] \in Memories
               /\ pc'[q] = "read" => R!First(q)'
    BY <1>1 DEF RecurrentInv, PlaceInv, R!First
  <2> QED
    BY <1>1, <2>1, <2>2 DEF RecurrentInv, PlaceInv, Lines
<1>3. ASSUME NEW k \in Memories PROVE Explained(k)'
  <2>1. R!Refused(k)' = R!Refused(k)
    BY <1>1, RefusedSame
  <2>2. CASE k # m
    <3>1. builds'[k] = builds[k]
      BY <1>1, <2>2 DEF RecurrentInv, BuildInv
    <3>2. R!Builders(k)' = R!Builders(k)
      BY <1>1, <2>2 DEF R!Builders, RecurrentInv, PlaceInv
    <3>3. Building(k) => Building(k)'
      BY <1>1, <3>2 DEF Building, R!Cached
    <3> QED
      BY <1>1, <2>1, <3>1, <3>3, ExplainedKept DEF RecurrentInv
  <2>3. CASE k = m
    <3> SUFFICES ASSUME pops'[m] = 0
                 PROVE  builds'[m] <= Refusals(m)' + IF Building(m)' THEN 1 ELSE 0
      BY <2>3 DEF Explained
    <3>1. R!Builders(m) = {}
      <4> SUFFICES ASSUME NEW q \in R!Builders(m) PROVE FALSE
        OBVIOUS
      <4>1. q \in Requests /\ MemOf[q] = m /\ pc[q] = "read"
        BY DEF R!Builders
      <4>2. q = r
        BY <1>1, <4>1, OneHolder DEF RecurrentInv, PlaceInv
      <4> QED
        BY <1>1, <4>1, <4>2
    <3>2. ~Building(m)
      BY <1>1, <3>1 DEF Building
    <3>3. r \in R!Builders(m)'
      BY <1>1 DEF R!Builders, RecurrentInv, PlaceInv
    <3>4. Building(m)'
      BY <3>3 DEF Building
    <3>5. Refusals(m)' = Refusals(m) /\ Refusals(m) \in Nat
      BY <1>1, <2>1, <2>3, RefusedFinite DEF Refusals, R!Refused
    <3>6. builds[m] <= Refusals(m)
      BY <1>1, <2>3, <3>2, <3>5 DEF RecurrentInv, BuildInv, Explained
    <3>7. builds'[m] = builds[m] + 1 /\ builds[m] \in Nat
      BY <1>1, <2>3 DEF RecurrentInv, BuildInv
    <3> QED
      BY <3>4, <3>5, <3>6, <3>7
  <2> QED
    BY <2>2, <2>3
<1>4. cache' \in Seq(Blocks) /\ builds' \in [Memories -> Nat]
  <2>1. m \in Memories
    BY <1>1 DEF RecurrentInv, PlaceInv
  <2> HIDE DEF m
  <2> QED
    BY <1>1, <2>1 DEF RecurrentInv, BuildInv
<1>5. HeldInv'
    BY <1>1 DEF RecurrentInv, PlaceInv, HeldInv
<1> QED
    BY <1>2, <1>3, <1>4, <1>5 DEF RecurrentInv, BuildInv

\* One pass that is not the last.
LEMMA RecPass ==
    ASSUME RecConstants, RecurrentInv, NEW r \in Requests, R!Pass(r)
    PROVE  RecurrentInv'
<1>1. /\ pc[r] = "read" /\ held' = [held EXCEPT ![r] = @ + 1]
      /\ UNCHANGED <<pc, reply, cache, line, pops, builds>>
    BY DEF R!Pass
<1>2. PlaceInv'
    BY <1>1 DEF RecurrentInv, PlaceInv, Lines, R!First
<1>3. \A m \in Memories : Explained(m)'
    BY <1>1 DEF RecurrentInv, BuildInv, Explained, Refusals, R!Refused, Building, R!Cached,
                R!Builders
<1> QED
    BY <1>1, <1>2, <1>3 DEF RecurrentInv, BuildInv, HeldInv

\* The block is stored and the oldest ones leave with their locks: as long as the
\* lock of a memory stays, its block does.
LEMMA RecStore ==
    ASSUME RecConstants, RecurrentInv, NEW r \in Requests, pc[r] \in {"wait", "read"},
           R!Store(r, Len(ReadUnits[MemOf[r]]))
    PROVE  /\ PlaceInv' /\ HeldInv' /\ cache' \in Seq(Blocks)
           /\ \A k \in Memories : pops'[k] = 0 => pops[k] = 0
           /\ \A k \in Memories :
                 pops'[k] = 0 /\ (k = MemOf[r] \/ R!Cached(k)) => R!Cached(k)'
           /\ reply' = reply /\ pc' = [pc EXCEPT ![r] = "ask"]
<1> DEFINE m == MemOf[r]
           n == Len(ReadUnits[m])
           e == [mem |-> m, read |-> n]
           filled == Append(R!Others(m), e)
<1>1. /\ cache' = R!Kept(filled)
      /\ pops' = [k \in Memories |-> pops[k] + IF k \in R!Evicted(filled) THEN 1 ELSE 0]
      /\ held' = [held EXCEPT ![r] = n]
      /\ R!Leave(r)
      /\ pc' = [pc EXCEPT ![r] = "ask"]
      /\ reply' = reply
    BY DEF R!Store
<1>2. m \in Memories /\ e \in Blocks /\ e.mem = m
    BY DEF RecurrentInv, PlaceInv, Blocks
<1>3. cache \in Seq(Blocks)
    BY DEF RecurrentInv, BuildInv
<1>4. /\ R!Others(m) \in Seq(Blocks)
      /\ \A k : k # m /\ Has(cache, k) => Has(R!Others(m), k)
    BY <1>3, HasOthers
<1>5. HeldInv'
    BY <1>1 DEF RecurrentInv, PlaceInv, HeldInv
<1> HIDE DEF n, e
<1>6. /\ filled \in Seq(Blocks)
      /\ \A k : Has(R!Others(m), k) \/ k = m => Has(filled, k)
    BY <1>2, <1>4, HasAppend
<1> HIDE DEF filled
<1>7. /\ cache' \in Seq(Blocks)
      /\ \A k : Has(filled, k) /\ k \notin R!Evicted(filled) => Has(cache', k)
    BY <1>1, <1>6, HasKept
<1>8. /\ pops' \in [Memories -> Nat]
      /\ \A k \in Memories : pops[k] <= pops'[k]
      /\ \A k \in Memories : pops'[k] = 0 => pops[k] = 0 /\ k \notin R!Evicted(filled)
  <2>1. pops \in [Memories -> Nat]
    BY DEF RecurrentInv, PlaceInv
  <2> QED
    BY <1>1, <2>1
<1>9. PlaceInv'
    BY <1>1, <1>8, LeavePlace DEF RecurrentInv
<1>10. ASSUME NEW k \in Memories, pops'[k] = 0, k = m \/ R!Cached(k) PROVE R!Cached(k)'
  <2>1. k \notin R!Evicted(filled)
    BY <1>8, <1>10
  <2>2. Has(filled, k)
    BY <1>3, <1>4, <1>6, <1>10, CachedHas
  <2>3. Has(cache', k)
    BY <1>7, <2>1, <2>2
  <2> QED
    BY <1>7, <2>3 DEF R!Cached, Has
<1> QED
    BY <1>1, <1>5, <1>7, <1>8, <1>9, <1>10

\* The last pass returns.
LEMMA RecLastPass ==
    ASSUME RecConstants, RecurrentInv, NEW r \in Requests, R!LastPass(r)
    PROVE  RecurrentInv'
<1> DEFINE m == MemOf[r]
<1>1. pc[r] = "read" /\ R!Store(r, Len(ReadUnits[m])) /\ builds' = builds
    BY DEF R!LastPass
<1>2. /\ PlaceInv' /\ HeldInv' /\ cache' \in Seq(Blocks)
      /\ \A k \in Memories : pops'[k] = 0 => pops[k] = 0
      /\ \A k \in Memories : pops'[k] = 0 /\ (k = m \/ R!Cached(k)) => R!Cached(k)'
      /\ reply' = reply /\ pc' = [pc EXCEPT ![r] = "ask"]
    BY <1>1, RecStore
<1>3. ASSUME NEW k \in Memories PROVE Explained(k)'
  <2>1. R!Refused(k)' = R!Refused(k)
    BY <1>2, RefusedSame
  <2>2. ASSUME pops'[k] = 0, Building(k) PROVE Building(k)'
    <3>1. CASE k = m \/ R!Cached(k)
      BY <1>2, <2>2, <3>1 DEF Building
    <3>2. CASE k # m /\ ~R!Cached(k)
      <4>1. R!Builders(k) # {}
        BY <2>2, <3>2 DEF Building
      <4>2. R!Builders(k)' = R!Builders(k)
        BY <1>2, <3>2 DEF R!Builders, RecurrentInv, PlaceInv
      <4> QED
        BY <4>1, <4>2 DEF Building
    <3> QED
      BY <3>1, <3>2
  <2> QED
    BY <1>1, <1>2, <2>1, <2>2, ExplainedKept DEF RecurrentInv
<1> QED
    BY <1>1, <1>2, <1>3 DEF RecurrentInv, BuildInv

\* A memory without units has its empty block stored at once: no one else was
\* at it, so the one reading more is explained by the block.
LEMMA RecBuildEmpty ==
    ASSUME RecConstants, RecurrentInv, NEW r \in Requests, R!BuildEmpty(r)
    PROVE  RecurrentInv'
<1> DEFINE m == MemOf[r]
<1>1. /\ pc[r] = "wait" /\ R!First(r) /\ ~R!Cached(m)
      /\ ReadUnits[m] = <<>> /\ R!Store(r, 0)
      /\ builds' = [builds EXCEPT ![m] = @ + 1]
    BY DEF R!BuildEmpty
<1>2. m \in Memories /\ Len(ReadUnits[m]) = 0
    BY <1>1 DEF RecurrentInv, PlaceInv
<1>3. /\ PlaceInv' /\ HeldInv' /\ cache' \in Seq(Blocks)
      /\ \A k \in Memories : pops'[k] = 0 => pops[k] = 0
      /\ \A k \in Memories : pops'[k] = 0 /\ (k = m \/ R!Cached(k)) => R!Cached(k)'
      /\ reply' = reply /\ pc' = [pc EXCEPT ![r] = "ask"]
    BY <1>1, <1>2, RecStore
<1>4. builds \in [Memories -> Nat] /\ builds' \in [Memories -> Nat]
    BY <1>1, <1>2 DEF RecurrentInv, BuildInv
<1>5. ASSUME NEW k \in Memories PROVE Explained(k)'
  <2>1. R!Refused(k)' = R!Refused(k)
    BY <1>3, RefusedSame
  <2>2. CASE k # m
    <3>1. builds'[k] = builds[k]
      BY <1>1, <2>2 DEF RecurrentInv, BuildInv
    <3>2. R!Builders(k)' = R!Builders(k)
      BY <1>1, <1>3, <2>2 DEF R!Builders, RecurrentInv, PlaceInv
    <3>3. pops'[k] = 0 /\ Building(k) => Building(k)'
      BY <1>3, <3>2 DEF Building
    <3> QED
      BY <1>3, <2>1, <3>1, <3>3, ExplainedKept DEF RecurrentInv
  <2>3. CASE k = m
    <3> SUFFICES ASSUME pops'[m] = 0
                 PROVE  builds'[m] <= Refusals(m)' + IF Building(m)' THEN 1 ELSE 0
      BY <2>3 DEF Explained
    <3>1. pops[m] = 0 /\ Building(m)'
      BY <1>2, <1>3 DEF Building
    <3>2. R!Builders(m) = {}
      <4> SUFFICES ASSUME NEW q \in R!Builders(m) PROVE FALSE
        OBVIOUS
      <4>1. q \in Requests /\ MemOf[q] = m /\ pc[q] = "read"
        BY DEF R!Builders
      <4>2. q = r
        BY <1>1, <3>1, <4>1, OneHolder DEF RecurrentInv, PlaceInv
      <4> QED
        BY <1>1, <4>1, <4>2
    <3>3. ~Building(m)
      BY <1>1, <3>2 DEF Building
    <3>4. Refusals(m)' = Refusals(m) /\ Refusals(m) \in Nat
      BY <2>1, <2>3, RefusedFinite DEF Refusals
    <3>5. builds[m] <= Refusals(m)
      BY <1>2, <3>1, <3>3, <3>4 DEF RecurrentInv, BuildInv, Explained
    <3>6. builds'[m] = builds[m] + 1 /\ builds[m] \in Nat
      BY <1>1, <1>2, <1>4
    <3> QED
      BY <3>1, <3>4, <3>5, <3>6
  <2> QED
    BY <2>2, <2>3
<1> QED
    BY <1>3, <1>4, <1>5 DEF RecurrentInv, BuildInv

\* A pass fails, the client is told, and the lock is let go.
LEMMA RecPassFails ==
    ASSUME RecConstants, RecurrentInv, NEW r \in Requests, R!PassFails(r)
    PROVE  RecurrentInv'
<1>1. /\ pc[r] = "read" /\ R!Leave(r)
      /\ pc' = [pc EXCEPT ![r] = "done"]
      /\ reply' = [reply EXCEPT ![r] = Failed]
      /\ UNCHANGED <<held, cache, pops, builds>>
    BY DEF R!PassFails
<1>2. PlaceInv'
  <2>1. pops' \in [Memories -> Nat] /\ \A k \in Memories : pops[k] <= pops'[k]
    BY <1>1 DEF RecurrentInv, PlaceInv
  <2> QED
    BY <1>1, <2>1, LeavePlace DEF RecurrentInv
<1>3. reply[r] = Asked
    BY <1>1 DEF RecurrentInv, PlaceInv
<1>4. ASSUME NEW k \in Memories PROVE Explained(k)'
  <2>1. /\ R!Refused(k) \subseteq R!Refused(k)'
        /\ MemOf[r] = k => R!Refused(k)' # R!Refused(k)
    BY <1>1, <1>3, RefusedStay DEF RecurrentInv
  <2>2. ASSUME MemOf[r] # k, Building(k) PROVE Building(k)'
    <3>1. R!Builders(k)' = R!Builders(k)
      BY <1>1, <2>2 DEF R!Builders, RecurrentInv, PlaceInv
    <3> QED
      BY <1>1, <2>2, <3>1 DEF Building, R!Cached
  <2> QED
    BY <1>1, <2>1, <2>2, ExplainedKept DEF RecurrentInv
<1> QED
    BY <1>1, <1>2, <1>4 DEF RecurrentInv, PlaceInv, BuildInv, HeldInv

\* The answer, or the error.
LEMMA RecAsk ==
    ASSUME RecConstants, RecurrentInv, NEW r \in Requests, R!Ask(r)
    PROVE  RecurrentInv'
<1>1. /\ pc[r] = "ask" /\ pc' = [pc EXCEPT ![r] = "done"]
      /\ UNCHANGED <<held, cache, line, pops, builds>>
    BY DEF R!Ask
<1>2. PICK a : reply' = [reply EXCEPT ![r] = a]
    BY DEF R!Ask
<1>3. reply[r] = Asked
    BY <1>1 DEF RecurrentInv, PlaceInv
<1>4. PlaceInv'
  <2>1. pc' \in [Requests -> RecSteps] /\ DOMAIN reply' = Requests
    BY <1>1, <1>2 DEF RecurrentInv, PlaceInv, RecSteps
  <2>2. ASSUME NEW q \in Requests
        PROVE  /\ pc'[q] = "idle" => reply'[q] = Absent
               /\ pc'[q] \notin {"idle", "done"} => reply'[q] = Asked
               /\ pc'[q] \in {"wait", "read"} => MemOf[q] \in Memories
               /\ pc'[q] = "read" => R!First(q)'
    BY <1>1, <1>2 DEF RecurrentInv, PlaceInv, R!First
  <2> QED
    BY <1>1, <2>1, <2>2 DEF RecurrentInv, PlaceInv, Lines
<1>5. ASSUME NEW k \in Memories PROVE Explained(k)'
  <2>1. R!Refused(k) \subseteq R!Refused(k)'
    BY <1>2, <1>3, RefusedStay DEF RecurrentInv
  <2>2. R!Builders(k)' = R!Builders(k)
    BY <1>1 DEF R!Builders, RecurrentInv, PlaceInv
  <2>3. Building(k) => Building(k)'
    BY <1>1, <2>2 DEF Building, R!Cached
  <2> QED
    BY <1>1, <2>1, <2>3, ExplainedKept DEF RecurrentInv
<1> QED
    BY <1>1, <1>4, <1>5 DEF RecurrentInv, PlaceInv, BuildInv, HeldInv

\* Nothing happens.
LEMMA RecStutter == RecurrentInv /\ UNCHANGED R!vars => RecurrentInv'
<1> SUFFICES ASSUME RecurrentInv, UNCHANGED R!vars PROVE RecurrentInv'
    OBVIOUS
<1>1. PlaceInv'
    BY DEF RecurrentInv, PlaceInv, Lines, R!First, R!vars
<1>2. \A m \in Memories : Explained(m)'
    BY DEF RecurrentInv, BuildInv, Explained, Refusals, R!Refused, Building, R!Cached,
           R!Builders, R!vars
<1> QED
    BY <1>1, <1>2 DEF RecurrentInv, BuildInv, HeldInv, R!vars

\* Every step of the recurrent server keeps its invariant.
LEMMA RecNext ==
    ASSUME RecConstants, RecurrentInv, R!Next
    PROVE  RecurrentInv'
    BY RecArrive, RecHit, RecBuild, RecBuildEmpty, RecPass, RecLastPass, RecPassFails, RecAsk
    DEF R!Next, R!Serve

\* Those that build the block of one memory hold one lock each, and there are
\* as many locks of it as were removed, and one.
LEMMA RecApart == RecConstants /\ RecurrentInv => R!BuildersApart
<1> SUFFICES ASSUME RecConstants, RecurrentInv, NEW m \in Memories
             PROVE  R!Cardinality(R!Builders(m)) <= 1 + pops[m]
    BY DEF R!BuildersApart
<1> DEFINE S == R!Builders(m)
           T == 0 .. pops[m]
           Holds(q, i) == <<m, i>> \in Locks /\ line[<<m, i>>] # <<>> /\ Head(line[<<m, i>>]) = q
           f == [q \in S |-> CHOOSE i \in T : Holds(q, i)]
<1>1. ASSUME NEW q \in S PROVE \E i \in T : Holds(q, i)
  <2>1. q \in Requests /\ MemOf[q] = m /\ pc[q] = "read"
    BY DEF R!Builders
  <2>2. R!First(q)
    BY <2>1 DEF RecurrentInv, PlaceInv
  <2> QED
    BY <2>1, <2>2, HolderOf DEF RecurrentInv
<1> HIDE DEF Holds
<1>2. ASSUME NEW q \in S PROVE f[q] \in T /\ Holds(q, f[q])
    BY <1>1, Zenon
<1>3. f \in [S -> T]
    BY <1>2, Zenon
<1>4. f \in Injection(S, T)
  <2>1. ASSUME NEW q \in S, NEW p \in S, f[q] = f[p] PROVE q = p
    <3>1. Holds(q, f[q]) /\ Holds(p, f[p])
      BY <1>2
    <3> HIDE DEF f
    <3> QED
      BY <2>1, <3>1 DEF Holds
  <2> HIDE DEF f, S, T
  <2> QED
    BY <1>3, <2>1 DEF Injection, IsInjective
<1>5. pops[m] \in Nat
    BY DEF RecurrentInv, PlaceInv
<1>6. IsFiniteSet(T) /\ Cardinality(T) = pops[m] + 1
    BY <1>5, FS_Interval
<1>7. Cardinality(S) <= Cardinality(T)
    BY <1>4, <1>6, FS_Injection
<1> QED
    BY <1>5, <1>6, <1>7, RecNames

\* The count of readings, from the invariant.
LEMMA RecExplained == RecConstants /\ RecurrentInv => R!BuildsExplained
<1> SUFFICES ASSUME RecConstants, RecurrentInv, NEW m \in Memories, pops[m] = 0
             PROVE  builds[m] <= 1 + R!Cardinality(R!Refused(m))
    BY DEF R!BuildsExplained
<1>1. builds[m] <= Refusals(m) + IF Building(m) THEN 1 ELSE 0
    BY DEF RecurrentInv, BuildInv, Explained
<1>2. builds[m] \in Nat /\ Refusals(m) \in Nat
    BY RefusedFinite DEF RecurrentInv, BuildInv
<1>3. builds[m] <= 1 + Refusals(m)
    BY <1>1, <1>2
<1> QED
    BY <1>3, RecNames DEF Refusals

\* R! has sequences of sequences and the tokens of a memory under names of its own.
LEMMA RecTokens ==
    /\ \A s : R!FlattenSeq(s) = FlattenSeq(s)
    /\ \A a, n : R!Numbered(a, n) = Numbered(a, n)
    /\ \A docs : R!TokensUpTo(docs) = TokensUpTo(docs)
<1>1. \A s : R!FlattenSeq(s) = FlattenSeq(s)
    BY DEF R!FlattenSeq, FlattenSeq
<1>2. \A a, n : R!Numbered(a, n) = Numbered(a, n)
    BY DEF R!Numbered, Numbered
<1>3. \A docs : R!TokensUpTo(docs) = TokensUpTo(docs)
    BY DEF R!TokensUpTo, TokensUpTo
<1> QED
    BY <1>1, <1>2, <1>3

\* A memory whose units have all been read has been read whole.
LEMMA UnitsWhole ==
    ASSUME RecConstants, NEW r \in Requests, MemOf[r] # NoMemory
    PROVE  R!Answer(MemOf[r], Len(ReadUnits[MemOf[r]])) \in R!Own[r]
<1> DEFINE m == MemOf[r]
           docs == Docs[m]
           units == Units(docs, ReadWindow, TRUE)
           n == Len(units)
<1>1. docs \in Seq(Nat) /\ ReadWindow \in Nat \ {0} /\ TRUE \in BOOLEAN /\ m \in Memories
    BY DEF RecConstants, R!ServerAssumption
<1>2. ReadUnits[m] = units
    BY <1>1, Zenon DEF ReadUnits
<1>3. units \in Seq(Seq(Nat)) /\ FlattenSeq(units) = Numbered(1, TokensUpTo(docs)[Len(docs)])
  <2> HIDE DEF docs
  <2> QED
    BY <1>1, UnitsAreWhole, Zenon
<1>4. SubSeq(units, 1, n) = units
  <2> DEFINE S == Seq(Nat)
  <2>1. units \in Seq(S)
    BY <1>3
  <2> HIDE DEF S, units
  <2> QED
    BY <2>1, SubSeqFull
<1> HIDE DEF units
<1>5. R!Answer(m, n) = [mem |-> m, read |-> R!FlattenSeq(units)]
    BY <1>2, <1>4, Zenon DEF R!Answer
<1>6. R!Whole(m) = Numbered(1, TokensUpTo(docs)[Len(docs)])
    BY RecTokens, Zenon DEF R!Whole
<1>7. R!Answer(m, n) = [mem |-> m, read |-> R!Whole(m)]
    BY <1>3, <1>5, <1>6, RecTokens, Zenon
<1>8. R!Own[r] = {[mem |-> MemOf[r], read |-> R!Whole(MemOf[r])]}
    BY Zenon DEF R!Own
<1> QED
    BY <1>2, <1>7, <1>8, Zenon

\* What a step of the recurrent server may do to the replies.
LEMMA RecReply ==
    ASSUME RecConstants, RecurrentInv, R!Next
    PROVE  ReplyStep(R!Own)
<1>1. ASSUME NEW r \in Requests, R!Arrive(r) PROVE ReplyStep(R!Own)
  <2>1. pc[r] = "idle" /\ reply' = [reply EXCEPT ![r] = Asked]
    BY <1>1 DEF R!Arrive
  <2> QED
    BY <2>1 DEF ReplyStep, RecurrentInv, PlaceInv
<1>2. ASSUME NEW r \in Requests, pc[r] \notin {"idle", "done"},
             NEW a \in R!Own[r] \cup {Failed}, reply' = [reply EXCEPT ![r] = a]
      PROVE  ReplyStep(R!Own)
  <2>1. reply[r] = Asked
    BY <1>2 DEF RecurrentInv, PlaceInv
  <2> QED
    BY <1>2, <2>1 DEF ReplyStep
<1>3. ASSUME NEW r \in Requests, R!Ask(r) PROVE ReplyStep(R!Own)
  <2>1. pc[r] = "ask"
    BY <1>3 DEF R!Ask
  <2>2. R!Answer(MemOf[r], held[r]) \in R!Own[r]
    <3>1. CASE MemOf[r] = NoMemory
      BY <3>1 DEF R!Own, R!Answer, R!Whole
    <3>2. CASE MemOf[r] # NoMemory
      <4>1. held[r] = Len(ReadUnits[MemOf[r]])
        BY <2>1, <3>2 DEF RecurrentInv, HeldInv
      <4> QED
        BY <3>2, <4>1, UnitsWhole
    <3> QED
      BY <3>1, <3>2
  <2>3. PICK a \in {R!Answer(MemOf[r], held[r]), Failed} : reply' = [reply EXCEPT ![r] = a]
    BY <1>3 DEF R!Ask
  <2> QED
    BY <1>2, <2>1, <2>2, <2>3
<1>4. ASSUME NEW r \in Requests, R!PassFails(r) PROVE ReplyStep(R!Own)
  <2>1. pc[r] = "read" /\ reply' = [reply EXCEPT ![r] = Failed]
    BY <1>4 DEF R!PassFails
  <2> QED
    BY <1>2, <2>1
<1>5. ASSUME NEW r \in Requests,
             R!Hit(r) \/ R!Build(r) \/ R!BuildEmpty(r) \/ R!Pass(r) \/ R!LastPass(r)
      PROVE  ReplyStep(R!Own)
  <2>1. reply' = reply
    BY <1>5 DEF R!Hit, R!Build, R!BuildEmpty, R!Pass, R!LastPass, R!Store
  <2> QED
    BY <2>1 DEF ReplyStep
<1> QED
    BY <1>1, <1>3, <1>4, <1>5 DEF R!Next, R!Serve

-----------------------------------------------------------------------------
\* The C2L server: what the consumer cuts the queue into, and what a chunk gets back.

OneGroup(s) == \A q, r \in ToSet(s) : GroupOf[q] = GroupOf[r]

\* Chunks of requests in T: each of one group, none with a request of another.
IsCut(c, T) ==
    /\ c \in Seq(Seq(Requests))
    /\ \A i \in 1 .. Len(c) : c[i] # << >> /\ OneGroup(c[i]) /\ ToSet(c[i]) \subseteq T
    /\ \A i, j \in 1 .. Len(c) : i # j => ToSet(c[i]) \cap ToSet(c[j]) = {}

\* C! has the operators of the libraries under names of its own.
LEMMA C2LNames ==
    /\ \A s : C!FlattenSeq(s) = FlattenSeq(s)
    /\ \A s : C!ToSet(s) = ToSet(s)
    /\ \A s : C!Last(s) = Last(s)
    /\ \A S : C!Min(S) = Min(S)
<1>1. \A s : C!FlattenSeq(s) = FlattenSeq(s)
    BY DEF C!FlattenSeq, FlattenSeq
<1>2. \A s : C!ToSet(s) = ToSet(s)
    BY DEF C!ToSet, ToSet
<1>3. \A s : C!Last(s) = Last(s)
    BY DEF C!Last, Last
<1>4. \A S : C!Min(S) = Min(S)
    BY DEF C!Min, Min
<1> QED
    BY <1>1, <1>2, <1>3, <1>4

\* Chunks go on being chunks in a larger set.
LEMMA CutMore ==
    ASSUME NEW c, NEW T, NEW U, IsCut(c, T), T \subseteq U
    PROVE  IsCut(c, U)
BY DEF IsCut

\* Chunks of requests that have nothing in common.
LEMMA CutJoin ==
    ASSUME NEW c, NEW d, NEW T, NEW U, IsCut(c, T), IsCut(d, U), T \cap U = {}
    PROVE  IsCut(c \o d, T \cup U)
<1> DEFINE V == Seq(Requests)
           n == Len(c)
           k == Len(d)
           e == c \o d
           W == T \cup U
           Good(x, Z) == x # << >> /\ OneGroup(x) /\ ToSet(x) \subseteq Z
           apart(x, y) == ToSet(x) \cap ToSet(y) = {}
<1>1. c \in Seq(V) /\ d \in Seq(V)
    BY DEF IsCut
<1>2. /\ \A i \in 1 .. n : Good(c[i], T)
      /\ \A i \in 1 .. k : Good(d[i], U)
      /\ \A i, j \in 1 .. n : i # j => apart(c[i], c[j])
      /\ \A i, j \in 1 .. k : i # j => apart(d[i], d[j])
    BY DEF IsCut
<1>3. \A x : (Good(x, T) \/ Good(x, U)) => Good(x, W)
    OBVIOUS
<1>4. \A x, y : Good(x, T) /\ Good(y, U) => apart(x, y) /\ apart(y, x)
    OBVIOUS
<1> HIDE DEF V, Good, apart, W
<1>5. /\ n \in Nat /\ k \in Nat /\ e \in Seq(V) /\ Len(e) = n + k
      /\ \A i \in 1 .. n + k : e[i] = IF i <= n THEN c[i] ELSE d[i - n]
    BY <1>1, ConcatProperties
<1> HIDE DEF e, n, k
<1>6. ASSUME NEW i \in 1 .. n + k
      PROVE  \/ i \in 1 .. n /\ e[i] = c[i]
             \/ (i - n) \in 1 .. k /\ e[i] = d[i - n]
    BY <1>5
<1>7. ASSUME NEW i \in 1 .. n + k PROVE Good(e[i], W)
    BY <1>2, <1>3, <1>6
<1>8. ASSUME NEW i \in 1 .. n + k, NEW j \in 1 .. n + k, i # j PROVE apart(e[i], e[j])
  <2>1. CASE i \in 1 .. n /\ e[i] = c[i] /\ j \in 1 .. n /\ e[j] = c[j]
    BY <1>2, <1>8, <2>1
  <2>2. CASE i \in 1 .. n /\ e[i] = c[i] /\ (j - n) \in 1 .. k /\ e[j] = d[j - n]
    BY <1>2, <1>4, <2>2, Zenon
  <2>3. CASE (i - n) \in 1 .. k /\ e[i] = d[i - n] /\ j \in 1 .. n /\ e[j] = c[j]
    BY <1>2, <1>4, <2>3, Zenon
  <2>4. CASE (i - n) \in 1 .. k /\ e[i] = d[i - n] /\ (j - n) \in 1 .. k /\ e[j] = d[j - n]
    <3>1. i - n # j - n
      BY <1>5, <1>8
    <3> QED
      BY <1>2, <2>4, <3>1, Zenon
  <2> QED
    BY <1>6, <2>1, <2>2, <2>3, <2>4
<1> QED
    BY <1>5, <1>7, <1>8, Zenon DEF IsCut, V, Good, apart, e, n, k, W

\* No chunks.
LEMMA CutNone == ASSUME NEW T PROVE IsCut(<< >>, T)
BY DEF IsCut

\* The first chunk and the others.
LEMMA CutTail ==
    ASSUME NEW c, NEW T, IsCut(c, T), c # << >>
    PROVE  /\ Head(c) \in Seq(Requests) /\ Head(c) # << >> /\ OneGroup(Head(c))
           /\ ToSet(Head(c)) \subseteq T
           /\ IsCut(Tail(c), T \ ToSet(Head(c)))
<1> DEFINE V == Seq(Requests)
           n == Len(c)
           h == Head(c)
           e == Tail(c)
<1>1. c \in Seq(V) /\ c # << >>
    BY DEF IsCut
<1>2. /\ \A i \in 1 .. n : c[i] # << >> /\ OneGroup(c[i]) /\ ToSet(c[i]) \subseteq T
      /\ \A i, j \in 1 .. n : i # j => ToSet(c[i]) \cap ToSet(c[j]) = {}
    BY DEF IsCut
<1> HIDE DEF V
<1>3. /\ n \in Nat /\ n > 0 /\ h = c[1] /\ h \in V
      /\ e \in Seq(V) /\ Len(e) = n - 1 /\ \A i \in 1 .. n - 1 : e[i] = c[i + 1]
    BY <1>1
<1> HIDE DEF n, h, e
<1>4. ASSUME NEW i \in 1 .. n - 1
      PROVE  e[i] # << >> /\ OneGroup(e[i]) /\ ToSet(e[i]) \subseteq T \ ToSet(h)
  <2>1. i + 1 \in 1 .. n /\ 1 \in 1 .. n /\ i + 1 # 1 /\ e[i] = c[i + 1]
    BY <1>3
  <2>2. ToSet(c[i + 1]) \cap ToSet(c[1]) = {}
    BY <1>2, <2>1
  <2> QED
    BY <1>2, <1>3, <2>1, <2>2
<1>5. ASSUME NEW i \in 1 .. n - 1, NEW j \in 1 .. n - 1, i # j
      PROVE  ToSet(e[i]) \cap ToSet(e[j]) = {}
  <2>1. i + 1 \in 1 .. n /\ j + 1 \in 1 .. n /\ i + 1 # j + 1 /\ e[i] = c[i + 1] /\ e[j] = c[j + 1]
    BY <1>3, <1>5
  <2> QED
    BY <1>2, <2>1
<1>6. IsCut(e, T \ ToSet(h))
    BY <1>3, <1>4, <1>5, Zenon DEF IsCut, V
<1>7. 1 \in 1 .. n
    BY <1>3
<1> QED
    BY <1>2, <1>3, <1>6, <1>7 DEF V, h, e

\* A sequence cut every w items: the items of every slice.
LEMMA SliceItems ==
    ASSUME NEW S, NEW s \in Seq(S), NEW w \in Nat \ {0}, NEW i \in 1 .. Len(HardSplit(s, w))
    PROVE  /\ HardSplit(s, w)[i] \in Seq(S) /\ Len(HardSplit(s, w)[i]) \in 1 .. w
           /\ \A l \in 1 .. Len(HardSplit(s, w)[i]) :
                (i - 1) * w + l \in 1 .. Len(s) /\ HardSplit(s, w)[i][l] = s[(i - 1) * w + l]
<1> DEFINE n == Len(s)
           q == (n + w - 1) \div w
           a == (i - 1) * w
           end == Min({i * w, n})
           cut == SubSeq(s, a + 1, end)
           hs == [j \in 1 .. q |-> SubSeq(s, (j - 1) * w + 1, Min({j * w, n}))]
<1>1. n \in Nat
    OBVIOUS
<1>2. q \in Nat /\ \A k \in 0 .. q - 1 : k * w \in Nat /\ k * w < n
    BY <1>1, CutsCover
<1>3. HardSplit(s, w) = hs
    BY DEF HardSplit
<1> HIDE DEF q
<1>4. Len(hs) = q
    BY <1>2
<1>5. i \in 1 .. q /\ i - 1 \in 0 .. q - 1
    BY <1>2, <1>3, <1>4
<1>6. HardSplit(s, w)[i] = cut
    BY <1>3, <1>5, Zenon
<1> HIDE DEF hs
<1>7. a \in Nat /\ a < n
    BY <1>2, <1>5
<1>8. i * w = a + w
    BY <1>5
<1>9. i * w \in Nat
    BY <1>7, <1>8
<1> HIDE DEF a, n
<1>10. end = IF i * w <= n THEN i * w ELSE n
    BY <1>1, <1>9, LesserIs
<1>11. end = IF a + w <= n THEN a + w ELSE n
    BY <1>8, <1>10, Zenon
<1> HIDE DEF end
<1>12. end \in Nat /\ a < end /\ end <= n /\ end <= a + w
    BY <1>1, <1>7, <1>11
<1>13. a + 1 \in 1 .. n /\ end \in 1 .. n /\ a + 1 <= end
    BY <1>1, <1>7, <1>12
<1>14. /\ cut \in Seq(S) /\ Len(cut) = end - a
       /\ \A l \in 1 .. end - a : cut[l] = s[a + l]
  <2> DEFINE b == a + 1
  <2>1. b \in 1 .. Len(s) /\ end \in 1 .. Len(s) /\ b <= end
    BY <1>13 DEF n
  <2>2. /\ cut \in Seq(S) /\ Len(cut) = (end - b) + 1
        /\ \A l \in 1 .. (end - b) + 1 : cut[l] = s[(b + l) - 1]
    BY <1>12, <2>1, SubSeqProperties
  <2>3. (end - b) + 1 = end - a /\ \A l \in 1 .. end - a : (b + l) - 1 = a + l
    BY <1>7, <1>12
  <2> HIDE DEF b, cut
  <2>4. ASSUME NEW l \in 1 .. end - a PROVE cut[l] = s[a + l]
    BY <2>2, <2>3, Zenon
  <2> QED
    BY <2>2, <2>3, <2>4
<1> HIDE DEF cut
<1>15. end - a \in 1 .. w /\ \A l \in 1 .. end - a : a + l \in 1 .. n
    BY <1>1, <1>7, <1>12
<1> QED
    BY <1>6, <1>14, <1>15, Zenon DEF a, n

\* The slices of a group that has no request twice.
LEMMA SlicesCut ==
    ASSUME NEW s \in Seq(Requests), IsInjective(s), OneGroup(s), NEW w \in Nat \ {0}
    PROVE  IsCut(HardSplit(s, w), ToSet(s))
<1> DEFINE hs == HardSplit(s, w)
           k == Len(hs)
           n == Len(s)
           V == Seq(Requests)
<1>1. hs \in Seq(V)
    BY HardSplitWhole
<1>2. ASSUME NEW i \in 1 .. k
      PROVE  /\ hs[i] \in V /\ Len(hs[i]) \in 1 .. w
             /\ \A l \in 1 .. Len(hs[i]) :
                  (i - 1) * w + l \in 1 .. n /\ hs[i][l] = s[(i - 1) * w + l]
  <2>1. i \in 1 .. Len(HardSplit(s, w))
    OBVIOUS
  <2> QED
    BY <2>1, SliceItems
<1>3. k \in Nat /\ n \in Nat
    BY <1>1
<1>4. \A a, b \in 1 .. n : s[a] = s[b] => a = b
    BY DEF IsInjective
<1> HIDE DEF hs, k
<1>5. ASSUME NEW i \in 1 .. k PROVE hs[i] # << >> /\ OneGroup(hs[i]) /\ ToSet(hs[i]) \subseteq ToSet(s)
  <2> DEFINE x == hs[i]
  <2>1. x \in V /\ Len(x) > 0 /\ \A l \in 1 .. Len(x) : \E j \in 1 .. n : x[l] = s[j]
    BY <1>2, <1>3
  <2> HIDE DEF x
  <2>2. x # << >>
    BY <2>1
  <2>3. ToSet(x) \subseteq ToSet(s)
    BY <2>1 DEF ToSet
  <2>4. OneGroup(x)
    BY <2>3 DEF OneGroup
  <2> QED
    BY <2>2, <2>3, <2>4 DEF x
<1>6. ASSUME NEW i \in 1 .. k, NEW j \in 1 .. k, i < j PROVE ToSet(hs[i]) \cap ToSet(hs[j]) = {}
  <2> SUFFICES ASSUME NEW r, r \in ToSet(hs[i]), r \in ToSet(hs[j]) PROVE FALSE
    OBVIOUS
  <2> DEFINE x == hs[i]
             y == hs[j]
             a == (i - 1) * w
             b == (j - 1) * w
  <2>1. x \in V /\ y \in V /\ Len(x) \in 1 .. w
    BY <1>2
  <2>2. PICK l \in 1 .. Len(x) : x[l] = r
    BY <2>1 DEF ToSet
  <2>3. PICK m \in 1 .. Len(y) : y[m] = r
    BY <2>1 DEF ToSet
  <2>4. a + l \in 1 .. n /\ x[l] = s[a + l]
    BY <1>2, <2>2
  <2>5. b + m \in 1 .. n /\ y[m] = s[b + m]
    BY <1>2, <2>3
  <2>6. a + w <= b /\ a \in Int /\ b \in Int
    <3> DEFINE c == i
               d == j - 1
    <3>1. c \in Int /\ d \in Int /\ c <= d /\ w \in Nat
      BY <1>3, <1>6
    <3>2. w * c <= w * d
      BY <3>1, MulMono
    <3>3. a = w * c - w /\ b = w * d /\ w * c \in Int /\ w * d \in Int
      BY <3>1
    <3> HIDE DEF a, b
    <3> QED
      BY <3>1, <3>2, <3>3
  <2> HIDE DEF a, b, x, y
  <2>7. a + l = b + m
    BY <1>4, <2>2, <2>3, <2>4, <2>5
  <2>8. l <= w /\ m >= 1 /\ l \in Int /\ m \in Int
    BY <2>1, <2>2, <2>3
  <2> QED
    BY <2>6, <2>7, <2>8
<1>7. ASSUME NEW i \in 1 .. k, NEW j \in 1 .. k, i # j PROVE ToSet(hs[i]) \cap ToSet(hs[j]) = {}
  <2>1. i < j \/ j < i
    BY <1>3, <1>7
  <2> QED
    BY <1>6, <2>1
<1> QED
    BY <1>1, <1>5, <1>7, Zenon DEF IsCut, hs, k, V

\* The items of a sequence that are in a set.
LEMMA WithinIs ==
    ASSUME NEW S, NEW s \in Seq(S), IsInjective(s), NEW T
    PROVE  /\ C!Within(s, T) \in Seq(S) /\ IsInjective(C!Within(s, T))
           /\ ToSet(C!Within(s, T)) = ToSet(s) \cap T
<1> DEFINE n == Len(s)
           V == Seq(S)
           part(i) == IF s[i] \in T THEN << s[i] >> ELSE << >>
           parts == [i \in 1 .. n |-> part(i)]
           Upto(k) == {x \in T : \E i \in 1 .. k : s[i] = x}
           Good(f, k) == f \in V /\ IsInjective(f) /\ ToSet(f) = Upto(k)
           a(k) == SubSeq(parts, 1, k)
           K == {k \in 0 .. n : Good(FlattenSeq(a(k)), k)}
<1>1. n \in Nat /\ (\A i \in 1 .. n : s[i] \in S) /\ \A i, j \in 1 .. n : s[i] = s[j] => i = j
    BY DEF IsInjective
<1>2. C!Within(s, T) = FlattenSeq(parts)
    BY C2LNames, Zenon DEF C!Within
<1>3. parts \in Seq(V) /\ Len(parts) = n /\ \A i \in 1 .. n : parts[i] = part(i)
  <2>1. \A i \in 1 .. n : part(i) \in V
    BY <1>1
  <2> HIDE DEF V, part
  <2> QED
    BY <1>1, <2>1
<1> HIDE DEF parts
<1>4. 0 \in K
  <2>1. a(0) = << >>
    BY SubSeqEmpty
  <2>2. Upto(0) = {} /\ << >> \in V /\ IsInjective(<< >>) /\ ToSet(<< >>) = {}
    BY DEF IsInjective, ToSet
  <2>3. Good(FlattenSeq(a(0)), 0)
    BY <2>1, <2>2, FlattenEmpty, Zenon
  <2> QED
    BY <1>1, <2>3
<1>5. ASSUME NEW k \in 0 .. n - 1, k \in K PROVE k + 1 \in K
  <2>0. k + 1 \in 1 .. n /\ k + 1 \in 0 .. n
    BY <1>1
  <2> DEFINE p == a(k)
             f == FlattenSeq(p)
             x == s[k + 1]
             g == FlattenSeq(a(k + 1))
  <2>1. p \in Seq(V) /\ parts[k + 1] \in V /\ a(k + 1) = Append(p, parts[k + 1])
    <3>1. k \in 0 .. Len(parts) - 1
      BY <1>3
    <3> HIDE DEF V
    <3> QED
      BY <1>3, <3>1, PrefixNext
  <2>2. g = f \o part(k + 1)
    <3>1. FlattenSeq(Append(p, parts[k + 1])) = f \o parts[k + 1]
      <4> DEFINE y == parts[k + 1]
      <4>1. p \in Seq(Seq(S)) /\ y \in Seq(S)
        BY <2>1
      <4> HIDE DEF p, y
      <4>2. FlattenSeq(Append(p, y)) = FlattenSeq(p) \o y
        BY <4>1, FlattenAppend
      <4> QED
        BY <4>2, Zenon DEF y
    <3> QED
      BY <1>3, <2>0, <2>1, <3>1, Zenon
  <2>3. Good(f, k)
    BY <1>5
  <2>4. x \in S /\ x \notin Upto(k) /\ \A y : (y \in Upto(k + 1)) <=> (y \in Upto(k) \/ (y = x /\ x \in T))
    <3>1. x \in S
      BY <1>1, <2>0
    <3>2. ASSUME NEW i \in 1 .. k, s[i] = x PROVE FALSE
      BY <1>1, <2>0, <3>2
    <3>3. \A i : i \in 1 .. k + 1 <=> (i \in 1 .. k \/ i = k + 1)
      BY <2>0
    <3> QED
      BY <3>1, <3>2, <3>3
  <2> HIDE DEF f, x, g, Upto
  <2>5. CASE x \notin T
    <3>1. part(k + 1) = << >>
      BY <2>5 DEF x
    <3>2. f \o << >> = f
      BY <2>3, ConcatEmptySeq
    <3>3. Upto(k + 1) = Upto(k)
      BY <2>4, <2>5
    <3> QED
      BY <2>0, <2>2, <2>3, <3>1, <3>2, <3>3 DEF g
  <2>6. CASE x \in T
    <3>1. part(k + 1) = << x >>
      BY <2>6 DEF x
    <3>2. f \in Seq(S)
      BY <2>3
    <3>3. /\ f \o << x >> \in Seq(S) /\ Len(f \o << x >>) = Len(f) + 1
          /\ \A i \in 1 .. Len(f) + 1 : (f \o << x >>)[i] = IF i <= Len(f) THEN f[i] ELSE x
      BY <2>4, <3>2
    <3> DEFINE h == f \o << x >>
               l == Len(f)
    <3>4. h \in Seq(S) /\ Len(h) = l + 1 /\ \A i \in 1 .. l + 1 : h[i] = IF i <= l THEN f[i] ELSE x
      BY <3>3
    <3>5. l \in Nat /\ \A i \in 1 .. l : f[i] \in Upto(k)
      BY <2>3, <3>2 DEF ToSet
    <3>6. \A i, j \in 1 .. l : f[i] = f[j] => i = j
      BY <2>3, <3>2 DEF IsInjective
    <3>7. ToSet(f) = Upto(k) /\ ToSet(f) = {f[i] : i \in 1 .. l}
      BY <2>3, <3>2 DEF ToSet
    <3> HIDE DEF h, l
    <3>8. IsInjective(h)
      <4>1. ASSUME NEW i \in 1 .. l + 1, NEW j \in 1 .. l + 1, h[i] = h[j] PROVE i = j
        BY <2>4, <3>4, <3>5, <3>6, <4>1
      <4> QED
        BY <3>4, <3>5, <4>1 DEF IsInjective
    <3>9. ToSet(h) = {h[i] : i \in 1 .. l + 1}
      BY <3>4 DEF ToSet
    <3>10. \A y : y \in ToSet(h) <=> (y \in ToSet(f) \/ y = x)
      <4>1. ASSUME NEW y \in ToSet(h) PROVE y \in ToSet(f) \/ y = x
        <5>1. PICK i \in 1 .. l + 1 : h[i] = y
          BY <3>9
        <5>2. i <= l => i \in 1 .. l
          BY <3>5
        <5> QED
          BY <3>4, <3>7, <5>1, <5>2
      <4>2. ASSUME NEW y \in ToSet(f) PROVE y \in ToSet(h)
        <5>1. PICK i \in 1 .. l : f[i] = y
          BY <3>7
        <5>2. i \in 1 .. l + 1 /\ i <= l
          BY <3>5
        <5> QED
          BY <3>4, <3>9, <5>1, <5>2
      <4>3. x \in ToSet(h)
        <5>1. l + 1 \in 1 .. l + 1 /\ ~(l + 1 <= l)
          BY <3>5
        <5> QED
          BY <3>4, <3>9, <5>1
      <4> QED
        BY <4>1, <4>2, <4>3
    <3>11. ToSet(h) = Upto(k + 1)
      <4> DEFINE X == ToSet(h)
                 Y == Upto(k + 1)
      <4>1. \A y : y \in X <=> y \in Y
        BY <2>4, <2>6, <3>7, <3>10
      <4> HIDE DEF X, Y
      <4>2. X = Y
        BY <4>1
      <4> QED
        BY <4>2 DEF X, Y
    <3>12. g = h
      BY <2>2, <3>1, Zenon DEF h
    <3>13. Good(g, k + 1)
      BY <3>4, <3>8, <3>11, <3>12
    <3> QED
      BY <2>0, <3>13 DEF g
  <2> QED
    BY <2>5, <2>6
<1> HIDE DEF K
<1>6. \A k \in 0 .. n : k \in K
    BY <1>1, <1>4, <1>5, UpTo
<1>7. n \in 0 .. n
    BY <1>1
<1>8. a(n) = parts
  <2> HIDE DEF V
  <2> QED
    BY <1>3, SubSeqFull
<1>9. Good(FlattenSeq(parts), n)
    BY <1>6, <1>7, <1>8 DEF K
<1>10. Upto(n) = ToSet(s) \cap T
    BY <1>1 DEF ToSet
<1> QED
    BY <1>2, <1>9, <1>10

\* The requests of a group that are in the queue, in slices.
LEMMA GroupCut ==
    ASSUME C!ServerAssumption, NEW s \in Seq(Requests), IsInjective(s), NEW i \in 1 .. Len(s)
    PROVE  IsCut(C!Slices(C!Within(s, C!Group(s[i]))),
                 {r \in ToSet(s) : GroupOf[r] = GroupOf[s[i]]})
<1> DEFINE T == C!Group(s[i])
           x == C!Within(s, T)
<1>1. MaxBatch \in Nat \ {0}
    BY DEF C!ServerAssumption
<1>2. x \in Seq(Requests) /\ IsInjective(x) /\ ToSet(x) = ToSet(s) \cap T
    BY WithinIs
<1>3. ToSet(s) \subseteq Requests
    BY DEF ToSet
<1>4. ToSet(s) \cap T = {r \in ToSet(s) : GroupOf[r] = GroupOf[s[i]]}
    BY <1>3 DEF C!Group
<1> HIDE DEF x, T
<1>5. OneGroup(x)
    BY <1>2, <1>4 DEF OneGroup
<1>6. IsCut(HardSplit(x, MaxBatch), ToSet(x))
    BY <1>1, <1>2, <1>5, SlicesCut
<1>7. C!Slices(x) = HardSplit(x, MaxBatch)
    BY C2LNames, Zenon DEF C!Slices, HardSplit
<1> QED
    BY <1>2, <1>4, <1>6, <1>7, Zenon DEF x, T

\* What the consumer takes from the queue is cut in chunks.
LEMMA ChunksCut ==
    ASSUME C!ServerAssumption, NEW s \in Seq(Requests), IsInjective(s)
    PROVE  IsCut(C!Chunks(s), ToSet(s))
<1> DEFINE n == Len(s)
           V == Seq(Requests)
           W == Seq(V)
           slices(i) == C!Slices(C!Within(s, C!Group(s[i])))
           part(i) == IF C!Opens(s, i) THEN slices(i) ELSE << >>
           parts == [i \in 1 .. n |-> part(i)]
           Mine(i) == {r \in ToSet(s) : GroupOf[r] = GroupOf[s[i]]}
           Seen(k) == {r \in ToSet(s) : \E j \in 1 .. k : GroupOf[r] = GroupOf[s[j]]}
           a(k) == SubSeq(parts, 1, k)
           K == {k \in 0 .. n : IsCut(FlattenSeq(a(k)), Seen(k))}
<1>1. n \in Nat
    OBVIOUS
<1>2. C!Chunks(s) = FlattenSeq(parts)
    BY C2LNames, Zenon DEF C!Chunks
<1>3. \A i \in 1 .. n : IsCut(slices(i), Mine(i))
    BY GroupCut
<1> HIDE DEF slices
<1>4. parts \in Seq(W) /\ Len(parts) = n /\ \A i \in 1 .. n : parts[i] = part(i)
  <2>1. ASSUME NEW i \in 1 .. n PROVE part(i) \in W
    <3>1. slices(i) \in W
      BY <1>3 DEF IsCut
    <3>2. << >> \in W
      OBVIOUS
    <3> HIDE DEF W
    <3> QED
      BY <3>1, <3>2
  <2> HIDE DEF W, part
  <2> QED
    BY <1>1, <2>1
<1> HIDE DEF parts
<1>5. 0 \in K
  <2>1. a(0) = << >>
    BY SubSeqEmpty
  <2>2. IsCut(FlattenSeq(a(0)), Seen(0))
    BY <2>1, FlattenEmpty, CutNone, Zenon
  <2>3. 0 \in 0 .. n
    BY <1>1
  <2> QED
    BY <2>2, <2>3, Zenon
<1>6. ASSUME NEW k \in 0 .. n - 1, k \in K PROVE k + 1 \in K
  <2>0. k + 1 \in 1 .. n /\ k + 1 \in 0 .. n /\ (k + 1) - 1 = k
    BY <1>1
  <2> DEFINE p == a(k)
             x == parts[k + 1]
             f == FlattenSeq(p)
  <2>1. p \in Seq(W) /\ x \in W /\ a(k + 1) = Append(p, x)
    <3>1. k \in 0 .. Len(parts) - 1
      BY <1>4
    <3> HIDE DEF W
    <3> QED
      BY <1>4, <3>1, PrefixNext
  <2>2. FlattenSeq(a(k + 1)) = f \o x
    <3>1. p \in Seq(Seq(V)) /\ x \in Seq(V)
      BY <2>1
    <3> HIDE DEF p, x, V
    <3>2. FlattenSeq(Append(p, x)) = FlattenSeq(p) \o x
      BY <3>1, FlattenAppend
    <3> QED
      BY <2>1, <3>2, Zenon
  <2>3. IsCut(f, Seen(k))
    BY <1>6
  <2>4. x = part(k + 1)
    BY <1>4, <2>0
  <2> HIDE DEF f, x, p
  <2>5. Seen(k) \subseteq Seen(k + 1) /\ Mine(k + 1) \subseteq Seen(k + 1)
    <3>1. k + 1 \in 1 .. k + 1 /\ \A j \in 1 .. k : j \in 1 .. k + 1
      BY <2>0
    <3> QED
      BY <3>1, Zenon
  <2>6. CASE C!Opens(s, k + 1)
    <3>1. x = slices(k + 1)
      BY <2>4, <2>6
    <3>2. \A j \in 1 .. k : GroupOf[s[j]] # GroupOf[s[k + 1]]
      BY <2>0, <2>6, Zenon DEF C!Opens
    <3>3. Seen(k) \cap Mine(k + 1) = {}
      BY <3>2
    <3>4. IsCut(x, Mine(k + 1))
      BY <1>3, <2>0, <3>1
    <3> DEFINE A == Seen(k)
               B == Mine(k + 1)
               E == Seen(k + 1)
    <3>5. A \cup B \subseteq E
      BY <2>5
    <3>6. IsCut(f, A) /\ IsCut(x, B) /\ A \cap B = {}
      BY <2>3, <3>3, <3>4
    <3> HIDE DEF A, B, E
    <3>7. IsCut(f \o x, A \cup B)
      BY <3>6, CutJoin
    <3>8. IsCut(f \o x, E)
      BY <3>5, <3>7, CutMore
    <3> QED
      BY <2>0, <2>2, <3>8 DEF E
  <2>7. CASE ~C!Opens(s, k + 1)
    <3>1. x = << >>
      BY <2>4, <2>7
    <3>2. f \in W
      BY <2>3 DEF IsCut
    <3>3. f \o << >> = f
      <4> HIDE DEF V
      <4> QED
        BY <3>2, ConcatEmptySeq
    <3> DEFINE A == Seen(k)
               E == Seen(k + 1)
    <3>4. A \subseteq E /\ IsCut(f, A)
      BY <2>3, <2>5
    <3> HIDE DEF A, E
    <3>5. IsCut(f, E)
      BY <3>4, CutMore
    <3> QED
      BY <2>0, <2>2, <3>1, <3>3, <3>5 DEF E
  <2> QED
    BY <2>6, <2>7
<1> HIDE DEF K
<1>7. \A k \in 0 .. n : k \in K
    BY <1>1, <1>5, <1>6, UpTo
<1>8. n \in 0 .. n
    BY <1>1
<1>9. a(n) = parts
  <2> HIDE DEF W
  <2> QED
    BY <1>4, SubSeqFull
<1>10. IsCut(FlattenSeq(parts), Seen(n))
    BY <1>7, <1>8, <1>9 DEF K
<1> DEFINE A == Seen(n)
<1>11. A \subseteq ToSet(s)
    OBVIOUS
<1> HIDE DEF A
<1>12. IsCut(FlattenSeq(parts), ToSet(s))
  <2>1. IsCut(FlattenSeq(parts), A)
    BY <1>10 DEF A
  <2> QED
    BY <1>11, <2>1, CutMore
<1> QED
    BY <1>2, <1>12

\* How many items the parts before the i-th one have.
Before(parts, i) == Len(FlattenSeq(SubSeq(parts, 1, i - 1)))

\* Where an item of a part is in the whole.
LEMMA FlattenAt ==
    ASSUME NEW S, NEW parts \in Seq(Seq(S)), NEW i \in 1 .. Len(parts), NEW l \in 1 .. Len(parts[i])
    PROVE  /\ Before(parts, i) \in Nat
           /\ Before(parts, i) + l \in 1 .. Len(FlattenSeq(parts))
           /\ FlattenSeq(parts)[Before(parts, i) + l] = parts[i][l]
<1> DEFINE n == Len(parts)
           V == Seq(S)
           a(k) == SubSeq(parts, 1, k)
           F(k) == FlattenSeq(a(k))
           b == Before(parts, i)
           x == parts[i][l]
           There(f) == b + l \in 1 .. Len(f) /\ f[b + l] = x
           K == {k \in 0 .. n : k >= i => There(F(k))}
<1>1. n \in Nat /\ i - 1 \in 0 .. n - 1 /\ (i - 1) + 1 = i
    OBVIOUS
<1>2. ASSUME NEW k \in 0 .. n - 1
      PROVE  F(k) \in V /\ parts[k + 1] \in V /\ F(k + 1) = F(k) \o parts[k + 1]
  <2> DEFINE p == a(k)
             y == parts[k + 1]
  <2>1. p \in Seq(V) /\ y \in V /\ a(k + 1) = Append(p, y)
    <3>1. parts \in Seq(V)
      OBVIOUS
    <3> HIDE DEF V
    <3> QED
      BY <3>1, PrefixNext
  <2> HIDE DEF p, y
  <2>2. FlattenSeq(p) \in V /\ FlattenSeq(Append(p, y)) = FlattenSeq(p) \o y
    BY <2>1, FlattenAppend
  <2> QED
    BY <2>1, <2>2, Zenon DEF p, y
<1>3. b = Len(F(i - 1))
    BY Zenon DEF Before
<1>4. b \in Nat
    BY <1>1, <1>2, <1>3
<1> HIDE DEF F, b, x
<1>5. ASSUME NEW k \in 0 .. n - 1, k \in K PROVE k + 1 \in K
  <2> DEFINE f == F(k)
             y == parts[k + 1]
  <2>1. f \in V /\ y \in V /\ F(k + 1) = f \o y
    BY <1>2
  <2>2. Len(f) \in Nat /\ Len(y) \in Nat /\ Len(f \o y) = Len(f) + Len(y)
        /\ \A j \in 1 .. Len(f) + Len(y) : (f \o y)[j] = IF j <= Len(f) THEN f[j] ELSE y[j - Len(f)]
    <3> HIDE DEF f, y
    <3> QED
      BY <2>1, ConcatProperties
  <2>3. k >= i => There(f)
    BY <1>5
  <2>4. k + 1 = i => f = F(i - 1) /\ y = parts[i]
    BY <1>1
  <2> DEFINE g == f \o y
             lf == Len(f)
             ly == Len(y)
  <2>5. Len(g) = lf + ly /\ \A j \in 1 .. lf + ly : g[j] = IF j <= lf THEN f[j] ELSE y[j - lf]
    BY <2>2
  <2>6. lf \in Nat /\ ly \in Nat
    BY <2>2
  <2>7. CASE k >= i
    <3>1. b + l \in 1 .. lf /\ f[b + l] = x
      BY <2>3, <2>7
    <3> HIDE DEF g, lf, ly
    <3>2. b + l \in 1 .. lf + ly /\ b + l <= lf
      BY <2>6, <3>1
    <3>3. There(g)
      BY <2>5, <3>1, <3>2
    <3>4. F(k + 1) = g /\ k + 1 \in 0 .. n
      BY <1>1, <2>1 DEF g
    <3> QED
      BY <3>3, <3>4, Zenon
  <2>8. CASE k + 1 = i
    <3>1. lf = b /\ y = parts[i]
      BY <1>3, <2>4, <2>8
    <3>2. l \in 1 .. ly
      BY <2>4, <2>8
    <3>3. y[l] = x
      BY <3>1 DEF x
    <3> HIDE DEF g, lf, ly, y
    <3>4. b + l \in 1 .. lf + ly /\ ~(b + l <= lf) /\ (b + l) - lf = l
      BY <1>4, <2>6, <3>1, <3>2
    <3>5. g[b + l] = y[l]
      BY <2>5, <3>4
    <3>6. There(g)
      BY <2>5, <3>3, <3>4, <3>5
    <3>7. F(k + 1) = g /\ k + 1 \in 0 .. n
      BY <1>1, <2>1 DEF g
    <3> QED
      BY <3>6, <3>7, Zenon
  <2>9. CASE ~(k + 1 >= i)
    BY <1>1, <2>9
  <2> QED
    BY <1>1, <2>7, <2>8, <2>9
<1>6. 0 \in K
    BY <1>1
<1> HIDE DEF K
<1>7. \A k \in 0 .. n : k \in K
    BY <1>1, <1>5, <1>6, UpTo
<1>8. n \in 0 .. n /\ n >= i
    BY <1>1
<1>9. a(n) = parts
  <2> HIDE DEF V
  <2> QED
    BY SubSeqFull
<1>10. There(F(n))
    BY <1>7, <1>8 DEF K
<1>11. F(n) = FlattenSeq(parts)
    BY <1>9 DEF F
<1> QED
    BY <1>4, <1>10, <1>11, Zenon DEF b, x

\* The part an item of the whole is from.
InPart(parts, j, i, l) ==
    i \in 1 .. Len(parts) /\ l \in 1 .. Len(parts[i]) /\ j = Before(parts, i) + l

\* Every item of the whole is from a part.
LEMMA FlattenFrom ==
    ASSUME NEW S, NEW parts \in Seq(Seq(S)), NEW j \in 1 .. Len(FlattenSeq(parts))
    PROVE  \E i, l : InPart(parts, j, i, l)
<1> DEFINE n == Len(parts)
           V == Seq(S)
           a(k) == SubSeq(parts, 1, k)
           F(k) == FlattenSeq(a(k))
           Found(m) == \E i, l : InPart(parts, m, i, l)
           K == {k \in 0 .. n : \A m \in 1 .. Len(F(k)) : Found(m)}
<1>1. n \in Nat
    OBVIOUS
<1>2. ASSUME NEW k \in 0 .. n - 1
      PROVE  F(k) \in V /\ parts[k + 1] \in V /\ F(k + 1) = F(k) \o parts[k + 1]
  <2> DEFINE p == a(k)
             y == parts[k + 1]
  <2>1. p \in Seq(V) /\ y \in V /\ a(k + 1) = Append(p, y)
    <3>1. parts \in Seq(V)
      OBVIOUS
    <3> HIDE DEF V
    <3> QED
      BY <3>1, PrefixNext
  <2> HIDE DEF p, y
  <2>2. FlattenSeq(p) \in V /\ FlattenSeq(Append(p, y)) = FlattenSeq(p) \o y
    BY <2>1, FlattenAppend
  <2> QED
    BY <2>1, <2>2, Zenon DEF p, y
<1>3. \A k \in 1 .. n : Before(parts, k) = Len(F(k - 1))
    BY Zenon DEF Before
<1>4. Len(F(0)) = 0
  <2>1. a(0) = << >>
    BY SubSeqEmpty
  <2>2. F(0) = << >>
    BY <2>1, FlattenEmpty, Zenon
  <2> QED
    BY <2>2
<1> HIDE DEF F
<1>5. ASSUME NEW k \in 0 .. n - 1, k \in K PROVE k + 1 \in K
  <2> DEFINE f == F(k)
             y == parts[k + 1]
             lf == Len(f)
             ly == Len(y)
  <2>1. f \in V /\ y \in V /\ F(k + 1) = f \o y
    BY <1>2
  <2>2. lf \in Nat /\ ly \in Nat /\ Len(f \o y) = lf + ly
    <3> HIDE DEF f, y
    <3> QED
      BY <2>1, ConcatProperties
  <2>3. k + 1 \in 1 .. n /\ k + 1 \in 0 .. n /\ (k + 1) - 1 = k
    BY <1>1
  <2>4. Before(parts, k + 1) = lf
    BY <1>3, <2>3
  <2>5. \A m \in 1 .. lf : Found(m)
    BY <1>5
  <2> HIDE DEF lf
  <2>6. ASSUME NEW m \in 1 .. lf + ly PROVE Found(m)
    <3>1. CASE m <= lf
      BY <2>2, <2>5, <3>1
    <3>2. CASE ~(m <= lf)
      <4> DEFINE l == m - lf
                 i == k + 1
      <4>1. l \in 1 .. ly /\ m = lf + l
        BY <2>2, <3>2
      <4>2. i \in 1 .. Len(parts) /\ l \in 1 .. Len(parts[i]) /\ m = Before(parts, i) + l
        BY <2>3, <2>4, <4>1
      <4> HIDE DEF l, i
      <4>3. InPart(parts, m, i, l)
        BY <4>2, Zenon DEF InPart
      <4> QED
        BY <4>3, Zenon
    <3> QED
      BY <3>1, <3>2
  <2> HIDE DEF Found
  <2>7. \A m \in 1 .. Len(F(k + 1)) : Found(m)
    BY <2>1, <2>2, <2>6
  <2> QED
    BY <2>3, <2>7
<1>6. 0 \in K
    BY <1>1, <1>4
<1> HIDE DEF K
<1>7. \A k \in 0 .. n : k \in K
    BY <1>1, <1>5, <1>6, UpTo
<1>8. n \in 0 .. n
    BY <1>1
<1>9. a(n) = parts
  <2> HIDE DEF V
  <2> QED
    BY SubSeqFull
<1>10. F(n) = FlattenSeq(parts)
    BY <1>9 DEF F
<1> HIDE DEF Found
<1>11. \A m \in 1 .. Len(F(n)) : Found(m)
    BY <1>7, <1>8 DEF K
<1> QED
    BY <1>10, <1>11 DEF Found

\* The texts of a request, and those of the requests of a chunk.
AskedTexts == Requests \X Nat
LEMMA TextsAre ==
    ASSUME C!ServerAssumption, NEW r \in Requests
    PROVE  C!Texts(r) \in Seq(AskedTexts)
<1>1. Questions[r] \in Nat
    BY DEF C!ServerAssumption
<1>2. [i \in 1 .. Questions[r] |-> <<r, i>>] \in Seq(AskedTexts)
    BY <1>1 DEF AskedTexts
<1>3. << <<r, 0>> >> \in Seq(AskedTexts)
    BY DEF AskedTexts
<1> QED
    BY <1>2, <1>3, Zenon DEF C!Texts

\* A batch is the texts of its requests, one after the other.
TextsOf(chunk) == [i \in 1 .. Len(chunk) |-> C!Texts(chunk[i])]

LEMMA BatchIs ==
    ASSUME C!ServerAssumption, NEW chunk \in Seq(Requests)
    PROVE  /\ TextsOf(chunk) \in Seq(Seq(AskedTexts)) /\ Len(TextsOf(chunk)) = Len(chunk)
           /\ \A i \in 1 .. Len(chunk) : TextsOf(chunk)[i] = C!Texts(chunk[i])
           /\ C!Batch(chunk) = FlattenSeq(TextsOf(chunk))
           /\ \A i \in 1 .. Len(chunk) : C!Start(chunk, i) = Before(TextsOf(chunk), i)
<1> DEFINE n == Len(chunk)
           V == Seq(AskedTexts)
           parts == TextsOf(chunk)
<1>1. n \in Nat /\ \A i \in 1 .. n : chunk[i] \in Requests
    OBVIOUS
<1>2. \A i \in 1 .. n : C!Texts(chunk[i]) \in V
    BY <1>1, TextsAre
<1>3. parts = [i \in 1 .. n |-> C!Texts(chunk[i])]
    BY Zenon DEF TextsOf
<1> HIDE DEF V
<1>4. parts \in Seq(V) /\ Len(parts) = n /\ \A i \in 1 .. n : parts[i] = C!Texts(chunk[i])
  <2> HIDE DEF parts
  <2> QED
    BY <1>1, <1>2, <1>3
<1>5. \A c : C!Batch(c) = FlattenSeq(TextsOf(c))
    BY C2LNames, Zenon DEF C!Batch, TextsOf
<1> HIDE DEF parts
<1>6. ASSUME NEW i \in 1 .. n PROVE C!Start(chunk, i) = Before(parts, i)
  <2> DEFINE k == i - 1
             c == SubSeq(chunk, 1, k)
             p == SubSeq(parts, 1, k)
             t == TextsOf(c)
  <2>1. k \in 0 .. n
    BY <1>1
  <2>2. c \in Seq(Requests) /\ Len(c) = k /\ \A j \in 1 .. k : c[j] = chunk[j]
    BY <1>1, <2>1
  <2>3. p \in Seq(V) /\ Len(p) = k /\ \A j \in 1 .. k : p[j] = parts[j]
    BY <1>1, <1>4, <2>1
  <2>4. t = [j \in 1 .. Len(c) |-> C!Texts(c[j])]
    BY Zenon DEF TextsOf
  <2> HIDE DEF c, p, t, k
  <2>5. \A j \in 1 .. k : j \in 1 .. n
    BY <1>1, <2>1
  <2>6. ASSUME NEW j \in 1 .. k PROVE t[j] = p[j]
    BY <1>4, <2>2, <2>3, <2>4, <2>5
  <2>7. \A j \in 1 .. k : p[j] \in V
    BY <1>2, <1>4, <2>3, <2>5
  <2>8. t \in Seq(V) /\ Len(t) = k
    BY <2>1, <2>2, <2>4, <2>6, <2>7
  <2>9. t = p
    BY <2>3, <2>6, <2>8, SeqEqual
  <2>10. C!Start(chunk, i) = Len(C!Batch(c))
    BY Zenon DEF C!Start, c, k
  <2>11. C!Batch(c) = FlattenSeq(p)
    BY <1>5, <2>9, Zenon DEF t
  <2> QED
    BY <2>10, <2>11, Zenon DEF Before, p, k
<1>7. C!Batch(chunk) = FlattenSeq(parts)
    BY <1>5, Zenon DEF parts
<1> QED
    BY <1>4, <1>6, <1>7, Zenon DEF V, parts

Occurs(j, s) == \E x \in DOMAIN s : s[x] = j

\* What is in one of two sequences is in both together.
LEMMA ConcatHas ==
    ASSUME NEW s \in Seq(Nat), NEW t \in Seq(Nat), NEW j, Occurs(j, s) \/ Occurs(j, t)
    PROVE  Occurs(j, s \o t)
<1> DEFINE u == s \o t
           a == Len(s)
           b == Len(t)
<1>1. a \in Nat /\ b \in Nat /\ u \in Seq(Nat) /\ Len(u) = a + b
      /\ \A i \in 1 .. a + b : u[i] = IF i <= a THEN s[i] ELSE t[i - a]
    BY ConcatProperties
<1>2. DOMAIN u = 1 .. a + b /\ DOMAIN s = 1 .. a /\ DOMAIN t = 1 .. b
    BY <1>1
<1> HIDE DEF u, a, b
<1>3. CASE Occurs(j, s)
  <2>1. PICK m \in 1 .. a : s[m] = j
    BY <1>2, <1>3 DEF Occurs
  <2>2. m \in DOMAIN u /\ u[m] = j
    BY <1>1, <1>2, <2>1
  <2> QED
    BY <2>2, Zenon DEF u, Occurs
<1>4. CASE Occurs(j, t)
  <2>1. PICK m \in 1 .. b : t[m] = j
    BY <1>2, <1>4 DEF Occurs
  <2> DEFINE x == a + m
  <2>0. a \in Nat /\ b \in Nat
    BY <1>1
  <2>2. x \in 1 .. a + b /\ ~(x <= a) /\ x - a = m
    BY <2>0, <2>1
  <2> HIDE DEF x
  <2>3. x \in DOMAIN u /\ u[x] = j
    BY <1>1, <1>2, <2>1, <2>2
  <2> QED
    BY <2>3, Zenon DEF u, Occurs
<1> QED
    BY <1>3, <1>4, Zenon

\* A place is in the order of the two passes.
LEMMA InOrder ==
    ASSUME C!ServerAssumption, NEW chunk \in Seq(Requests), NEW j \in 1 .. Len(C!Batch(chunk))
    PROVE  Occurs(j, C!Places(chunk, FALSE) \o C!Places(chunk, TRUE))
<1> DEFINE n == Len(chunk)
           parts == TextsOf(chunk)
           W == Seq(Nat)
           place(i) == [k \in 1 .. Len(C!Texts(chunk[i])) |-> C!Start(chunk, i) + k]
           part(pack, i) == IF C!IsPack(chunk[i]) <=> pack THEN place(i) ELSE << >>
           Q(pack) == [i \in 1 .. n |-> part(pack, i)]
<1>1. /\ n \in Nat /\ parts \in Seq(Seq(AskedTexts)) /\ Len(parts) = n
      /\ \A i \in 1 .. n : parts[i] = C!Texts(chunk[i])
      /\ C!Batch(chunk) = FlattenSeq(parts)
      /\ \A i \in 1 .. n : C!Start(chunk, i) = Before(parts, i)
    BY BatchIs
<1> HIDE DEF parts, n
<1>2. ASSUME NEW i \in 1 .. n
      PROVE  place(i) \in W /\ Len(place(i)) = Len(parts[i])
             /\ \A k \in 1 .. Len(parts[i]) : place(i)[k] = Before(parts, i) + k
  <2> DEFINE b == Before(parts, i)
             y == parts[i]
             l == Len(y)
  <2>1. y \in Seq(AskedTexts)
    BY <1>1
  <2>2. l \in Nat
    BY <2>1
  <2>3. place(i) = [k \in 1 .. l |-> b + k]
    BY <1>1, Zenon
  <2>4. ASSUME NEW k \in 1 .. l PROVE b + k \in Nat
    <3> DEFINE q == parts
    <3>1. q \in Seq(Seq(AskedTexts)) /\ i \in 1 .. Len(q) /\ k \in 1 .. Len(q[i])
      BY <1>1
    <3> HIDE DEF q
    <3>2. Before(q, i) \in Nat
      BY <3>1, FlattenAt
    <3> QED
      BY <3>2 DEF q
  <2> HIDE DEF b, l, place
  <2>5. place(i) \in Seq(Nat) /\ Len(place(i)) = l /\ \A k \in 1 .. l : place(i)[k] = b + k
    BY <2>2, <2>3, <2>4
  <2> QED
    BY <2>5, Zenon DEF b, l
<1> HIDE DEF place
<1>3. ASSUME NEW pack \in BOOLEAN
      PROVE  /\ C!Places(chunk, pack) = FlattenSeq(Q(pack)) /\ Q(pack) \in Seq(W)
             /\ Len(Q(pack)) = n /\ \A i \in 1 .. n : Q(pack)[i] = part(pack, i)
  <2>1. C!Places(chunk, pack) = FlattenSeq(Q(pack))
    BY C2LNames, Zenon DEF C!Places, n, place
  <2>2. << >> \in W
    OBVIOUS
  <2>3. \A i \in 1 .. n : part(pack, i) \in W
    BY <1>2, <2>2, Zenon
  <2> HIDE DEF W, part
  <2> QED
    BY <1>1, <2>1, <2>3
<1>4. PICK i, l : InPart(parts, j, i, l)
  <2>1. j \in 1 .. Len(FlattenSeq(parts))
    BY <1>1
  <2> QED
    BY <1>1, <2>1, FlattenFrom
<1>5. i \in 1 .. n /\ l \in 1 .. Len(parts[i]) /\ j = Before(parts, i) + l
    BY <1>1, <1>4 DEF InPart
<1> DEFINE pack == C!IsPack(chunk[i])
<1>6. pack \in BOOLEAN
    BY Zenon DEF C!IsPack
<1> DEFINE A == C!Places(chunk, FALSE)
           B == C!Places(chunk, TRUE)
           P == C!Places(chunk, pack)
<1>7. A \in Seq(Nat) /\ B \in Seq(Nat)
  <2>1. ASSUME NEW pk \in BOOLEAN PROVE C!Places(chunk, pk) \in Seq(Nat)
    <3> DEFINE q == Q(pk)
    <3>1. q \in Seq(Seq(Nat)) /\ C!Places(chunk, pk) = FlattenSeq(q)
      BY <1>3
    <3> HIDE DEF q
    <3>2. << >> \in Seq(Nat)
      OBVIOUS
    <3> QED
      BY <3>1, <3>2, FlattenAppend
  <2> QED
    BY <2>1
<1>8. Occurs(j, P)
  <2> DEFINE q == Q(pack)
             m == Before(q, i) + l
  <2>1. q \in Seq(Seq(Nat)) /\ Len(q) = n /\ P = FlattenSeq(q) /\ q[i] = part(pack, i)
    BY <1>3, <1>5, <1>6
  <2>2. part(pack, i) = place(i)
    BY Zenon
  <2>3. q[i][l] = j /\ l \in 1 .. Len(q[i])
    BY <1>2, <1>5, <2>1, <2>2
  <2> HIDE DEF q
  <2>4. i \in 1 .. Len(q)
    BY <1>5, <2>1
  <2>5. m \in 1 .. Len(FlattenSeq(q)) /\ FlattenSeq(q)[m] = q[i][l]
    BY <2>1, <2>3, <2>4, FlattenAt
  <2>6. FlattenSeq(q) \in Seq(Nat)
    <3>1. << >> \in Seq(Nat)
      OBVIOUS
    <3> QED
      BY <2>1, <3>1, FlattenAppend
  <2> HIDE DEF m, P
  <2>7. m \in DOMAIN P /\ P[m] = j
    BY <2>1, <2>3, <2>5, <2>6
  <2> QED
    BY <2>7, Zenon DEF Occurs
<1>9. Occurs(j, A) \/ Occurs(j, B)
  <2> HIDE DEF pack
  <2>1. CASE pack
    <3>1. pack = TRUE
      BY <1>6, <2>1
    <3>2. P = B
      BY <3>1, Zenon
    <3> QED
      BY <1>8, <3>2
  <2>2. CASE ~pack
    <3>1. pack = FALSE
      BY <1>6, <2>2
    <3>2. P = A
      BY <3>1, Zenon
    <3> QED
      BY <1>8, <3>2
  <2> QED
    BY <2>1, <2>2
<1> HIDE DEF A, B
<1>10. Occurs(j, A \o B)
    BY <1>7, <1>9, ConcatHas
<1> QED
    BY <1>10 DEF A, B

\* Every request of a chunk gets back what its own texts gave.
LEMMA ResultsAre ==
    ASSUME C!ServerAssumption, NEW chunk \in Seq(Requests), NEW i \in 1 .. Len(chunk)
    PROVE  C!Results(chunk)[i] = C!Texts(chunk[i])
<1> DEFINE n == Len(chunk)
           parts == TextsOf(chunk)
           texts == C!Batch(chunk)
           order == C!Places(chunk, FALSE) \o C!Places(chunk, TRUE)
           outs == [j \in DOMAIN order |-> texts[order[j]]]
           k == Len(texts)
           out == [j \in 1 .. k |-> outs[CHOOSE x \in DOMAIN order : order[x] = j]]
           V == Seq(AskedTexts)
<1>1. /\ parts \in Seq(V) /\ Len(parts) = n
      /\ \A j \in 1 .. n : parts[j] = C!Texts(chunk[j])
      /\ texts = FlattenSeq(parts)
      /\ \A j \in 1 .. n : C!Start(chunk, j) = Before(parts, j)
    BY BatchIs
<1>2. \A j \in 1 .. k : \E x \in DOMAIN order : order[x] = j
  <2>1. ASSUME NEW j \in 1 .. k PROVE Occurs(j, order)
    BY InOrder
  <2> QED
    BY <2>1, Zenon DEF Occurs
<1>3. C!GenOut(chunk) = out
    BY Zenon DEF C!GenOut
<1>4. texts \in V
  <2> DEFINE q == parts
  <2>1. q \in Seq(Seq(AskedTexts)) /\ << >> \in Seq(AskedTexts)
    BY <1>1
  <2> HIDE DEF q
  <2>2. FlattenSeq(q) \in Seq(AskedTexts)
    BY <2>1, FlattenAppend
  <2> QED
    BY <1>1, <2>2 DEF q
<1> HIDE DEF order, texts, parts
<1>5. ASSUME NEW j \in 1 .. k PROVE out[j] = texts[j]
  <2> DEFINE x == CHOOSE y \in DOMAIN order : order[y] = j
  <2>1. x \in DOMAIN order /\ order[x] = j
    BY <1>2
  <2> HIDE DEF x
  <2>2. outs[x] = texts[j]
    BY <2>1
  <2>3. out[j] = outs[x]
    BY Zenon DEF x
  <2> QED
    BY <2>2, <2>3, Zenon
<1>6. out = texts
  <2>0. out = [j \in 1 .. k |-> out[j]]
    OBVIOUS
  <2> HIDE DEF out
  <2>1. out = [j \in 1 .. k |-> texts[j]]
    BY <1>5, <2>0, Zenon
  <2>2. texts = [j \in 1 .. k |-> texts[j]]
    <3> HIDE DEF V
    <3>1. \A A, s : s \in Seq(A) => s = [j \in 1 .. Len(s) |-> s[j]]
      OBVIOUS
    <3> QED
      BY <1>4, <3>1 DEF V
  <2> QED
    BY <2>1, <2>2, Zenon
<1> HIDE DEF out, k
<1> DEFINE b == Before(parts, i)
           y == parts[i]
           l == Len(y)
           cut == SubSeq(texts, b + 1, b + l)
<1>7. C!Results(chunk)[i] = cut
  <2>1. i \in DOMAIN chunk
    OBVIOUS
  <2>2. C!Start(chunk, i) = b /\ C!Texts(chunk[i]) = y
    BY <1>1
  <2>3. C!GenOut(chunk) = texts
    BY <1>3, <1>6, Zenon
  <2>4. C!Results(chunk)[i] = SubSeq(C!GenOut(chunk), C!Start(chunk, i) + 1,
                                     C!Start(chunk, i) + Len(C!Texts(chunk[i])))
    BY <2>1, Zenon DEF C!Results
  <2> QED
    BY <2>2, <2>3, <2>4, Zenon
<1>8. y \in V /\ l \in Nat
    BY <1>1
<1>9. b \in Nat /\ \A m \in 1 .. l : b + m \in 1 .. Len(texts) /\ texts[b + m] = y[m]
  <2> DEFINE q == parts
  <2>1. q \in Seq(Seq(AskedTexts)) /\ i \in 1 .. Len(q)
    BY <1>1
  <2> HIDE DEF q
  <2>2. Before(q, i) \in Nat
    BY <2>1 DEF Before
  <2>3. ASSUME NEW m \in 1 .. Len(q[i])
        PROVE  Before(q, i) + m \in 1 .. Len(FlattenSeq(q))
               /\ FlattenSeq(q)[Before(q, i) + m] = q[i][m]
    BY <2>1, <2>3, FlattenAt
  <2> QED
    BY <1>1, <2>2, <2>3, Zenon DEF q
<1> HIDE DEF b, y, l
<1>10. cut \in V /\ Len(cut) = l /\ \A m \in 1 .. l : cut[m] = y[m]
  <2>1. \A m \in 1 .. Len(texts) : texts[m] \in AskedTexts
    BY <1>4
  <2>2. \A m \in b + 1 .. b + l : texts[m] \in AskedTexts
    <3>1. ASSUME NEW m \in b + 1 .. b + l PROVE m - b \in 1 .. l /\ b + (m - b) = m
      BY <1>8, <1>9
    <3> QED
      BY <1>9, <2>1, <3>1
  <2> DEFINE c == b + 1
             d == b + l
  <2>3. c \in Int /\ d \in Int /\ \A m \in c .. d : texts[m] \in AskedTexts
    BY <1>8, <1>9, <2>2
  <2> HIDE DEF c, d
  <2>4. /\ SubSeq(texts, c, d) \in Seq(AskedTexts)
        /\ Len(SubSeq(texts, c, d)) = IF c <= d THEN (d - c) + 1 ELSE 0
        /\ \A m \in 1 .. (d - c) + 1 : SubSeq(texts, c, d)[m] = texts[(c + m) - 1]
    BY <2>3, SubSeqProperties
  <2>5. (d - c) + 1 = l /\ (~(c <= d) => l = 0) /\ \A m \in Nat : (c + m) - 1 = b + m
    BY <1>8, <1>9 DEF c, d
  <2>6. cut = SubSeq(texts, c, d)
    BY DEF c, d
  <2> HIDE DEF cut
  <2>7. Len(cut) = l /\ \A m \in 1 .. l : cut[m] = texts[b + m]
    BY <2>4, <2>5, <2>6
  <2> QED
    BY <1>9, <2>4, <2>6, <2>7
<1> HIDE DEF cut
<1>11. cut = y
    BY <1>8, <1>10, SeqEqual DEF l
<1> QED
    BY <1>1, <1>7, <1>11 DEF y

-----------------------------------------------------------------------------

\* A request that waits is in the queue once, or in one chunk, or was taken with it.
C2LInv ==
    /\ DOMAIN reply = Requests
    /\ queue \in Seq(Requests) /\ IsInjective(queue)
    /\ \A r \in ToSet(queue) : reply[r] = Asked
    /\ IsCut(work, {r \in Requests : reply[r] = Asked} \ ToSet(queue))

\* What the C2L server does to the replies in one step.
RepliesStep(own) ==
    \/ reply' = reply
    \/ \E r \in Requests : reply[r] = Absent /\ reply' = [reply EXCEPT ![r] = Asked]
    \/ /\ DOMAIN reply' = Requests
       /\ \A r \in Requests :
             \/ reply'[r] = reply[r]
             \/ reply[r] = Asked /\ reply'[r] \in own[r] \cup {Failed}

\* The queue and the chunks are empty at the start.
LEMMA C2LInit == C!Init => C2LInv
<1> SUFFICES ASSUME C!Init PROVE C2LInv
    OBVIOUS
<1>1. DOMAIN reply = Requests /\ queue = << >> /\ work = << >>
    BY DEF C!Init
<1>2. << >> \in Seq(Requests) /\ IsInjective(<< >>) /\ ToSet(<< >>) = {}
    BY DEF IsInjective, ToSet
<1> QED
    BY <1>1, <1>2, CutNone, Zenon DEF C2LInv

\* A request joins the queue.
LEMMA C2LArrive ==
    ASSUME C!ServerAssumption, C2LInv, NEW r \in Requests, C!Arrive(r)
    PROVE  C2LInv' /\ RepliesStep(C!Own)
<1> DEFINE n == Len(queue)
           A == {q \in Requests : reply[q] = Asked} \ ToSet(queue)
           B == {q \in Requests : reply'[q] = Asked} \ ToSet(queue')
<1>1. /\ reply[r] = Absent /\ reply' = [reply EXCEPT ![r] = Asked]
      /\ queue' = Append(queue, r) /\ work' = work
    BY DEF C!Arrive
<1>2. /\ DOMAIN reply = Requests /\ queue \in Seq(Requests) /\ IsInjective(queue)
      /\ (\A q \in ToSet(queue) : reply[q] = Asked) /\ IsCut(work, A)
    BY DEF C2LInv
<1>3. Absent # Asked
    BY DEF C!ServerAssumption
<1>4. /\ n \in Nat /\ queue' \in Seq(Requests) /\ DOMAIN queue' = 1 .. n + 1
      /\ DOMAIN queue = 1 .. n
      /\ \A i \in 1 .. n + 1 : queue'[i] = IF i <= n THEN queue[i] ELSE r
    BY <1>1, <1>2
<1> HIDE DEF n
<1>5. \A i \in 1 .. n : queue[i] # r
  <2>1. \A i \in 1 .. n : queue[i] \in ToSet(queue)
    BY <1>4 DEF ToSet
  <2> QED
    BY <1>1, <1>2, <1>3, <2>1
<1>6. IsInjective(queue')
  <2>1. \A i, j \in 1 .. n : queue[i] = queue[j] => i = j
    BY <1>2, <1>4 DEF IsInjective
  <2>2. ASSUME NEW i \in 1 .. n + 1, NEW j \in 1 .. n + 1, queue'[i] = queue'[j] PROVE i = j
    BY <1>4, <1>5, <2>1, <2>2
  <2> QED
    BY <1>4, <2>2 DEF IsInjective
<1>7. \A q : q \in ToSet(queue') <=> (q \in ToSet(queue) \/ q = r)
  <2>1. ASSUME NEW q \in ToSet(queue') PROVE q \in ToSet(queue) \/ q = r
    <3>1. PICK i \in 1 .. n + 1 : queue'[i] = q
      BY <1>4 DEF ToSet
    <3>2. i <= n => i \in 1 .. n
      BY <1>4
    <3> QED
      BY <1>4, <3>1, <3>2 DEF ToSet
  <2>2. ASSUME NEW q \in ToSet(queue) PROVE q \in ToSet(queue')
    <3>1. PICK i \in 1 .. n : queue[i] = q
      BY <1>4 DEF ToSet
    <3>2. i \in 1 .. n + 1 /\ i <= n
      BY <1>4
    <3> QED
      BY <1>4, <3>1, <3>2 DEF ToSet
  <2>3. r \in ToSet(queue')
    <3>1. n + 1 \in 1 .. n + 1 /\ ~(n + 1 <= n)
      BY <1>4
    <3> QED
      BY <1>4, <3>1 DEF ToSet
  <2> QED
    BY <2>1, <2>2, <2>3
<1>8. DOMAIN reply' = Requests /\ reply'[r] = Asked
      /\ \A q \in Requests : q # r => reply'[q] = reply[q]
    BY <1>1, <1>2
<1>9. ToSet(queue) \subseteq Requests
    BY <1>2 DEF ToSet
<1>10. \A q \in ToSet(queue') : reply'[q] = Asked
    BY <1>2, <1>7, <1>8, <1>9
<1>11. A \subseteq B
    BY <1>1, <1>3, <1>7, <1>8
<1> HIDE DEF A, B
<1>12. IsCut(work', B)
    BY <1>1, <1>2, <1>11, CutMore
<1>13. C2LInv'
    BY <1>4, <1>6, <1>8, <1>10, <1>12, Zenon DEF C2LInv, B
<1> QED
    BY <1>1, <1>13 DEF RepliesStep

\* The consumer takes the queue.
LEMMA C2LDrain ==
    ASSUME C!ServerAssumption, C2LInv, C!Drain
    PROVE  C2LInv' /\ RepliesStep(C!Own)
<1>1. work' = C!Chunks(queue) /\ queue' = << >> /\ reply' = reply
    BY DEF C!Drain
<1>2. /\ DOMAIN reply = Requests /\ queue \in Seq(Requests) /\ IsInjective(queue)
      /\ \A q \in ToSet(queue) : reply[q] = Asked
    BY DEF C2LInv
<1>3. IsCut(work', ToSet(queue))
    BY <1>1, <1>2, ChunksCut
<1>4. << >> \in Seq(Requests) /\ IsInjective(<< >>) /\ ToSet(<< >>) = {}
    BY DEF IsInjective, ToSet
<1> DEFINE B == {q \in Requests : reply'[q] = Asked} \ ToSet(queue')
<1>5. ToSet(queue) \subseteq B
  <2>1. ToSet(queue) \subseteq Requests
    BY <1>2 DEF ToSet
  <2> QED
    BY <1>1, <1>2, <1>4, <2>1
<1> HIDE DEF B
<1>6. IsCut(work', B)
    BY <1>3, <1>5, CutMore
<1>7. C2LInv'
    BY <1>1, <1>2, <1>4, <1>6, Zenon DEF C2LInv, B
<1> QED
    BY <1>1, <1>7 DEF RepliesStep

\* The requests of the first chunk get their replies.
LEMMA C2LReplies ==
    ASSUME C2LInv, work # << >>, work' = Tail(work), queue' = queue, NEW f,
           reply' = [r \in Requests |-> IF r \in ToSet(Head(work)) THEN f[r] ELSE reply[r]],
           \A r \in ToSet(Head(work)) : f[r] \in C!Own[r] \cup {Failed}
    PROVE  C2LInv' /\ RepliesStep(C!Own)
<1> DEFINE A == {q \in Requests : reply[q] = Asked} \ ToSet(queue)
           B == {q \in Requests : reply'[q] = Asked} \ ToSet(queue')
           H == ToSet(Head(work))
<1>1. /\ DOMAIN reply = Requests /\ queue \in Seq(Requests) /\ IsInjective(queue)
      /\ (\A q \in ToSet(queue) : reply[q] = Asked) /\ IsCut(work, A)
    BY DEF C2LInv
<1> HIDE DEF A
<1>2. H \subseteq A /\ IsCut(Tail(work), A \ H)
    BY <1>1, CutTail
<1> HIDE DEF H
<1>3. DOMAIN reply' = Requests /\ \A q \in Requests : reply'[q] = IF q \in H THEN f[q] ELSE reply[q]
    BY DEF H
<1>4. A \ H \subseteq B
    BY <1>3 DEF A
<1>5. ToSet(queue) \subseteq Requests
    BY <1>1 DEF ToSet
<1>6. \A q \in ToSet(queue) : reply'[q] = Asked
    BY <1>1, <1>2, <1>3, <1>5 DEF A
<1> DEFINE D0 == A \ H
<1>7. D0 \subseteq B /\ IsCut(Tail(work), D0)
    BY <1>2, <1>4
<1> HIDE DEF B, D0
<1>8. IsCut(work', B)
    BY <1>7, CutMore
<1>9. C2LInv'
    BY <1>1, <1>3, <1>6, <1>8, Zenon DEF C2LInv, B
<1>10. \A q \in Requests :
          reply'[q] = reply[q] \/ (reply[q] = Asked /\ reply'[q] \in C!Own[q] \cup {Failed})
    BY <1>2, <1>3 DEF A, H
<1> QED
    BY <1>3, <1>9, <1>10 DEF RepliesStep

\* A chunk fails.
LEMMA C2LChunkFails ==
    ASSUME C!ServerAssumption, C2LInv, C!ChunkFails
    PROVE  C2LInv' /\ RepliesStep(C!Own)
<1> DEFINE f == [r \in Requests |-> Failed]
<1>1. work # << >> /\ work' = Tail(work) /\ queue' = queue
    BY DEF C!ChunkFails
<1>2. reply' = [r \in Requests |-> IF r \in C!ToSet(Head(work)) THEN Failed ELSE reply[r]]
    BY DEF C!ChunkFails, C!ToAll
<1>3. reply' = [r \in Requests |-> IF r \in ToSet(Head(work)) THEN f[r] ELSE reply[r]]
    BY <1>2, C2LNames
<1>4. ToSet(Head(work)) \subseteq Requests
    BY <1>1, CutTail DEF C2LInv, ToSet
<1>5. \A r \in ToSet(Head(work)) : f[r] \in C!Own[r] \cup {Failed}
    BY <1>4
<1> HIDE DEF f
<1> QED
    BY <1>1, <1>3, <1>5, C2LReplies

\* A chunk is served: what a request gets is its own, from its own memory.
LEMMA C2LServeChunk ==
    ASSUME C!ServerAssumption, C2LInv, C!ServeChunk
    PROVE  C2LInv' /\ RepliesStep(C!Own)
<1> DEFINE chunk == Head(work)
           m == MemOf[C!Last(chunk)]
           place(r) == CHOOSE i \in DOMAIN chunk : chunk[i] = r
           f == [r \in Requests |-> [mem |-> m, read |-> C!Results(chunk)[place(r)]]]
<1>1. work # << >> /\ work' = Tail(work) /\ queue' = queue
    BY DEF C!ServeChunk
<1>2. reply' = [r \in Requests |->
                  IF r \in C!ToSet(chunk)
                  THEN [mem |-> m, read |-> C!Results(chunk)[place(r)]] ELSE reply[r]]
    BY DEF C!ServeChunk, C!ToAll
<1>3. reply' = [r \in Requests |-> IF r \in ToSet(chunk) THEN f[r] ELSE reply[r]]
    BY <1>2, C2LNames
<1>4. chunk \in Seq(Requests) /\ chunk # << >> /\ OneGroup(chunk)
    BY <1>1, CutTail DEF C2LInv
<1> HIDE DEF chunk
<1>5. ASSUME NEW r \in ToSet(chunk) PROVE f[r] \in C!Own[r] \cup {Failed}
  <2>1. r \in Requests
    BY <1>4 DEF ToSet
  <2>2. place(r) \in 1 .. Len(chunk) /\ chunk[place(r)] = r
    <3>1. \E i \in DOMAIN chunk : chunk[i] = r
      BY DEF ToSet
    <3>2. place(r) \in DOMAIN chunk /\ chunk[place(r)] = r
      BY <3>1, Zenon
    <3> HIDE DEF place
    <3> QED
      BY <1>4, <3>2
  <2> DEFINE l == C!Last(chunk)
  <2>3. l \in ToSet(chunk) /\ l \in Requests
    <3>1. l = chunk[Len(chunk)]
      BY C2LNames DEF Last
    <3>2. Len(chunk) \in 1 .. Len(chunk)
      BY <1>4
    <3> HIDE DEF l
    <3> QED
      BY <1>4, <3>1, <3>2 DEF ToSet
  <2>4. MemOf[l] = MemOf[r]
    BY <1>4, <2>1, <2>3, Zenon DEF OneGroup, C!ServerAssumption
  <2> HIDE DEF place
  <2>5. C!Results(chunk)[place(r)] = C!Texts(r)
    BY <1>4, <2>2, ResultsAre
  <2>6. f[r] = [mem |-> m, read |-> C!Results(chunk)[place(r)]]
    BY <2>1
  <2>7. f[r] = [mem |-> MemOf[r], read |-> C!Texts(r)]
    BY <2>4, <2>5, <2>6, Zenon
  <2>8. C!Own[r] = {[mem |-> MemOf[r], read |-> C!Texts(r)]}
    BY <2>1, Zenon DEF C!Own
  <2> QED
    BY <2>7, <2>8
<1> HIDE DEF f
<1> QED
    BY <1>1, <1>3, <1>5, C2LReplies DEF chunk

\* A step of the C2L server.
LEMMA C2LNext ==
    ASSUME C!ServerAssumption, C2LInv, C!Next
    PROVE  C2LInv' /\ RepliesStep(C!Own)
BY C2LArrive, C2LDrain, C2LServeChunk, C2LChunkFails DEF C!Next, C!Consume

\* A step of something else.
LEMMA C2LStutter ==
    ASSUME C2LInv, UNCHANGED C!vars
    PROVE  C2LInv' /\ RepliesStep(C!Own)
<1>1. reply' = reply /\ queue' = queue /\ work' = work
    BY DEF C!vars
<1> QED
    BY <1>1 DEF C2LInv, IsCut, RepliesStep

-----------------------------------------------------------------------------
\* The deployment: the invariant of the server it runs.

ServersInv ==
    /\ server \in {"recurrent", "rag", "delta", "c2l"}
    /\ server = "recurrent" => RecurrentInv
    /\ server = "rag" => RagInv
    /\ server = "delta" => DeltaInv
    /\ server = "c2l" => C2LInv

\* What the deployment assumes of every server.
LEMMA InstancesFacts ==
    RecConstants /\ G!ServerAssumption /\ D!ServerAssumption /\ C!ServerAssumption
BY InstancesAssumption, RagConstants DEF RecConstants

\* A step of the deployment is one of the server it runs.
LEMMA ServersNext == ServersInv /\ [Next]_vars => ServersInv'
<1> SUFFICES ASSUME ServersInv, [Next]_vars PROVE ServersInv'
    OBVIOUS
<1>1. server' = server
    BY DEF Next, vars
<1>2. CASE server = "recurrent"
  <2>1. RecurrentInv
    BY <1>2 DEF ServersInv
  <2>2. R!Next \/ UNCHANGED R!vars
    BY <1>2 DEF Next, Arriving, Serving, Of, R!Next, R!vars, vars, rvars
  <2>3. RecurrentInv'
    BY <2>1, <2>2, InstancesFacts, RecNext, RecStutter
  <2> QED
    BY <1>1, <1>2, <2>3 DEF ServersInv
<1>3. CASE server = "rag"
  <2>1. RagInv
    BY <1>3 DEF ServersInv
  <2>2. G!Next \/ UNCHANGED G!vars
    BY <1>3 DEF Next, Arriving, Serving, Of, G!Next, G!vars, vars, rvars, gvars
  <2>3. RagInv'
    BY <2>1, <2>2, InstancesFacts, RagNext, RagStutter
  <2> QED
    BY <1>1, <1>3, <2>3 DEF ServersInv
<1>4. CASE server = "delta"
  <2>1. DeltaInv
    BY <1>4 DEF ServersInv
  <2>2. D!Next \/ UNCHANGED D!vars
    BY <1>4 DEF Next, Arriving, Serving, Of, D!Next, D!vars, vars, rvars, dvars
  <2>3. DeltaInv'
    BY <2>1, <2>2, InstancesFacts, DeltaNext, DeltaStutter
  <2> QED
    BY <1>1, <1>4, <2>3 DEF ServersInv
<1>5. CASE server = "c2l"
  <2>1. C2LInv
    BY <1>5 DEF ServersInv
  <2>2. C!Next \/ UNCHANGED C!vars
    BY <1>5 DEF Next, Arriving, Serving, Of, C!Next, C!vars, vars, cvars
  <2>3. C2LInv'
    BY <2>1, <2>2, InstancesFacts, C2LNext, C2LStutter
  <2> QED
    BY <1>1, <1>5, <2>3 DEF ServersInv
<1> QED
    BY <1>2, <1>3, <1>4, <1>5 DEF ServersInv

\* The server deployed keeps its invariant.
LEMMA Invariance == Spec => []ServersInv
<1>1. Init => ServersInv
  <2> SUFFICES ASSUME Init PROVE ServersInv
    OBVIOUS
  <2>1. /\ server = "recurrent" => R!Init
        /\ server = "rag" => G!Init
        /\ server = "delta" => D!Init
        /\ server = "c2l" => C!Init
        /\ server \in {"recurrent", "rag", "delta", "c2l"}
    BY DEF Init
  <2> QED
    BY <2>1, InstancesFacts, RecInit, RagInit, DeltaInit, C2LInit DEF ServersInv
<1> QED
    BY <1>1, ServersNext, PTL DEF Spec

-----------------------------------------------------------------------------

\* recurrent_server.py's locks: as long as the block of a memory has not been
\* evicted, every reading of the memory but the first follows one that failed
\* and was answered with the error.
THEOREM ReadingsExplained == Spec => []BuildsExplained
<1>1. ServersInv => BuildsExplained
    BY InstancesFacts, RecExplained DEF ServersInv, BuildsExplained
<1> QED
    BY Invariance, <1>1, PTL

\* recurrent_server.py's locks: an eviction takes a lock away under those that
\* hold it or wait for it, and that is the only way for two requests to read one
\* memory at the same time: at most one more per eviction of its block.
THEOREM ReadersApart == Spec => []BuildersApart
<1>1. ServersInv => BuildersApart
    BY InstancesFacts, RecApart DEF ServersInv, BuildersApart
<1> QED
    BY Invariance, <1>1, PTL

\* _memory_index of embedding_rag_server.py: a memory is never embedded by two
\* tasks at once, and the task under way is the one _inflight offers to those who
\* come: a request that leaves a task that ended cannot take a later one out.
THEOREM OneTask == Spec => []OneIndexTask
<1>1. ServersInv => OneIndexTask
    BY DEF ServersInv, RagInv, OneIndexTask
<1> QED
    BY Invariance, <1>1, PTL

-----------------------------------------------------------------------------

\* One reply is a case of several.
LEMMA OneReply ==
    ASSUME NEW own, DOMAIN reply = Requests, ReplyStep(own)
    PROVE  RepliesStep(own)
<1>1. ASSUME NEW r \in Requests, NEW a \in own[r] \cup {Failed}, reply[r] = Asked,
             reply' = [reply EXCEPT ![r] = a]
      PROVE  RepliesStep(own)
    BY <1>1 DEF RepliesStep
<1> QED
    BY <1>1 DEF ReplyStep, RepliesStep

\* A step of the replies is a step of the service the deployment promises.
LEMMA PromiseStep ==
    ASSUME OwnOf[server]' = OwnOf[server], DOMAIN OwnOf[server] = Requests,
           RepliesStep(OwnOf[server])
    PROVE  [Promise!Next]_(Promise!vars)
<1> DEFINE own == OwnOf[server]
<1>0. Promise!Callers = Requests
    BY DEF Promise!Callers
<1>1. CASE reply' = reply
    BY <1>1 DEF Promise!vars
<1>2. ASSUME NEW r \in Requests, reply[r] = Absent, reply' = [reply EXCEPT ![r] = Asked]
      PROVE  Promise!Next
    BY <1>0, <1>2 DEF Promise!Next, Promise!Arrive
<1>3. ASSUME DOMAIN reply' = Requests,
             \A r \in Requests :
                \/ reply'[r] = reply[r]
                \/ reply[r] = Asked /\ reply'[r] \in own[r] \cup {Failed}
      PROVE  Promise!Next
  <2>1. Promise!Replies
    BY <1>0, <1>3, Zenon DEF Promise!Replies
  <2> QED
    BY <2>1 DEF Promise!Next
<1> QED
    BY <1>1, <1>2, <1>3 DEF RepliesStep

\* What is promised does not depend on the state of the server.
LEMMA OwnFixed ==
    /\ R!Own' = R!Own /\ DOMAIN R!Own = Requests
    /\ G!Own' = G!Own /\ DOMAIN G!Own = Requests
    /\ D!Own' = D!Own /\ DOMAIN D!Own = Requests
    /\ C!Own' = C!Own /\ DOMAIN C!Own = Requests
<1>1. R!Own' = R!Own /\ DOMAIN R!Own = Requests
    BY DEF R!Own
<1>2. G!Own' = G!Own /\ DOMAIN G!Own = Requests
    BY DEF G!Own
<1>3. D!Own' = D!Own /\ DOMAIN D!Own = Requests
    BY DEF D!Own, D!Prompt, D!MemoryTokens
<1>4. C!Own' = C!Own /\ DOMAIN C!Own = Requests
    BY DEF C!Own
<1> QED
    BY <1>1, <1>2, <1>3, <1>4

\* Whatever server is deployed, and whatever its requests, its evictions, its failures
\* and the order of its coroutines: a request gets one reply, an answer from the whole
\* of its own memory or the error.  embedding_rag_server.py shares, misses and loses
\* index tasks; recurrent_server.py removes locks that are held and waited for;
\* delta_server.py builds and restores one snapshot; c2l_server.py answers a batch
\* in two passes and puts the packs together again.
THEOREM ServersKeepPromise == Spec => Promise!Init /\ [][Promise!Next]_(Promise!vars)
<1>1. Init => Promise!Init
  <2> SUFFICES ASSUME Init PROVE Promise!Init
    OBVIOUS
  <2>1. CASE server = "recurrent"
    <3>1. R!Init /\ OwnOf[server] = R!Own
      BY <2>1 DEF Init, OwnOf
    <3> QED
      BY <3>1, OwnFixed DEF R!Init, Promise!Init, Promise!Callers
  <2>2. CASE server = "rag"
    <3>1. G!Init /\ OwnOf[server] = G!Own
      BY <2>2 DEF Init, OwnOf
    <3> QED
      BY <3>1, OwnFixed DEF G!Init, Promise!Init, Promise!Callers
  <2>3. CASE server = "delta"
    <3>1. D!Init /\ OwnOf[server] = D!Own
      BY <2>3 DEF Init, OwnOf
    <3> QED
      BY <3>1, OwnFixed DEF D!Init, Promise!Init, Promise!Callers
  <2>4. CASE server = "c2l"
    <3>1. C!Init /\ OwnOf[server] = C!Own
      BY <2>4 DEF Init, OwnOf
    <3> QED
      BY <3>1, OwnFixed DEF C!Init, Promise!Init, Promise!Callers
  <2> QED
    BY <2>1, <2>2, <2>3, <2>4 DEF Init
<1>2. ServersInv /\ [Next]_vars => [Promise!Next]_(Promise!vars)
  <2> SUFFICES ASSUME ServersInv, [Next]_vars PROVE [Promise!Next]_(Promise!vars)
    OBVIOUS
  <2>0. server' = server
    BY DEF Next, vars
  <2>1. CASE server = "recurrent"
    <3>1. OwnOf[server] = R!Own /\ OwnOf[server]' = R!Own'
      BY <2>0, <2>1 DEF OwnOf
    <3>2. RecurrentInv
      BY <2>1 DEF ServersInv
    <3>3. DOMAIN reply = Requests
      BY <3>2 DEF RecurrentInv, PlaceInv
    <3>4. R!Next \/ UNCHANGED R!vars
      BY <2>1 DEF Next, Arriving, Serving, Of, R!Next, R!vars, vars, rvars
    <3>5. ReplyStep(R!Own)
      BY <3>2, <3>4, InstancesFacts, RecReply DEF ReplyStep, R!vars
    <3> QED
      BY <3>1, <3>3, <3>5, OwnFixed, OneReply, PromiseStep
  <2>2. CASE server = "rag"
    <3>1. OwnOf[server] = G!Own /\ OwnOf[server]' = G!Own'
      BY <2>0, <2>2 DEF OwnOf
    <3>2. RagInv
      BY <2>2 DEF ServersInv
    <3>3. DOMAIN reply = Requests
      BY <3>2 DEF RagInv, RagReplyInv
    <3>4. G!Next \/ UNCHANGED G!vars
      BY <2>2 DEF Next, Arriving, Serving, Of, G!Next, G!vars, vars, rvars, gvars
    <3>5. ReplyStep(G!Own)
      BY <3>2, <3>4, RagReply DEF ReplyStep, G!vars
    <3> QED
      BY <3>1, <3>3, <3>5, OwnFixed, OneReply, PromiseStep
  <2>3. CASE server = "delta"
    <3>1. OwnOf[server] = D!Own /\ OwnOf[server]' = D!Own'
      BY <2>0, <2>3 DEF OwnOf
    <3>2. DeltaInv
      BY <2>3 DEF ServersInv
    <3>3. DOMAIN reply = Requests
      BY <3>2 DEF DeltaInv, LineInv
    <3>4. D!Next \/ UNCHANGED D!vars
      BY <2>3 DEF Next, Arriving, Serving, Of, D!Next, D!vars, vars, rvars, dvars
    <3>5. ReplyStep(D!Own)
      BY <3>2, <3>4, DeltaReply DEF ReplyStep, D!vars
    <3> QED
      BY <3>1, <3>3, <3>5, OwnFixed, OneReply, PromiseStep
  <2>4. CASE server = "c2l"
    <3>1. OwnOf[server] = C!Own /\ OwnOf[server]' = C!Own'
      BY <2>0, <2>4 DEF OwnOf
    <3>2. C2LInv
      BY <2>4 DEF ServersInv
    <3>3. C!Next \/ UNCHANGED C!vars
      BY <2>4 DEF Next, Arriving, Serving, Of, C!Next, C!vars, vars, cvars
    <3>4. RepliesStep(C!Own)
      BY <3>2, <3>3, InstancesFacts, C2LNext, C2LStutter
    <3> QED
      BY <3>1, <3>4, OwnFixed, PromiseStep
  <2> QED
    BY <2>1, <2>2, <2>3, <2>4 DEF ServersInv
<1> QED
    BY Invariance, <1>1, <1>2, PTL DEF Spec

-----------------------------------------------------------------------------
\* The adapter cache of the C2L server (eval/c2l_server.py: _ensure_adapter).

\* Who trains has its qa.json, and who sets the marker has placed the weights.
ProgressInv ==
    \A i \in Instances :
        /\ stage[i] \in {"qaWrite", "train", "place", "mark", "release"} => qa # "none"
        /\ stage[i] = "mark" => weights # None

AdapterInv == TypeOK /\ ProgressInv /\ CommittedComplete

\* Actions of an instance that leave the disk alone or touch its lock only.
Quiet(i) ==
    \/ Request(i) \/ Unmount(i) \/ Check(i) \/ Acquire(i) \/ Stat(i) \/ Steal(i)
    \/ Wait(i) \/ Train(i) \/ Fail(i) \/ Release(i) \/ Crash(i) \/ Restart(i)

LEMMA AdapterInitInv == AdapterInit => AdapterInv
    BY C2LAssumption DEF AdapterInit, AdapterInv, TypeOK, ProgressInv, CommittedComplete, Places,
       C2LAssumption

LEMMA QuietInv ==
    ASSUME AdapterInv, NEW i \in Instances, Quiet(i)
    PROVE  AdapterInv'
<1> USE C2LAssumption DEF C2LAssumption, AdapterInv
<1>1. /\ qa' = qa /\ weights' = weights /\ config' = config
      /\ lock' \in {"none", "fresh", "stale"}
      /\ requests' \in 0 .. MaxRequests /\ crashes' \in 0 .. MaxCrashes /\ steals' \in Nat
    BY DEF Quiet, Request, Unmount, Check, Acquire, Stat, Steal, Wait, Train, Fail,
       Release, Crash, Restart, TypeOK, disk, counts
<1>2. PICK place \in Places :
        /\ stage' = [stage EXCEPT ![i] = place]
        /\ place \in {"place", "release"} => stage[i] = "train"
        /\ place \notin {"qaWrite", "train", "mark"}
  <2>1. CASE Request(i) \/ Unmount(i) \/ Train(i) \/ Fail(i) \/ Crash(i) \/ Restart(i)
    BY <2>1 DEF Request, Unmount, Train, Fail, Crash, Restart, Goto, Places, Holding
  <2>2. CASE Check(i) \/ Wait(i)
    BY <2>2 DEF Check, Wait, Loaded, Goto, Places, Holding
  <2>3. CASE Acquire(i) \/ Steal(i)
    BY <2>3 DEF Acquire, Steal, Goto, Places, Holding
  <2>4. CASE Stat(i)
    BY <2>4 DEF Stat, Goto, Places, Holding, TypeOK
  <2>5. CASE Release(i)
    BY <2>5 DEF Release, Goto, Places, Holding
  <2> QED
    BY <2>1, <2>2, <2>3, <2>4, <2>5 DEF Quiet
<1>3. TypeOK'
    BY <1>1, <1>2 DEF TypeOK
<1>4. ProgressInv'
    BY <1>1, <1>2 DEF ProgressInv, TypeOK
<1>5. CommittedComplete'
    BY <1>1 DEF CommittedComplete
<1> QED
    BY <1>3, <1>4, <1>5

\* The actions that write qa.json or the adapter.
LEMMA WriteInv ==
    ASSUME AdapterInv, NEW i \in Instances,
           ReadQa(i) \/ Synthesize(i) \/ WriteQa(i) \/ Place(i)
    PROVE  AdapterInv'
<1> USE C2LAssumption DEF C2LAssumption, AdapterInv, Goto
<1>1. CASE ReadQa(i)
  <2>1. PICK place \in {"synthesize", "train", "abort"} :
            /\ stage' = [stage EXCEPT ![i] = place]
            /\ place = "train" => qa = "whole"
    BY <1>1 DEF ReadQa
  <2> QED
    BY <1>1, <2>1 DEF ReadQa, TypeOK, ProgressInv, CommittedComplete, disk, counts,
       Places, Holding
<1>2. CASE Synthesize(i)
    BY <1>2 DEF Synthesize, TypeOK, ProgressInv, CommittedComplete, counts, Places, Holding
<1>3. CASE WriteQa(i)
    BY <1>3 DEF WriteQa, TypeOK, ProgressInv, CommittedComplete, counts, Places, Holding
<1>4. CASE Place(i)
    BY <1>4 DEF Place, TypeOK, ProgressInv, CommittedComplete, counts, Places, Holding
<1> QED
    BY <1>1, <1>2, <1>3, <1>4

LEMMA AdapterNextInv == AdapterInv /\ [AdapterNext]_adapterVars => AdapterInv'
<1> SUFFICES ASSUME AdapterInv, [AdapterNext]_adapterVars PROVE AdapterInv'
    OBVIOUS
<1>1. CASE UNCHANGED adapterVars
    BY <1>1 DEF adapterVars, AdapterInv, TypeOK, ProgressInv, CommittedComplete
<1>2. CASE Age
    BY <1>2 DEF Age, AdapterInv, TypeOK, ProgressInv, CommittedComplete, counts
<1>3. ASSUME NEW i \in Instances,
             Request(i) \/ Unmount(i) \/ Step(i) \/ Crash(i) \/ Restart(i)
      PROVE  AdapterInv'
    BY <1>3, QuietInv, WriteInv DEF Step, Quiet
<1> QED
    BY <1>1, <1>2, <1>3 DEF AdapterNext

\* The files and the places of the instances have their types, and weights are
\* never there without the questions they were trained on.
THEOREM AdapterTyped == AdapterSpec => []TypeOK
<1>1. AdapterInv => TypeOK
    BY DEF AdapterInv
<1> QED
    BY <1>1, AdapterInitInv, AdapterNextInv, PTL DEF AdapterSpec

\* Whoever sees the commit marker finds the adapter, although owners crash and
\* several may place their files at the same time.
THEOREM MarkerIsLast == AdapterSpec => []CommittedComplete
<1>1. AdapterInv => CommittedComplete
    BY DEF AdapterInv
<1> QED
    BY <1>1, AdapterInitInv, AdapterNextInv, PTL DEF AdapterSpec

-----------------------------------------------------------------------------

LEMMA TrainersFinite == IsFiniteSet(Trainers) /\ Cardinality(Trainers) \in Nat
<1>1. Trainers \subseteq Instances
    BY DEF Trainers
<1> QED
    BY <1>1, C2LAssumption, FS_Subset, FS_CardinalityType DEF C2LAssumption

\* The trainers of the next state, from the place an instance goes to.
LEMMA TrainersMove ==
    ASSUME TypeOK, NEW i \in Instances, NEW place, stage' = [stage EXCEPT ![i] = place]
    PROVE  /\ Cardinality(Trainers)' \in Nat
           /\ place \in Holding => Cardinality(Trainers)' <= Cardinality(Trainers) + 1
           /\ place \in Holding /\ stage[i] \in Holding
                => Cardinality(Trainers)' = Cardinality(Trainers)
           /\ place \notin Holding => Cardinality(Trainers)' <= Cardinality(Trainers)
           /\ place \notin Holding /\ stage[i] \in Holding
                => Cardinality(Trainers)' = Cardinality(Trainers) - 1
<1>1. CASE place \in Holding
  <2>1. Trainers' = Trainers \cup {i}
    BY <1>1 DEF Trainers, TypeOK
  <2>2. stage[i] \in Holding <=> i \in Trainers
    BY DEF Trainers
  <2>3. /\ IsFiniteSet(Trainers \cup {i})
        /\ Cardinality(Trainers \cup {i}) = IF i \in Trainers THEN Cardinality(Trainers)
                                           ELSE Cardinality(Trainers) + 1
    BY TrainersFinite, FS_AddElement
  <2>4. Cardinality(Trainers)' = Cardinality(Trainers \cup {i})
    BY <2>1
  <2> QED
    BY <1>1, <2>2, <2>3, <2>4, TrainersFinite
<1>2. CASE place \notin Holding
  <2>1. Trainers' = Trainers \ {i}
    BY <1>2 DEF Trainers, TypeOK
  <2>2. stage[i] \in Holding <=> i \in Trainers
    BY DEF Trainers
  <2>3. /\ IsFiniteSet(Trainers \ {i})
        /\ Cardinality(Trainers \ {i}) = IF i \in Trainers THEN Cardinality(Trainers) - 1
                                         ELSE Cardinality(Trainers)
    BY TrainersFinite, FS_RemoveElement
  <2>4. Cardinality(Trainers \ {i}) \in Nat
    BY <2>3, FS_CardinalityType
  <2> QED
    BY <1>2, <2>1, <2>2, <2>3, <2>4, TrainersFinite
<1> QED
    BY <1>1, <1>2

\* A step that moves no instance into the lock and does not remove it.
LEMMA TrainersKept ==
    ASSUME TypeOK, TrainersBounded, NEW i \in Instances, NEW place,
           stage' = [stage EXCEPT ![i] = place], place \in Holding => stage[i] \in Holding,
           lock' = lock, steals' = steals
    PROVE  TrainersBounded'
<1>1. Cardinality(Trainers)' \in Nat /\ Cardinality(Trainers)' <= Cardinality(Trainers)
  <2>1. CASE place \in Holding
    <3>1. Cardinality(Trainers)' = Cardinality(Trainers)
        BY <2>1, TrainersMove
    <3>2. Cardinality(Trainers) \in Nat
        BY TrainersFinite
    <3> QED
        BY <3>1, <3>2
  <2>2. CASE place \notin Holding
    BY <2>2, TrainersMove
  <2> QED
    BY <2>1, <2>2
<1> QED
    BY <1>1, TrainersFinite DEF TrainersBounded, TypeOK

LEMMA NextTrainers == TypeOK /\ TrainersBounded /\ [AdapterNext]_adapterVars => TrainersBounded'
<1> SUFFICES ASSUME TypeOK, TrainersBounded, [AdapterNext]_adapterVars PROVE TrainersBounded'
    OBVIOUS
<1>1. CASE UNCHANGED adapterVars
    BY <1>1 DEF adapterVars, TrainersBounded, Trainers
<1>2. CASE Age
    BY <1>2 DEF Age, TrainersBounded, Trainers, counts
<1>3. ASSUME NEW i \in Instances, Acquire(i) PROVE TrainersBounded'
  <2>1. CASE lock = "none"
    BY <1>3, <2>1, TrainersMove, TrainersFinite
       DEF Acquire, Goto, TrainersBounded, TypeOK, Holding
  <2>2. CASE lock # "none"
    BY <1>3, <2>2, TrainersKept DEF Acquire, Goto, Holding
  <2> QED
    BY <2>1, <2>2
<1>4. ASSUME NEW i \in Instances, Steal(i) PROVE TrainersBounded'
  <2>1. CASE lock = "none"
    BY <1>4, <2>1, TrainersKept DEF Steal, Goto, Holding
  <2>2. CASE lock # "none"
    BY <1>4, <2>2, TrainersMove, TrainersFinite
       DEF Steal, Goto, TrainersBounded, TypeOK, Holding
  <2> QED
    BY <2>1, <2>2
<1>5. ASSUME NEW i \in Instances, Release(i) PROVE TrainersBounded'
  <2>1. PICK place \in {"mounted", "idle"} : stage' = [stage EXCEPT ![i] = place]
    BY <1>5 DEF Release, Goto
  <2>2. stage[i] \in Holding /\ place \notin Holding
    BY <1>5 DEF Release, Holding
  <2>3. Cardinality(Trainers)' = Cardinality(Trainers) - 1
    BY <2>1, <2>2, TrainersMove
  <2> QED
    BY <1>5, <2>3, TrainersFinite DEF Release, TrainersBounded, TypeOK
<1>6. ASSUME NEW i \in Instances,
             \/ Request(i) \/ Unmount(i) \/ Check(i) \/ Stat(i) \/ Wait(i) \/ ReadQa(i)
             \/ Synthesize(i) \/ WriteQa(i) \/ Train(i) \/ Place(i) \/ Fail(i)
             \/ Crash(i) \/ Restart(i)
      PROVE  TrainersBounded'
  <2>1. lock' = lock /\ steals' = steals
    BY <1>6 DEF Request, Unmount, Check, Stat, Wait, ReadQa, Synthesize, WriteQa, Train,
       Place, Fail, Crash, Restart, disk
  <2>2. PICK place : /\ stage' = [stage EXCEPT ![i] = place]
                     /\ place \in Holding => stage[i] \in Holding
    <3>1. CASE Request(i) \/ Unmount(i) \/ Crash(i) \/ Restart(i) \/ Check(i) \/ Wait(i)
        BY <3>1 DEF Request, Unmount, Crash, Restart, Check, Wait, Loaded, Goto, Holding
    <3>2. CASE Stat(i)
        BY <3>2 DEF Stat, Goto, Holding, TypeOK
    <3>3. CASE ReadQa(i) \/ Synthesize(i) \/ WriteQa(i) \/ Train(i) \/ Place(i) \/ Fail(i)
        BY <3>3 DEF ReadQa, Synthesize, WriteQa, Train, Place, Fail, Goto, Holding
    <3> QED
        BY <1>6, <3>1, <3>2, <3>3
  <2> QED
    BY <2>1, <2>2, TrainersKept
<1> QED
    BY <1>1, <1>2, <1>3, <1>4, <1>5, <1>6 DEF AdapterNext, Step

\* Of any number of instances, at most one trains for each lock that was taken
\* over, and one more: no other path leads two of them to train.
THEOREM TrainersHold == AdapterSpec => []TrainersBounded
<1>1. AdapterInit => TrainersBounded
  <2> SUFFICES ASSUME AdapterInit PROVE TrainersBounded
    OBVIOUS
  <2>1. Trainers = {}
    BY DEF AdapterInit, Trainers, Holding
  <2> QED
    BY <2>1, FS_EmptySet DEF AdapterInit, TrainersBounded
<1> QED
    BY <1>1, AdapterTyped, NextTrainers, PTL DEF AdapterSpec
====

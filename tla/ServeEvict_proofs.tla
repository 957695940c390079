---- MODULE ServeEvict_proofs ----
(***************************************************************************)
(* The serving hooks, for every configuration, prompt and cache hit: what   *)
(* the engine frees and shows at an offset is what the training-time rule    *)
(* evicts there, no step reads a block that was freed, and a request never  *)
(* holds more blocks than the windows and the frozen tail need.             *)
(*                                                                          *)
(* The lemmas come in three parts: division and the sets of tokens the      *)
(* stride and the message rule evict (what is evicted stays evicted: the    *)
(* invariant rests on it); the inductive invariant IInv, one lemma per       *)
(* action; and what follows from it for the properties.                     *)
(***************************************************************************)
EXTENDS ServeEvict, Lists_proofs

\* A quotient is known by its bounds.
LEMMA QuotientUnique ==
    ASSUME NEW a \in Int, NEW k \in Nat \ {0}, NEW q \in Int,
           k * q <= a, a < k * q + k
    PROVE  a \div k = q
<1> DEFINE d == a \div k
<1>1. d \in Int /\ k * d <= a /\ a < k * d + k
  BY Division
<1> HIDE DEF d
<1>2. k * q \in Int /\ k * d \in Int /\ k * (q + 1) = k * q + k /\ k * (d + 1) = k * d + k
  BY <1>1
<1>3. k * q < k * (d + 1) /\ k * d < k * (q + 1)
  BY <1>1, <1>2
<1>4. q < d + 1 /\ d < q + 1
  BY <1>1, <1>3, MulCancel
<1> QED
  BY <1>1, <1>4 DEF d

\* Division is monotone.
LEMMA DivisionMono ==
    ASSUME NEW a \in Int, NEW b \in Int, NEW k \in Nat \ {0}, a <= b
    PROVE  a \div k <= b \div k
<1> DEFINE d == a \div k
           e == b \div k
<1>1. d \in Int /\ k * d <= a /\ e \in Int /\ b < k * e + k
  BY Division
<1> HIDE DEF d, e
<1>2. k * d \in Int /\ k * e \in Int /\ k * (e + 1) = k * e + k
  BY <1>1
<1>3. d < e + 1
  BY <1>1, <1>2, MulCancel
<1> QED
  BY <1>1, <1>3 DEF d, e

\* Rounding up.
LEMMA Ceiling ==
    ASSUME NEW a \in Int, NEW k \in Nat \ {0}
    PROVE  /\ CeilDiv(a, k) \in Int
           /\ a <= k * CeilDiv(a, k)
           /\ k * CeilDiv(a, k) < a + k
           /\ a \in Nat => CeilDiv(a, k) \in Nat
           /\ a \in Nat \ {0} => CeilDiv(a, k) \in Nat \ {0}
<1> DEFINE q == (a + k - 1) \div k
<1>1. q \in Int /\ k * q <= a + k - 1 /\ a + k - 1 < k * q + k
  BY Division
<1>2. a \in Nat => q \in Nat
  BY Division
<1>3. CeilDiv(a, k) = q
  BY DEF CeilDiv
<1> HIDE DEF q
<1>4. k * q \in Int
  BY <1>1
<1>5. q = 0 => k * q = 0
  OBVIOUS
<1> QED
  BY <1>1, <1>2, <1>3, <1>4, <1>5

\* A ceiling is known by its bounds.
LEMMA CeilingUnique ==
    ASSUME NEW a \in Int, NEW k \in Nat \ {0}, NEW q \in Int,
           a <= k * q, k * q < a + k
    PROVE  CeilDiv(a, k) = q
<1>1. k * q \in Int
  OBVIOUS
<1>2. (a + k - 1) \div k = q
  BY <1>1, QuotientUnique
<1> QED
  BY <1>2 DEF CeilDiv

\* CeilDiv is monotone.
LEMMA CeilingMono ==
    ASSUME NEW a \in Int, NEW b \in Int, NEW k \in Nat \ {0}, a <= b
    PROVE  CeilDiv(a, k) <= CeilDiv(b, k)
BY DivisionMono DEF CeilDiv

\* The minimum of two numbers is one of them and no greater than the other.
LEMMA MinOfTwo ==
    ASSUME NEW a \in Nat, NEW b \in Nat
    PROVE  Min({a, b}) \in {a, b} /\ Min({a, b}) <= a /\ Min({a, b}) <= b
<1> DEFINE T == {a, b}
<1>1. T \subseteq Nat /\ T # {}
  OBVIOUS
<1>2. Min(T) \in T /\ \A x \in T : Min(T) <= x
  BY <1>1, MinOf
<1> QED
  BY <1>2

-----------------------------------------------------------------------------
\* The stride schedule.

\* What every prompt's sink, chunk and window are.
IsGeometry(s, S, W) ==
    /\ s \in Nat \ {0} /\ S \in Nat \ {0} /\ W \in Nat
    /\ \E a \in Nat : s = PageSize * a
    /\ \E b \in Nat : S = PageSize * b

\* A prompt of StridePolicy has a sink, a chunk and a window the stride rule is
\* defined for.
LEMMA PromptGeometry ==
    ASSUME NEW p \in Prompts
    PROVE  IsGeometry(SinkEnd(p), Row(p).chunk, Row(p).window)
<1> DEFINE later == {k \in p.im : k > 0}
           raw == IF later = {} THEN PageSize ELSE Min(later)
<1>1. p.im \subseteq Nat /\ p.len \in Nat
  BY ServeAssumption
<1>2. raw \in Nat \ {0}
  <2>1. CASE later = {}
    BY <2>1, PolicyAssumption
  <2>2. CASE later # {}
    <3>1. later \subseteq Nat
      BY <1>1
    <3>2. Min(later) \in later
      BY <2>2, <3>1, MinOf
    <3> HIDE DEF later
    <3>3. raw = Min(later)
      BY <2>2
    <3>4. Min(later) > 0 /\ Min(later) \in Nat
      BY <3>1, <3>2 DEF later
    <3> QED
      BY <3>3, <3>4
  <2> QED
    BY <2>1, <2>2
<1> HIDE DEF raw
<1>3. PageSize \in Nat \ {0}
  BY PolicyAssumption
<1>4. SinkEnd(p) = PageSize * CeilDiv(raw, PageSize)
  BY DEF SinkEnd, raw
<1>5. CeilDiv(raw, PageSize) \in Nat \ {0}
  BY <1>2, <1>3, Ceiling
<1>6. SinkEnd(p) \in Nat \ {0} /\ \E a \in Nat : SinkEnd(p) = PageSize * a
  <2> DEFINE q == CeilDiv(raw, PageSize)
  <2>1. q \in Nat /\ raw <= PageSize * q /\ SinkEnd(p) = PageSize * q
    BY <1>2, <1>3, <1>4, <1>5, Ceiling
  <2> HIDE DEF q
  <2>2. PageSize * q \in Nat
    BY <1>3, <2>1
  <2> QED
    BY <1>2, <2>1, <2>2
<1> DEFINE fits == {k \in 1 .. Len(RuleTable) : FitsRow(RuleTable[k], p.len)}
<1>7. PICK k \in 1 .. Len(RuleTable) : Row(p) = RuleTable[k]
  <2>1. Len(RuleTable) \in Nat /\ 1 \in 1 .. Len(RuleTable)
        /\ Len(RuleTable) \in 1 .. Len(RuleTable)
    BY PolicyAssumption
  <2>2. CASE fits = {}
    BY <2>1, <2>2 DEF Row, ResolveParams
  <2>3. CASE fits # {}
    <3>1. fits \subseteq Nat
      BY <2>1
    <3>2. Min(fits) \in fits
      BY <2>3, <3>1, MinOf
    <3> QED
      BY <2>3, <3>2 DEF Row, ResolveParams
  <2> QED
    BY <2>2, <2>3
<1>8. Row(p) \in [lo : Nat, hi : Nat, chunk : Nat \ {0}, window : Nat, maxNew : Nat]
      /\ Row(p).chunk % PageSize = 0
  <2>1. \A j \in 1 .. Len(RuleTable) :
           RuleTable[j] \in [lo : Nat, hi : Nat, chunk : Nat \ {0}, window : Nat, maxNew : Nat]
    BY PolicyAssumption, ElementOfSeq
  <2> QED
    BY <1>7, <2>1, PolicyAssumption
<1>9. \E b \in Nat : Row(p).chunk = PageSize * b
  <2> DEFINE S == Row(p).chunk
  <2>1. S \in Nat /\ S % PageSize = 0
    BY <1>8
  <2> HIDE DEF S
  <2>2. S = PageSize * (S \div PageSize) + (S % PageSize) /\ S \div PageSize \in Nat
    BY <2>1, <1>3
  <2> DEFINE q == S \div PageSize
  <2>3. S = PageSize * q + 0 /\ q \in Nat
    BY <2>1, <2>2
  <2> HIDE DEF q
  <2>4. PageSize * q \in Nat
    BY <1>3, <2>3
  <2>5. S = PageSize * q
    BY <2>3, <2>4
  <2> QED
    BY <2>3, <2>5 DEF S
<1> QED
  BY <1>6, <1>8, <1>9 DEF IsGeometry

\* The number of the chunk that token t lies in.
LEMMA FrontierIs ==
    ASSUME NEW s \in Nat \ {0}, NEW S \in Nat \ {0}, NEW n \in Nat
    PROVE  /\ FrontierChunk(n, s, S) \in Int
           /\ n = 0 => FrontierChunk(n, s, S) = -1
           /\ n > 0 /\ n <= s => FrontierChunk(n, s, S) = 0
           /\ n > s => /\ FrontierChunk(n, s, S) \in Nat \ {0}
                       /\ s + S * (FrontierChunk(n, s, S) - 1) < n
                       /\ n <= s + S * FrontierChunk(n, s, S)
<1>1. n > s => FrontierChunk(n, s, S) = CeilDiv(n - s, S) /\ n - s \in Nat \ {0}
  <2>1. CeilDiv(n - s, S) \in Int
    BY Ceiling
  <2> QED
    BY <2>1 DEF FrontierChunk, NChunksAt
<1>2. n <= s => FrontierChunk(n, s, S) = IF n = 0 THEN -1 ELSE 0
  BY DEF FrontierChunk, NChunksAt
<1>3. ASSUME n > s
      PROVE  /\ FrontierChunk(n, s, S) \in Nat \ {0}
             /\ s + S * (FrontierChunk(n, s, S) - 1) < n
             /\ n <= s + S * FrontierChunk(n, s, S)
  <2> DEFINE q == CeilDiv(n - s, S)
  <2>1. FrontierChunk(n, s, S) = q /\ n - s \in Nat \ {0}
    BY <1>1, <1>3
  <2>2. q \in Nat \ {0} /\ n - s <= S * q /\ S * q < (n - s) + S
    BY <2>1, Ceiling
  <2> HIDE DEF q
  <2>3. S * q \in Int /\ S * (q - 1) = S * q - S
    BY <2>2
  <2> QED
    BY <2>1, <2>2, <2>3
<1> QED
  BY <1>2, <1>3

\* The chunk a position stands in is known by its bounds.
LEMMA FrontierUnique ==
    ASSUME NEW s \in Nat \ {0}, NEW S \in Nat \ {0}, NEW n \in Nat, NEW f \in Nat \ {0},
           s + S * (f - 1) < n, n <= s + S * f
    PROVE  FrontierChunk(n, s, S) = f
<1> DEFINE g == FrontierChunk(n, s, S)
<1>1. S * (f - 1) \in Nat
  OBVIOUS
<1>2. n > s
  BY <1>1
<1>3. g \in Nat \ {0} /\ s + S * (g - 1) < n /\ n <= s + S * g
  BY <1>2, FrontierIs
<1> HIDE DEF g
<1>4. /\ S * f \in Int /\ S * g \in Int
      /\ S * (f - 1) \in Int /\ S * (g - 1) \in Int
  BY <1>3
<1>5. S * (f - 1) < S * g /\ S * (g - 1) < S * f
  BY <1>3, <1>4
<1>6. f - 1 < g /\ g - 1 < f
  BY <1>3, <1>5, MulCancel
<1> QED
  BY <1>3, <1>6 DEF g

\* A later position stands in no earlier chunk.
LEMMA FrontierMono ==
    ASSUME NEW s \in Nat \ {0}, NEW S \in Nat \ {0}, NEW m \in Nat, NEW n \in Nat, m <= n
    PROVE  FrontierChunk(m, s, S) <= FrontierChunk(n, s, S)
<1>1. CASE m <= s
  <2>1. FrontierChunk(m, s, S) = IF m = 0 THEN -1 ELSE 0
    BY <1>1, FrontierIs
  <2>2. n = 0 \/ FrontierChunk(n, s, S) \in Nat
    <3>1. n > 0 /\ n <= s => FrontierChunk(n, s, S) = 0
      BY FrontierIs
    <3>2. n > s => FrontierChunk(n, s, S) \in Nat \ {0}
      BY FrontierIs
    <3> QED
      BY <3>1, <3>2
  <2>3. n = 0 => FrontierChunk(n, s, S) = -1
    BY FrontierIs
  <2> QED
    BY <2>1, <2>2, <2>3
<1>2. CASE m > s
  <2> DEFINE f == FrontierChunk(m, s, S)
             g == FrontierChunk(n, s, S)
  <2>1. /\ f \in Nat \ {0} /\ s + S * (f - 1) < m
        /\ g \in Nat \ {0} /\ n <= s + S * g
    <3>1. n > s
      BY <1>2
    <3>2. f \in Nat \ {0} /\ s + S * (f - 1) < m
      BY <1>2, FrontierIs
    <3>3. g \in Nat \ {0} /\ n <= s + S * g
      BY <3>1, FrontierIs
    <3> QED
      BY <3>2, <3>3
  <2> HIDE DEF f, g
  <2>2. S * (f - 1) \in Int /\ S * g \in Int
    BY <2>1
  <2>3. S * (f - 1) < S * g
    BY <2>1, <2>2
  <2>4. f - 1 < g
    BY <2>1, <2>3, MulCancel
  <2> QED
    BY <2>1, <2>4 DEF f, g
<1> QED
  BY <1>1, <1>2

\* Chunk k has left the window of the frontier f.
StrideEvicts(s, S, W, k, f) ==
    f - k + 1 > 1073741824 \/ (W > 0 /\ s + S * (f - k + 1) > W)

StrideTokens(s, S, W, f) ==
    {u \in Nat : \E k \in 1 .. f - 1 :
        StrideEvicts(s, S, W, k, f) /\ s + S * (k - 1) <= u /\ u < s + S * k}

\* The virtual spans evict what the rule says.
LEMMA StrideTokensAre ==
    ASSUME NEW s \in Nat \ {0}, NEW S \in Nat \ {0}, NEW W \in Nat, NEW f \in Nat
    PROVE  EvictedTokens(StrideChunking(f + 1, s, S), StrideLimits(W), f)
               = StrideTokens(s, S, W, f)
<1> DEFINE ch == StrideChunking(f + 1, s, S)
           lim == StrideLimits(W)
<1>1. ch.n = f + 1
  BY DEF StrideChunking
<1>2. \A k \in 0 .. f + 1 : ch.bound[k] = IF k = 0 THEN 0 ELSE s + (k - 1) * S
  BY DEF StrideChunking
<1>3. lim.sink = 1 /\ lim.chunks = 1073741824 /\ lim.tokens = W
  BY DEF StrideLimits
<1> HIDE DEF ch, lim
<1>4. \A k \in 0 .. f - 1 : Evicted(ch, lim, k, f) <=> k >= 1 /\ StrideEvicts(s, S, W, k, f)
  <2> SUFFICES ASSUME NEW k \in 0 .. f - 1, k >= 1
               PROVE  Evicted(ch, lim, k, f) <=> StrideEvicts(s, S, W, k, f)
    BY <1>3 DEF Evicted
  <2>1. SinkTokens(ch, lim) = s
    <3>1. 1 < f + 1
      OBVIOUS
    <3>2. SinkTokens(ch, lim) = ch.bound[1]
      BY <1>1, <1>3, <3>1 DEF SinkTokens
    <3>3. ch.bound[1] = s + 0 * S
      BY <1>2
    <3> QED
      BY <3>2, <3>3
  <2>2. SpanTokens(ch, k, f) = S * (f - k + 1)
    <3>1. ch.bound[f + 1] = s + f * S /\ ch.bound[k] = s + (k - 1) * S
      BY <1>2
    <3>2. f * S - (k - 1) * S = S * (f - k + 1) /\ f * S \in Int /\ (k - 1) * S \in Int
      OBVIOUS
    <3> QED
      BY <3>1, <3>2 DEF SpanTokens
  <2> QED
    BY <1>3, <2>1, <2>2 DEF Evicted, Exceeds, StrideEvicts
<1>5. \A k \in 1 .. f - 1 : ChunkTokens(ch, k) = s + S * (k - 1) .. s + S * k - 1
  <2> SUFFICES ASSUME NEW k \in 1 .. f - 1
               PROVE  ChunkTokens(ch, k) = s + S * (k - 1) .. s + S * k - 1
    OBVIOUS
  <2>1. ch.bound[k] = s + S * (k - 1)
    BY <1>2
  <2>2. ch.bound[k + 1] = s + S * k
    BY <1>2
  <2> QED
    BY <2>1, <2>2 DEF ChunkTokens
<1>6. ASSUME NEW u
      PROVE  u \in EvictedTokens(ch, lim, f) <=> u \in StrideTokens(s, S, W, f)
  <2>1. u \in EvictedTokens(ch, lim, f) <=>
            \E k \in 0 .. f - 1 : Evicted(ch, lim, k, f) /\ u \in ChunkTokens(ch, k)
    BY DEF EvictedTokens
  <2>2. u \in EvictedTokens(ch, lim, f) <=>
            \E k \in 1 .. f - 1 : StrideEvicts(s, S, W, k, f) /\ u \in ChunkTokens(ch, k)
    BY <1>4, <2>1
  <2>3. u \in EvictedTokens(ch, lim, f) <=>
            \E k \in 1 .. f - 1 : /\ StrideEvicts(s, S, W, k, f)
                                  /\ u \in s + S * (k - 1) .. s + S * k - 1
    BY <1>5, <2>2
  <2>4. \A k \in 1 .. f - 1 : s + S * (k - 1) \in Nat /\ s + S * k - 1 \in Int
    OBVIOUS
  <2> QED
    BY <2>3, <2>4 DEF StrideTokens
<1> QED
  BY <1>6 DEF ch, lim

\* The stride rule never takes an eviction back.
LEMMA StrideTokensMono ==
    ASSUME NEW s \in Nat \ {0}, NEW S \in Nat \ {0}, NEW W \in Nat,
           NEW f \in Nat, NEW g \in Nat, f <= g
    PROVE  StrideTokens(s, S, W, f) \subseteq StrideTokens(s, S, W, g)
<1>1. ASSUME NEW k \in 1 .. f - 1, StrideEvicts(s, S, W, k, f)
      PROVE  StrideEvicts(s, S, W, k, g)
  <2>1. f - k + 1 \in Int /\ g - k + 1 \in Int /\ f - k + 1 <= g - k + 1
    OBVIOUS
  <2>2. S * (f - k + 1) <= S * (g - k + 1)
    BY <2>1, MulMono
  <2>3. S * (f - k + 1) \in Int /\ S * (g - k + 1) \in Int
    BY <2>1
  <2> QED
    BY <1>1, <2>1, <2>2, <2>3 DEF StrideEvicts
<1>2. 1 .. f - 1 \subseteq 1 .. g - 1
  OBVIOUS
<1> QED
  BY <1>1, <1>2 DEF StrideTokens

\* Evicted tokens lie below the frontier's chunk, in whole pages.
LEMMA StrideTokensPages ==
    ASSUME NEW s, NEW S, NEW W, IsGeometry(s, S, W), NEW f \in Nat \ {0},
           NEW u \in StrideTokens(s, S, W, f)
    PROVE  /\ u \in Nat /\ u \div PageSize \in Nat
           /\ u < s + S * (f - 1)
           /\ u \in PageTokens(u \div PageSize)
           /\ (u \div PageSize + 1) * PageSize <= s + S * (f - 1)
           /\ PageTokens(u \div PageSize) \subseteq StrideTokens(s, S, W, f)
<1>1. s \in Nat \ {0} /\ S \in Nat \ {0} /\ W \in Nat /\ PageSize \in Nat \ {0}
  BY PolicyAssumption DEF IsGeometry
<1>2. PICK a \in Nat : s = PageSize * a
  BY DEF IsGeometry
<1>3. PICK b \in Nat : S = PageSize * b
  BY DEF IsGeometry
<1>4. PICK k \in 1 .. f - 1 : /\ StrideEvicts(s, S, W, k, f)
                              /\ s + S * (k - 1) <= u /\ u < s + S * k
  BY DEF StrideTokens
<1>5. u \in Nat
  BY DEF StrideTokens
<1> DEFINE q == u \div PageSize
<1>6. q \in Nat /\ PageSize * q <= u /\ u < PageSize * q + PageSize
  BY <1>1, <1>5, Division
<1> HIDE DEF q
<1>7. S * k <= S * (f - 1)
  <2>1. k \in Int /\ f - 1 \in Int /\ k <= f - 1
    OBVIOUS
  <2> QED
    BY <1>1, <2>1, MulMono
<1> DEFINE A == a + b * (k - 1)
           B == a + b * k
<1>8. A \in Int /\ B \in Int
  OBVIOUS
<1>9. s + S * (k - 1) = PageSize * A
  <2>1. S * (k - 1) = PageSize * (b * (k - 1))
    BY <1>1, <1>3
  <2> QED
    BY <1>1, <1>2, <2>1
<1>10. s + S * k = PageSize * B
  <2>1. S * k = PageSize * (b * k)
    BY <1>1, <1>3
  <2> QED
    BY <1>1, <1>2, <2>1
<1> HIDE DEF A, B
<1>11. /\ PageSize * A \in Int /\ PageSize * B \in Int /\ PageSize * q \in Int
       /\ PageSize * (q + 1) = PageSize * q + PageSize /\ PageSize * (q + 1) \in Int
  BY <1>1, <1>6, <1>8
<1>12. A <= q
  <2>1. PageSize * A < PageSize * (q + 1)
    BY <1>4, <1>5, <1>6, <1>9, <1>11
  <2>2. A < q + 1
    BY <1>1, <1>6, <1>8, <2>1, MulCancel
  <2> QED
    BY <1>6, <1>8, <2>2
<1>13. q + 1 <= B
  <2>1. PageSize * q < PageSize * B
    BY <1>4, <1>5, <1>6, <1>10, <1>11
  <2>2. q < B
    BY <1>1, <1>6, <1>8, <2>1, MulCancel
  <2> QED
    BY <1>6, <1>8, <2>2
<1>14. PageSize * A <= PageSize * q /\ PageSize * (q + 1) <= PageSize * B
  <2>1. PageSize * A <= PageSize * q
    BY <1>1, <1>6, <1>8, <1>12, MulMono
  <2>2. PageSize * (q + 1) <= PageSize * B
    BY <1>1, <1>6, <1>8, <1>13, MulMono
  <2> QED
    BY <2>1, <2>2
<1>15. S * (f - 1) \in Int /\ S * k \in Int /\ S * (k - 1) \in Int
  BY <1>1
<1>16. q * PageSize = PageSize * q /\ (q + 1) * PageSize = PageSize * (q + 1)
  BY <1>1, <1>6
<1>17. PageTokens(q) = PageSize * q .. PageSize * (q + 1) - 1
  BY <1>16 DEF PageTokens
<1>18. \A v \in PageTokens(q) : v \in Nat /\ s + S * (k - 1) <= v /\ v < s + S * k
  <2> SUFFICES ASSUME NEW v \in PageSize * q .. PageSize * (q + 1) - 1
               PROVE  v \in Nat /\ s + S * (k - 1) <= v /\ v < s + S * k
    BY <1>17
  <2>1. PageSize * q \in Nat
    BY <1>1, <1>6
  <2> QED
    BY <1>9, <1>10, <1>11, <1>14, <2>1
<1>19. PageTokens(q) \subseteq StrideTokens(s, S, W, f)
  BY <1>4, <1>18 DEF StrideTokens
<1>20. u < s + S * (f - 1)
  BY <1>1, <1>4, <1>5, <1>7, <1>15
<1>21. (q + 1) * PageSize <= s + S * (f - 1)
  BY <1>1, <1>7, <1>10, <1>11, <1>14, <1>15, <1>16
<1>22. u \in PageTokens(q)
  BY <1>5, <1>6, <1>11, <1>17
<1> QED
  BY <1>5, <1>6, <1>19, <1>20, <1>21, <1>22 DEF q

-----------------------------------------------------------------------------
\* The message schedule.

Rank(B, t) == Cardinality({u \in B : u < t})
Nth(B, k) == CHOOSE t \in B : Rank(B, t) = k

\* The elements of a finite set of numbers, by rank.
LEMMA Ranked ==
    ASSUME NEW B, B \subseteq Nat, IsFiniteSet(B)
    PROVE  /\ Cardinality(B) \in Nat
           /\ \A t \in B : Rank(B, t) \in 0 .. Cardinality(B) - 1
           /\ \A t, v \in B : t < v => Rank(B, t) < Rank(B, v)
           /\ \A k \in 0 .. Cardinality(B) - 1 : Nth(B, k) \in B /\ Rank(B, Nth(B, k)) = k
<1> DEFINE N == Cardinality(B)
<1>1. N \in Nat
  BY FS_CardinalityType
<1>2. ASSUME NEW t
      PROVE  IsFiniteSet({u \in B : u < t}) /\ Rank(B, t) \in Nat
  <2>1. {u \in B : u < t} \in SUBSET B
    OBVIOUS
  <2>2. IsFiniteSet({u \in B : u < t})
    BY <2>1, FS_Subset
  <2> QED
    BY <2>2, FS_CardinalityType DEF Rank
<1>3. ASSUME NEW t \in B, NEW v \in B, t < v
      PROVE  Rank(B, t) < Rank(B, v)
  <2> DEFINE X == {u \in B : u < t}
             Y == {u \in B : u < v}
  <2>1. X \in SUBSET Y /\ t \in Y /\ t \notin X
    <3>1. t \in Nat /\ v \in Nat /\ t < v
      BY <1>3
    <3>2. \A u \in B : u < t => u < v
      BY <3>1
    <3>3. ~(t < t)
      BY <3>1
    <3>4. X \subseteq Y
      BY <3>2
    <3>5. t \in Y /\ t \notin X
      BY <3>1, <3>3
    <3> QED
      BY <3>4, <3>5
  <2>2. IsFiniteSet(Y) /\ Cardinality(Y) \in Nat /\ Cardinality(X) \in Nat
    BY <1>2 DEF Rank
  <2> HIDE DEF X, Y
  <2>3. Cardinality(X) <= Cardinality(Y) /\ (Cardinality(Y) = Cardinality(X) => Y = X)
    BY <2>1, <2>2, FS_Subset
  <2>4. Cardinality(X) < Cardinality(Y)
    BY <2>1, <2>2, <2>3
  <2> QED
    BY <2>4 DEF Rank, X, Y
<1>4. ASSUME NEW t \in B
      PROVE  Rank(B, t) \in 0 .. N - 1
  <2> DEFINE X == {u \in B : u < t}
  <2>1. X \in SUBSET B /\ t \notin X /\ t \in B
    OBVIOUS
  <2>2. Cardinality(X) \in Nat
    BY <1>2 DEF Rank
  <2> HIDE DEF X
  <2>3. Cardinality(X) <= N /\ (N = Cardinality(X) => B = X)
    BY <2>1, FS_Subset
  <2>4. Cardinality(X) < N
    BY <1>1, <2>1, <2>2, <2>3
  <2> QED
    BY <1>1, <2>2, <2>4 DEF Rank, X
<1> DEFINE T == 0 .. N - 1
           f == [t \in B |-> Rank(B, t)]
<1>5. IsFiniteSet(T) /\ Cardinality(T) = N
  <2>1. 0 \in Int /\ N - 1 \in Int /\ (IF 0 > N - 1 THEN 0 ELSE (N - 1) - 0 + 1) = N
    BY <1>1
  <2> QED
    BY <2>1, FS_Interval
<1>6. f \in Injection(B, T)
  <2>1. f \in [B -> T]
    BY <1>4
  <2>2. ASSUME NEW a \in B, NEW b \in B, f[a] = f[b] PROVE a = b
    <3>1. Rank(B, a) = Rank(B, b) /\ a \in Nat /\ b \in Nat
      BY <2>2
    <3>2. Rank(B, a) \in Nat
      BY <1>2
    <3>3. ~(a < b) /\ ~(b < a)
      BY <1>3, <3>1, <3>2
    <3> QED
      BY <3>1, <3>3
  <2> QED
    BY <2>1, <2>2 DEF Injection, IsInjective
<1>7. f \in Surjection(B, T)
  BY <1>5, <1>6, FS_Injection
<1>8. ASSUME NEW k \in T PROVE Nth(B, k) \in B /\ Rank(B, Nth(B, k)) = k
  <2>1. \E t \in B : f[t] = k
    BY <1>7 DEF Surjection
  <2>2. \E t \in B : Rank(B, t) = k
    BY <2>1
  <2> QED
    BY <2>2, Zenon DEF Nth
<1> QED
  BY <1>1, <1>3, <1>4, <1>8

\* The last message start at or before t.
MsgStart(p, t) == Max({a \in {0} \cup p.im : a <= t})

\* The message a position belongs to starts at the last start up to it.
LEMMA MsgStartIs ==
    ASSUME NEW p \in Prompts, NEW t \in Nat
    PROVE  /\ MsgStart(p, t) \in {0} \cup p.im
           /\ MsgStart(p, t) \in Nat /\ MsgStart(p, t) <= t
           /\ \A a \in {0} \cup p.im : a <= t => a <= MsgStart(p, t)
<1> DEFINE T == {a \in {0} \cup p.im : a <= t}
<1>1. p.im \subseteq Nat
  BY ServeAssumption
<1>2. T \subseteq Nat /\ 0 \in T /\ \A x \in T : x <= t
  BY <1>1
<1>3. Max(T) \in T /\ \A x \in T : x <= Max(T)
  BY <1>2, MaxOf
<1> HIDE DEF T
<1>4. MsgStart(p, t) = Max(T)
  BY DEF MsgStart, T
<1>5. Max(T) \in Nat
  BY <1>2, <1>3
<1>6. Max(T) \in {0} \cup p.im /\ Max(T) <= t
  BY <1>3 DEF T
<1>7. \A a \in {0} \cup p.im : a <= t => a \in T
  BY DEF T
<1> QED
  BY <1>3, <1>4, <1>5, <1>6, <1>7

\* The bounds of the message chunks: the ends of the prompt, and the positions a
\* whole number of chunks past the start of their message.
LEMMA BoundsAre ==
    ASSUME NEW p \in Prompts, NEW S \in Nat \ {0}
    PROVE  /\ MessageBounds(p, S) \subseteq 0 .. p.len
           /\ IsFiniteSet(MessageBounds(p, S))
           /\ 0 \in MessageBounds(p, S) /\ p.len \in MessageBounds(p, S)
           /\ \A t \in 0 .. p.len - 1 :
                 t \in MessageBounds(p, S) <=> (t - MsgStart(p, t)) % S = 0
<1> DEFINE B == MessageBounds(p, S)
<1>1. p.len \in Nat \ {0}
  BY ServeAssumption
<1>2. B = {t \in 0 .. p.len - 1 : (t - MsgStart(p, t)) % S = 0} \cup {p.len}
  BY DEF MessageBounds, MsgStart
<1> HIDE DEF B
<1>3. B \subseteq 0 .. p.len /\ p.len \in B
  BY <1>1, <1>2
<1>4. \A t \in 0 .. p.len - 1 : t \in B <=> (t - MsgStart(p, t)) % S = 0
  <2>1. p.len \notin 0 .. p.len - 1
    BY <1>1
  <2> QED
    BY <1>2, <2>1
<1>5. 0 \in B
  <2>1. MsgStart(p, 0) = 0
    BY MsgStartIs
  <2>2. (0 - MsgStart(p, 0)) % S = 0
    BY <2>1
  <2>3. 0 \in 0 .. p.len - 1
    BY <1>1
  <2> QED
    BY <1>4, <2>2, <2>3
<1>6. IsFiniteSet(B)
  <2>1. IsFiniteSet(0 .. p.len)
    BY <1>1, FS_Interval
  <2> QED
    BY <1>3, <2>1, FS_Subset
<1> QED
  BY <1>3, <1>4, <1>5, <1>6 DEF B

\* A multiple stays one when the divisor is added.
LEMMA NextMultiple ==
    ASSUME NEW a \in Nat, NEW k \in Nat \ {0}, a % k = 0
    PROVE  (a + k) % k = 0
<1> DEFINE q == a \div k
<1>1. a = k * q + (a % k) /\ q \in Nat
  OBVIOUS
<1> HIDE DEF q
<1>2. a + k = k * (q + 1) + 0
  BY <1>1
<1>3. (a + k) \div k = q + 1
  <2>1. k * (q + 1) \in Int /\ q + 1 \in Int /\ a + k \in Int
    BY <1>1
  <2>2. k * (q + 1) <= a + k /\ a + k < k * (q + 1) + k
    BY <1>2, <2>1
  <2> QED
    BY <2>1, <2>2, QuotientUnique
<1> DEFINE b == a + k
           r == b % k
           d == b \div k
<1>4. b = k * d + r /\ r \in Int /\ d = q + 1 /\ b = k * (q + 1) + 0
  BY <1>2, <1>3
<1> HIDE DEF b, r, d
<1>5. b = k * (q + 1) + r /\ k * (q + 1) \in Int
  BY <1>1, <1>4
<1>6. r = 0
  BY <1>4, <1>5
<1> QED
  BY <1>6 DEF r, b

\* No message chunk holds more than S tokens.
LEMMA NextBound ==
    ASSUME NEW p \in Prompts, NEW S \in Nat \ {0},
           NEW t \in MessageBounds(p, S), t < p.len
    PROVE  \E v \in MessageBounds(p, S) : t < v /\ v <= t + S
<1> DEFINE B == MessageBounds(p, S)
<1>1. p.len \in Nat \ {0} /\ p.im \subseteq 0 .. p.len - 1
  BY ServeAssumption
<1>2. /\ B \subseteq 0 .. p.len /\ p.len \in B
      /\ \A u \in 0 .. p.len - 1 : u \in B <=> (u - MsgStart(p, u)) % S = 0
  BY BoundsAre
<1> HIDE DEF B
<1>3. t \in Nat /\ t \in 0 .. p.len - 1
  BY <1>1, <1>2 DEF B
<1>4. (t - MsgStart(p, t)) % S = 0
  BY <1>2, <1>3 DEF B
<1>5. CASE t + S >= p.len
  BY <1>1, <1>2, <1>3, <1>5 DEF B
<1>6. CASE t + S < p.len
  <2> DEFINE v == t + S
             m == MsgStart(p, v)
             a == MsgStart(p, t)
  <2>1. v \in Nat /\ v \in 0 .. p.len - 1
    BY <1>1, <1>3, <1>6
  <2>2. m \in {0} \cup p.im /\ m \in Nat /\ m <= v /\ \A x \in {0} \cup p.im : x <= v => x <= m
    BY <2>1, MsgStartIs
  <2>3. a \in {0} \cup p.im /\ a \in Nat /\ a <= t /\ \A x \in {0} \cup p.im : x <= t => x <= a
    BY <1>3, MsgStartIs
  <2> HIDE DEF m, a
  <2>4. CASE m > t
    <3>1. MsgStart(p, m) = m
      <4>1. MsgStart(p, m) \in Nat /\ MsgStart(p, m) <= m /\ m <= MsgStart(p, m)
        BY <2>2, MsgStartIs
      <4> QED
        BY <2>2, <4>1
    <3>2. (m - MsgStart(p, m)) % S = 0
      <4>1. m - MsgStart(p, m) = 0
        BY <2>2, <3>1
      <4> QED
        BY <4>1
    <3>3. m \in 0 .. p.len - 1
      BY <1>1, <2>1, <2>2
    <3>4. m \in B
      BY <1>2, <3>2, <3>3
    <3> QED
      BY <2>2, <2>4, <3>4 DEF B
  <2>5. CASE m <= t
    <3>1. m = a
      <4>1. m <= a
        BY <2>2, <2>3, <2>5
      <4>2. a <= m
        BY <2>2, <2>3, <1>3
      <4> QED
        BY <2>2, <2>3, <4>1, <4>2
    <3>2. (t - a) \in Nat /\ (t - a) % S = 0
      BY <1>3, <1>4, <2>3 DEF a
    <3>3. ((t - a) + S) % S = 0
      BY <3>2, NextMultiple
    <3>4. v - m = (t - a) + S
      BY <1>3, <2>2, <2>3, <3>1
    <3>5. (v - MsgStart(p, v)) % S = 0
      BY <3>3, <3>4 DEF m
    <3>6. v \in B
      BY <1>2, <2>1, <3>5
    <3> QED
      BY <1>3, <2>1, <3>6 DEF B
  <2> QED
    BY <1>3, <2>2, <2>4, <2>5
<1> QED
  BY <1>1, <1>3, <1>5, <1>6

\* What compute_chunk_spans returns are contiguous chunks from token 0 to the
\* end of the prompt, of at most S tokens.
LEMMA MessageIsChunking ==
    ASSUME NEW p \in Prompts, NEW S \in Nat \ {0}
    PROVE  LET ch == MessageChunking(p, S) IN
           /\ IsChunking(ch) /\ ch.n \in Nat \ {0}
           /\ ch.bound[ch.n] = p.len
           /\ \A k \in 0 .. ch.n - 1 : ch.bound[k + 1] <= ch.bound[k] + S
<1> DEFINE B == MessageBounds(p, S)
           N == Cardinality(B)
           ch == MessageChunking(p, S)
<1>1. p.len \in Nat \ {0}
  BY ServeAssumption
<1>2. B \subseteq 0 .. p.len /\ IsFiniteSet(B) /\ 0 \in B /\ p.len \in B
  BY BoundsAre
<1>3. ch.n = N - 1 /\ ch.bound = [k \in 0 .. N - 1 |-> Nth(B, k)]
  BY DEF MessageChunking, Nth, Rank
<1>4. ASSUME NEW t \in B, t < p.len
      PROVE  \E v \in B : t < v /\ v <= t + S
  BY <1>4, NextBound
<1> HIDE DEF B, ch
<1>5. B \subseteq Nat
  BY <1>1, <1>2
<1>6. /\ N \in Nat
      /\ \A t \in B : Rank(B, t) \in 0 .. N - 1
      /\ \A t, v \in B : t < v => Rank(B, t) < Rank(B, v)
      /\ \A k \in 0 .. N - 1 : Nth(B, k) \in B /\ Rank(B, Nth(B, k)) = k
  BY <1>2, <1>5, Ranked
<1> HIDE DEF N
<1>7. ASSUME NEW t \in B PROVE Nth(B, Rank(B, t)) = t
  <2> DEFINE v == Nth(B, Rank(B, t))
  <2>1. Rank(B, t) \in 0 .. N - 1
    BY <1>6
  <2>2. v \in B /\ Rank(B, v) = Rank(B, t)
    BY <1>6, <2>1
  <2> HIDE DEF v
  <2>3. ~(v < t) /\ ~(t < v)
    BY <1>6, <2>1, <2>2
  <2>4. v \in Nat /\ t \in Nat
    BY <1>5, <2>2
  <2> QED
    BY <2>3, <2>4 DEF v
<1>8. ASSUME NEW j \in 0 .. N - 1, NEW k \in 0 .. N - 1, j < k
      PROVE  Nth(B, j) < Nth(B, k)
  <2>1. Nth(B, j) \in B /\ Nth(B, k) \in B /\ Rank(B, Nth(B, j)) = j /\ Rank(B, Nth(B, k)) = k
    BY <1>6
  <2> DEFINE x == Nth(B, j)
             y == Nth(B, k)
  <2>2. x \in Nat /\ y \in Nat
    BY <1>5, <2>1
  <2>3. ~(y < x)
    BY <1>6, <1>8, <2>1
  <2>4. x # y
    BY <1>8, <2>1
  <2> HIDE DEF x, y
  <2>5. x < y
    BY <2>2, <2>3, <2>4
  <2> QED
    BY <2>5 DEF x, y
<1>9. Nth(B, 0) = 0 /\ N > 1
  <2>1. Rank(B, 0) < Rank(B, p.len) /\ Rank(B, 0) \in 0 .. N - 1 /\ Rank(B, p.len) \in 0 .. N - 1
    BY <1>1, <1>2, <1>6
  <2>2. Nth(B, 0) \in B /\ Rank(B, Nth(B, 0)) = 0
    BY <1>6, <2>1
  <2>3. Nth(B, 0) \in Nat
    BY <1>5, <2>2
  <2>4. 0 < Nth(B, 0) => Rank(B, 0) < Rank(B, Nth(B, 0))
    BY <1>2, <1>6, <2>2, Zenon
  <2> QED
    BY <1>6, <2>1, <2>2, <2>3, <2>4
<1>10. Nth(B, N - 1) = p.len
  <2>1. N - 1 \in 0 .. N - 1
    BY <1>6, <1>9
  <2>2. Nth(B, N - 1) \in B /\ Rank(B, Nth(B, N - 1)) = N - 1 /\ Rank(B, p.len) \in 0 .. N - 1
    BY <1>2, <1>6, <2>1
  <2>3. Nth(B, N - 1) < p.len => Rank(B, Nth(B, N - 1)) < Rank(B, p.len)
    BY <1>2, <1>6, <2>2, Zenon
  <2>4. Nth(B, N - 1) \in 0 .. p.len
    BY <1>2, <2>2
  <2> QED
    BY <1>1, <1>6, <2>2, <2>3, <2>4
<1>11. ASSUME NEW k \in 0 .. N - 2 PROVE Nth(B, k + 1) <= Nth(B, k) + S
  <2>1. k \in 0 .. N - 1 /\ k + 1 \in 0 .. N - 1 /\ N - 1 \in 0 .. N - 1 /\ k < N - 1
    BY <1>6
  <2>2. Nth(B, k) < p.len
    BY <1>8, <1>10, <2>1
  <2>3. Nth(B, k) \in B /\ Rank(B, Nth(B, k)) = k
    BY <1>6, <2>1
  <2>4. PICK v \in B : Nth(B, k) < v /\ v <= Nth(B, k) + S
    BY <1>4, <2>2, <2>3
  <2>5. k < Rank(B, v) /\ Rank(B, v) \in 0 .. N - 1
    BY <1>6, <2>3, <2>4
  <2>6. Nth(B, k + 1) \in B /\ Rank(B, Nth(B, k + 1)) = k + 1
    BY <1>6, <2>1
  <2>7. ~(v < Nth(B, k + 1))
    BY <1>6, <2>5, <2>6
  <2>8. v \in Nat /\ Nth(B, k + 1) \in Nat /\ Nth(B, k) \in Nat
    BY <1>5, <2>3, <2>6
  <2> QED
    BY <2>4, <2>7, <2>8
<1>12. \A k \in 0 .. N - 1 : ch.bound[k] = Nth(B, k) /\ Nth(B, k) \in Nat
  BY <1>3, <1>5, <1>6
<1>13. IsChunking(ch)
  <2>1. ch.n \in Nat /\ 0 .. ch.n = 0 .. N - 1
    BY <1>3, <1>6, <1>9
  <2>2. ch.bound \in [0 .. ch.n -> Nat]
    BY <1>3, <1>12, <2>1
  <2>3. ch.bound[0] = 0
    BY <1>6, <1>9, <1>12
  <2>4. \A j, k \in 0 .. ch.n : j < k => ch.bound[j] < ch.bound[k]
    BY <1>8, <1>12, <2>1
  <2> QED
    BY <2>1, <2>2, <2>3, <2>4 DEF IsChunking
<1>14. ch.n \in Nat \ {0} /\ ch.bound[ch.n] = p.len
  <2>1. N - 1 \in 0 .. N - 1
    BY <1>6, <1>9
  <2> QED
    BY <1>3, <1>6, <1>9, <1>10, <1>12, <2>1
<1>15. \A k \in 0 .. ch.n - 1 : ch.bound[k + 1] <= ch.bound[k] + S
  <2> SUFFICES ASSUME NEW k \in 0 .. ch.n - 1 PROVE ch.bound[k + 1] <= ch.bound[k] + S
    OBVIOUS
  <2>1. k \in 0 .. N - 2 /\ k \in 0 .. N - 1 /\ k + 1 \in 0 .. N - 1
    BY <1>3, <1>6
  <2> QED
    BY <1>11, <1>12, <2>1
<1> QED
  BY <1>13, <1>14, <1>15 DEF ch

\* The rightmost chunk that starts at or before the last token.
LEMMA MessageFrontierIs ==
    ASSUME NEW ch, IsChunking(ch), ch.n \in Nat \ {0}, NEW n \in Nat
    PROVE  /\ MessageFrontier(ch, n) \in 0 .. ch.n - 1
           /\ MessageFrontier(ch, n) > 0 => ch.bound[MessageFrontier(ch, n)] < n
           /\ \A k \in 0 .. ch.n - 1 : ch.bound[k] < n => k <= MessageFrontier(ch, n)
<1> DEFINE T == {k \in 0 .. ch.n - 1 : ch.bound[k] <= n - 1}
           f == Max({0} \cup T)
<1>1. MessageFrontier(ch, n) = f
  BY DEF MessageFrontier
<1>2. \A k \in 0 .. ch.n - 1 : ch.bound[k] \in Nat
  BY DEF IsChunking
<1>3. {0} \cup T \subseteq Nat /\ {0} \cup T # {} /\ \A x \in {0} \cup T : x <= ch.n - 1
  OBVIOUS
<1>4. f \in {0} \cup T /\ \A x \in {0} \cup T : x <= f
  <2>1. ch.n - 1 \in Nat
    OBVIOUS
  <2> HIDE DEF T
  <2> QED
    BY <1>3, <2>1, MaxOf
<1> HIDE DEF f
<1>5. f \in 0 .. ch.n - 1
  BY <1>4
<1>6. f > 0 => ch.bound[f] < n
  BY <1>2, <1>4, <1>5
<1>7. \A k \in 0 .. ch.n - 1 : ch.bound[k] < n => k <= f
  BY <1>2, <1>4
<1> QED
  BY <1>1, <1>5, <1>6, <1>7

\* A longer prefix reaches no earlier message chunk.
LEMMA MessageFrontierMono ==
    ASSUME NEW ch, IsChunking(ch), ch.n \in Nat \ {0}, NEW m \in Nat, NEW n \in Nat, m <= n
    PROVE  MessageFrontier(ch, m) <= MessageFrontier(ch, n)
<1> DEFINE f == MessageFrontier(ch, m)
           g == MessageFrontier(ch, n)
<1>1. f \in 0 .. ch.n - 1 /\ (f > 0 => ch.bound[f] < m)
  BY MessageFrontierIs
<1>2. g \in 0 .. ch.n - 1 /\ \A k \in 0 .. ch.n - 1 : ch.bound[k] < n => k <= g
  BY MessageFrontierIs
<1>3. ch.bound[f] \in Nat
  BY <1>1 DEF IsChunking
<1> HIDE DEF f, g
<1>4. f <= g
  BY <1>1, <1>2, <1>3
<1> QED
  BY <1>4 DEF f, g

\* Bounds of a chunking and its sink.
LEMMA BoundsGrow ==
    ASSUME NEW ch, IsChunking(ch), NEW j \in 0 .. ch.n, NEW k \in 0 .. ch.n, j <= k
    PROVE  ch.bound[j] \in Nat /\ ch.bound[k] \in Nat /\ ch.bound[j] <= ch.bound[k]
<1>1. ch.bound[j] \in Nat /\ ch.bound[k] \in Nat
  BY DEF IsChunking
<1>2. CASE j = k
  BY <1>1, <1>2
<1>3. CASE j < k
  BY <1>1, <1>3 DEF IsChunking
<1> QED
  BY <1>1, <1>2, <1>3

\* The sink is the tokens of the chunks before the first that may be evicted.
LEMMA SinkIs ==
    ASSUME NEW ch, IsChunking(ch), NEW lim, IsLimits(lim)
    PROVE  /\ SinkTokens(ch, lim) \in Nat
           /\ lim.sink < ch.n => SinkTokens(ch, lim) = ch.bound[lim.sink]
<1>1. ch.n \in Nat /\ lim.sink \in Nat
  BY DEF IsChunking, IsLimits
<1>2. (IF lim.sink < ch.n THEN lim.sink ELSE ch.n) \in 0 .. ch.n
  BY <1>1
<1> QED
  BY <1>2 DEF SinkTokens, IsChunking

\* A window that breaks a limit still breaks it when newer chunks join.
LEMMA ExceedsGrows ==
    ASSUME NEW ch, IsChunking(ch), NEW lim, IsLimits(lim),
           NEW j \in 0 .. ch.n - 1, NEW c \in 0 .. ch.n - 1, NEW d \in 0 .. ch.n - 1,
           c <= d, Exceeds(ch, lim, j, c)
    PROVE  Exceeds(ch, lim, j, d)
<1>1. ch.n \in Nat /\ c + 1 \in 0 .. ch.n /\ d + 1 \in 0 .. ch.n /\ j \in 0 .. ch.n
      /\ c + 1 <= d + 1
  BY DEF IsChunking
<1>2. ch.bound[c + 1] \in Nat /\ ch.bound[d + 1] \in Nat /\ ch.bound[c + 1] <= ch.bound[d + 1]
  BY <1>1, BoundsGrow
<1>3. ch.bound[j] \in Nat
  BY <1>1 DEF IsChunking
<1>4. SinkTokens(ch, lim) \in Nat
  BY SinkIs
<1> QED
  BY <1>1, <1>2, <1>3, <1>4 DEF Exceeds, SpanTokens, IsLimits

\* A window that fits still fits without its oldest chunks.
LEMMA ExceedsShrinks ==
    ASSUME NEW ch, IsChunking(ch), NEW lim, IsLimits(lim),
           NEW j \in 0 .. ch.n - 1, NEW k \in 0 .. ch.n - 1, NEW c \in 0 .. ch.n - 1,
           j <= k, Exceeds(ch, lim, k, c)
    PROVE  Exceeds(ch, lim, j, c)
<1>1. ch.n \in Nat /\ c + 1 \in 0 .. ch.n /\ k \in 0 .. ch.n /\ j \in 0 .. ch.n
  BY DEF IsChunking
<1>2. ch.bound[j] \in Nat /\ ch.bound[k] \in Nat /\ ch.bound[j] <= ch.bound[k]
  BY <1>1, BoundsGrow
<1>3. ch.bound[c + 1] \in Nat
  BY <1>1 DEF IsChunking
<1>4. SinkTokens(ch, lim) \in Nat
  BY SinkIs
<1> QED
  BY <1>1, <1>2, <1>3, <1>4 DEF Exceeds, SpanTokens, IsLimits

\* The message rule never takes an eviction back.
LEMMA MessageTokensMono ==
    ASSUME NEW ch, IsChunking(ch), NEW lim, IsLimits(lim),
           NEW c \in 0 .. ch.n - 1, NEW d \in 0 .. ch.n - 1, c <= d
    PROVE  EvictedTokens(ch, lim, c) \subseteq EvictedTokens(ch, lim, d)
<1>1. ASSUME NEW k \in 0 .. c - 1, Evicted(ch, lim, k, c)
      PROVE  k \in 0 .. d - 1 /\ Evicted(ch, lim, k, d)
  <2>1. k \in 0 .. ch.n - 1 /\ k \in 0 .. d - 1 /\ ch.n \in Nat
    BY DEF IsChunking
  <2>2. lim.sink <= k /\ k < d
    BY <1>1 DEF Evicted
  <2>3. Exceeds(ch, lim, k, d)
    BY <1>1, <2>1, ExceedsGrows DEF Evicted
  <2> QED
    BY <2>1, <2>2, <2>3 DEF Evicted
<1>2. ASSUME NEW u \in EvictedTokens(ch, lim, c)
      PROVE  u \in EvictedTokens(ch, lim, d)
  <2>1. PICK k \in 0 .. c - 1 : Evicted(ch, lim, k, c) /\ u \in ChunkTokens(ch, k)
    BY DEF EvictedTokens
  <2>2. k \in 0 .. d - 1 /\ Evicted(ch, lim, k, d)
    BY <1>1, <2>1
  <2> QED
    BY <2>1, <2>2 DEF EvictedTokens
<1> QED
  BY <1>2

\* The message rule evicts only what lies before the frontier chunk.
LEMMA MessageTokensBelow ==
    ASSUME NEW ch, IsChunking(ch), NEW lim, NEW c \in 0 .. ch.n - 1,
           NEW u \in EvictedTokens(ch, lim, c)
    PROVE  u \in Nat /\ c > 0 /\ u < ch.bound[c]
<1>1. PICK k \in 0 .. c - 1 : u \in ChunkTokens(ch, k)
  BY DEF EvictedTokens
<1>2. ch.n \in Nat /\ k \in 0 .. ch.n /\ k + 1 \in 0 .. ch.n /\ c \in 0 .. ch.n /\ k + 1 <= c
  BY DEF IsChunking
<1>3. ch.bound[k] \in Nat
  BY <1>2 DEF IsChunking
<1>4. ch.bound[k + 1] \in Nat /\ ch.bound[c] \in Nat /\ ch.bound[k + 1] <= ch.bound[c]
  BY <1>2, BoundsGrow
<1> QED
  BY <1>1, <1>2, <1>3, <1>4 DEF ChunkTokens

-----------------------------------------------------------------------------
\* The schedule of a request, whatever the mode.

\* The length the schedule is asked about is that of the prefix, or of the prompt
\* where decoding evicts nothing.
LEMMA EffSeqLenIs ==
    ASSUME NEW c \in Configs, NEW p \in Prompts, NEW n \in Nat
    PROVE  /\ EffSeqLen(c, p, n) \in Nat
           /\ EffSeqLen(c, p, n) <= n
           /\ n <= p.len => EffSeqLen(c, p, n) = n
           /\ n > p.len => EffSeqLen(c, p, n) >= p.len
           /\ c.mode = "stride" /\ c.decodeEvict => EffSeqLen(c, p, n) = n
<1>1. p.len \in Nat
  BY ServeAssumption
<1> QED
  BY <1>1 DEF EffSeqLen

\* The length asked about grows with the prefix.
LEMMA EffSeqLenMono ==
    ASSUME NEW c \in Configs, NEW p \in Prompts, NEW m \in Nat, NEW n \in Nat, m <= n
    PROVE  EffSeqLen(c, p, m) <= EffSeqLen(c, p, n)
<1>1. p.len \in Nat
  BY ServeAssumption
<1> QED
  BY <1>1 DEF EffSeqLen

\* What a stride configuration evicts at a length.
LEMMA StrideSpans ==
    ASSUME NEW c \in Configs, NEW p \in Prompts, NEW n \in Nat, c.mode = "stride"
    PROVE  LET s == SinkEnd(p)
               S == Row(p).chunk
               f == FrontierChunk(EffSeqLen(c, p, n), s, S)
           IN  EvictedSpans(c, p, n) = IF f < 1 THEN {} ELSE StrideTokens(s, S, Row(p).window, f)
<1> DEFINE s == SinkEnd(p)
           S == Row(p).chunk
           W == Row(p).window
           eff == EffSeqLen(c, p, n)
           f == FrontierChunk(eff, s, S)
<1>1. EvictedSpans(c, p, n) =
          IF f < 1 THEN {} ELSE EvictedTokens(StrideChunking(f + 1, s, S), StrideLimits(W), f)
  BY DEF EvictedSpans
<1>2. s \in Nat \ {0} /\ S \in Nat \ {0} /\ W \in Nat
  BY PromptGeometry DEF IsGeometry
<1>3. eff \in Nat
  BY EffSeqLenIs
<1> HIDE DEF s, S, W, eff
<1>4. f \in Int
  BY <1>2, <1>3, FrontierIs
<1> HIDE DEF f
<1>5. f >= 1 => EvictedTokens(StrideChunking(f + 1, s, S), StrideLimits(W), f)
                    = StrideTokens(s, S, W, f)
  BY <1>2, <1>4, StrideTokensAre
<1>6. EvictedSpans(c, p, n) = IF f < 1 THEN {} ELSE StrideTokens(s, S, W, f)
  BY <1>1, <1>4, <1>5
<1> QED
  BY <1>6 DEF s, S, W, eff, f

\* What a message configuration evicts at a length.
LEMMA MessageSpans ==
    ASSUME NEW c \in Configs, NEW p \in Prompts, NEW n \in Nat, c.mode = "message"
    PROVE  LET ch == MessageChunking(p, c.chunkSize) IN
           EvictedSpans(c, p, n) =
               EvictedTokens(ch, MessageLimits(c), MessageFrontier(ch, EffSeqLen(c, p, n)))
BY DEF EvictedSpans

\* The limits of a configuration are limits of the message rule.
LEMMA MessageLimitsAre ==
    ASSUME NEW c \in Configs
    PROVE  IsLimits(MessageLimits(c)) /\ c.chunkSize \in Nat \ {0}
BY ConfigAssumption DEF IsLimits, MessageLimits

\* What is evicted stays evicted.
LEMMA SpansMono ==
    ASSUME NEW c \in Configs, NEW p \in Prompts, NEW m \in Nat, NEW n \in Nat, m <= n
    PROVE  EvictedSpans(c, p, m) \subseteq EvictedSpans(c, p, n)
<1> DEFINE a == EffSeqLen(c, p, m)
           b == EffSeqLen(c, p, n)
<1>1. a \in Nat /\ b \in Nat
  BY EffSeqLenIs
<1>2. a <= b
  BY EffSeqLenMono
<1> HIDE DEF a, b
<1>3. CASE c.mode = "stride"
  <2> DEFINE s == SinkEnd(p)
             S == Row(p).chunk
             W == Row(p).window
             f == FrontierChunk(a, s, S)
             g == FrontierChunk(b, s, S)
  <2>1. EvictedSpans(c, p, m) = IF f < 1 THEN {} ELSE StrideTokens(s, S, W, f)
    BY <1>3, StrideSpans DEF a
  <2>2. EvictedSpans(c, p, n) = IF g < 1 THEN {} ELSE StrideTokens(s, S, W, g)
    BY <1>3, StrideSpans DEF b
  <2>3. s \in Nat \ {0} /\ S \in Nat \ {0} /\ W \in Nat
    BY PromptGeometry DEF IsGeometry
  <2> HIDE DEF s, S, W
  <2>4. f \in Int /\ g \in Int
    BY <1>1, <2>3, FrontierIs
  <2>5. f <= g
    BY <1>1, <1>2, <2>3, FrontierMono
  <2> HIDE DEF f, g
  <2>6. f >= 1 => StrideTokens(s, S, W, f) \subseteq StrideTokens(s, S, W, g)
    BY <2>3, <2>4, <2>5, StrideTokensMono
  <2> QED
    BY <2>1, <2>2, <2>4, <2>5, <2>6
<1>4. CASE c.mode = "message"
  <2> DEFINE ch == MessageChunking(p, c.chunkSize)
             lim == MessageLimits(c)
             f == MessageFrontier(ch, a)
             g == MessageFrontier(ch, b)
  <2>1. EvictedSpans(c, p, m) = EvictedTokens(ch, lim, f)
    BY <1>4, MessageSpans DEF a
  <2>2. EvictedSpans(c, p, n) = EvictedTokens(ch, lim, g)
    BY <1>4, MessageSpans DEF b
  <2>3. IsLimits(lim) /\ c.chunkSize \in Nat \ {0}
    BY MessageLimitsAre
  <2>4. IsChunking(ch) /\ ch.n \in Nat \ {0}
    BY <2>3, MessageIsChunking
  <2> HIDE DEF ch, lim
  <2>5. f \in 0 .. ch.n - 1
    BY <1>1, <2>4, MessageFrontierIs
  <2>6. g \in 0 .. ch.n - 1
    BY <1>1, <2>4, MessageFrontierIs
  <2>7. f <= g
    BY <1>1, <1>2, <2>4, MessageFrontierMono
  <2> HIDE DEF f, g
  <2>8. EvictedTokens(ch, lim, f) \subseteq EvictedTokens(ch, lim, g)
    BY <2>3, <2>4, <2>5, <2>6, <2>7, MessageTokensMono
  <2> QED
    BY <2>1, <2>2, <2>8
<1> QED
  BY <1>3, <1>4, ConfigAssumption

\* The newest token is never evicted, nor is anything after it.
LEMMA SpansBelow ==
    ASSUME NEW c \in Configs, NEW p \in Prompts, NEW n \in Nat, NEW u \in EvictedSpans(c, p, n)
    PROVE  u \in Nat /\ u < n - 1
<1> DEFINE a == EffSeqLen(c, p, n)
<1>1. a \in Nat /\ a <= n
  BY EffSeqLenIs
<1> HIDE DEF a
<1>2. CASE c.mode = "stride"
  <2> DEFINE s == SinkEnd(p)
             S == Row(p).chunk
             W == Row(p).window
             f == FrontierChunk(a, s, S)
  <2>1. EvictedSpans(c, p, n) = IF f < 1 THEN {} ELSE StrideTokens(s, S, W, f)
    BY <1>2, StrideSpans DEF a
  <2>2. IsGeometry(s, S, W)
    BY PromptGeometry
  <2> HIDE DEF s, S, W
  <2>3. s \in Nat \ {0} /\ S \in Nat \ {0}
    BY <2>2 DEF IsGeometry
  <2>4. f \in Int /\ (a <= s => f < 1) /\ (a > s => s + S * (f - 1) < a)
    <3>1. f \in Int /\ (a = 0 => f = -1) /\ (a > 0 /\ a <= s => f = 0)
      BY <1>1, <2>3, FrontierIs
    <3>2. a > s => s + S * (f - 1) < a
      BY <1>1, <2>3, FrontierIs
    <3> QED
      BY <1>1, <3>1, <3>2
  <2> HIDE DEF f
  <2>5. f >= 1 /\ u \in StrideTokens(s, S, W, f)
    BY <2>1, <2>4
  <2>6. u \in Nat /\ u < s + S * (f - 1)
    BY <2>2, <2>4, <2>5, StrideTokensPages
  <2>7. S * (f - 1) \in Int
    BY <2>3, <2>4
  <2> QED
    BY <1>1, <2>3, <2>4, <2>5, <2>6, <2>7
<1>3. CASE c.mode = "message"
  <2> DEFINE ch == MessageChunking(p, c.chunkSize)
             lim == MessageLimits(c)
             f == MessageFrontier(ch, a)
  <2>1. u \in EvictedTokens(ch, lim, f)
    BY <1>3, MessageSpans DEF a
  <2>2. c.chunkSize \in Nat \ {0}
    BY MessageLimitsAre
  <2>3. IsChunking(ch) /\ ch.n \in Nat \ {0}
    BY <2>2, MessageIsChunking
  <2> HIDE DEF ch, lim
  <2>4. f \in 0 .. ch.n - 1 /\ (f > 0 => ch.bound[f] < a)
    BY <1>1, <2>3, MessageFrontierIs
  <2> HIDE DEF f
  <2>5. u \in Nat /\ f > 0 /\ u < ch.bound[f]
    BY <2>1, <2>3, <2>4, MessageTokensBelow
  <2>6. ch.bound[f] \in Nat
    BY <2>3, <2>4 DEF IsChunking
  <2> QED
    BY <1>1, <2>4, <2>5, <2>6
<1> QED
  BY <1>2, <1>3, ConfigAssumption

-----------------------------------------------------------------------------
\* The inductive invariant.

\* Only a running request has a slice; it computes what it has, and one more
\* token may still be generated.  Any other request holds nothing.
BatchInv ==
    \A r \in Reqs :
        /\ batch[r] > 0 => status[r] = "running" /\ gen[r] < MaxGen
        /\ status[r] = "waiting" => gen[r] < MaxGen
        /\ status[r] = "running" => computed[r] + batch[r] <= prompt[r].len + gen[r]
        /\ status[r] = "absent" => gen[r] = 0
        /\ status[r] # "running" => computed[r] = 0 /\ nulled[r] = {} /\ hit[r] = << >>

\* Who is registered where.  The worker of an only process may drop waiting
\* requests, never one that has run a slice or is about to read pages.
RegInv ==
    /\ ~cfg.oneProcess => Active \subseteq engineReg
    /\ \A r \in Reqs :
          status[r] = "running" /\ (batch[r] = 0 \/ phase = "build") =>
              r \in runner /\ r \in engineReg
    /\ phase = "build" => runner \subseteq workerReg

\* A freed block held evicted tokens only.
NulledInv ==
    \A r \in Reqs : \A b \in nulled[r] :
        BlockTokens(b) \subseteq EvictedSpans(cfg, prompt[r], computed[r])

\* A slice that follows another one finds every evicted block freed.
FreedInv ==
    cfg.physical =>
        \A r \in Reqs :
            batch[r] > 0 /\ computed[r] > Len(hit[r]) * BlockSize =>
                \A b \in 0 .. CeilDiv(computed[r], BlockSize) - 1 :
                    BlockTokens(b) \subseteq EvictedSpans(cfg, prompt[r], computed[r]) =>
                        b \in nulled[r]

\* States that have scanned n tokens, or carry on another request's.
Carries(states, n) == states = n \/ (states = Mixed /\ ~cfg.tokenPrefill)

\* A request that has computed nothing has scanned nothing; the states of any
\* other, and of a cached block, are those of the tokens up to there.
ScanInv ==
    /\ \A r \in Reqs : IF computed[r] = 0 THEN scan[r] = Foreign
                                          ELSE Carries(scan[r], computed[r])
    /\ \A b \in SharedBlocks : cached[b] # NoPrompt => Carries(cachedScan[b], (b + 1) * BlockSize)

\* Where the chunk of the next token ends.
ChunkEnd(p, done) ==
    IF done < SinkEnd(p) THEN SinkEnd(p)
    ELSE SinkEnd(p) + ((done - SinkEnd(p)) \div Row(p).chunk + 1) * Row(p).chunk

\* A clamped slice ends with its chunk at the latest: evict_registry.py's "a
\* prefill slice must never cross a chunk boundary".
SliceInv ==
    cfg.mode = "stride" /\ cfg.clamp =>
        \A r \in Reqs :
            batch[r] > 0 /\ Clamped(r) =>
                computed[r] + batch[r] <= ChunkEnd(prompt[r], computed[r])

IInv == TypeOK /\ BatchInv /\ RegInv /\ NulledInv /\ FreedInv /\ ScanInv /\ SliceInv

\* The table of spans holds what the rule says of every length a request reaches.
LEMMA SpansAtIs ==
    ASSUME NEW c \in Configs, NEW p \in Prompts, NEW n \in 0 .. p.len + MaxGen
    PROVE  SpansAt[c][p][n] = EvictedSpans(c, p, n)
BY DEF SpansAt

\* The constants are positive.
LEMMA Constants ==
    /\ BlockSize \in Nat \ {0} /\ PageSize \in Nat \ {0}
    /\ SliceMax \in Nat \ {0} /\ MaxGen \in Nat \ {0}
BY ServeAssumption, PolicyAssumption

\* What the type invariant and the batch say of one request.
LEMMA RequestFacts ==
    ASSUME TypeOK, BatchInv, NEW r \in Reqs
    PROVE  /\ cfg \in Configs
           /\ computed[r] \in Nat /\ gen[r] \in 0 .. MaxGen /\ batch[r] \in 0 .. SliceMax
           /\ batch[r] > 0 => status[r] = "running"
           /\ status[r] \in {"running", "waiting"} => prompt[r] \in Prompts /\ prompt[r].len \in Nat \ {0}
           /\ status[r] = "running" => computed[r] + batch[r] \in 0 .. prompt[r].len + MaxGen
           /\ status[r] = "running" => computed[r] \in 0 .. prompt[r].len + MaxGen
<1>1. /\ cfg \in Configs
      /\ computed[r] \in Nat /\ gen[r] \in 0 .. MaxGen /\ batch[r] \in 0 .. SliceMax
  BY DEF TypeOK
<1>2. status[r] \in {"running", "waiting"} => prompt[r] \in Prompts /\ prompt[r].len \in Nat \ {0}
  BY ServeAssumption DEF TypeOK, Active
<1>3. /\ batch[r] > 0 => status[r] = "running"
      /\ status[r] = "running" => computed[r] + batch[r] <= prompt[r].len + gen[r]
  BY DEF BatchInv
<1>4. MaxGen \in Nat /\ SliceMax \in Nat
  BY Constants
<1> QED
  BY <1>1, <1>2, <1>3, <1>4

\* The chunk of a token ends behind it.
LEMMA ChunkEndAfter ==
    ASSUME NEW p \in Prompts, NEW d \in Nat
    PROVE  ChunkEnd(p, d) \in Nat /\ d < ChunkEnd(p, d)
<1> DEFINE s == SinkEnd(p)
           S == Row(p).chunk
           q == (d - s) \div S
<1>1. s \in Nat \ {0} /\ S \in Nat \ {0}
  BY PromptGeometry DEF IsGeometry
<1>2. ChunkEnd(p, d) = IF d < s THEN s ELSE s + (q + 1) * S
  BY DEF ChunkEnd
<1> HIDE DEF s, S
<1>3. CASE d < s
  BY <1>1, <1>2, <1>3
<1>4. CASE d >= s
  <2>1. q \in Nat /\ d - s < S * q + S
    <3>1. d - s \in Nat
      BY <1>1, <1>4
    <3> QED
      BY <1>1, <3>1, Division
  <2> HIDE DEF q
  <2>2. (q + 1) * S = S * q + S /\ S * q \in Nat
    BY <1>1, <2>1
  <2>3. ChunkEnd(p, d) = s + (S * q + S)
    BY <1>1, <1>2, <1>4, <2>2
  <2> QED
    BY <1>1, <2>1, <2>2, <2>3
<1> QED
  BY <1>1, <1>3, <1>4

\* A slice is never empty, and the clamp keeps it inside its chunk.
LEMMA SliceIs ==
    ASSUME NEW r \in Reqs, prompt[r] \in Prompts, NEW d \in Nat, NEW n \in Nat \ {0}
    PROVE  /\ Slice(r, d, n) \in 1 .. n
           /\ cfg.mode = "stride" /\ cfg.clamp /\ r \in engineReg =>
                 d + Slice(r, d, n) <= ChunkEnd(prompt[r], d)
<1> DEFINE e == ChunkEnd(prompt[r], d)
           m == Min({n, e - d})
<1>1. e \in Nat /\ d < e
  BY ChunkEndAfter
<1>2. ClampToChunkBoundary(prompt[r], d, n) = m
  BY DEF ClampToChunkBoundary, ChunkEnd
<1> HIDE DEF e
<1>3. m \in {n, e - d} /\ m <= n /\ m <= e - d
  <2>1. e - d \in Nat
    BY <1>1
  <2> QED
    BY <2>1, MinOfTwo
<1> HIDE DEF m
<1>4. m \in 1 .. n /\ d + m <= e
  BY <1>1, <1>3
<1>5. CASE cfg.clamp /\ cfg.mode = "stride" /\ r \in engineReg
  <2>1. Slice(r, d, n) = m
    BY <1>2, <1>5 DEF Slice
  <2> QED
    BY <1>4, <2>1 DEF e
<1>6. CASE ~(cfg.clamp /\ cfg.mode = "stride" /\ r \in engineReg)
  <2>1. Slice(r, d, n) = n
    BY <1>6 DEF Slice
  <2> QED
    BY <1>6, <2>1
<1> QED
  BY <1>5, <1>6

\* Nothing is registered, scheduled or evicted at first.
LEMMA InitIInv == Init => IInv
<1> SUFFICES ASSUME Init PROVE IInv
  OBVIOUS
<1> USE Constants DEF Init
<1>1. TypeOK
  <2>1. Active = {}
    BY DEF Active
  <2>2. \A r \in Reqs : Len(hit[r]) * BlockSize <= computed[r]
    <3>1. Len(<< >>) = 0 /\ 0 * BlockSize = 0
      BY EmptySeq
    <3> QED
      BY <3>1
  <2>3. hit \in [Reqs -> Seq(Prompts)]
    BY EmptySeq
  <2> QED
    BY <2>1, <2>2, <2>3 DEF TypeOK, Foreign
<1>2. BatchInv
  BY DEF BatchInv
<1>3. RegInv
  BY DEF RegInv, Active
<1>4. NulledInv /\ FreedInv /\ ScanInv /\ SliceInv
  BY DEF NulledInv, FreedInv, ScanInv, SliceInv
<1> QED
  BY <1>1, <1>2, <1>3, <1>4 DEF IInv

\* A request is added, with a registration.
LEMMA AddRequestIInv ==
    ASSUME IInv, NEW r \in Reqs, NEW p \in Prompts, AddRequest(r, p)
    PROVE  IInv'
<1> USE DEF IInv, AddRequest, BetweenSteps
<1>1. TypeOK /\ BatchInv /\ RegInv /\ NulledInv /\ FreedInv /\ ScanInv /\ SliceInv
  OBVIOUS
<1>2. engineReg' = engineReg \cup {r} /\ workerReg' = IF cfg.oneProcess THEN engineReg' ELSE workerReg
  BY DEF SetEngineReg
<1>3. \A q \in Reqs : status'[q] = IF q = r THEN "waiting" ELSE status[q]
  BY DEF TypeOK
<1>4. \A q \in Reqs : prompt'[q] = IF q = r THEN p ELSE prompt[q]
  BY DEF TypeOK
<1>5. Active' = Active \cup {r}
  BY <1>3 DEF Active
<1>6. TypeOK'
  <2>1. status' \in [Reqs -> {"absent", "waiting", "running", "done"}]
    BY DEF TypeOK
  <2>2. prompt' \in [Reqs -> Prompts \cup {NoPrompt}]
    BY DEF TypeOK
  <2>3. \A q \in Reqs : q \in Active' => prompt'[q] \in Prompts
    BY <1>4, <1>5 DEF TypeOK
  <2>4. engineReg' \subseteq Reqs /\ workerReg' \subseteq Reqs
    BY <1>2 DEF TypeOK
  <2> QED
    BY <2>1, <2>2, <2>3, <2>4 DEF TypeOK
<1>7. BatchInv'
  BY <1>3, <1>4, Constants DEF BatchInv
<1>8. RegInv'
  BY <1>2, <1>3, <1>5 DEF RegInv
<1>9. NulledInv'
  BY <1>3, <1>4 DEF NulledInv, BatchInv
<1>10. FreedInv' /\ ScanInv' /\ SliceInv'
  BY DEF FreedInv, ScanInv, SliceInv, Carries, Clamped
<1> QED
  BY <1>6, <1>7, <1>8, <1>9, <1>10

\* What holds nothing has nothing freed, cached or scanned.
LEMMA FreeIs ==
    ASSUME TypeOK, NEW R \in SUBSET Reqs, Free(R)
    PROVE  \A q \in Reqs :
              /\ q \in R => /\ computed'[q] = 0 /\ nulled'[q] = {}
                            /\ hit'[q] = << >> /\ scan'[q] = Foreign
                            /\ Len(hit'[q]) * BlockSize <= computed'[q]
              /\ q \notin R => /\ computed'[q] = computed[q] /\ nulled'[q] = nulled[q]
                               /\ hit'[q] = hit[q] /\ scan'[q] = scan[q]
<1>1. Len(<< >>) = 0 /\ 0 * BlockSize = 0
  BY EmptySeq, Constants
<1> QED
  BY <1>1 DEF Free

\* One request is ended and its registration dropped.
LEMMA FinishIInv ==
    ASSUME IInv, BetweenSteps, NEW R \in SUBSET Reqs, Finish(R),
           engineReg' \subseteq Reqs, workerReg' \subseteq Reqs, RegInv'
    PROVE  IInv'
<1> USE DEF IInv, BetweenSteps
<1>1. TypeOK /\ BatchInv /\ RegInv /\ NulledInv /\ FreedInv /\ ScanInv /\ SliceInv
  OBVIOUS
<1>2. Free(R) /\ UNCHANGED <<cfg, phase, batch, runner, cached, cachedScan>>
  BY DEF Finish
<1>3. \A q \in Reqs : /\ status'[q] = IF q \in R THEN "done" ELSE status[q]
                      /\ prompt'[q] = IF q \in R THEN NoPrompt ELSE prompt[q]
                      /\ gen'[q] = IF q \in R THEN 0 ELSE gen[q]
  BY DEF Finish
<1>4. \A q \in Reqs :
              /\ q \in R => /\ computed'[q] = 0 /\ nulled'[q] = {}
                            /\ hit'[q] = << >> /\ scan'[q] = Foreign
                            /\ Len(hit'[q]) * BlockSize <= computed'[q]
              /\ q \notin R => /\ computed'[q] = computed[q] /\ nulled'[q] = nulled[q]
                               /\ hit'[q] = hit[q] /\ scan'[q] = scan[q]
  BY <1>2, FreeIs
<1>5. TypeOK'
  <2>1. status' \in [Reqs -> {"absent", "waiting", "running", "done"}]
        /\ prompt' \in [Reqs -> Prompts \cup {NoPrompt}]
    BY DEF TypeOK, Finish
  <2>2. gen' \in [Reqs -> 0 .. MaxGen]
    BY Constants DEF TypeOK, Finish
  <2>3. computed' \in [Reqs -> Nat] /\ scan' \in [Reqs -> Nat \cup {Foreign, Mixed}]
        /\ nulled' \in [Reqs -> SUBSET Nat]
    BY DEF TypeOK, Finish, Free
  <2>4. \A q \in Reqs : q \in Active' => prompt'[q] \in Prompts
    BY <1>3 DEF TypeOK, Active
  <2>5. \A q \in Reqs : \A b \in nulled'[q] : b \in Nat /\ (b + 1) * BlockSize <= computed'[q]
    BY <1>4 DEF TypeOK
  <2>6. \A q \in Reqs : Len(hit'[q]) * BlockSize <= computed'[q]
    BY <1>4 DEF TypeOK
  <2>7. hit' \in [Reqs -> Seq(Prompts)]
    BY EmptySeq DEF TypeOK, Finish, Free
  <2> QED
    BY <1>2, <2>1, <2>2, <2>3, <2>4, <2>5, <2>6, <2>7 DEF TypeOK
<1>6. BatchInv'
  BY <1>2, <1>3, <1>4 DEF BatchInv
<1>7. NulledInv'
  BY <1>2, <1>3, <1>4 DEF NulledInv
<1>8. FreedInv' /\ SliceInv'
  BY <1>2 DEF FreedInv, SliceInv, Clamped
<1>9. ScanInv'
  BY <1>2, <1>4 DEF ScanInv, Carries
<1> QED
  BY <1>5, <1>6, <1>7, <1>8, <1>9

\* A request is aborted.
LEMMA FinishRequestsIInv ==
    ASSUME IInv, NEW R \in SUBSET Reqs, FinishRequests(R)
    PROVE  IInv'
<1> USE DEF IInv, FinishRequests
<1>1. /\ engineReg' = engineReg \ R
      /\ workerReg' = IF cfg.oneProcess THEN engineReg' ELSE workerReg
  BY DEF SetEngineReg
<1>2. \A q \in Reqs : status'[q] = IF q \in R THEN "done" ELSE status[q]
  BY DEF Finish
<1>3. cfg' = cfg /\ phase' = phase /\ batch' = batch /\ runner' = runner /\ phase = "engine"
  BY DEF Finish, BetweenSteps
<1>4. Active' = Active \ R
  BY <1>2 DEF Active
<1>5. RegInv'
  BY <1>1, <1>2, <1>3, <1>4 DEF RegInv
<1>6. engineReg' \subseteq Reqs /\ workerReg' \subseteq Reqs
  BY <1>1 DEF TypeOK
<1> QED
  BY <1>5, <1>6, FinishIInv

\* All requests are aborted at once.
LEMMA FinishAllIInv ==
    ASSUME IInv, FinishAll
    PROVE  IInv'
<1> USE DEF IInv, FinishAll
<1>1. Active \in SUBSET Reqs
  BY DEF Active
<1>2. engineReg' = {} /\ workerReg' = IF cfg.oneProcess THEN {} ELSE workerReg
  BY DEF SetEngineReg
<1>3. \A q \in Reqs : status'[q] = IF q \in Active THEN "done" ELSE status[q]
  BY DEF Finish
<1>4. Active' = {} /\ \A q \in Reqs : status'[q] # "running"
  BY <1>3 DEF Active
<1>5. phase' = "engine"
  BY DEF Finish, BetweenSteps
<1>6. RegInv'
  BY <1>4, <1>5 DEF RegInv
<1>7. engineReg' \subseteq Reqs /\ workerReg' \subseteq Reqs
  BY <1>2 DEF TypeOK
<1> QED
  BY <1>1, <1>6, <1>7, FinishIInv

\* A request stops by itself.
LEMMA CompleteIInv ==
    ASSUME IInv, NEW r \in Reqs, Complete(r)
    PROVE  IInv'
<1> USE DEF IInv, Complete
<1>1. \A q \in Reqs : status'[q] = IF q \in {r} THEN "done" ELSE status[q]
  BY DEF Finish
<1>2. cfg' = cfg /\ phase' = phase /\ batch' = batch /\ runner' = runner /\ phase = "engine"
  BY DEF Finish, BetweenSteps
<1>3. Active' \subseteq Active
  BY <1>1 DEF Active
<1>4. RegInv'
  BY <1>1, <1>2, <1>3 DEF RegInv
<1>5. engineReg' \subseteq Reqs /\ workerReg' \subseteq Reqs
  BY DEF TypeOK
<1> QED
  BY <1>4, <1>5, FinishIInv

\* A request is preempted and loses its blocks.
LEMMA PreemptIInv ==
    ASSUME IInv, NEW r \in Reqs, Preempt(r)
    PROVE  IInv'
<1> USE DEF IInv, Preempt
<1>1. TypeOK /\ BatchInv /\ RegInv /\ NulledInv /\ FreedInv /\ ScanInv /\ SliceInv
  OBVIOUS
<1>2. \A q \in Reqs : status'[q] = IF q = r THEN "waiting" ELSE status[q]
  BY DEF TypeOK
<1>3. \A q \in Reqs :
              /\ q \in {r} => /\ computed'[q] = 0 /\ nulled'[q] = {}
                              /\ hit'[q] = << >> /\ scan'[q] = Foreign
                              /\ Len(hit'[q]) * BlockSize <= computed'[q]
              /\ q \notin {r} => /\ computed'[q] = computed[q] /\ nulled'[q] = nulled[q]
                                 /\ hit'[q] = hit[q] /\ scan'[q] = scan[q]
  BY FreeIs
<1>4. Active' = Active
  BY <1>2 DEF Active
<1>5. TypeOK'
  <2>1. status' \in [Reqs -> {"absent", "waiting", "running", "done"}]
    BY DEF TypeOK
  <2>2. computed' \in [Reqs -> Nat] /\ scan' \in [Reqs -> Nat \cup {Foreign, Mixed}]
        /\ nulled' \in [Reqs -> SUBSET Nat]
    BY DEF TypeOK, Free
  <2>3. \A q \in Reqs : \A b \in nulled'[q] : b \in Nat /\ (b + 1) * BlockSize <= computed'[q]
    BY <1>3 DEF TypeOK
  <2>4. \A q \in Reqs : Len(hit'[q]) * BlockSize <= computed'[q]
    BY <1>3 DEF TypeOK
  <2>5. hit' \in [Reqs -> Seq(Prompts)]
    BY EmptySeq DEF TypeOK, Free
  <2> QED
    BY <1>4, <2>1, <2>2, <2>3, <2>4, <2>5 DEF TypeOK
<1>6. BatchInv'
  BY <1>2, <1>3 DEF BatchInv
<1>7. RegInv'
  BY <1>2, <1>4 DEF RegInv
<1>8. NulledInv'
  BY <1>3 DEF NulledInv
<1>9. FreedInv'
  <2> SUFFICES ASSUME cfg'.physical, NEW q \in Reqs, batch'[q] > 0,
                      computed'[q] > Len(hit'[q]) * BlockSize
               PROVE  \A b \in 0 .. CeilDiv(computed'[q], BlockSize) - 1 :
                          BlockTokens(b) \subseteq EvictedSpans(cfg', prompt'[q], computed'[q]) =>
                              b \in nulled'[q]
    BY DEF FreedInv
  <2>1. q \notin {r}
    OBVIOUS
  <2> QED
    BY <1>3, <2>1 DEF FreedInv
<1>10. ScanInv' /\ SliceInv'
  BY <1>3 DEF ScanInv, SliceInv, Carries, Clamped
<1> QED
  BY <1>5, <1>6, <1>7, <1>8, <1>9, <1>10

\* A block of evicted tokens lies below the tokens computed so far.
LEMMA BlockBelow ==
    ASSUME NEW c \in Configs, NEW p \in Prompts, NEW n \in Nat, NEW b \in Nat,
           BlockTokens(b) \subseteq EvictedSpans(c, p, n)
    PROVE  (b + 1) * BlockSize <= n
<1>1. BlockSize \in Nat \ {0}
  BY Constants
<1>2. /\ b * BlockSize \in Nat /\ (b + 1) * BlockSize = b * BlockSize + BlockSize
  BY <1>1
<1>3. (b + 1) * BlockSize - 1 \in BlockTokens(b)
  BY <1>1, <1>2 DEF BlockTokens
<1>4. (b + 1) * BlockSize - 1 < n - 1
  BY <1>3, SpansBelow
<1> QED
  BY <1>1, <1>2, <1>4

\* What a registered request has freed.
LEMMA EvictedBlocksAre ==
    ASSUME TypeOK, BatchInv, NEW r \in Reqs, status[r] = "running", r \in engineReg
    PROVE  EvictedBlocks(r, computed[r]) =
               {b \in 0 .. CeilDiv(computed[r], BlockSize) - 1 :
                   BlockTokens(b) \subseteq EvictedSpans(cfg, prompt[r], computed[r])}
<1>1. /\ cfg \in Configs /\ prompt[r] \in Prompts
      /\ computed[r] \in 0 .. prompt[r].len + MaxGen
  BY RequestFacts
<1>2. SpansAt[cfg][prompt[r]][computed[r]] = EvictedSpans(cfg, prompt[r], computed[r])
  BY <1>1, SpansAtIs
<1>3. EvictedBlocks(r, computed[r]) =
               {b \in 0 .. CeilDiv(computed[r], BlockSize) - 1 :
                   BlockTokens(b) \subseteq SpansAt[cfg][prompt[r]][computed[r]]}
  BY DEF EvictedBlocks
<1> QED
  BY <1>2, <1>3

\* A running request gets a batch of tokens.
LEMMA ScheduleIInv ==
    ASSUME IInv, NEW r \in Reqs, NEW n \in 1 .. SliceMax, Schedule(r, n)
    PROVE  IInv'
<1>1. TypeOK /\ BatchInv /\ RegInv /\ NulledInv /\ FreedInv /\ ScanInv /\ SliceInv
  BY DEF IInv
<1>0. /\ phase = "engine" /\ status[r] = "running" /\ batch[r] = 0 /\ gen[r] < MaxGen
      /\ n <= prompt[r].len + gen[r] - computed[r]
      /\ batch' = [batch EXCEPT ![r] = Slice(r, computed[r], n)]
      /\ UNCHANGED <<cfg, phase, status, prompt, computed, gen, engineReg, workerReg,
                     runner, cached, hit, scan, cachedScan>>
  BY DEF Schedule
<1> USE <1>1
<1> DEFINE d == computed[r]
           k == Slice(r, d, n)
           freed == {b \in 0 .. CeilDiv(d, BlockSize) - 1 :
                        BlockTokens(b) \subseteq EvictedSpans(cfg, prompt[r], d)}
<1>2. /\ cfg \in Configs /\ d \in Nat /\ gen[r] \in 0 .. MaxGen
      /\ prompt[r] \in Prompts /\ prompt[r].len \in Nat \ {0}
      /\ BlockSize \in Nat \ {0} /\ SliceMax \in Nat /\ MaxGen \in Nat
      /\ n \in Nat \ {0}
  BY <1>0, RequestFacts, Constants
<1>3. r \in engineReg
  BY <1>0 DEF RegInv
<1>4. k \in 1 .. n /\ (cfg.mode = "stride" /\ cfg.clamp => d + k <= ChunkEnd(prompt[r], d))
  BY <1>2, <1>3, SliceIs
<1>5. EvictedBlocks(r, d) = freed
  BY <1>0, <1>3, EvictedBlocksAre
<1>6. \A b \in freed : b \in Nat /\ (b + 1) * BlockSize <= d
  <2> SUFFICES ASSUME NEW b \in freed PROVE b \in Nat /\ (b + 1) * BlockSize <= d
    OBVIOUS
  <2>1. b \in Nat /\ BlockTokens(b) \subseteq EvictedSpans(cfg, prompt[r], d)
    OBVIOUS
  <2> QED
    BY <1>2, <2>1, BlockBelow
<1>7. \A q \in Reqs : batch'[q] = IF q = r THEN k ELSE batch[q]
  BY <1>0 DEF TypeOK
<1>8. /\ \A q \in Reqs : q # r => nulled'[q] = nulled[q]
      /\ nulled'[r] \in {nulled[r], nulled[r] \cup freed}
      /\ cfg.physical => nulled'[r] = nulled[r] \cup freed
      /\ nulled' \in [Reqs -> SUBSET Nat]
  <2>1. nulled' = nulled \/ nulled' = [nulled EXCEPT ![r] = @ \cup freed]
    BY <1>5 DEF Schedule
  <2>2. cfg.physical => nulled' = [nulled EXCEPT ![r] = @ \cup freed]
    BY <1>5 DEF Schedule
  <2>3. freed \subseteq Nat
    BY <1>6
  <2> HIDE DEF freed
  <2> QED
    BY <2>1, <2>2, <2>3 DEF TypeOK
<1> HIDE DEF freed, k
<1>9. TypeOK'
  <2>1. batch' \in [Reqs -> 0 .. SliceMax]
    <3>1. k \in 0 .. SliceMax
      BY <1>2, <1>4
    <3> QED
      BY <1>0, <3>1 DEF TypeOK, k
  <2>2. \A q \in Reqs : \A b \in nulled'[q] : (b + 1) * BlockSize <= computed[q]
    BY <1>6, <1>8 DEF TypeOK
  <2> QED
    BY <1>0, <1>8, <2>1, <2>2 DEF TypeOK, Active
<1>10. BatchInv'
  <2>1. computed[r] + k <= prompt[r].len + gen[r]
    BY <1>0, <1>2, <1>4
  <2> QED
    BY <1>0, <1>7, <1>8, <2>1 DEF BatchInv
<1>11. RegInv'
  <2>1. Active' = Active
    BY <1>0 DEF Active
  <2>2. k # 0
    BY <1>2, <1>4
  <2> QED
    BY <1>0, <1>7, <2>1, <2>2 DEF RegInv
<1>12. NulledInv'
  <2> SUFFICES ASSUME NEW q \in Reqs, NEW b \in nulled'[q]
               PROVE  BlockTokens(b) \subseteq EvictedSpans(cfg, prompt[q], computed[q])
    BY <1>0 DEF NulledInv
  <2>1. CASE b \in nulled[q]
    BY <2>1 DEF NulledInv
  <2>2. CASE q = r /\ b \in freed
    BY <2>2 DEF freed
  <2> QED
    BY <1>8, <2>1, <2>2
<1>13. FreedInv'
  <2> SUFFICES ASSUME cfg.physical, NEW q \in Reqs, batch'[q] > 0,
                      computed[q] > Len(hit[q]) * BlockSize,
                      NEW b \in 0 .. CeilDiv(computed[q], BlockSize) - 1,
                      BlockTokens(b) \subseteq EvictedSpans(cfg, prompt[q], computed[q])
               PROVE  b \in nulled'[q]
    BY <1>0 DEF FreedInv
  <2>1. CASE q = r
    BY <1>8, <2>1 DEF freed
  <2>2. CASE q # r
    BY <1>7, <1>8, <2>2 DEF FreedInv
  <2> QED
    BY <2>1, <2>2
<1>14. ScanInv'
  BY <1>0 DEF ScanInv, Carries
<1>15. SliceInv'
  BY <1>0, <1>4, <1>7 DEF SliceInv, Clamped
<1> QED
  BY <1>9, <1>10, <1>11, <1>12, <1>13, <1>14, <1>15 DEF IInv

\* A waiting request is admitted, with the blocks its prefix hits.
LEMMA AdmitIInv ==
    ASSUME IInv, NEW r \in Reqs, NEW n \in 1 .. SliceMax,
           NEW h \in 0 .. Cardinality(SharedBlocks), Admit(r, n, h)
    PROVE  IInv'
<1>1. TypeOK /\ BatchInv /\ RegInv /\ NulledInv /\ FreedInv /\ ScanInv /\ SliceInv
  BY DEF IInv
<1>0. /\ phase = "engine" /\ status[r] = "waiting"
      /\ \A b \in 0 .. h - 1 : b \in SharedBlocks /\ cached[b] # NoPrompt
      /\ n <= prompt[r].len + gen[r] - h * BlockSize
      /\ status' = [status EXCEPT ![r] = "running"]
      /\ computed' = [computed EXCEPT ![r] = h * BlockSize]
      /\ batch' = [batch EXCEPT ![r] = Slice(r, h * BlockSize, n)]
      /\ hit' = [hit EXCEPT ![r] = [j \in 1 .. h |-> cached[j - 1]]]
      /\ scan' = [scan EXCEPT ![r] = IF h = 0 THEN Foreign ELSE cachedScan[h - 1]]
      /\ UNCHANGED <<cfg, phase, prompt, gen, nulled, engineReg, workerReg, runner, cached,
                     cachedScan>>
  BY DEF Admit
<1> USE <1>1
<1> DEFINE d == h * BlockSize
           k == Slice(r, d, n)
           held == [j \in 1 .. h |-> cached[j - 1]]
<1>2. /\ cfg \in Configs /\ gen[r] \in 0 .. MaxGen
      /\ prompt[r] \in Prompts /\ prompt[r].len \in Nat \ {0}
      /\ BlockSize \in Nat \ {0} /\ SliceMax \in Nat /\ MaxGen \in Nat
      /\ n \in Nat \ {0}
  BY <1>0, RequestFacts, Constants
<1>3. h \in Nat
  <2>1. Shared \div BlockSize \in Nat
    BY <1>2, ServeAssumption, Division
  <2>2. Cardinality(SharedBlocks) \in Nat
    <3>1. IsFiniteSet(SharedBlocks)
      BY <2>1, FS_Interval DEF SharedBlocks
    <3> QED
      BY <3>1, FS_CardinalityType
  <2> QED
    BY <2>2
<1>4. d \in Nat /\ (h # 0 => d > 0) /\ (h = 0 => d = 0)
  BY <1>2, <1>3
<1>5. held \in Seq(Prompts) /\ Len(held) = h
  <2>1. \A j \in 1 .. h : cached[j - 1] \in Prompts
    BY <1>0, <1>3 DEF TypeOK
  <2> QED
    BY <1>3, <2>1
<1>6. /\ k \in 1 .. n
      /\ cfg.mode = "stride" /\ cfg.clamp /\ ~cfg.oneProcess => d + k <= ChunkEnd(prompt[r], d)
  <2>1. ~cfg.oneProcess => r \in engineReg
    BY <1>0 DEF RegInv, Active
  <2> QED
    BY <1>2, <1>4, <2>1, SliceIs
<1>7. \A q \in Reqs : /\ batch'[q] = IF q = r THEN k ELSE batch[q]
                      /\ status'[q] = IF q = r THEN "running" ELSE status[q]
                      /\ computed'[q] = IF q = r THEN d ELSE computed[q]
                      /\ hit'[q] = IF q = r THEN held ELSE hit[q]
                      /\ scan'[q] = IF q = r THEN (IF h = 0 THEN Foreign ELSE cachedScan[h - 1]) ELSE scan[q]
  BY <1>0 DEF TypeOK
<1>8. nulled' = nulled /\ nulled[r] = {} /\ gen[r] < MaxGen
  BY <1>0 DEF BatchInv
<1>9. Active' = Active
  BY <1>0, <1>7 DEF Active
<1> HIDE DEF k, held
<1>10. TypeOK'
  <2>1. batch' \in [Reqs -> 0 .. SliceMax]
    <3>1. k \in 0 .. SliceMax
      BY <1>2, <1>6
    <3> QED
      BY <1>0, <3>1 DEF TypeOK, k
  <2>2. status' \in [Reqs -> {"absent", "waiting", "running", "done"}]
    BY <1>0 DEF TypeOK
  <2>3. computed' \in [Reqs -> Nat] /\ scan' \in [Reqs -> Nat \cup {Foreign, Mixed}]
    <3>1. h # 0 => cachedScan[h - 1] \in Nat \cup {Foreign, Mixed}
      BY <1>0, <1>3 DEF TypeOK
    <3> QED
      BY <1>0, <1>4, <3>1 DEF TypeOK
  <2>4. hit' \in [Reqs -> Seq(Prompts)]
    BY <1>0, <1>5 DEF TypeOK, held
  <2>5. \A q \in Reqs : Len(hit'[q]) * BlockSize <= computed'[q]
    <3>1. Len(hit'[r]) * BlockSize = computed'[r] /\ computed'[r] \in Nat
      <4>1. hit'[r] = held /\ Len(held) = h /\ computed'[r] = d /\ h * BlockSize = d
        BY <1>5, <1>7
      <4> QED
        BY <1>4, <4>1
    <3>2. \A q \in Reqs : q # r => hit'[q] = hit[q] /\ computed'[q] = computed[q]
      BY <1>7
    <3>3. \A q \in Reqs : Len(hit[q]) * BlockSize <= computed[q]
      BY DEF TypeOK
    <3> QED
      BY <3>1, <3>2, <3>3
  <2>6. \A q \in Reqs : \A b \in nulled'[q] : (b + 1) * BlockSize <= computed'[q]
    BY <1>7, <1>8 DEF TypeOK
  <2> QED
    BY <1>0, <1>9, <2>1, <2>2, <2>3, <2>4, <2>5, <2>6 DEF TypeOK
<1> HIDE DEF d
<1>11. BatchInv'
  <2>1. d + k <= prompt[r].len + gen[r]
    BY <1>0, <1>2, <1>4, <1>6, SMTT(30) DEF d
  <2>2. ASSUME NEW q \in Reqs, q # r
        PROVE  /\ batch'[q] = batch[q] /\ status'[q] = status[q] /\ computed'[q] = computed[q]
               /\ hit'[q] = hit[q] /\ nulled'[q] = nulled[q] /\ gen'[q] = gen[q]
               /\ prompt'[q] = prompt[q]
    BY <1>0, <1>7, <2>2
  <2>3. /\ status'[r] = "running" /\ gen'[r] < MaxGen
        /\ computed'[r] + batch'[r] <= prompt'[r].len + gen'[r]
    BY <1>0, <1>7, <1>8, <2>1
  <2> QED
    BY <2>2, <2>3 DEF BatchInv
<1>12. RegInv'
  <2>1. k # 0
    BY <1>2, <1>6
  <2> QED
    BY <1>0, <1>7, <1>9, <2>1 DEF RegInv
<1>13. NulledInv'
  BY <1>0, <1>7, <1>8 DEF NulledInv
<1>14. FreedInv'
  <2> SUFFICES ASSUME cfg.physical, NEW q \in Reqs, batch'[q] > 0,
                      computed'[q] > Len(hit'[q]) * BlockSize
               PROVE  \A b \in 0 .. CeilDiv(computed'[q], BlockSize) - 1 :
                          BlockTokens(b) \subseteq EvictedSpans(cfg, prompt[q], computed'[q]) =>
                              b \in nulled[q]
    BY <1>0 DEF FreedInv
  <2>1. q # r
    <3>1. Len(hit'[r]) * BlockSize = computed'[r] /\ computed'[r] \in Nat
      BY <1>4, <1>5, <1>7 DEF d
    <3> QED
      BY <3>1
  <2> QED
    BY <1>7, <2>1 DEF FreedInv
<1>15. ScanInv'
  <2>1. h = 0 => computed'[r] = 0 /\ scan'[r] = Foreign
    BY <1>4, <1>7
  <2>2. h # 0 => computed'[r] # 0 /\ scan'[r] = cachedScan[h - 1]
    BY <1>4, <1>7
  <2>3. h # 0 => Carries(cachedScan[h - 1], d)
    <3> SUFFICES ASSUME h # 0 PROVE Carries(cachedScan[h - 1], d)
      OBVIOUS
    <3>1. h - 1 \in 0 .. h - 1 /\ (h - 1) + 1 = h
      BY <1>3
    <3>2. Carries(cachedScan[h - 1], ((h - 1) + 1) * BlockSize)
      BY <1>0, <3>1 DEF ScanInv
    <3> QED
      BY <3>1, <3>2 DEF d
  <2>4. IF computed'[r] = 0 THEN scan'[r] = Foreign ELSE Carries(scan'[r], computed'[r])
    BY <1>7, <2>1, <2>2, <2>3
  <2>5. cfg' = cfg /\ cached' = cached /\ cachedScan' = cachedScan
    BY <1>0
  <2> QED
    BY <1>7, <2>4, <2>5 DEF ScanInv, Carries
<1>16. SliceInv'
  <2> SUFFICES ASSUME cfg.mode = "stride", cfg.clamp, NEW q \in Reqs, batch'[q] > 0, Clamped(q)'
               PROVE  computed'[q] + batch'[q] <= ChunkEnd(prompt[q], computed'[q])
    BY <1>0 DEF SliceInv
  <2>1. CASE q = r
    <3>1. Len(hit'[r]) * BlockSize = computed'[r] /\ computed'[r] \in Nat
      BY <1>4, <1>5, <1>7 DEF d
    <3>2. ~cfg.oneProcess
      BY <1>0, <2>1, <3>1 DEF Clamped
    <3> QED
      BY <1>6, <1>7, <2>1, <3>2
  <2>2. CASE q # r
    <3>1. batch[q] > 0 /\ Clamped(q)
      BY <1>0, <1>7, <2>2 DEF Clamped
    <3> QED
      BY <1>7, <2>2, <3>1 DEF SliceInv
  <2> QED
    BY <2>1, <2>2
<1> QED
  BY <1>10, <1>11, <1>12, <1>13, <1>14, <1>15, <1>16 DEF IInv

\* An id is used again.
LEMMA RecycleIInv ==
    ASSUME IInv, NEW b \in SharedBlocks, Recycle(b)
    PROVE  IInv'
<1> USE DEF IInv, Recycle
<1>1. /\ cached' \in [SharedBlocks -> Prompts \cup {NoPrompt}]
      /\ cachedScan' \in [SharedBlocks -> Nat \cup {Foreign, Mixed}]
      /\ \A c \in SharedBlocks : cached'[c] # NoPrompt =>
            cached[c] # NoPrompt /\ cachedScan'[c] = cachedScan[c]
  BY DEF TypeOK
<1>2. TypeOK'
  BY <1>1 DEF TypeOK, Active
<1>3. BatchInv' /\ RegInv' /\ ScanInv'
  <2>1. ScanInv'
    BY <1>1 DEF ScanInv, Carries
  <2> QED
    BY <2>1 DEF BatchInv, RegInv, Active
<1>4. NulledInv' /\ FreedInv' /\ SliceInv'
  BY DEF NulledInv, FreedInv, SliceInv, Clamped
<1> QED
  BY <1>2, <1>3, <1>4

\* The registrations travel to the worker with the batch.
LEMMA DispatchIInv ==
    ASSUME IInv, Dispatch
    PROVE  IInv'
<1> USE DEF IInv, Dispatch
<1>1. TypeOK'
  BY DEF TypeOK, Active
<1>2. BatchInv' /\ RegInv' /\ ScanInv'
  BY DEF BatchInv, RegInv, ScanInv, Carries, Active
<1>3. NulledInv' /\ FreedInv' /\ SliceInv'
  BY DEF NulledInv, FreedInv, SliceInv, Clamped
<1> QED
  BY <1>1, <1>2, <1>3

\* The runner takes the new requests in.
LEMMA UpdateStatesIInv ==
    ASSUME IInv, UpdateStates
    PROVE  IInv'
<1> USE DEF IInv, UpdateStates
<1>1. /\ workerReg' = runner'
      /\ engineReg' = IF cfg.oneProcess THEN runner' ELSE engineReg
  BY DEF SetWorkerReg
<1>2. runner' \subseteq Reqs
  BY DEF TypeOK
<1>3. TypeOK'
  BY <1>1, <1>2 DEF TypeOK, Active
<1>4. \A q \in Reqs : status[q] = "running" =>
          /\ q \in runner'
          /\ ~cfg.oneProcess => q \in engineReg
  BY DEF RegInv, TypeOK, Active
<1>5. RegInv'
  BY <1>1, <1>4 DEF RegInv, Active
<1>6. BatchInv' /\ ScanInv'
  BY DEF BatchInv, ScanInv, Carries
<1>7. NulledInv' /\ FreedInv' /\ SliceInv'
  BY DEF NulledInv, FreedInv, SliceInv, Clamped
<1> QED
  BY <1>3, <1>5, <1>6, <1>7

\* A slice starts from the states of the tokens before it, or carries on those
\* another request left behind.
LEMMA InitialStateIs ==
    ASSUME ScanInv, TypeOK, NEW r \in Reqs, batch[r] > 0
    PROVE  \/ InitialState(r) = computed[r]
           \/ InitialState(r) = Foreign /\ FirstTokenDecoded(r)
           \/ InitialState(r) = Mixed /\ computed[r] > 0 /\ ~cfg.tokenPrefill
<1>1. computed[r] \in Nat /\ \A q \in Reqs : batch[q] \in Nat
  BY DEF TypeOK
<1>2. CASE computed[r] = 0 /\ HasPrefills
  BY <1>2 DEF InitialState
<1>3. CASE computed[r] = 0 /\ ~HasPrefills
  <2>1. InitialState(r) = Foreign
    BY <1>3 DEF InitialState, ScanInv
  <2>2. \A q \in Reqs : batch[q] <= 1
    BY <1>1, <1>3 DEF HasPrefills
  <2>3. batch[r] = 1
    BY <1>1, <2>2
  <2> QED
    BY <1>3, <2>1, <2>2, <2>3 DEF HasPrefills, FirstTokenDecoded
<1>4. CASE computed[r] # 0
  BY <1>1, <1>4 DEF InitialState, ScanInv, Carries
<1> QED
  BY <1>2, <1>3, <1>4

\* What the slice does to them.
LEMMA ScannedIs ==
    ASSUME ScanInv, TypeOK, NEW r \in Reqs, batch[r] > 0, NEW n \in Nat
    PROVE  Carries(Scanned(InitialState(r), n), computed[r] + n)
<1>1. computed[r] \in Nat
  BY DEF TypeOK
<1>2. CASE InitialState(r) = computed[r]
  BY <1>1, <1>2 DEF Scanned, Carries
<1>3. CASE InitialState(r) \in {Foreign, Mixed} /\ ~cfg.tokenPrefill
  BY <1>3 DEF Scanned, Carries, Foreign, Mixed
<1> QED
  BY <1>2, <1>3, InitialStateIs DEF FirstTokenDecoded

\* A block is cached with the states at its end.
LEMMA CachedIs ==
    ASSUME IInv, Execute
    PROVE  /\ cached' \in [SharedBlocks -> Prompts \cup {NoPrompt}]
           /\ DOMAIN cachedScan' = SharedBlocks
           /\ \A b \in SharedBlocks :
                 \/ cached'[b] = cached[b] /\ cachedScan'[b] = cachedScan[b]
                 \/ Carries(cachedScan'[b], (b + 1) * BlockSize)
<1>1. TypeOK /\ BatchInv /\ ScanInv
  BY DEF IInv
<1> DEFINE new == {b \in SharedBlocks : cached[b] = NoPrompt /\ \E r \in Reqs : b \in Filled(r)}
<1>2. PICK filler \in [new -> Reqs] :
              /\ \A b \in new : b \in Filled(filler[b])
              /\ cached' = [b \in SharedBlocks |->
                               IF b \in new THEN prompt[filler[b]] ELSE cached[b]]
              /\ cachedScan' = [b \in SharedBlocks |->
                    IF b \in new
                    THEN Scanned(InitialState(filler[b]), (b + 1) * BlockSize - computed[filler[b]])
                    ELSE cachedScan[b]]
  BY DEF Execute
<1> HIDE DEF new
<1>3. ASSUME NEW b \in SharedBlocks, b \in new
      PROVE  /\ prompt[filler[b]] \in Prompts
             /\ Carries(cachedScan'[b], (b + 1) * BlockSize)
  <2> DEFINE q == filler[b]
             n == (b + 1) * BlockSize - computed[q]
  <2>1. q \in Reqs /\ b \in Filled(q)
    BY <1>2, <1>3
  <2> HIDE DEF q
  <2>2. /\ computed[q] \in Nat /\ batch[q] \in Nat
        /\ batch[q] > 0 => status[q] = "running"
        /\ status[q] \in {"running", "waiting"} => prompt[q] \in Prompts
    BY <1>1, <2>1, RequestFacts
  <2>3. b \in Nat /\ (b + 1) * BlockSize \in Nat
    <3>1. b \in Nat
      BY <1>3 DEF SharedBlocks
    <3> QED
      BY <3>1, Constants
  <2>4. computed[q] < (b + 1) * BlockSize /\ (b + 1) * BlockSize <= computed[q] + batch[q]
    BY <2>1 DEF Filled
  <2>5. n \in Nat /\ batch[q] > 0 /\ computed[q] + n = (b + 1) * BlockSize
    BY <2>2, <2>3, <2>4
  <2> HIDE DEF n
  <2>6. Carries(Scanned(InitialState(q), n), computed[q] + n)
    BY <1>1, <2>1, <2>5, ScannedIs
  <2>7. cachedScan'[b] = Scanned(InitialState(q), n)
    BY <1>2, <1>3 DEF q, n
  <2>8. prompt[q] \in Prompts
    BY <2>2, <2>5
  <2> QED
    BY <2>5, <2>6, <2>7, <2>8 DEF q
<1>4. cached' \in [SharedBlocks -> Prompts \cup {NoPrompt}]
  BY <1>1, <1>2, <1>3 DEF TypeOK
<1>5. DOMAIN cachedScan' = SharedBlocks
  BY <1>2
<1> QED
  BY <1>2, <1>3, <1>4, <1>5

\* The batch is computed.
LEMMA ExecuteIInv ==
    ASSUME IInv, Execute
    PROVE  IInv'
<1> USE DEF IInv, Execute
<1>1. TypeOK /\ BatchInv /\ RegInv /\ NulledInv /\ FreedInv /\ ScanInv /\ SliceInv
  OBVIOUS
<1>2. \A q \in Reqs :
          /\ computed[q] \in Nat /\ batch[q] \in Nat /\ gen[q] \in 0 .. MaxGen
          /\ MaxGen \in Nat
          /\ (batch[q] > 0 => status[q] = "running" /\ gen[q] < MaxGen)
  BY Constants DEF TypeOK, BatchInv
<1>3. \A q \in Reqs : /\ computed'[q] = computed[q] + batch[q]
                      /\ computed'[q] \in Nat
                      /\ computed[q] <= computed'[q]
                      /\ batch'[q] = 0
                      /\ gen'[q] = IF batch[q] > 0 /\ computed[q] + batch[q] = prompt[q].len + gen[q]
                                   THEN gen[q] + 1 ELSE gen[q]
  BY <1>2
<1>4. \A q \in Reqs : IF batch[q] > 0 THEN Carries(scan'[q], computed'[q]) ELSE scan'[q] = scan[q]
  <2> SUFFICES ASSUME NEW q \in Reqs, batch[q] > 0 PROVE Carries(scan'[q], computed'[q])
    OBVIOUS
  <2>1. Carries(Scanned(InitialState(q), batch[q]), computed[q] + batch[q])
    BY <1>2, ScannedIs
  <2>2. scan'[q] = Scanned(InitialState(q), batch[q])
    OBVIOUS
  <2> QED
    BY <1>3, <2>1, <2>2
<1>5. ASSUME NEW q \in Reqs, NEW b \in nulled[q]
      PROVE  /\ b \in Nat /\ (b + 1) * BlockSize <= computed'[q]
             /\ BlockTokens(b) \subseteq EvictedSpans(cfg, prompt[q], computed'[q])
  <2>1. b \in Nat /\ (b + 1) * BlockSize <= computed[q]
    BY DEF TypeOK
  <2>2. (b + 1) * BlockSize \in Nat
    BY <2>1, Constants
  <2>3. status[q] = "running"
    BY DEF BatchInv
  <2>4. cfg \in Configs /\ prompt[q] \in Prompts
    BY <2>3, RequestFacts
  <2>5. EvictedSpans(cfg, prompt[q], computed[q]) \subseteq EvictedSpans(cfg, prompt[q], computed'[q])
    BY <1>2, <1>3, <2>4, SpansMono
  <2> QED
    BY <1>2, <1>3, <2>1, <2>2, <2>5 DEF NulledInv
<1>6. TypeOK'
  <2>1. computed' \in [Reqs -> Nat] /\ batch' \in [Reqs -> 0 .. SliceMax]
    BY <1>2, Constants
  <2>2. gen' \in [Reqs -> 0 .. MaxGen]
    BY <1>2
  <2>3. scan' \in [Reqs -> Nat \cup {Foreign, Mixed}]
    <3>1. scan' = [q \in Reqs |-> scan'[q]]
      OBVIOUS
    <3>2. \A q \in Reqs : scan'[q] \in Nat \cup {Foreign, Mixed}
      BY <1>3, <1>4 DEF TypeOK, Carries
    <3> QED
      BY <3>1, <3>2
  <2>4. /\ cached' \in [SharedBlocks -> Prompts \cup {NoPrompt}]
        /\ cachedScan' \in [SharedBlocks -> Nat \cup {Foreign, Mixed}]
    <3>1. \A b \in SharedBlocks : (b + 1) * BlockSize \in Nat
      BY Constants DEF SharedBlocks
    <3>2. \A b \in SharedBlocks : cachedScan'[b] \in Nat \cup {Foreign, Mixed}
      BY CachedIs, <3>1 DEF TypeOK, Carries
    <3>3. cachedScan' = [b \in SharedBlocks |-> cachedScan'[b]]
      OBVIOUS
    <3> QED
      BY CachedIs, <3>2, <3>3
  <2>5. \A q \in Reqs : Len(hit'[q]) * BlockSize <= computed'[q]
    <3> SUFFICES ASSUME NEW q \in Reqs PROVE Len(hit[q]) * BlockSize <= computed'[q]
      OBVIOUS
    <3>1. Len(hit[q]) \in Nat
      BY LenProperties DEF TypeOK
    <3>2. Len(hit[q]) * BlockSize \in Nat
      BY <3>1, Constants
    <3> QED
      BY <1>2, <1>3, <3>2 DEF TypeOK
  <2>6. \A q \in Reqs : \A b \in nulled'[q] : b \in Nat /\ (b + 1) * BlockSize <= computed'[q]
    BY <1>5
  <2> QED
    BY <2>1, <2>2, <2>3, <2>4, <2>5, <2>6 DEF TypeOK, Active
<1>7. BatchInv'
  <2> SUFFICES ASSUME NEW q \in Reqs
               PROVE  /\ batch'[q] > 0 => status'[q] = "running" /\ gen'[q] < MaxGen
                      /\ status'[q] = "waiting" => gen'[q] < MaxGen
                      /\ status'[q] = "running" => computed'[q] + batch'[q] <= prompt'[q].len + gen'[q]
                      /\ status'[q] = "absent" => gen'[q] = 0
                      /\ status'[q] # "running" => computed'[q] = 0 /\ nulled'[q] = {} /\ hit'[q] = << >>
    BY DEF BatchInv
  <2>1. status[q] # "running" => batch[q] = 0 /\ gen'[q] = gen[q] /\ computed'[q] = computed[q]
    BY <1>2, <1>3
  <2>2. status[q] = "running" => computed'[q] + batch'[q] <= prompt'[q].len + gen'[q]
    <3> SUFFICES ASSUME status[q] = "running" PROVE computed'[q] <= prompt[q].len + gen'[q]
      BY <1>3
    <3>1. computed[q] + batch[q] <= prompt[q].len + gen[q] /\ prompt[q].len \in Nat
      BY RequestFacts DEF BatchInv
    <3> QED
      BY <1>2, <1>3, <3>1
  <2> QED
    BY <1>3, <2>1, <2>2 DEF BatchInv
<1>8. RegInv'
  BY DEF RegInv, Active
<1>9. NulledInv'
  BY <1>5 DEF NulledInv
<1>10. FreedInv' /\ SliceInv'
  BY <1>3 DEF FreedInv, SliceInv, Clamped
<1>11. ScanInv'
  <2>1. cfg' = cfg
    OBVIOUS
  <2>2. ASSUME NEW q \in Reqs
        PROVE  IF computed'[q] = 0 THEN scan'[q] = Foreign ELSE Carries(scan'[q], computed'[q])
    <3>1. batch[q] > 0 => computed'[q] # 0
      BY <1>2, <1>3
    <3>2. ~(batch[q] > 0) => computed'[q] = computed[q]
      BY <1>2, <1>3
    <3> QED
      BY <1>4, <3>1, <3>2 DEF ScanInv
  <2>3. \A b \in SharedBlocks : cached'[b] # NoPrompt => Carries(cachedScan'[b], (b + 1) * BlockSize)
    BY CachedIs DEF ScanInv
  <2> QED
    BY <2>1, <2>2, <2>3 DEF ScanInv, Carries
<1> QED
  BY <1>6, <1>7, <1>8, <1>9, <1>10, <1>11

\* Every reachable state satisfies the invariant.
THEOREM Invariance == Spec => []IInv
<1>1. IInv /\ [Next]_vars => IInv'
  <2> SUFFICES ASSUME IInv, [Next]_vars PROVE IInv'
    OBVIOUS
  <2>1. ASSUME NEW r \in Reqs, NEW p \in Prompts, AddRequest(r, p) PROVE IInv'
    BY <2>1, AddRequestIInv
  <2>2. ASSUME NEW r \in Reqs, NEW n \in 1 .. SliceMax, Schedule(r, n) PROVE IInv'
    BY <2>2, ScheduleIInv
  <2>3. ASSUME NEW r \in Reqs, NEW n \in 1 .. SliceMax,
               NEW h \in 0 .. Cardinality(SharedBlocks), Admit(r, n, h)
        PROVE  IInv'
    BY <2>3, AdmitIInv
  <2>4. ASSUME NEW r \in Reqs, Preempt(r) PROVE IInv'
    BY <2>4, PreemptIInv
  <2>5. ASSUME NEW r \in Reqs, Complete(r) PROVE IInv'
    BY <2>5, CompleteIInv
  <2>6. ASSUME NEW R \in SUBSET Reqs, FinishRequests(R) PROVE IInv'
    BY <2>6, FinishRequestsIInv
  <2>7. CASE FinishAll
    BY <2>7, FinishAllIInv
  <2>8. ASSUME NEW b \in SharedBlocks, Recycle(b) PROVE IInv'
    BY <2>8, RecycleIInv
  <2>9. CASE Dispatch
    BY <2>9, DispatchIInv
  <2>10. CASE UpdateStates
    BY <2>10, UpdateStatesIInv
  <2>11. CASE Execute
    BY <2>11, ExecuteIInv
  <2>12. CASE UNCHANGED vars
    <3> USE <2>12 DEF vars, IInv
    <3>1. TypeOK'
      BY DEF TypeOK, Active
    <3>2. BatchInv' /\ RegInv' /\ ScanInv'
      BY DEF BatchInv, RegInv, ScanInv, Carries, Active
    <3>3. NulledInv' /\ FreedInv' /\ SliceInv'
      BY DEF NulledInv, FreedInv, SliceInv, Clamped
    <3> QED
      BY <3>1, <3>2, <3>3
  <2> QED
    BY <2>1, <2>2, <2>3, <2>4, <2>5, <2>6, <2>7, <2>8, <2>9, <2>10, <2>11, <2>12 DEF Next
<1> QED
  BY InitIInv, <1>1, PTL DEF Spec

-----------------------------------------------------------------------------
\* What the invariant means for a slice that runs.

\* The type invariant holds in every reachable state.
THEOREM TypeCorrect == Spec => []TypeOK
<1>1. IInv => TypeOK
  BY DEF IInv
<1> QED
  BY Invariance, <1>1, PTL

\* What the invariant says of a request in the step the engine is building.
LEMMA ScheduledFacts ==
    ASSUME IInv, NEW r \in Scheduled
    PROVE  /\ r \in Reqs /\ phase = "build" /\ status[r] = "running"
           /\ cfg \in Configs
           /\ prompt[r] \in Prompts /\ prompt[r].len \in Nat \ {0}
           /\ computed[r] \in Nat /\ batch[r] \in Nat \ {0} /\ gen[r] \in Nat
           /\ computed[r] + batch[r] \in 0 .. prompt[r].len + MaxGen
           /\ r \in engineReg /\ r \in workerReg
<1>1. r \in Reqs /\ phase = "build" /\ batch[r] > 0 /\ TypeOK /\ BatchInv /\ RegInv
  BY DEF Scheduled, IInv
<1>2. /\ cfg \in Configs
      /\ computed[r] \in Nat /\ gen[r] \in 0 .. MaxGen /\ batch[r] \in 0 .. SliceMax
      /\ status[r] = "running"
      /\ prompt[r] \in Prompts /\ prompt[r].len \in Nat \ {0}
      /\ computed[r] + batch[r] \in 0 .. prompt[r].len + MaxGen
  BY <1>1, RequestFacts
<1>3. r \in engineReg /\ r \in workerReg
  BY <1>1, <1>2 DEF RegInv
<1> QED
  BY <1>1, <1>2, <1>3

\* gdn2_side.py's continuous scan: every slice starts from the states of
\* exactly the tokens before it, and where vLLM counts a prompt's first token
\* as a decode, from others only after such a token has taken them over.
THEOREM ScanIsContinuous == Spec => []StateIsScan
<1>1. IInv => StateIsScan
  <2> SUFFICES ASSUME IInv, NEW r \in Scheduled
               PROVE  \/ InitialState(r) = computed[r]
                      \/ InitialState(r) = Foreign /\ FirstTokenDecoded(r)
                      \/ InitialState(r) = Mixed /\ computed[r] > 0 /\ ~cfg.tokenPrefill
    BY DEF StateIsScan
  <2>1. r \in Reqs /\ batch[r] > 0
    BY DEF Scheduled
  <2> QED
    BY <2>1, InitialStateIs DEF IInv
<1> QED
  BY Invariance, <1>1, PTL

\* The chunk of every token before the end of d's chunk, from d on, is d's.
LEMMA SameChunk ==
    ASSUME NEW p \in Prompts, NEW d \in Nat, NEW t \in Nat, d <= t, t < ChunkEnd(p, d)
    PROVE  LET chunkOf(u) == FrontierChunk(u + 1, SinkEnd(p), Row(p).chunk)
           IN  /\ chunkOf(t) = chunkOf(d)
               /\ chunkOf(d) \in Nat
               /\ d < SinkEnd(p) => chunkOf(d) = 0
               /\ chunkOf(d) >= 1 => SinkEnd(p) + Row(p).chunk * (chunkOf(d) - 1) <= d
<1> DEFINE s == SinkEnd(p)
           S == Row(p).chunk
           q == (d - s) \div S
           f(u) == FrontierChunk(u + 1, s, S)
<1>1. s \in Nat \ {0} /\ S \in Nat \ {0}
  BY PromptGeometry DEF IsGeometry
<1>2. t < IF d < s THEN s ELSE s + (q + 1) * S
  BY DEF ChunkEnd
<1> HIDE DEF s, S
<1>3. ASSUME d < s
      PROVE  f(t) = 0 /\ f(d) = 0
  <2>1. t < s
    BY <1>2, <1>3
  <2>2. /\ t + 1 \in Nat /\ t + 1 > 0 /\ t + 1 <= s
        /\ d + 1 \in Nat /\ d + 1 > 0 /\ d + 1 <= s
    BY <1>1, <1>3, <2>1
  <2>3. f(t) = 0
    BY <1>1, <2>2, FrontierIs
  <2>4. f(d) = 0
    BY <1>1, <2>2, FrontierIs
  <2> QED
    BY <2>3, <2>4
<1>4. ASSUME d >= s
      PROVE  f(t) = f(d) /\ f(d) \in Nat \ {0} /\ s + S * (f(d) - 1) <= d
  <2>1. q \in Nat /\ S * q <= d - s
    <3>1. d - s \in Nat
      BY <1>1, <1>4
    <3> QED
      BY <1>1, <3>1, Division
  <2>2. t < s + (q + 1) * S
    BY <1>1, <1>2, <1>4
  <2> HIDE DEF q
  <2> DEFINE g == q + 1
  <2>3. g \in Nat \ {0} /\ (q + 1) * S = S * g /\ S * (g - 1) = S * q /\ S * q \in Nat /\ S * g \in Nat
    BY <1>1, <2>1
  <2> HIDE DEF g
  <2>4. /\ t + 1 \in Nat /\ s + S * (g - 1) < t + 1 /\ t + 1 <= s + S * g
        /\ d + 1 \in Nat /\ s + S * (g - 1) < d + 1 /\ d + 1 <= s + S * g
    BY <1>1, <2>1, <2>2, <2>3
  <2>5. f(t) = g
    BY <1>1, <2>3, <2>4, FrontierUnique
  <2>6. f(d) = g
    BY <1>1, <2>3, <2>4, FrontierUnique
  <2> QED
    BY <1>1, <2>1, <2>3, <2>4, <2>5, <2>6
<1> HIDE DEF f
<1>5. /\ f(t) = f(d) /\ f(d) \in Nat /\ (d < s => f(d) = 0)
      /\ (f(d) >= 1 => s + S * (f(d) - 1) <= d)
  BY <1>1, <1>3, <1>4
<1> QED
  BY <1>5 DEF f, s, S

\* The pages between two multiples of the page size.
LEMMA PageInside ==
    ASSUME NEW u \in Nat, NEW A \in Int, NEW B \in Int,
           PageSize * A <= u, u < PageSize * B
    PROVE  LET q == u \div PageSize IN
           /\ q \in Nat /\ u \in PageTokens(q)
           /\ (q + 1) * PageSize <= PageSize * B
           /\ \A v \in PageTokens(q) : v \in Nat /\ PageSize * A <= v /\ v < PageSize * B
<1> DEFINE q == u \div PageSize
<1>1. PageSize \in Nat \ {0}
  BY Constants
<1>2. q \in Nat /\ PageSize * q <= u /\ u < PageSize * q + PageSize
  BY <1>1, Division
<1> HIDE DEF q
<1>3. /\ PageSize * A \in Int /\ PageSize * B \in Int /\ PageSize * q \in Nat
      /\ PageSize * (q + 1) = PageSize * q + PageSize
      /\ q * PageSize = PageSize * q /\ (q + 1) * PageSize = PageSize * (q + 1)
  BY <1>1, <1>2
<1>4. A < q + 1 /\ q < B
  <2>1. PageSize * A < PageSize * (q + 1) /\ PageSize * q < PageSize * B
    BY <1>1, <1>2, <1>3
  <2> QED
    BY <1>1, <1>2, <2>1, MulCancel
<1>5. PageSize * A <= PageSize * q
  BY <1>1, <1>2, <1>4, MulMono
<1>6. PageSize * (q + 1) <= PageSize * B
  BY <1>1, <1>2, <1>4, MulMono
<1>7. PageTokens(q) = PageSize * q .. PageSize * q + PageSize - 1
  <2>1. q * PageSize = PageSize * q /\ (q + 1) * PageSize - 1 = PageSize * q + PageSize - 1
    BY <1>1, <1>2, <1>3
  <2> QED
    BY <2>1 DEF PageTokens
<1>8. u \in PageTokens(q)
  BY <1>1, <1>2, <1>3, <1>7
<1>9. \A v \in PageTokens(q) : v \in Nat /\ PageSize * A <= v /\ v < PageSize * B
  BY <1>1, <1>3, <1>5, <1>6, <1>7
<1> QED
  BY <1>2, <1>3, <1>6, <1>8, <1>9 DEF q

\* Pages below a multiple of the page size are full.
LEMMA PageFull ==
    ASSUME NEW q \in Nat, NEW n \in Nat, (q + 1) * PageSize <= n
    PROVE  q \in 0 .. (n \div PageSize) - 1
<1> DEFINE m == n \div PageSize
<1>1. PageSize \in Nat \ {0}
  BY Constants
<1>2. m \in Nat /\ n < PageSize * m + PageSize
  BY <1>1, Division
<1> HIDE DEF m
<1>3. PageSize * (q + 1) < PageSize * (m + 1)
  <2>1. (q + 1) * PageSize = PageSize * (q + 1) /\ PageSize * (m + 1) = PageSize * m + PageSize
        /\ PageSize * (q + 1) \in Int /\ PageSize * m \in Int
    BY <1>1, <1>2
  <2> QED
    BY <1>1, <1>2, <2>1
<1>4. q + 1 < m + 1
  BY <1>1, <1>2, <1>3, MulCancel
<1> QED
  BY <1>2, <1>4 DEF m

\* A slice reads every token but those of full evicted pages.
LEMMA KeptIs ==
    ASSUME IInv, NEW r \in Scheduled
    PROVE  LET n == computed[r] + batch[r]
               spans == EvictedSpans(cfg, prompt[r], n)
           IN  /\ KeptTokens(r) \subseteq 0 .. n - 1
               /\ \A u \in 0 .. n - 1 :
                     u \in KeptTokens(r) <=>
                         ~ /\ computed[r] > 0
                           /\ \E b \in 0 .. (n \div PageSize) - 1 :
                                 PageTokens(b) \subseteq spans /\ u \in PageTokens(b)
<1> DEFINE n == computed[r] + batch[r]
           spans == EvictedSpans(cfg, prompt[r], n)
           pages == {b \in 0 .. (n \div PageSize) - 1 : PageTokens(b) \subseteq spans}
<1>1. /\ cfg \in Configs /\ prompt[r] \in Prompts /\ n \in 0 .. prompt[r].len + MaxGen
      /\ r \in workerReg
  BY ScheduledFacts
<1>2. SpansAt[cfg][prompt[r]][n] = spans
  BY <1>1, SpansAtIs
<1>3. DroppedPages(cfg, prompt[r], n) = pages
  BY <1>2 DEF DroppedPages
<1>4. KeptTokens(r) = (0 .. n - 1) \ (IF computed[r] > 0 THEN UNION {PageTokens(b) : b \in pages} ELSE {})
  BY <1>1, <1>3 DEF KeptTokens
<1> HIDE DEF n, spans
<1> QED
  BY <1>4 DEF n, spans

\* A block is a run of whole pages.
LEMMA BlockPages ==
    ASSUME NEW b \in Nat, NEW u \in BlockTokens(b)
    PROVE  LET q == u \div PageSize IN
           /\ q \in Nat /\ u \in PageTokens(q)
           /\ (q + 1) * PageSize <= (b + 1) * BlockSize
           /\ PageTokens(q) \subseteq BlockTokens(b)
<1> DEFINE m == BlockSize \div PageSize
           q == u \div PageSize
<1>1. PageSize \in Nat \ {0} /\ BlockSize \in Nat \ {0}
  BY Constants
<1>2. m \in Nat /\ BlockSize = PageSize * m
  <2>1. BlockSize = PageSize * m + (BlockSize % PageSize) /\ m \in Nat
    BY <1>1
  <2>2. BlockSize % PageSize = 0
    BY ServeAssumption
  <2> HIDE DEF m
  <2> QED
    BY <1>1, <2>1, <2>2
<1> HIDE DEF m
<1> DEFINE A == m * b
           B == m * (b + 1)
<1>3. A \in Int /\ B \in Int
  BY <1>2
<1>4. b * BlockSize = PageSize * A /\ (b + 1) * BlockSize = PageSize * B
  <2>1. b * BlockSize = b * (PageSize * m) /\ (b + 1) * BlockSize = (b + 1) * (PageSize * m)
    BY <1>2
  <2>2. b * (PageSize * m) = PageSize * (m * b)
        /\ (b + 1) * (PageSize * m) = PageSize * (m * (b + 1))
    BY <1>1, <1>2
  <2> QED
    BY <2>1, <2>2
<1> HIDE DEF A, B
<1>5. BlockTokens(b) = PageSize * A .. PageSize * B - 1
  BY <1>4 DEF BlockTokens
<1>6. PageSize * A \in Nat /\ PageSize * B \in Int
  <2>1. b * BlockSize \in Nat /\ (b + 1) * BlockSize \in Nat
    BY <1>1
  <2> QED
    BY <1>4, <2>1
<1>7. u \in Nat /\ PageSize * A <= u /\ u < PageSize * B
  BY <1>5, <1>6
<1>8. /\ q \in Nat /\ u \in PageTokens(q)
      /\ (q + 1) * PageSize <= PageSize * B
      /\ \A v \in PageTokens(q) : v \in Nat /\ PageSize * A <= v /\ v < PageSize * B
  BY <1>3, <1>7, PageInside
<1> HIDE DEF q
<1>9. PageTokens(q) \subseteq BlockTokens(b)
  BY <1>5, <1>6, <1>8
<1> QED
  BY <1>4, <1>8, <1>9 DEF q

\* evict_manager.py's "reads never hit a null block": what the engine frees in
\* whole blocks, the worker drops in pages of the same or a later schedule.
THEOREM ReadsAvoidFreedBlocks == Spec => []ReadsLiveBlocks
<1>1. IInv => ReadsLiveBlocks
  <2> SUFFICES ASSUME IInv, NEW r \in Scheduled, NEW b \in nulled[r],
                      NEW u \in BlockTokens(b), u \in KeptTokens(r)
               PROVE  FALSE
    BY DEF ReadsLiveBlocks
  <2> DEFINE n == computed[r] + batch[r]
             q == u \div PageSize
  <2>1. /\ r \in Reqs /\ cfg \in Configs /\ prompt[r] \in Prompts
        /\ computed[r] \in Nat /\ batch[r] \in Nat \ {0}
        /\ n \in Nat /\ computed[r] <= n
    BY ScheduledFacts
  <2>2. b \in Nat /\ (b + 1) * BlockSize <= computed[r]
    BY <2>1 DEF IInv, TypeOK
  <2>3. BlockTokens(b) \subseteq EvictedSpans(cfg, prompt[r], computed[r])
    BY <2>1 DEF IInv, NulledInv
  <2>4. EvictedSpans(cfg, prompt[r], computed[r]) \subseteq EvictedSpans(cfg, prompt[r], n)
    BY <2>1, SpansMono
  <2>5. /\ q \in Nat /\ u \in PageTokens(q)
        /\ (q + 1) * PageSize <= (b + 1) * BlockSize
        /\ PageTokens(q) \subseteq BlockTokens(b)
    BY <2>2, BlockPages
  <2>6. /\ KeptTokens(r) \subseteq 0 .. n - 1
        /\ \A v \in 0 .. n - 1 :
              v \in KeptTokens(r) <=>
                  ~ /\ computed[r] > 0
                    /\ \E a \in 0 .. (n \div PageSize) - 1 :
                          PageTokens(a) \subseteq EvictedSpans(cfg, prompt[r], n) /\ v \in PageTokens(a)
    BY KeptIs
  <2> HIDE DEF n, q
  <2>7. q \in 0 .. (n \div PageSize) - 1 /\ computed[r] > 0
    <3>1. (b + 1) * BlockSize \in Nat \ {0} /\ (q + 1) * PageSize \in Nat
      BY <2>2, <2>5, Constants
    <3>2. (q + 1) * PageSize <= n
      BY <2>1, <2>2, <2>5, <3>1
    <3> QED
      BY <2>1, <2>2, <2>5, <3>1, <3>2, PageFull
  <2>8. PageTokens(q) \subseteq EvictedSpans(cfg, prompt[r], n)
    BY <2>3, <2>4, <2>5
  <2> QED
    BY <2>5, <2>6, <2>7, <2>8
<1> QED
  BY Invariance, <1>1, PTL

-----------------------------------------------------------------------------
\* What a token of a slice sees.

\* A token sees every kept token up to itself as soon as all tokens of the
\* slice behind it are kept: the kernel's causal limit, counted from the end of
\* the compacted pages, falls right behind it.
LEMMA ServeViewPrefix ==
    ASSUME NEW r \in Reqs, computed[r] \in Nat, batch[r] \in Nat \ {0},
           NEW t \in computed[r] .. computed[r] + batch[r] - 1,
           KeptTokens(r) \subseteq 0 .. computed[r] + batch[r] - 1,
           t \in KeptTokens(r) \/ t = computed[r] + batch[r] - 1,
           \A v \in t + 1 .. computed[r] + batch[r] - 1 : v \in KeptTokens(r)
    PROVE  ServeView(r, t) = {u \in KeptTokens(r) : u <= t}
<1> DEFINE kept == KeptTokens(r)
           n == computed[r] + batch[r]
           lower == {u \in kept : u <= t}
           upper == t + 1 .. n - 1
           limit == Cardinality(kept) - batch[r] + (t - computed[r]) + 1
           below(u) == {v \in kept : v < u}
<1>1. ServeView(r, t) = {u \in kept : Cardinality(below(u)) < limit}
  BY DEF ServeView
<1>2. n \in Nat /\ t \in Nat /\ t <= n - 1 /\ kept \subseteq 0 .. n - 1
      /\ \A v \in upper : v \in kept
  OBVIOUS
<1> HIDE DEF kept
<1>3. IsFiniteSet(kept) /\ Cardinality(kept) \in Nat
  <2>1. IsFiniteSet(0 .. n - 1)
    BY <1>2, FS_Interval
  <2>2. IsFiniteSet(kept)
    BY <1>2, <2>1, FS_Subset
  <2> QED
    BY <2>2, FS_CardinalityType
<1>4. IsFiniteSet(lower) /\ IsFiniteSet(upper) /\ Cardinality(lower) \in Nat
      /\ Cardinality(upper) = n - 1 - t
  <2>1. lower \in SUBSET kept
    OBVIOUS
  <2>2. IsFiniteSet(lower)
    BY <1>3, <2>1, FS_Subset
  <2>3. IsFiniteSet(upper)
        /\ Cardinality(upper) = IF t + 1 > n - 1 THEN 0 ELSE (n - 1) - (t + 1) + 1
    <3>1. t + 1 \in Int /\ n - 1 \in Int
      BY <1>2
    <3> HIDE DEF n
    <3> QED
      BY <3>1, FS_Interval
  <2>4. Cardinality(upper) = n - 1 - t
    BY <1>2, <2>3
  <2> QED
    BY <2>2, <2>3, <2>4, FS_CardinalityType
<1>5. kept = lower \cup upper /\ lower \cap upper = {}
  <2>1. \A u \in kept : u \in lower \/ u \in upper
    BY <1>2
  <2>2. \A u \in lower : u \notin upper
    BY <1>2
  <2> QED
    BY <1>2, <2>1, <2>2
<1>6. Cardinality(lower) = limit
  <2>1. Cardinality(lower \cup upper)
          = Cardinality(lower) + Cardinality(upper) - Cardinality(lower \cap upper)
    BY <1>4, FS_Union
  <2>2. Cardinality(kept) = Cardinality(lower) + Cardinality(upper) - 0
    BY <1>5, <2>1, FS_EmptySet
  <2> HIDE DEF lower, upper
  <2>3. Cardinality(kept) = Cardinality(lower) + (n - 1 - t)
    BY <1>2, <1>4, <2>2
  <2> QED
    BY <1>3, <1>4, <2>3
<1>7. ASSUME NEW u \in kept
      PROVE  Cardinality(below(u)) < limit <=> u <= t
  <2> DEFINE W == below(u)
  <2>1. u \in Nat /\ W \in SUBSET kept
    BY <1>2
  <2>2. IsFiniteSet(W) /\ Cardinality(W) \in Nat
    BY <1>3, <2>1, FS_Subset, FS_CardinalityType
  <2>3. CASE u <= t
    <3>1. W \in SUBSET lower /\ u \in lower /\ u \notin W
      <4>1. \A v \in kept : v \in Nat /\ (v < u => v <= t)
        BY <1>2, <2>1, <2>3
      <4>2. ~(u < u)
        BY <2>1
      <4> QED
        BY <2>3, <4>1, <4>2
    <3> HIDE DEF W, lower
    <3>2. Cardinality(W) <= Cardinality(lower) /\ (Cardinality(lower) = Cardinality(W) => lower = W)
      BY <1>4, <3>1, FS_Subset
    <3>3. Cardinality(W) < Cardinality(lower)
      BY <1>4, <2>2, <3>1, <3>2
    <3> QED
      BY <1>6, <2>3, <3>3 DEF W
  <2>4. CASE ~(u <= t)
    <3>1. lower \in SUBSET W
      <4>1. \A v \in kept : v \in Nat /\ (v <= t => v < u)
        BY <1>2, <2>1, <2>4
      <4> QED
        BY <4>1
    <3> HIDE DEF W, lower
    <3>2. Cardinality(lower) <= Cardinality(W)
      BY <2>2, <3>1, FS_Subset
    <3>3. ~(Cardinality(W) < Cardinality(lower))
      BY <1>4, <2>2, <3>2
    <3> QED
      BY <1>6, <2>4, <3>3 DEF W
  <2> QED
    BY <2>3, <2>4
<1> HIDE DEF limit, below
<1>8. {u \in kept : Cardinality(below(u)) < limit} = {u \in kept : u <= t}
  BY <1>7
<1> QED
  BY <1>1, <1>8 DEF kept

\* eviction_policy.py's "the serve page-drop visible set equals the token-exact
\* training mask (no leak)", for every token of every clamped slice: the spans
\* are whole pages, and the slice lies in the chunk that they are computed for.
THEOREM ServingSeesTraining == Spec => []ServeViewIsTrainingView
<1>1. IInv => ServeViewIsTrainingView
  <2> SUFFICES ASSUME IInv, cfg.mode = "stride", cfg.clamp, cfg.decodeEvict,
                      NEW r \in Scheduled, Clamped(r), NEW t \in SliceTokens(r)
               PROVE  ServeView(r, t) = TrainingView(prompt[r], t)
    BY DEF ServeViewIsTrainingView
  <2> DEFINE p == prompt[r]
             d == computed[r]
             n == d + batch[r]
             s == SinkEnd(p)
             S == Row(p).chunk
             W == Row(p).window
             f == FrontierChunk(n, s, S)
             spans == EvictedSpans(cfg, p, n)
             kept == KeptTokens(r)
  <2>1. /\ r \in Reqs /\ cfg \in Configs /\ p \in Prompts
        /\ d \in Nat /\ batch[r] \in Nat \ {0} /\ n \in Nat \ {0}
    BY ScheduledFacts
  <2>2. t \in d .. n - 1 /\ t \in Nat /\ t < n
    BY <2>1 DEF SliceTokens
  <2>3. IsGeometry(s, S, W) /\ s \in Nat \ {0} /\ S \in Nat \ {0} /\ W \in Nat
    BY <2>1, PromptGeometry DEF IsGeometry
  <2>4. n <= ChunkEnd(p, d)
    BY <2>1 DEF IInv, SliceInv
  <2>5. /\ f = FrontierChunk(d + 1, s, S)
        /\ f \in Nat /\ (d < s => f = 0) /\ (f >= 1 => s + S * (f - 1) <= d)
    <3>1. n - 1 \in Nat /\ d <= n - 1 /\ n - 1 < ChunkEnd(p, d) /\ (n - 1) + 1 = n
      BY <2>1, <2>4, ChunkEndAfter
    <3> QED
      BY <2>1, <3>1, SameChunk
  <2>6. FrontierChunk(t + 1, s, S) = f
    <3>1. t < ChunkEnd(p, d)
      BY <2>1, <2>2, <2>4, ChunkEndAfter
    <3>2. FrontierChunk(t + 1, s, S) = FrontierChunk(d + 1, s, S)
      BY <2>1, <2>2, <3>1, SameChunk
    <3> QED
      BY <2>5, <3>2
  <2>7. spans = IF f < 1 THEN {} ELSE StrideTokens(s, S, W, f)
    <3>1. EffSeqLen(cfg, p, n) = n
      BY <2>1, EffSeqLenIs
    <3>2. cfg.mode = "stride"
      OBVIOUS
    <3> HIDE DEF p, d
    <3>3. spans = IF FrontierChunk(EffSeqLen(cfg, p, n), s, S) < 1 THEN {}
                  ELSE StrideTokens(s, S, W, FrontierChunk(EffSeqLen(cfg, p, n), s, S))
      BY <2>1, <3>2, StrideSpans
    <3> QED
      BY <3>1, <3>3
  <2>8. TrainingView(p, t) = (0 .. t) \ spans
    <3>1. TrainingView(p, t) = (0 .. t) \ EvictedTokens(StrideChunking(f + 1, s, S), StrideLimits(W), f)
      BY <2>6 DEF TrainingView, StrideTrainingView
    <3> HIDE DEF s, S, W, f
    <3>2. EvictedTokens(StrideChunking(f + 1, s, S), StrideLimits(W), f) = StrideTokens(s, S, W, f)
      BY <2>3, <2>5, StrideTokensAre
    <3>3. f < 1 => StrideTokens(s, S, W, f) = {}
      BY <2>5 DEF StrideTokens
    <3> QED
      BY <2>7, <3>1, <3>2, <3>3
  <2>9. /\ kept \subseteq 0 .. n - 1
        /\ \A u \in 0 .. n - 1 :
              u \in kept <=> ~ /\ d > 0
                               /\ \E b \in 0 .. (n \div PageSize) - 1 :
                                     PageTokens(b) \subseteq spans /\ u \in PageTokens(b)
    BY KeptIs
  <2> HIDE DEF p, d, n, s, S, W, f, spans, kept
  <2>10. \A u \in spans : u < d
    <3> SUFFICES ASSUME NEW u \in spans PROVE u < d
      OBVIOUS
    <3>1. f \in Nat \ {0} /\ u \in StrideTokens(s, S, W, f)
      BY <2>5, <2>7
    <3>2. u \in Nat /\ u < s + S * (f - 1)
      BY <2>3, <3>1, StrideTokensPages
    <3>3. S * (f - 1) \in Nat
      BY <2>3, <3>1
    <3> QED
      BY <2>1, <2>3, <2>5, <3>1, <3>2, <3>3
  <2>11. kept = (0 .. n - 1) \ spans
    <3>1. ASSUME NEW u \in 0 .. n - 1, u \in spans
          PROVE  u \notin kept
      <4>1. f \in Nat \ {0} /\ u \in StrideTokens(s, S, W, f)
        BY <2>5, <2>7, <3>1
      <4> DEFINE q == u \div PageSize
      <4>2. /\ q \in Nat /\ u \in PageTokens(q)
            /\ (q + 1) * PageSize <= s + S * (f - 1)
            /\ PageTokens(q) \subseteq spans
        BY <2>3, <2>7, <4>1, StrideTokensPages
      <4> HIDE DEF q
      <4>3. (q + 1) * PageSize <= n
        <5>1. (q + 1) * PageSize \in Nat /\ S * (f - 1) \in Nat
          BY <2>3, <4>1, <4>2, Constants
        <5> QED
          BY <2>1, <2>3, <2>5, <4>1, <4>2, <5>1 DEF n
      <4>4. q \in 0 .. (n \div PageSize) - 1
        BY <2>1, <4>2, <4>3, PageFull
      <4>5. d > 0
        BY <2>1, <2>10, <3>1
      <4> QED
        BY <2>9, <4>2, <4>4, <4>5
    <3>2. ASSUME NEW u \in 0 .. n - 1, u \notin spans
          PROVE  u \in kept
      BY <2>9, <3>2
    <3> QED
      BY <2>9, <3>1, <3>2
  <2>12. \A v \in t .. n - 1 : v \in kept
    BY <2>1, <2>2, <2>10, <2>11
  <2>13. ServeView(r, t) = {u \in kept : u <= t}
    <3>1. t \in kept /\ \A v \in t + 1 .. n - 1 : v \in kept
      BY <2>1, <2>2, <2>12
    <3> QED
      BY <2>1, <2>2, <2>9, <3>1, ServeViewPrefix DEF d, n, kept
  <2>14. {u \in kept : u <= t} = (0 .. t) \ spans
    BY <2>1, <2>2, <2>11
  <2> QED
    BY <2>8, <2>13, <2>14 DEF p
<1> QED
  BY Invariance, <1>1, PTL

\* The training view of the last token of a message slice.
SliceEndView(r) ==
    MessageTrainingView(computed[r] + batch[r] - 1, MessageChunking(prompt[r], cfg.chunkSize),
                        MessageLimits(cfg))


\* README.md's "same visibility boundary in training and deployment" in message
\* mode: the last token of a slice sees its training view and, once pages are
\* dropped, beyond it only pages that hold a token of the view.
THEOREM SliceEndsSeeTraining == Spec => []SliceEndSeesTraining
<1>1. IInv => SliceEndSeesTraining
  <2> SUFFICES ASSUME IInv, cfg.mode = "message", NEW r \in Scheduled,
                      computed[r] + batch[r] - 1 < prompt[r].len
               PROVE  /\ SliceEndView(r) \subseteq ServeView(r, computed[r] + batch[r] - 1)
                      /\ computed[r] > 0 /\ r \in workerReg =>
                            \A u \in ServeView(r, computed[r] + batch[r] - 1) \ SliceEndView(r) :
                                PageTokens(u \div PageSize) \cap SliceEndView(r) # {}
    BY DEF SliceEndSeesTraining, SliceEndView
  <2> DEFINE p == prompt[r]
             n == computed[r] + batch[r]
             t == n - 1
             view == MessageTrainingView(t, MessageChunking(p, cfg.chunkSize), MessageLimits(cfg))
             spans == EvictedSpans(cfg, p, n)
             kept == KeptTokens(r)
  <2>1. /\ r \in Reqs /\ cfg \in Configs /\ p \in Prompts /\ p.len \in Nat
        /\ computed[r] \in Nat /\ batch[r] \in Nat \ {0} /\ n \in Nat \ {0}
    BY ScheduledFacts
  <2>2. view = (0 .. t) \ spans
    <3>1. n <= p.len
      BY <2>1
    <3>2. EffSeqLen(cfg, p, n) = n
      BY <2>1, <3>1, EffSeqLenIs
    <3>3. spans = EvictedTokens(MessageChunking(p, cfg.chunkSize), MessageLimits(cfg),
                                MessageFrontier(MessageChunking(p, cfg.chunkSize), n))
      BY <2>1, <3>2, MessageSpans
    <3>4. (n - 1) + 1 = n
      BY <2>1
    <3> HIDE DEF p, n, spans
    <3> QED
      BY <3>3, <3>4 DEF MessageTrainingView
  <2>3. /\ kept \subseteq 0 .. n - 1
        /\ \A u \in 0 .. n - 1 :
              u \in kept <=> ~ /\ computed[r] > 0
                               /\ \E b \in 0 .. (n \div PageSize) - 1 :
                                     PageTokens(b) \subseteq spans /\ u \in PageTokens(b)
    BY KeptIs
  <2>4. ServeView(r, t) = {u \in kept : u <= t}
    <3>1. t \in computed[r] .. n - 1 /\ t + 1 .. n - 1 = {}
      BY <2>1
    <3> QED
      BY <2>1, <2>3, <3>1, ServeViewPrefix
  <2>5. \A u \in spans : u \in Nat /\ u < t
    BY <2>1, SpansBelow
  <2> HIDE DEF p, n, view, spans, kept
  <2>6. ServeView(r, t) = kept
    <3>1. \A u \in kept : u <= t
      BY <2>1, <2>3
    <3> QED
      BY <2>4, <3>1
  <2>7. view \subseteq kept
    BY <2>1, <2>2, <2>3
  <2>8. ASSUME computed[r] > 0, NEW u \in kept \ view
        PROVE  PageTokens(u \div PageSize) \cap view # {}
    <3> DEFINE q == u \div PageSize
    <3>1. u \in Nat /\ u <= t /\ PageSize \in Nat \ {0}
      BY <2>1, <2>3, Constants
    <3>2. q \in Nat /\ PageSize * q <= u /\ u < PageSize * q + PageSize
      BY <3>1, Division
    <3> HIDE DEF q
    <3>3. PageTokens(q) = PageSize * q .. PageSize * q + PageSize - 1
      <4>1. q * PageSize = PageSize * q /\ (q + 1) * PageSize - 1 = PageSize * q + PageSize - 1
        BY <3>1, <3>2
      <4> QED
        BY <4>1 DEF PageTokens
    <3>4. PageSize * q \in Nat
      BY <3>1, <3>2
    <3>5. u \in PageTokens(q)
      BY <3>1, <3>2, <3>3, <3>4
    <3>6. CASE (q + 1) * PageSize <= n
      <4>1. q \in 0 .. (n \div PageSize) - 1
        BY <2>1, <3>2, <3>6, PageFull
      <4>2. ~(PageTokens(q) \subseteq spans)
        BY <2>3, <2>8, <3>1, <3>5, <4>1
      <4>3. PICK v \in PageTokens(q) : v \notin spans
        BY <4>2
      <4>4. v \in 0 .. t
        <5>1. (q + 1) * PageSize = PageSize * q + PageSize
          BY <3>1, <3>2
        <5> QED
          BY <2>1, <3>1, <3>3, <3>4, <3>6, <5>1
      <4> QED
        BY <2>2, <4>3, <4>4 DEF q
    <3>7. CASE ~((q + 1) * PageSize <= n)
      <4>1. (q + 1) * PageSize = PageSize * q + PageSize
        BY <3>1, <3>2
      <4>2. t \in PageTokens(q)
        BY <2>1, <3>1, <3>2, <3>3, <3>4, <3>7, <4>1
      <4>3. t \in view
        BY <2>1, <2>2, <2>5
      <4> QED
        BY <4>2, <4>3 DEF q
    <3> QED
      BY <3>6, <3>7
  <2>9. computed[r] > 0 /\ r \in workerReg =>
            \A u \in ServeView(r, t) \ view : PageTokens(u \div PageSize) \cap view # {}
    BY <2>6, <2>8
  <2>10. view \subseteq ServeView(r, t)
    BY <2>6, <2>7
  <2>11. view = SliceEndView(r) /\ t = computed[r] + batch[r] - 1
    <3>1. t = computed[r] + batch[r] - 1
      BY <2>1 DEF t, n
    <3> HIDE DEF t
    <3> QED
      BY <3>1, Zenon DEF view, p, SliceEndView
  <2> HIDE DEF t
  <2> QED
    BY <2>9, <2>10, <2>11
<1> QED
  BY Invariance, <1>1, PTL

-----------------------------------------------------------------------------
\* How many blocks stay live.

\* The larger of two numbers.
LEMMA MaxOfTwo ==
    ASSUME NEW a \in Int, NEW b \in Int
    PROVE  Max({a, b}) \in Int /\ a <= Max({a, b}) /\ b <= Max({a, b})
<1> DEFINE T == {a, b}
<1>1. \E m \in T : \A x \in T : m >= x
  OBVIOUS
<1>2. Max(T) \in T /\ \A x \in T : Max(T) >= x
  BY <1>1, Zenon DEF Max
<1> QED
  BY <1>2

\* Of n tokens all those from lo to hi - 1 are evicted: the blocks that hold
\* another token are as many as the other tokens fill, and the rest of the two
\* blocks in which the evicted span starts and ends, in units of g tokens.
LEMMA BlocksOutside ==
    ASSUME NEW g \in Nat \ {0}, NEW a \in Nat, NEW b \in Nat, NEW k \in Nat,
           BlockSize = g * k, g * a <= g * b,
           NEW n \in Nat, g * b <= n, NEW x \in Nat, g * a + n - g * b <= x,
           NEW live \in SUBSET (0 .. CeilDiv(n, BlockSize) - 1),
           \A m \in live : ~(BlockTokens(m) \subseteq g * a .. g * b - 1)
    PROVE  Cardinality(live) <= CeilDiv(x + 2 * (BlockSize - g), BlockSize)
<1> DEFINE B == BlockSize
           lo == g * a
           hi == g * b
           cl == CeilDiv(lo, B)
           fl == hi \div B
           cn == CeilDiv(n, B)
           y == x + 2 * (B - g)
           cy == CeilDiv(y, B)
<1>1. B \in Nat \ {0} /\ k \in Nat \ {0}
  <2>1. B \in Nat \ {0}
    BY Constants
  <2>2. k # 0
    BY <2>1
  <2> QED
    BY <2>1, <2>2
<1>2. lo \in Nat /\ hi \in Nat /\ y \in Int
  BY <1>1
<1>3. /\ cl \in Nat /\ lo <= B * cl /\ B * cl < lo + B
      /\ cn \in Nat /\ n <= B * cn /\ B * cn < n + B
  <2>1. lo \in Int /\ n \in Int
    BY <1>2
  <2> HIDE DEF lo
  <2>2. cl \in Nat /\ lo <= B * cl /\ B * cl < lo + B
    BY <1>1, <1>2, <2>1, Ceiling
  <2>3. cn \in Nat /\ n <= B * cn /\ B * cn < n + B
    BY <1>1, <2>1, Ceiling
  <2> QED
    BY <2>2, <2>3
<1>4. fl \in Nat /\ B * fl <= hi /\ hi < B * fl + B
  BY <1>1, <1>2, Division
<1>5. cy \in Int /\ y <= B * cy
  BY <1>1, <1>2, Ceiling
<1> HIDE DEF cl, fl, cn, cy
<1>6. B * cl <= lo + B - g
  <2>1. k * cl \in Nat /\ a + k \in Nat /\ B * cl = g * (k * cl) /\ lo + B = g * (a + k)
    BY <1>1, <1>3
  <2>2. k * cl < a + k
    BY <1>3, <2>1, MulCancel
  <2>3. a + k - 1 \in Nat /\ k * cl <= a + k - 1
    BY <2>1, <2>2
  <2>4. g * (k * cl) <= g * (a + k - 1)
    BY <2>1, <2>3, MulMono
  <2>5. g * (a + k - 1) = lo + B - g
    BY <1>1
  <2> QED
    BY <2>1, <2>4, <2>5
<1>7. hi + g <= B * fl + B
  <2>1. k * fl + k \in Nat /\ B * fl + B = g * (k * fl + k)
    BY <1>1, <1>4
  <2>2. b < k * fl + k
    BY <1>4, <2>1, MulCancel
  <2>3. b + 1 <= k * fl + k
    BY <2>1, <2>2
  <2>4. g * (b + 1) <= g * (k * fl + k)
    BY <2>1, <2>3, MulMono
  <2>5. g * (b + 1) = hi + g
    OBVIOUS
  <2> QED
    BY <2>1, <2>4, <2>5
<1>8. fl <= cn
  <2>1. B * fl < B * (cn + 1)
    <3>1. B * fl \in Nat /\ B * cn \in Nat /\ B * (cn + 1) = B * cn + B
      BY <1>1, <1>3, <1>4
    <3> QED
      BY <1>1, <1>2, <1>3, <1>4, <3>1
  <2>2. fl < cn + 1
    BY <1>1, <1>3, <1>4, <2>1, MulCancel
  <2> QED
    BY <1>3, <1>4, <2>2
<1>9. live \subseteq (0 .. cl - 1) \cup (fl .. cn - 1)
  <2>1. ASSUME NEW m \in live, cl <= m, m < fl PROVE FALSE
    <3>1. m \in Nat
      BY DEF cn
    <3>2. B * cl <= B * m /\ B * (m + 1) <= B * fl
      BY <1>1, <1>3, <1>4, <2>1, <3>1, MulMono
    <3>3. m * B \in Nat /\ B * m = m * B /\ B * (m + 1) = (m + 1) * B /\ B * cl \in Nat /\ B * fl \in Nat
          /\ (m + 1) * B \in Nat
      BY <1>1, <1>3, <1>4, <3>1
    <3>4. BlockTokens(m) \subseteq lo .. hi - 1
      BY <1>2, <1>3, <1>4, <3>2, <3>3 DEF BlockTokens
    <3> QED
      BY <3>4
  <2>2. \A m \in live : m \in 0 .. cn - 1
    BY DEF cn
  <2> QED
    BY <1>3, <1>4, <2>1, <2>2
<1>10. Cardinality(live) <= cl + (cn - fl)
  <2>1. /\ IsFiniteSet(0 .. cl - 1) /\ Cardinality(0 .. cl - 1) = cl
        /\ IsFiniteSet(fl .. cn - 1) /\ Cardinality(fl .. cn - 1) = cn - fl
    <3>1. /\ 0 \in Int /\ cl - 1 \in Int /\ fl \in Int /\ cn - 1 \in Int
      BY <1>3, <1>4
    <3>2. /\ IsFiniteSet(0 .. cl - 1)
          /\ Cardinality(0 .. cl - 1) = IF 0 > cl - 1 THEN 0 ELSE cl - 1 - 0 + 1
      BY <3>1, FS_Interval
    <3>3. /\ IsFiniteSet(fl .. cn - 1)
          /\ Cardinality(fl .. cn - 1) = IF fl > cn - 1 THEN 0 ELSE cn - 1 - fl + 1
      BY <3>1, FS_Interval
    <3> QED
      BY <1>3, <1>4, <1>8, <3>2, <3>3
  <2>2. /\ IsFiniteSet((0 .. cl - 1) \cup (fl .. cn - 1))
        /\ Cardinality((0 .. cl - 1) \cup (fl .. cn - 1))
             = Cardinality(0 .. cl - 1) + Cardinality(fl .. cn - 1)
                 - Cardinality((0 .. cl - 1) \cap (fl .. cn - 1))
    BY <2>1, FS_Union
  <2>3. /\ IsFiniteSet((0 .. cl - 1) \cap (fl .. cn - 1))
    BY <2>1, FS_Intersection
  <2>4. Cardinality((0 .. cl - 1) \cap (fl .. cn - 1)) \in Nat
    BY <2>3, FS_CardinalityType
  <2>5. /\ Cardinality(live) <= Cardinality((0 .. cl - 1) \cup (fl .. cn - 1))
        /\ IsFiniteSet(live)
    BY <1>9, <2>2, FS_Subset
  <2>6. Cardinality(live) \in Nat
    BY <2>5, FS_CardinalityType
  <2> QED
    BY <1>3, <1>4, <2>1, <2>2, <2>4, <2>5, <2>6
<1>11. Cardinality(live) \in Nat
  <2>1. IsFiniteSet(0 .. cn - 1)
    BY <1>3, FS_Interval
  <2>2. live \subseteq 0 .. cn - 1
    BY DEF cn
  <2>3. IsFiniteSet(live)
    BY <2>1, <2>2, FS_Subset
  <2> QED
    BY <2>3, FS_CardinalityType
<1>12. cl + (cn - fl) <= cy
  <2>1. B * (cl + (cn - fl)) < B * (cy + 1)
    <3>1. /\ B * cl \in Int /\ B * cn \in Int /\ B * fl \in Int /\ B * cy \in Int
          /\ B * (cl + (cn - fl)) = B * cl + B * cn - B * fl
          /\ B * (cy + 1) = B * cy + B
      BY <1>1, <1>3, <1>4, <1>5
    <3>2. lo + n - hi <= x
      OBVIOUS
    <3>3. B * cl + B * cn - B * fl < B * cy + B
      <4> HIDE DEF lo, hi
      <4>1. B * cl + B * cn - B * fl <= (lo + B - g) + (n + B - 1) - (hi + g - B)
        BY <1>1, <1>2, <1>3, <1>6, <1>7, <3>1
      <4>2. (lo + B - g) + (n + B - 1) - (hi + g - B) <= y + B - 1
        BY <1>1, <1>2, <3>2
      <4> QED
        BY <1>1, <1>2, <1>5, <3>1, <4>1, <4>2
    <3> QED
      BY <3>1, <3>3
  <2>2. cl + (cn - fl) < cy + 1
    BY <1>1, <1>3, <1>4, <1>5, <2>1, MulCancel
  <2> QED
    BY <1>3, <1>4, <1>5, <2>2
<1> QED
  BY <1>3, <1>4, <1>5, <1>10, <1>11, <1>12 DEF cy

\* All but what the window holds has been evicted of the computed tokens, in
\* one span that starts and ends at multiples of g.
EvictsAllBut(r, g) ==
    \E a, b \in Nat :
        /\ g * a <= g * b /\ g * b <= computed[r]
        /\ g * a .. g * b - 1 \subseteq EvictedSpans(cfg, prompt[r], computed[r])
        /\ g * a + computed[r] - g * b <= WindowTokens(cfg, prompt[r]) + FrozenTokens(r)

\* A frozen frontier lags by the generated tokens at most.
LEMMA FrozenIs ==
    ASSUME IInv, NEW r \in Scheduled
    PROVE  /\ FrozenTokens(r) \in Nat
           /\ computed[r] <= EffSeqLen(cfg, prompt[r], computed[r]) + FrozenTokens(r)
<1> DEFINE d == computed[r]
           p == prompt[r]
<1>1. /\ r \in Reqs /\ cfg \in Configs /\ p \in Prompts /\ p.len \in Nat
      /\ d \in Nat /\ batch[r] \in Nat /\ gen[r] \in Nat /\ status[r] = "running"
  BY ScheduledFacts
<1>2. d + batch[r] <= p.len + gen[r]
  BY <1>1 DEF IInv, BatchInv
<1>3. /\ EffSeqLen(cfg, p, d) \in Nat
      /\ d <= p.len => EffSeqLen(cfg, p, d) = d
      /\ d > p.len => EffSeqLen(cfg, p, d) >= p.len
      /\ cfg.mode = "stride" /\ cfg.decodeEvict => EffSeqLen(cfg, p, d) = d
  BY <1>1, EffSeqLenIs
<1>4. FrozenTokens(r) = IF cfg.mode = "stride" /\ cfg.decodeEvict THEN 0 ELSE gen[r]
  BY DEF FrozenTokens
<1> HIDE DEF d, p
<1>5. FrozenTokens(r) \in Nat /\ d <= EffSeqLen(cfg, p, d) + FrozenTokens(r)
  <2>1. CASE cfg.mode = "stride" /\ cfg.decodeEvict
    BY <1>1, <1>3, <1>4, <2>1
  <2>2. CASE ~(cfg.mode = "stride" /\ cfg.decodeEvict)
    BY <1>1, <1>2, <1>3, <1>4, <2>2
  <2> QED
    BY <2>1, <2>2
<1> QED
  BY <1>5 DEF d, p

\* The stride schedule evicts the chunks 1 .. J - 1 where J is the first chunk
\* that is not evicted: the frontier, or one whose window fits.
LEMMA StrideEvictsAllBut ==
    ASSUME IInv, NEW r \in Scheduled, cfg.mode = "stride", Row(prompt[r]).window > 0
    PROVE  EvictsAllBut(r, PageSize)
<1> DEFINE d == computed[r]
           p == prompt[r]
           s == SinkEnd(p)
           S == Row(p).chunk
           W == Row(p).window
           eff == EffSeqLen(cfg, p, d)
           f == FrontierChunk(eff, s, S)
           m == Max({1, (W - s) \div S})
           x == WindowTokens(cfg, p)
           y == FrozenTokens(r)
<1>1. /\ r \in Reqs /\ cfg \in Configs /\ p \in Prompts /\ d \in Nat
  BY ScheduledFacts
<1>2. IsGeometry(s, S, W)
  BY <1>1, PromptGeometry
<1>3. s \in Nat \ {0} /\ S \in Nat \ {0} /\ W \in Nat \ {0}
  BY <1>2 DEF IsGeometry
<1>4. eff \in Nat /\ eff <= d
  BY <1>1, EffSeqLenIs
<1>5. y \in Nat /\ d <= eff + y
  BY FrozenIs
<1>6. x = s + m * S
  BY DEF WindowTokens
<1>7. EvictedSpans(cfg, p, d) = IF f < 1 THEN {} ELSE StrideTokens(s, S, W, f)
  BY <1>1, StrideSpans
<1>8. PICK aa \in Nat, bb \in Nat : s = PageSize * aa /\ S = PageSize * bb
  BY <1>2 DEF IsGeometry
<1>9. PageSize \in Nat \ {0}
  BY Constants
<1> HIDE DEF d, p, s, S, W, eff, x, y
<1>10. /\ f \in Int
       /\ eff = 0 => f = -1
       /\ eff > 0 /\ eff <= s => f = 0
       /\ eff > s => f \in Nat \ {0} /\ s + S * (f - 1) < eff /\ eff <= s + S * f
  BY <1>3, <1>4, FrontierIs
<1>11. (W - s) \div S \in Int
  BY <1>3, Division
<1>12. m \in Int /\ 1 <= m /\ (W - s) \div S <= m
  <2>1. 1 \in Int
    OBVIOUS
  <2> QED
    BY <1>11, <2>1, Zenon, MaxOfTwo
<1> HIDE DEF f, m
<1>13. CASE eff <= s
  <2>1. d <= x + y
    <3>1. m * S \in Nat
      BY <1>3, <1>12
    <3> QED
      BY <1>1, <1>3, <1>4, <1>5, <1>6, <1>13, <3>1
  <2>2. PageSize * 0 = 0 /\ 0 .. -1 = {} /\ 0 - 1 = -1
    BY <1>9
  <2>3. /\ 0 \in Nat
        /\ PageSize * 0 <= PageSize * 0 /\ PageSize * 0 <= d
        /\ PageSize * 0 .. PageSize * 0 - 1 \subseteq EvictedSpans(cfg, p, d)
        /\ PageSize * 0 + d - PageSize * 0 <= x + y
    BY <1>1, <2>1, <2>2
  <2> QED
    BY <2>3 DEF EvictsAllBut, d, p, x, y
<1>14. CASE eff > s
  <2> DEFINE T == {j \in 1 .. f : j < f => ~StrideEvicts(s, S, W, j, f)}
             J == Min(T)
  <2>1. f \in Nat \ {0} /\ s + S * (f - 1) < eff /\ eff <= s + S * f
    BY <1>10, <1>14
  <2>2. f \in T /\ T \subseteq Nat
    BY <2>1
  <2>3. J \in T /\ \A j \in T : J <= j
    BY <2>2, MinOf
  <2>4. /\ J \in Nat \ {0} /\ J <= f
        /\ J < f => ~StrideEvicts(s, S, W, J, f)
    BY <2>1, <2>3
  <2>5. ASSUME NEW j \in 1 .. f, j < J PROVE j < f /\ StrideEvicts(s, S, W, j, f)
    BY <2>1, <2>3, <2>4, <2>5
  <2> HIDE DEF T, J
  <2>6. S * (J - 1) \in Nat /\ S * (J - 1) <= S * (f - 1)
    <3>1. J - 1 \in Nat /\ f - 1 \in Nat /\ J - 1 <= f - 1
      BY <2>1, <2>4
    <3> QED
      BY <1>3, <3>1, MulMono
  <2>7. s <= s + S * (J - 1) /\ s + S * (J - 1) <= d
    <3>1. S * (f - 1) \in Nat
      BY <1>3, <2>1
    <3> QED
      BY <1>1, <1>3, <1>4, <2>1, <2>6, <3>1
  <2>8. s .. s + S * (J - 1) - 1 \subseteq EvictedSpans(cfg, p, d)
    <3>1. ASSUME NEW u \in s .. s + S * (J - 1) - 1
          PROVE  u \in StrideTokens(s, S, W, f)
      <4> DEFINE k == FrontierChunk(u + 1, s, S)
      <4>1. u \in Nat /\ s <= u /\ u < s + S * (J - 1)
        BY <1>3, <2>6
      <4>2. k \in Nat \ {0} /\ s + S * (k - 1) < u + 1 /\ u + 1 <= s + S * k
        BY <1>3, <4>1, FrontierIs
      <4> HIDE DEF k
      <4>3. S * (k - 1) \in Nat /\ S * k \in Nat
        BY <1>3, <4>2
      <4>4. S * (k - 1) < S * (J - 1)
        BY <1>3, <2>6, <4>1, <4>2, <4>3
      <4>5. k - 1 < J - 1
        BY <1>3, <2>4, <4>2, <4>4, MulCancel
      <4>6. k \in 1 .. f /\ k < J
        BY <2>1, <2>4, <4>2, <4>5
      <4>7. k < f /\ StrideEvicts(s, S, W, k, f)
        BY <2>5, <4>6
      <4>8. k \in 1 .. f - 1 /\ s + S * (k - 1) <= u /\ u < s + S * k
        BY <1>3, <2>1, <4>1, <4>2, <4>3, <4>7
      <4> QED
        BY <4>1, <4>7, <4>8 DEF StrideTokens
    <3> QED
      BY <1>7, <2>1, <3>1
  <2>9. s + d - (s + S * (J - 1)) <= x + y
    <3> DEFINE q == f - J + 1
    <3>1. q \in Nat \ {0} /\ (J = f => q = 1)
      BY <2>1, <2>4
    <3>2. q <= m
      <4>1. CASE J = f
        BY <1>12, <3>1, <4>1
      <4>2. CASE J < f
        <5>1. s + S * q <= W
          <6>1. ~(s + S * (f - J + 1) > W)
            BY <1>3, <2>4, <4>2 DEF StrideEvicts
          <6>2. S * (f - J + 1) \in Nat
            BY <1>3, <3>1
          <6> QED
            BY <1>3, <6>1, <6>2
        <5> HIDE DEF q
        <5>2. S * q < S * ((W - s) \div S + 1)
          <6>1. W - s < S * ((W - s) \div S) + S
            BY <1>3, Division
          <6>2. S * ((W - s) \div S + 1) = S * ((W - s) \div S) + S
            BY <1>3, <1>11
          <6>3. S * q \in Nat /\ S * ((W - s) \div S) \in Int
            BY <1>3, <1>11, <3>1
          <6> QED
            BY <1>3, <5>1, <6>1, <6>2, <6>3
        <5>3. q < (W - s) \div S + 1
          BY <1>3, <1>11, <3>1, <5>2, MulCancel
        <5> QED
          BY <1>11, <1>12, <3>1, <5>3
      <4> QED
        BY <2>1, <2>4, <4>1, <4>2
    <3>3. S * f = S * (J - 1) + S * q /\ S * f \in Nat
      BY <1>3, <2>1, <2>4
    <3> HIDE DEF q
    <3>4. S * q <= S * m /\ S * q \in Nat /\ S * m \in Int /\ S * m = m * S
      BY <1>3, <1>12, <3>1, <3>2, MulMono
    <3> QED
      BY <1>1, <1>3, <1>4, <1>5, <1>6, <2>1, <2>6, <3>3, <3>4
  <2>10. PICK k \in Nat : s + S * (J - 1) = PageSize * k
    <3>1. aa + bb * (J - 1) \in Nat
      BY <2>4
    <3>2. (PageSize * bb) * (J - 1) = PageSize * (bb * (J - 1))
      BY <1>9, <2>4
    <3>3. PageSize * aa + PageSize * (bb * (J - 1)) = PageSize * (aa + bb * (J - 1))
      BY <1>9, <2>4
    <3> QED
      BY <1>8, <3>1, <3>2, <3>3
  <2>11. /\ PageSize * aa <= PageSize * k /\ PageSize * k <= d
         /\ PageSize * aa .. PageSize * k - 1 \subseteq EvictedSpans(cfg, p, d)
         /\ PageSize * aa + d - PageSize * k <= x + y
    <3>1. PageSize * aa = s /\ PageSize * k = s + S * (J - 1)
      BY <1>8, <2>10
    <3>2. PageSize * aa <= PageSize * k /\ PageSize * k <= d
      BY <2>7, <3>1
    <3>3. PageSize * aa .. PageSize * k - 1 \subseteq EvictedSpans(cfg, p, d)
      BY <1>3, <2>6, <2>8, <3>1
    <3>4. PageSize * aa + d - PageSize * k <= x + y
      BY <2>9, <3>1
    <3> QED
      BY <3>2, <3>3, <3>4
  <2> QED
    BY <2>11 DEF EvictsAllBut, d, p, x, y
<1> QED
  BY <1>3, <1>4, <1>13, <1>14

\* A chunk of at most S tokens ends S tokens after it starts, so that k of them
\* hold at most k * S.
LEMMA BoundsBelow ==
    ASSUME NEW ch, IsChunking(ch), NEW S \in Nat \ {0},
           \A j \in 0 .. ch.n - 1 : ch.bound[j + 1] <= ch.bound[j] + S,
           NEW k \in 0 .. ch.n
    PROVE  ch.bound[k] \in Nat /\ ch.bound[k] <= k * S
<1> DEFINE T == {j \in 0 .. ch.n : ch.bound[j] > j * S}
           m == Min(T)
<1>1. ch.n \in Nat /\ ch.bound[0] = 0 /\ \A j \in 0 .. ch.n : ch.bound[j] \in Nat
  BY DEF IsChunking
<1>2. T = {}
  <2> SUFFICES ASSUME T # {} PROVE FALSE
    OBVIOUS
  <2>1. T \subseteq Nat
    BY <1>1
  <2>2. m \in T /\ \A j \in T : m <= j
    BY <2>1, MinOf
  <2>3. m \in 0 .. ch.n /\ ch.bound[m] > m * S
    BY <2>2
  <2>4. m # 0
    <3> HIDE DEF m, T
    <3> SUFFICES ASSUME m = 0 PROVE FALSE
      OBVIOUS
    <3>1. m * S = 0 /\ ch.bound[m] = 0
      BY <1>1
    <3> QED
      BY <2>3, <3>1
  <2>5. m - 1 \in 0 .. ch.n /\ m - 1 \in 0 .. ch.n - 1 /\ (m - 1) + 1 = m /\ ~(m <= m - 1)
    BY <1>1, <2>3, <2>4
  <2>6. m - 1 \notin T
    BY <2>2, <2>5
  <2>7. ~(ch.bound[m - 1] > (m - 1) * S)
    BY <2>5, <2>6
  <2> HIDE DEF m, T
  <2>8. ch.bound[m] <= ch.bound[m - 1] + S
    BY <2>5
  <2>9. ch.bound[m] \in Nat /\ ch.bound[m - 1] \in Nat
    BY <1>1, <2>3, <2>5
  <2>10. (m - 1) * S + S = m * S /\ (m - 1) * S \in Nat /\ m * S \in Nat
    BY <1>1, <2>3, <2>5
  <2> QED
    BY <2>3, <2>7, <2>8, <2>9, <2>10
<1>3. k \notin T
  BY <1>2
<1>4. k * S \in Nat
  BY <1>1
<1> QED
  BY <1>1, <1>3, <1>4

\* The same for the message schedule: the sink, then chunks up to the first one
\* that is not evicted.
LEMMA MessageEvictsAllBut ==
    ASSUME IInv, NEW r \in Scheduled, cfg.mode = "message", cfg.tokenLimit > 0
    PROVE  EvictsAllBut(r, 1)
<1> DEFINE d == computed[r]
           p == prompt[r]
           S == cfg.chunkSize
           W == cfg.tokenLimit
           z == cfg.nSink
           ch == MessageChunking(p, S)
           lim == MessageLimits(cfg)
           eff == EffSeqLen(cfg, p, d)
           f == MessageFrontier(ch, eff)
           x == WindowTokens(cfg, p)
           y == FrozenTokens(r)
<1>1. /\ r \in Reqs /\ cfg \in Configs /\ p \in Prompts /\ d \in Nat /\ p.len \in Nat
  BY ScheduledFacts
<1>2. S \in Nat \ {0} /\ W \in Nat \ {0} /\ z \in Nat
  BY <1>1, ConfigAssumption
<1>3. IsLimits(lim) /\ lim.sink = z /\ lim.tokens = W
  BY <1>1, MessageLimitsAre DEF MessageLimits
<1>4. eff \in Nat /\ eff <= d /\ eff <= p.len
  <2>1. EffSeqLen(cfg, p, d) = IF d < p.len THEN d ELSE p.len
    BY DEF EffSeqLen
  <2>2. eff \in Nat /\ eff <= d
    BY <1>1, EffSeqLenIs
  <2> QED
    BY <1>1, <2>1, <2>2
<1>5. y \in Nat /\ d <= eff + y
  BY FrozenIs
<1>6. /\ IsChunking(ch) /\ ch.n \in Nat \ {0} /\ ch.bound[ch.n] = p.len
      /\ \A j \in 0 .. ch.n - 1 : ch.bound[j + 1] <= ch.bound[j] + S
  BY <1>1, <1>2, MessageIsChunking
<1>7. x = Max({W, z * S + S})
  BY DEF WindowTokens
<1>8. z * S \in Nat /\ x \in Int /\ W <= x /\ z * S + S <= x
  <2>1. z * S \in Nat
    BY <1>2
  <2>2. W \in Int /\ z * S + S \in Int
    BY <1>2, <2>1
  <2> HIDE DEF W, z, S, x
  <2>3. /\ Max({W, z * S + S}) \in Int
        /\ W <= Max({W, z * S + S}) /\ z * S + S <= Max({W, z * S + S})
    BY <2>2, Zenon, MaxOfTwo
  <2> QED
    BY <1>7, <2>1, <2>3
<1>9. EvictedSpans(cfg, p, d) = EvictedTokens(ch, lim, f)
  BY <1>1, MessageSpans
<1> HIDE DEF d, p, S, W, z, ch, lim, eff, x, y
<1>10. /\ f \in 0 .. ch.n - 1
       /\ f > 0 => ch.bound[f] < eff
       /\ \A k \in 0 .. ch.n - 1 : ch.bound[k] < eff => k <= f
  BY <1>4, <1>6, MessageFrontierIs
<1> HIDE DEF f
<1>11. /\ ch.bound[0] = 0
       /\ \A k \in 0 .. ch.n : ch.bound[k] \in Nat
       /\ f \in 0 .. ch.n /\ f + 1 \in 0 .. ch.n
  BY <1>6, <1>10 DEF IsChunking
<1>12. eff <= ch.bound[f + 1]
  <2>1. CASE f + 1 = ch.n
    BY <1>4, <1>6, <2>1
  <2>2. CASE f + 1 # ch.n
    <3>1. f + 1 \in 0 .. ch.n - 1 /\ ~(f + 1 <= f)
      BY <1>6, <1>10, <2>2
    <3> QED
      BY <1>4, <1>10, <1>11, <3>1
  <2> QED
    BY <2>1, <2>2
<1>13. ASSUME NEW a \in 0 .. ch.n, NEW b \in 0 .. ch.n,
              ch.bound[a] <= ch.bound[b], ch.bound[b] <= d,
              ch.bound[a] .. ch.bound[b] - 1 \subseteq EvictedSpans(cfg, p, d),
              ch.bound[a] + d - ch.bound[b] <= x + y
       PROVE  EvictsAllBut(r, 1)
  <2> DEFINE lo == ch.bound[a]
             hi == ch.bound[b]
  <2>1. lo \in Nat /\ hi \in Nat /\ 1 * lo = lo /\ 1 * hi = hi
    BY <1>11
  <2>2. /\ 1 * lo <= 1 * hi /\ 1 * hi <= d
        /\ 1 * lo .. 1 * hi - 1 \subseteq EvictedSpans(cfg, p, d)
        /\ 1 * lo + d - 1 * hi <= x + y
    BY <1>13, <2>1
  <2> HIDE DEF lo, hi
  <2> QED
    BY <2>1, <2>2 DEF EvictsAllBut, d, p, x, y
<1>14. CASE f < z
  <2>1. ch.bound[f + 1] <= (f + 1) * S
    BY <1>2, <1>6, <1>11, BoundsBelow
  <2>2. (f + 1) * S <= z * S
    <3>1. S * (f + 1) <= S * z
      BY <1>2, <1>10, <1>14, MulMono
    <3>2. S * (f + 1) = (f + 1) * S /\ S * z = z * S
      BY <1>2, <1>10
    <3> QED
      BY <3>1, <3>2
  <2>3. d <= x + y
    <3>1. (f + 1) * S \in Nat
      BY <1>2, <1>10
    <3> QED
      BY <1>1, <1>2, <1>4, <1>5, <1>8, <1>11, <1>12, <2>1, <2>2, <3>1
  <2>4. 0 \in 0 .. ch.n /\ 0 .. 0 - 1 = {}
    BY <1>6
  <2>5. /\ ch.bound[0] <= ch.bound[0] /\ ch.bound[0] <= d
        /\ ch.bound[0] .. ch.bound[0] - 1 \subseteq EvictedSpans(cfg, p, d)
        /\ ch.bound[0] + d - ch.bound[0] <= x + y
    BY <1>1, <1>11, <2>3, <2>4
  <2> QED
    BY <1>13, <2>4, <2>5
<1>15. CASE z <= f
  <2> DEFINE T == {j \in z .. f : j < f => ~Exceeds(ch, lim, j, f)}
             J == Min(T)
  <2>1. f \in T /\ T \subseteq Nat
    BY <1>2, <1>10, <1>15
  <2>2. J \in T /\ \A j \in T : J <= j
    BY <2>1, MinOf
  <2>3. /\ J \in Nat /\ z <= J /\ J <= f
        /\ J < f => ~Exceeds(ch, lim, J, f)
    BY <1>2, <1>10, <2>2
  <2>4. ASSUME NEW j \in z .. f, j < J PROVE j < f /\ Exceeds(ch, lim, j, f)
    <3>1. j \notin T
      BY <1>2, <1>10, <2>2, <2>3, <2>4
    <3> QED
      BY <3>1
  <2> HIDE DEF T, J
  <2>5. z \in 0 .. ch.n /\ J \in 0 .. ch.n /\ z < ch.n
    BY <1>2, <1>6, <1>10, <1>15, <2>3
  <2>6. ch.bound[z] <= ch.bound[J] /\ ch.bound[J] <= ch.bound[f]
    BY <1>6, <1>11, <2>3, <2>5, BoundsGrow
  <2>7. ch.bound[J] <= d
    <3>1. CASE f = 0
      <4>1. J = 0
        BY <2>3, <3>1
      <4> QED
        BY <1>1, <1>11, <4>1
    <3>2. CASE f > 0
      BY <1>1, <1>4, <1>10, <1>11, <2>5, <2>6, <3>2
    <3> QED
      BY <1>10, <3>1, <3>2
  <2>8. ch.bound[z] .. ch.bound[J] - 1 \subseteq EvictedSpans(cfg, p, d)
    <3>1. ASSUME NEW u \in ch.bound[z] .. ch.bound[J] - 1
          PROVE  u \in EvictedTokens(ch, lim, f)
      <4> DEFINE V == {j \in 0 .. ch.n - 1 : u < ch.bound[j + 1]}
                 k == Min(V)
      <4>1. u \in Nat /\ ch.bound[z] <= u /\ u < ch.bound[J]
        BY <1>11, <2>5
      <4>2. J # 0 /\ J - 1 \in 0 .. ch.n - 1 /\ (J - 1) + 1 = J
        <5>1. J # 0
          <6> SUFFICES ASSUME J = 0 PROVE FALSE
            OBVIOUS
          <6>1. ch.bound[J] = 0
            BY <1>11
          <6> QED
            BY <4>1, <6>1
        <5> QED
          BY <1>6, <2>3, <2>5, <5>1
      <4>3. J - 1 \in V /\ V \subseteq Nat
        BY <1>6, <4>1, <4>2
      <4>4. k \in V /\ \A j \in V : k <= j
        BY <4>3, MinOf
      <4>5. k \in 0 .. ch.n - 1 /\ u < ch.bound[k + 1] /\ k <= J - 1
        BY <4>3, <4>4
      <4>6. ASSUME k # 0 PROVE ch.bound[k] <= u
        <5>1. k - 1 \in 0 .. ch.n - 1 /\ (k - 1) + 1 = k /\ ~(k <= k - 1)
          BY <1>6, <4>5, <4>6
        <5>2. k - 1 \notin V
          BY <4>4, <5>1
        <5>3. ~(u < ch.bound[k])
          BY <5>1, <5>2
        <5> HIDE DEF k
        <5>4. k \in 0 .. ch.n
          BY <1>6, <4>5
        <5> QED
          BY <1>11, <4>1, <5>3, <5>4
      <4> HIDE DEF k, V
      <4>7. k \in 0 .. ch.n /\ k + 1 \in 0 .. ch.n
        BY <1>6, <4>5
      <4>8. ch.bound[k] <= u
        BY <1>11, <4>1, <4>6
      <4>9. z <= k
        <5> SUFFICES ASSUME k + 1 <= z PROVE FALSE
          BY <1>2, <4>7
        <5>1. ch.bound[k + 1] <= ch.bound[z]
          BY <1>6, <2>5, <4>7, BoundsGrow
        <5> QED
          BY <1>11, <2>5, <4>1, <4>5, <4>7, <5>1
      <4>10. k \in z .. f /\ k < J
        BY <1>2, <1>10, <2>3, <4>5, <4>9
      <4>11. k < f /\ Exceeds(ch, lim, k, f)
        BY <2>4, <4>10
      <4>12. k \in 0 .. f - 1 /\ Evicted(ch, lim, k, f)
        BY <1>3, <1>10, <4>5, <4>9, <4>11 DEF Evicted
      <4>13. u \in ChunkTokens(ch, k)
        BY <1>11, <4>1, <4>5, <4>7, <4>8 DEF ChunkTokens
      <4> QED
        BY <4>12, <4>13 DEF EvictedTokens
    <3> QED
      BY <1>9, <3>1
  <2>9. ch.bound[z] + d - ch.bound[J] <= x + y
    <3>1. d <= ch.bound[f + 1] + y
      BY <1>1, <1>4, <1>5, <1>11, <1>12
    <3>2. /\ ch.bound[z] \in Nat /\ ch.bound[J] \in Nat /\ ch.bound[f + 1] \in Nat
          /\ ch.bound[f] \in Nat
      BY <1>11, <2>5
    <3>3. CASE J = f
      <4>1. ch.bound[f + 1] <= ch.bound[f] + S
        BY <1>6, <1>10
      <4>2. ch.bound[z] <= z * S
        BY <1>2, <1>6, <2>5, BoundsBelow
      <4>3. ch.bound[z] + ch.bound[f + 1] - ch.bound[f] <= z * S + S
        BY <1>2, <1>8, <3>2, <4>1, <4>2
      <4> QED
        BY <1>1, <1>2, <1>5, <1>8, <3>1, <3>2, <3>3, <4>3
    <3>4. CASE J < f
      <4>1. SinkTokens(ch, lim) = ch.bound[z]
        BY <1>3, <1>6, <2>5, SinkIs
      <4>2. ~(SinkTokens(ch, lim) + SpanTokens(ch, J, f) > lim.tokens)
        BY <1>2, <1>3, <2>3, <3>4 DEF Exceeds
      <4>3. ch.bound[z] + (ch.bound[f + 1] - ch.bound[J]) <= W
        BY <1>2, <1>3, <3>2, <4>1, <4>2 DEF SpanTokens
      <4> QED
        BY <1>1, <1>2, <1>5, <1>8, <3>1, <3>2, <4>3
    <3> QED
      BY <1>10, <2>3, <3>3, <3>4
  <2> QED
    BY <1>13, <2>5, <2>6, <2>7, <2>8, <2>9
<1> QED
  BY <1>2, <1>10, <1>14, <1>15

\* A window is a number of tokens.
LEMMA WindowTokensAre ==
    ASSUME NEW c \in Configs, NEW p \in Prompts
    PROVE  WindowTokens(c, p) \in Nat
<1> DEFINE s == SinkEnd(p)
           S == Row(p).chunk
           W == Row(p).window
           m == Max({1, (W - s) \div S})
           z == c.nSink * c.chunkSize
<1>1. s \in Nat /\ S \in Nat \ {0} /\ W \in Nat
  BY PromptGeometry DEF IsGeometry
<1>2. z \in Nat /\ c.tokenLimit \in Nat /\ c.chunkSize \in Nat
  <2>1. c.nSink \in Nat /\ c.tokenLimit \in Nat /\ c.chunkSize \in Nat
    BY ConfigAssumption
  <2> QED
    BY <2>1
<1>3. WindowTokens(c, p) = IF c.mode = "stride" THEN s + m * S ELSE Max({c.tokenLimit, z + c.chunkSize})
  BY DEF WindowTokens
<1> HIDE DEF s, S, W, z
<1>4. m \in Int /\ 1 <= m
  <2>1. 1 \in Int
    OBVIOUS
  <2>2. (W - s) \div S \in Int
    BY <1>1, Division
  <2> QED
    BY <2>1, <2>2, Zenon, MaxOfTwo
<1> HIDE DEF m
<1>5. s + m * S \in Nat
  <2>1. m * S \in Nat
    BY <1>1, <1>4
  <2> QED
    BY <1>1, <2>1
<1>6. Max({c.tokenLimit, z + c.chunkSize}) \in Nat
  <2>1. c.tokenLimit \in Int /\ z + c.chunkSize \in Int
    BY <1>2
  <2>2. /\ Max({c.tokenLimit, z + c.chunkSize}) \in Int
        /\ c.tokenLimit <= Max({c.tokenLimit, z + c.chunkSize})
    BY <2>1, Zenon, MaxOfTwo
  <2> QED
    BY <1>2, <2>2
<1> QED
  BY <1>3, <1>5, <1>6

\* evict_manager.py's "peak KV stays bounded at [sink + recent window]": every
\* block of evicted tokens was freed by the call before the slice.
THEOREM KVIsBounded == Spec => []KVBounded
<1>1. IInv => KVBounded
  <2> SUFFICES ASSUME IInv, cfg.physical, NEW r \in Scheduled,
                      (IF cfg.mode = "stride" THEN Row(prompt[r]).window ELSE cfg.tokenLimit) > 0,
                      computed[r] > Len(hit[r]) * BlockSize
               PROVE  Cardinality(LiveBlocks(r)) <=
                        CeilDiv(WindowTokens(cfg, prompt[r]) + batch[r] + FrozenTokens(r)
                                  + 2 * (BlockSize - (IF cfg.mode = "stride" THEN PageSize ELSE 1)),
                                BlockSize)
    BY Zenon DEF KVBounded
  <2> DEFINE d == computed[r]
             p == prompt[r]
             g == IF cfg.mode = "stride" THEN PageSize ELSE 1
             x == WindowTokens(cfg, p) + batch[r] + FrozenTokens(r)
  <2>1. /\ r \in Reqs /\ cfg \in Configs /\ p \in Prompts
        /\ d \in Nat /\ batch[r] \in Nat \ {0} /\ d + batch[r] \in Nat
    BY ScheduledFacts
  <2>2. cfg.mode \in {"message", "stride"}
    BY <2>1, ConfigAssumption
  <2>3. EvictsAllBut(r, g)
    BY <2>2, StrideEvictsAllBut, MessageEvictsAllBut
  <2>4. g \in Nat \ {0} /\ \E k \in Nat : BlockSize = g * k
    <3>1. PageSize \in Nat \ {0} /\ BlockSize \in Nat \ {0} /\ BlockSize % PageSize = 0
      BY ServeAssumption, PolicyAssumption
    <3>2. BlockSize = PageSize * (BlockSize \div PageSize) /\ BlockSize \div PageSize \in Nat
      BY <3>1
    <3>3. BlockSize = 1 * BlockSize /\ BlockSize \in Nat
      BY <3>1
    <3>4. CASE cfg.mode = "stride"
      BY <3>1, <3>2, <3>4
    <3>5. CASE cfg.mode # "stride"
      BY <3>1, <3>3, <3>5
    <3> QED
      BY <3>4, <3>5
  <2>5. PICK k \in Nat : BlockSize = g * k
    BY <2>4
  <2>6. PICK a \in Nat, b \in Nat :
            /\ g * a <= g * b /\ g * b <= d
            /\ g * a .. g * b - 1 \subseteq EvictedSpans(cfg, p, d)
            /\ g * a + d - g * b <= WindowTokens(cfg, p) + FrozenTokens(r)
    BY <2>3 DEF EvictsAllBut
  <2>7. FrozenTokens(r) \in Nat
    BY FrozenIs
  <2>8. WindowTokens(cfg, p) \in Int
    BY <2>1, WindowTokensAre
  <2>9. d + batch[r] \in Nat /\ g * b <= d + batch[r] /\ x \in Nat
        /\ g * a + (d + batch[r]) - g * b <= x
    <3> HIDE DEF g, d, p
    <3>1. g * a \in Nat /\ g * b \in Nat
      BY <2>4
    <3>2. WindowTokens(cfg, p) + FrozenTokens(r) \in Nat
      BY <2>1, <2>7, WindowTokensAre
    <3>3. x \in Nat /\ x = (WindowTokens(cfg, p) + FrozenTokens(r)) + batch[r]
      BY <2>1, <2>7, <2>8, <3>2, SMTT(30)
    <3> DEFINE A == g * a
               E == g * b
               w == WindowTokens(cfg, p) + FrozenTokens(r)
    <3>4. A \in Nat /\ E \in Nat /\ E <= d /\ A + d - E <= w /\ w \in Nat /\ x = w + batch[r] /\ x \in Nat
      BY <2>6, <3>1, <3>2, <3>3
    <3> HIDE DEF x, A, E, w
    <3>5. E <= d + batch[r] /\ A + (d + batch[r]) - E <= x
      BY <2>1, <3>4, SMTT(30)
    <3> QED
      BY <2>1, <3>4, <3>5 DEF A, E
  <2>10. ASSUME NEW m \in LiveBlocks(r)
         PROVE  /\ m \in 0 .. CeilDiv(d + batch[r], BlockSize) - 1
                /\ ~(BlockTokens(m) \subseteq g * a .. g * b - 1)
    <3>1. m \in 0 .. CeilDiv(d + batch[r], BlockSize) - 1 /\ m \notin nulled[r]
      BY <2>10 DEF LiveBlocks
    <3> SUFFICES ASSUME BlockTokens(m) \subseteq g * a .. g * b - 1 PROVE FALSE
      BY <3>1
    <3>2. BlockTokens(m) \subseteq EvictedSpans(cfg, p, d)
      <4> HIDE DEF g, d, p
      <4> QED
        BY <2>6
    <3>3. m \in Nat /\ (m + 1) * BlockSize <= d
      BY <2>1, <3>1, <3>2, BlockBelow
    <3>4. m \in 0 .. CeilDiv(d, BlockSize) - 1
      <4> DEFINE q == CeilDiv(d, BlockSize)
      <4>1. BlockSize \in Nat \ {0}
        BY Constants
      <4>2. q \in Int /\ d <= BlockSize * q
        <5>1. d \in Int
          BY <2>1
        <5> HIDE DEF d
        <5> QED
          BY <4>1, <5>1, Ceiling
      <4> HIDE DEF q, d
      <4>3. BlockSize * m < BlockSize * q
        <5>1. /\ (m + 1) * BlockSize = BlockSize * m + BlockSize
              /\ BlockSize * m \in Nat /\ BlockSize * q \in Int
          BY <3>3, <4>1, <4>2
        <5> QED
          BY <2>1, <3>3, <4>1, <4>2, <5>1, SMTT(30)
      <4>4. m < q
        BY <3>3, <4>1, <4>2, <4>3, MulCancel
      <4> QED
        BY <3>3, <4>2, <4>4 DEF q
    <3>5. batch[r] > 0 /\ d > Len(hit[r]) * BlockSize
      BY <2>1
    <3>6. m \in nulled[r]
      BY <2>1, <3>2, <3>4, <3>5 DEF IInv, FreedInv
    <3> QED
      BY <3>1, <3>6
  <2>11. LiveBlocks(r) \in SUBSET (0 .. CeilDiv(d + batch[r], BlockSize) - 1)
    BY <2>10
  <2> HIDE DEF g, d, x, p
  <2>12. Cardinality(LiveBlocks(r)) <= CeilDiv(x + 2 * (BlockSize - g), BlockSize)
    BY <2>4, <2>5, <2>6, <2>9, <2>10, <2>11, BlocksOutside
  <2> QED
    BY <2>12 DEF g, x, p
<1> QED
  BY Invariance, <1>1, PTL
====

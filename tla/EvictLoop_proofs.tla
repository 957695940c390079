---- MODULE EvictLoop_proofs ----
(***************************************************************************)
(* compute_evict_at computes the window rule for every list of contiguous  *)
(* chunks and every limit.                                                 *)
(***************************************************************************)
EXTENDS EvictLoop, FiniteSetTheorems, WellFoundedInduction, TLAPS

\* The last chunk that has arrived, and the oldest one that is still live
\* (last + 1 when none is).
last == IF pc = "while" THEN i ELSE i - 1
oldest == last + 1 - Len(live)

\* The window is the run of chunks oldest .. last, its counter is right, and
\* the window opens at the end of the sink.
WindowInv ==
    /\ pc = "while" => i < N /\ in.lim.sink <= i /\ Len(live) > 0
    /\ pc = "done" => i = N
    /\ Len(live) <= last + 1
    /\ \A k \in 1 .. Len(live) : live[k] = oldest + k - 1
    /\ Len(live) = 0 => i <= in.lim.sink
    /\ Len(live) > 0 => in.lim.sink <= oldest
    /\ liveTok = SinkTokens(in.ch, in.lim) + in.ch.bound[last + 1] - in.ch.bound[oldest]

\* What evict_at says of the frontiers that are finished, of the one under way
\* and of the chunks that are still live.
ResultInv ==
    /\ \A j \in 0 .. N - 1, c \in 0 .. i - 1 :
          c < N => (evictAt[j] <= c <=> Evicted(in.ch, in.lim, j, c))
    /\ \A j \in 0 .. N - 1 : in.lim.sink <= j /\ j < oldest =>
          evictAt[j] <= last /\ Evicted(in.ch, in.lim, j, last)
    /\ \A j \in 0 .. N - 1 : j < in.lim.sink \/ oldest <= j => evictAt[j] = N

IInv == TypeOK /\ WindowInv /\ ResultInv

-----------------------------------------------------------------------------

\* A window that breaks a limit still breaks it when newer chunks join.
LEMMA ExceedsGrows ==
    ASSUME NEW ch, IsChunking(ch), NEW lim, IsLimits(lim),
           NEW j \in 0 .. ch.n - 1, NEW c \in 0 .. ch.n - 1, NEW d \in 0 .. ch.n - 1,
           c <= d, Exceeds(ch, lim, j, c)
    PROVE  Exceeds(ch, lim, j, d)
<1>1. /\ ch.n \in Nat
      /\ c + 1 \in 0 .. ch.n
      /\ d + 1 \in 0 .. ch.n
      /\ j \in 0 .. ch.n
    BY DEF IsChunking
<1>2. ch.bound[c + 1] \in Nat /\ ch.bound[d + 1] \in Nat /\ ch.bound[j] \in Nat
    BY <1>1 DEF IsChunking
<1>3. ch.bound[c + 1] <= ch.bound[d + 1]
  <2>1. CASE c = d
    BY <2>1, <1>2
  <2>2. CASE c < d
    BY <2>2, <1>1, <1>2, SMTT(30) DEF IsChunking
  <2> QED
    BY <2>1, <2>2
<1>4. SinkTokens(ch, lim) \in Nat
  <2>1. (IF lim.sink < ch.n THEN lim.sink ELSE ch.n) \in 0 .. ch.n
    BY <1>1 DEF IsLimits
  <2> QED
    BY <2>1 DEF SinkTokens, IsChunking
<1> QED
  BY <1>1, <1>2, <1>3, <1>4 DEF Exceeds, SpanTokens, IsLimits

\* A window that fits still fits when its oldest chunks leave.
LEMMA ExceedsShrinks ==
    ASSUME NEW ch, IsChunking(ch), NEW lim, IsLimits(lim),
           NEW j \in 0 .. ch.n - 1, NEW k \in 0 .. ch.n - 1, NEW c \in 0 .. ch.n - 1,
           j <= k, Exceeds(ch, lim, k, c)
    PROVE  Exceeds(ch, lim, j, c)
<1>1. /\ ch.n \in Nat
      /\ c + 1 \in 0 .. ch.n
      /\ k \in 0 .. ch.n
      /\ j \in 0 .. ch.n
    BY DEF IsChunking
<1>2. ch.bound[c + 1] \in Nat /\ ch.bound[k] \in Nat /\ ch.bound[j] \in Nat
    BY <1>1 DEF IsChunking
<1>3. ch.bound[j] <= ch.bound[k]
  <2>1. CASE j = k
    BY <2>1, <1>2
  <2>2. CASE j < k
    BY <2>2, <1>1, <1>2, SMTT(30) DEF IsChunking
  <2> QED
    BY <2>1, <2>2
<1>4. SinkTokens(ch, lim) \in Nat
  <2>1. (IF lim.sink < ch.n THEN lim.sink ELSE ch.n) \in 0 .. ch.n
    BY <1>1 DEF IsLimits
  <2> QED
    BY <2>1 DEF SinkTokens, IsChunking
<1> QED
  BY <1>1, <1>2, <1>3, <1>4 DEF Exceeds, SpanTokens, IsLimits
-----------------------------------------------------------------------------

\* Facts about the input that every step uses.
InputOK ==
    /\ IsChunking(in.ch) /\ IsLimits(in.lim)
    /\ N \in Nat
    /\ in.lim.sink \in Nat /\ in.lim.chunks \in Nat /\ in.lim.tokens \in Nat
    /\ SinkTokens(in.ch, in.lim) \in Nat
    /\ \A k \in 0 .. N : in.ch.bound[k] \in Nat
    /\ \A j \in 0 .. N - 1 : Tok(j) = in.ch.bound[j + 1] - in.ch.bound[j]
    /\ \A j, k \in 0 .. N : j < k => in.ch.bound[j] < in.ch.bound[k]

LEMMA InputFacts == in \in Inputs => InputOK
<1> SUFFICES ASSUME in \in Inputs PROVE InputOK
    OBVIOUS
<1>1. IsChunking(in.ch) /\ IsLimits(in.lim)
    BY InputsAssumption
<1>2. N \in Nat /\ \A k \in 0 .. N : in.ch.bound[k] \in Nat
    BY <1>1 DEF IsChunking, N
<1>3. in.lim.sink \in Nat /\ in.lim.chunks \in Nat /\ in.lim.tokens \in Nat
    BY <1>1 DEF IsLimits
<1>4. SinkTokens(in.ch, in.lim) \in Nat
  <2>1. (IF in.lim.sink < N THEN in.lim.sink ELSE N) \in 0 .. N
    BY <1>2, <1>3
  <2> QED
    BY <2>1, <1>2 DEF SinkTokens, N
<1>5. \A j \in 0 .. N - 1 : Tok(j) = in.ch.bound[j + 1] - in.ch.bound[j]
    BY DEF Tok, SpanTokens
<1>6. \A j, k \in 0 .. N : j < k => in.ch.bound[j] < in.ch.bound[k]
    BY <1>1 DEF IsChunking, N
<1> QED
    BY <1>1, <1>2, <1>3, <1>4, <1>5, <1>6 DEF InputOK

LEMMA InitIInv == Init => IInv
<1> SUFFICES ASSUME Init PROVE IInv
    OBVIOUS
<1>1. in \in Inputs
    BY DEF Init
<1>0. InputOK
    BY InputFacts, <1>1
<1>n. /\ N \in Nat /\ SinkTokens(in.ch, in.lim) \in Nat
      /\ in.lim.sink \in Nat /\ in.lim.chunks \in Nat /\ in.lim.tokens \in Nat
    BY <1>0 DEF InputOK
<1> USE <1>1, <1>n
<1>2. TypeOK
    BY DEF Init, TypeOK
<1>3. last = -1 /\ Len(live) = 0 /\ oldest = 0
  <2>1. last = -1 /\ Len(live) = 0
    BY DEF Init, last
  <2> QED
    BY <2>1 DEF oldest
<1>4. WindowInv
  <2>1. in.ch.bound[0] \in Nat
    BY <1>0 DEF InputOK
  <2>2. liveTok = SinkTokens(in.ch, in.lim) + in.ch.bound[last + 1] - in.ch.bound[oldest]
    BY <1>3, <2>1 DEF Init
  <2> QED
    BY <1>3, <2>2 DEF Init, WindowInv
<1>5. ResultInv
    BY <1>3 DEF Init, ResultInv
<1> QED
    BY <1>2, <1>4, <1>5 DEF IInv

LEMMA SkipSinkIInv == IInv /\ SkipSink => IInv'
<1> SUFFICES ASSUME IInv, SkipSink PROVE IInv'
    OBVIOUS
<1>1. in \in Inputs /\ in' = in /\ N' = N
    BY DEF IInv, TypeOK, SkipSink, N
<1>0. InputOK
    BY InputFacts, <1>1
<1>n. /\ N \in Nat /\ SinkTokens(in.ch, in.lim) \in Nat
      /\ in.lim.sink \in Nat /\ in.lim.chunks \in Nat /\ in.lim.tokens \in Nat
    BY <1>0 DEF InputOK
<1> USE <1>1, <1>n
<1>2. TypeOK'
    BY DEF IInv, TypeOK, SkipSink
<1>3. Len(live) \in Nat /\ i \in 0 .. N
    BY DEF IInv, TypeOK
<1>4. Len(live) = 0
    BY <1>3 DEF IInv, WindowInv, SkipSink, last, oldest
<1>5. last = i - 1 /\ last' = i /\ oldest = i /\ oldest' = i + 1
    BY <1>3, <1>4 DEF SkipSink, last, oldest
<1>6. WindowInv'
  <2>1. i < N /\ i < in.lim.sink /\ pc = "for" /\ i' = i + 1
        /\ UNCHANGED <<live, liveTok, pc>>
    BY DEF SkipSink
  <2>2. in.ch.bound[i] \in Nat /\ in.ch.bound[i + 1] \in Nat
    BY <1>0, <1>3, <2>1 DEF InputOK
  <2>3. liveTok = SinkTokens(in.ch, in.lim)
    BY <1>3, <1>5, <2>2 DEF IInv, WindowInv
  <2>4. liveTok' = SinkTokens(in.ch, in.lim) + in.ch.bound[last' + 1] - in.ch.bound[oldest']
    BY <1>5, <2>1, <2>2, <2>3
  <2> QED
    BY <1>3, <1>4, <1>5, <2>1, <2>4 DEF WindowInv
<1>7. ResultInv'
  <2>1. \A j \in 0 .. N - 1 : evictAt'[j] = N
    BY <1>3, <1>5 DEF IInv, ResultInv, SkipSink
  <2>2. \A j \in 0 .. N - 1, c \in 0 .. i : ~ Evicted(in.ch, in.lim, j, c)
    BY <1>3 DEF SkipSink, Evicted
  <2> QED
    BY <1>3, <1>5, <2>1, <2>2 DEF ResultInv, SkipSink
<1> QED
    BY <1>2, <1>6, <1>7 DEF IInv

LEMMA ArriveIInv == IInv /\ Arrive => IInv'
<1> SUFFICES ASSUME IInv, Arrive PROVE IInv'
    OBVIOUS
<1>1. in \in Inputs /\ in' = in /\ N' = N
    BY DEF IInv, TypeOK, Arrive, N
<1>0. InputOK
    BY InputFacts, <1>1
<1>n. /\ N \in Nat /\ SinkTokens(in.ch, in.lim) \in Nat
      /\ in.lim.sink \in Nat /\ in.lim.chunks \in Nat /\ in.lim.tokens \in Nat
    BY <1>0 DEF InputOK
<1> USE <1>1, <1>n
<1>2. /\ i \in 0 .. N - 1 /\ i' = i /\ pc = "for" /\ pc' = "while"
      /\ live \in Seq(0 .. N - 1) /\ Len(live) \in Nat
      /\ live' = Append(live, i) /\ evictAt' = evictAt
    BY DEF IInv, TypeOK, Arrive
<1>3. /\ live' \in Seq(0 .. N - 1)
      /\ Len(live') = Len(live) + 1
      /\ \A k \in 1 .. Len(live) : live'[k] = live[k]
      /\ live'[Len(live) + 1] = i
    BY <1>2
<1>4. last = i - 1 /\ last' = i /\ oldest' = oldest /\ oldest = i - Len(live)
    BY <1>2, <1>3 DEF last, oldest
<1>5. Len(live) <= i /\ oldest \in 0 .. i
    BY <1>2, <1>4, SMTT(30) DEF IInv, WindowInv
<1>6. liveTok' = SinkTokens(in.ch, in.lim) + in.ch.bound[i + 1] - in.ch.bound[oldest]
  <2>1. i \in 0 .. N /\ i + 1 \in 0 .. N /\ oldest \in 0 .. N
    BY <1>2, <1>5
  <2>3. /\ in.ch.bound[i] \in Nat /\ in.ch.bound[i + 1] \in Nat
        /\ in.ch.bound[oldest] \in Nat
    BY <1>0, <2>1 DEF InputOK
  <2>4. Tok(i) = in.ch.bound[i + 1] - in.ch.bound[i]
    BY <1>0, <1>2 DEF InputOK
  <2>2. liveTok = SinkTokens(in.ch, in.lim) + in.ch.bound[i] - in.ch.bound[oldest]
    BY <1>2, <1>4 DEF IInv, WindowInv
  <2>5. liveTok' = liveTok + Tok(i)
    BY DEF Arrive
  <2> QED
    BY <2>2, <2>3, <2>4, <2>5
<1>7. TypeOK'
  <2>1. liveTok' \in Nat
    <3>1. oldest \in 0 .. N /\ i + 1 \in 0 .. N /\ oldest < i + 1
      BY <1>2, <1>5
    <3>2. /\ in.ch.bound[oldest] < in.ch.bound[i + 1]
          /\ in.ch.bound[oldest] \in Nat /\ in.ch.bound[i + 1] \in Nat
      BY <1>0, <3>1 DEF InputOK
    <3> QED
      BY <1>6, <3>2
  <2> QED
    BY <1>2, <1>3, <2>1 DEF IInv, TypeOK
<1>8. WindowInv'
  <2>1. in.lim.sink <= i
    BY DEF Arrive
  <2>2. \A k \in 1 .. Len(live') : live'[k] = oldest + k - 1
    <3> SUFFICES ASSUME NEW k \in 1 .. Len(live') PROVE live'[k] = oldest + k - 1
      OBVIOUS
    <3>1. CASE k <= Len(live)
      BY <1>2, <1>3, <3>1 DEF IInv, WindowInv
    <3>2. CASE k = Len(live) + 1
      BY <1>2, <1>3, <1>4, <3>2
    <3> QED
      BY <1>2, <1>3, <3>1, <3>2
  <2>3. in.lim.sink <= oldest
    BY <1>2, <1>4, <2>1 DEF IInv, WindowInv
  <2> QED
    BY <1>2, <1>3, <1>4, <1>5, <1>6, <2>1, <2>2, <2>3, SMTT(30) DEF WindowInv
<1>9. ResultInv'
  <2>1. ASSUME NEW j \in 0 .. N - 1, in.lim.sink <= j, j < oldest
        PROVE  evictAt[j] <= i /\ Evicted(in.ch, in.lim, j, i)
    <3>1. evictAt[j] <= i - 1 /\ Evicted(in.ch, in.lim, j, i - 1)
      BY <1>4, <2>1 DEF IInv, ResultInv
    <3>2. i - 1 \in 0 .. N - 1 /\ i \in 0 .. N - 1
      BY <1>2, <1>5, <2>1
    <3>3. Exceeds(in.ch, in.lim, j, i)
      <4>1. IsChunking(in.ch) /\ IsLimits(in.lim)
        BY <1>0 DEF InputOK
      <4>2. /\ i - 1 \in 0 .. in.ch.n - 1 /\ i \in 0 .. in.ch.n - 1
            /\ j \in 0 .. in.ch.n - 1 /\ i - 1 <= i
        BY <3>2 DEF N
      <4>3. Exceeds(in.ch, in.lim, j, i - 1)
        BY <3>1 DEF Evicted
      <4> QED
        BY <4>1, <4>2, <4>3, ExceedsGrows
    <3>4. evictAt[j] \in 0 .. N
      BY DEF IInv, TypeOK
    <3> QED
      BY <1>2, <3>1, <3>2, <3>3, <3>4 DEF Evicted
  <2> QED
    BY <1>2, <1>4, <2>1 DEF IInv, ResultInv
<1> QED
    BY <1>7, <1>8, <1>9 DEF IInv

LEMMA EvictOldestIInv == IInv /\ EvictOldest => IInv'
<1> SUFFICES ASSUME IInv, EvictOldest PROVE IInv'
    OBVIOUS
<1>1. in \in Inputs /\ in' = in /\ N' = N
    BY DEF IInv, TypeOK, EvictOldest, N
<1>0. InputOK
    BY InputFacts, <1>1
<1>n. /\ N \in Nat /\ SinkTokens(in.ch, in.lim) \in Nat
      /\ in.lim.sink \in Nat /\ in.lim.chunks \in Nat /\ in.lim.tokens \in Nat
    BY <1>0 DEF InputOK
<1> USE <1>1, <1>n
<1>2. /\ pc = "while" /\ pc' = "while" /\ i' = i
      /\ live \in Seq(0 .. N - 1) /\ Len(live) \in Nat /\ Len(live) > 1
      /\ live' = Tail(live)
    BY DEF IInv, TypeOK, EvictOldest, OverBudget
<1>3. /\ live' \in Seq(0 .. N - 1)
      /\ Len(live') = Len(live) - 1
      /\ \A k \in 1 .. Len(live') : live'[k] = live[k + 1]
    BY <1>2
<1>4. i \in 0 .. N - 1
    BY <1>2 DEF IInv, TypeOK, WindowInv
<1>5. last = i /\ last' = i /\ oldest = i + 1 - Len(live) /\ oldest' = oldest + 1
    BY <1>2, <1>3, <1>4 DEF last, oldest
<1>6. /\ oldest \in 0 .. i - 1 /\ in.lim.sink <= oldest
      /\ \A k \in 1 .. Len(live) : live[k] = oldest + k - 1
  <2>1. Len(live) <= i + 1
    BY <1>5 DEF IInv, WindowInv
  <2>2. in.lim.sink <= oldest
    BY <1>2 DEF IInv, WindowInv
  <2>3. \A k \in 1 .. Len(live) : live[k] = oldest + k - 1
    BY DEF IInv, WindowInv
  <2>4. oldest \in 0 .. i - 1
    BY <1>2, <1>4, <1>5, <2>1
  <2> QED
    BY <2>2, <2>3, <2>4
<1>7. Head(live) = oldest
  <2>1. Head(live) = live[1]
    BY <1>2
  <2>2. live[1] = oldest + 1 - 1
    BY <1>2, <1>6
  <2> QED
    BY <2>1, <2>2, <1>6
<1>8. /\ in.ch.bound[i + 1] \in Nat /\ in.ch.bound[oldest] \in Nat
      /\ in.ch.bound[oldest + 1] \in Nat
      /\ in.ch.bound[oldest + 1] < in.ch.bound[i + 1]
      /\ Tok(oldest) = in.ch.bound[oldest + 1] - in.ch.bound[oldest]
  <2>1. /\ oldest \in 0 .. N /\ oldest + 1 \in 0 .. N /\ i + 1 \in 0 .. N
        /\ oldest + 1 < i + 1 /\ oldest \in 0 .. N - 1
    BY <1>4, <1>6
  <2> QED
    BY <1>0, <2>1 DEF InputOK
<1>9. liveTok = SinkTokens(in.ch, in.lim) + in.ch.bound[i + 1] - in.ch.bound[oldest]
    BY <1>4, <1>5 DEF IInv, WindowInv
<1>10. liveTok' = SinkTokens(in.ch, in.lim) + in.ch.bound[i + 1] - in.ch.bound[oldest + 1]
  <2>1. liveTok' = liveTok - Tok(oldest)
    BY <1>7 DEF EvictOldest
  <2> QED
    BY <1>8, <1>9, <2>1
<1>11. evictAt' = [evictAt EXCEPT ![oldest] = i]
    BY <1>7 DEF EvictOldest
<1>12. TypeOK'
  <2>1. liveTok' \in Nat
    BY <1>8, <1>10
  <2>2. evictAt' \in [0 .. N - 1 -> 0 .. N]
    BY <1>4, <1>6, <1>11 DEF IInv, TypeOK
  <2> QED
    BY <1>2, <1>3, <1>4, <2>1, <2>2 DEF IInv, TypeOK
<1>13. WindowInv'
  <2>1. \A k \in 1 .. Len(live') : live'[k] = oldest' + k - 1
    <3> SUFFICES ASSUME NEW k \in 1 .. Len(live') PROVE live'[k] = oldest' + k - 1
      OBVIOUS
    <3>1. k + 1 \in 1 .. Len(live)
      BY <1>2, <1>3
    <3>2. live'[k] = live[k + 1]
      BY <1>3
    <3>3. live[k + 1] = oldest + (k + 1) - 1
      BY <1>6, <3>1
    <3> QED
      BY <1>2, <1>3, <1>5, <1>6, <3>2, <3>3
  <2>2. liveTok' = SinkTokens(in.ch, in.lim) + in.ch.bound[last' + 1] - in.ch.bound[oldest']
    BY <1>5, <1>10
  <2>3. /\ Len(live') <= i + 1 /\ Len(live') > 0 /\ in.lim.sink <= oldest'
        /\ in.lim.sink <= i
    <3>1. Len(live) <= i + 1
      BY <1>5 DEF IInv, WindowInv
    <3>2. Len(live') \in Nat /\ Len(live') <= i + 1 /\ Len(live') > 0
      BY <1>2, <1>3, <1>4, <3>1
    <3>3. in.lim.sink <= oldest' /\ in.lim.sink <= i
      BY <1>4, <1>5, <1>6
    <3> QED
      BY <3>2, <3>3
  <2>4. last' + 1 = i + 1 /\ i < N
    BY <1>4, <1>5
  <2>5. pc' # "done" /\ (Len(live') = 0 => i' <= in'.lim.sink)
    BY <1>2, <2>3
  <2>6. i' = i /\ last' = i /\ N' = N /\ in' = in
    BY <1>2, <1>5
  <2>7. /\ pc' = "while" => i' < N' /\ in'.lim.sink <= i' /\ Len(live') > 0
        /\ Len(live') <= last' + 1
        /\ Len(live') > 0 => in'.lim.sink <= oldest'
    BY <2>3, <2>4, <2>6
  <2> QED
    BY <2>1, <2>2, <2>5, <2>6, <2>7 DEF WindowInv
<1>14. Evicted(in.ch, in.lim, oldest, i)
  <2>1. Len(live) = i - oldest + 1
    BY <1>2, <1>4, <1>5
  <2>2. \/ Len(live) > in.lim.chunks
        \/ in.lim.tokens > 0 /\ liveTok > in.lim.tokens
    BY DEF EvictOldest, OverBudget
  <2>3. Exceeds(in.ch, in.lim, oldest, i)
    BY <1>8, <1>9, <2>1, <2>2 DEF Exceeds, SpanTokens
  <2> QED
    BY <1>4, <1>6, <2>3 DEF Evicted
<1>15. ResultInv'
  <2>1. evictAt[oldest] = N
    BY <1>4, <1>6 DEF IInv, ResultInv
  <2>2. /\ evictAt'[oldest] = i
        /\ \A j \in 0 .. N - 1 : j # oldest => evictAt'[j] = evictAt[j]
    BY <1>4, <1>6, <1>11 DEF IInv, TypeOK
  <2>3. ASSUME NEW j \in 0 .. N - 1, NEW c \in 0 .. i - 1, c < N
        PROVE  evictAt'[j] <= c <=> Evicted(in.ch, in.lim, j, c)
    <3>1. evictAt[j] <= c <=> Evicted(in.ch, in.lim, j, c)
      BY <2>3 DEF IInv, ResultInv
    <3> QED
      BY <1>4, <2>1, <2>2, <3>1
  <2>4. ASSUME NEW j \in 0 .. N - 1, in.lim.sink <= j, j < oldest + 1
        PROVE  evictAt'[j] <= i /\ Evicted(in.ch, in.lim, j, i)
    <3>1. CASE j = oldest
      BY <1>4, <1>14, <2>2, <3>1
    <3>2. CASE j < oldest
      <4>1. evictAt[j] <= i /\ Evicted(in.ch, in.lim, j, i)
        BY <1>5, <2>4, <3>2 DEF IInv, ResultInv
      <4>2. evictAt'[j] = evictAt[j]
        BY <1>6, <2>2, <3>2
      <4> QED
        BY <4>1, <4>2
    <3> QED
      BY <1>6, <2>4, <3>1, <3>2
  <2>5. ASSUME NEW j \in 0 .. N - 1, j < in.lim.sink \/ oldest + 1 <= j
        PROVE  evictAt'[j] = N
    BY <1>6, <2>2, <2>5 DEF IInv, ResultInv
  <2> QED
    BY <1>2, <1>5, <2>3, <2>4, <2>5 DEF ResultInv
<1> QED
    BY <1>12, <1>13, <1>15 DEF IInv

LEMMA NextChunkIInv == IInv /\ NextChunk => IInv'
<1> SUFFICES ASSUME IInv, NextChunk PROVE IInv'
    OBVIOUS
<1>1. in \in Inputs /\ in' = in /\ N' = N
    BY DEF IInv, TypeOK, NextChunk, N
<1>0. InputOK
    BY InputFacts, <1>1
<1>n. /\ N \in Nat /\ SinkTokens(in.ch, in.lim) \in Nat
      /\ in.lim.sink \in Nat /\ in.lim.chunks \in Nat /\ in.lim.tokens \in Nat
    BY <1>0 DEF InputOK
<1> USE <1>1, <1>n
<1>2. /\ pc = "while" /\ pc' = "for" /\ i' = i + 1
      /\ live' = live /\ Len(live) \in Nat /\ liveTok' = liveTok /\ evictAt' = evictAt
    BY DEF IInv, TypeOK, NextChunk
<1>3. /\ i \in 0 .. N - 1 /\ Len(live) > 0 /\ Len(live) <= i + 1
    BY <1>2 DEF IInv, TypeOK, WindowInv, last
<1>4. last = i /\ last' = i /\ oldest' = oldest /\ oldest = i + 1 - Len(live)
    BY <1>2, <1>3 DEF last, oldest
<1>5. oldest \in 0 .. i /\ in.lim.sink <= oldest
    BY <1>2, <1>3, <1>4, SMTT(30) DEF IInv, WindowInv
<1>6. TypeOK'
    BY <1>2, <1>3 DEF IInv, TypeOK
<1>7. WindowInv'
  <2>1. /\ \A k \in 1 .. Len(live) : live[k] = oldest + k - 1
        /\ liveTok = SinkTokens(in.ch, in.lim) + in.ch.bound[last + 1] - in.ch.bound[oldest]
    BY DEF IInv, WindowInv
  <2> QED
    BY <1>2, <1>3, <1>4, <1>5, <2>1 DEF WindowInv
<1>8. ASSUME NEW j \in 0 .. N - 1, oldest <= j, j < i
      PROVE  ~ Exceeds(in.ch, in.lim, j, i)
  <2>1. oldest < i /\ Len(live) > 1
    BY <1>3, <1>4, <1>5, <1>8
  <2>2. /\ ~ (Len(live) > in.lim.chunks)
        /\ ~ (in.lim.tokens > 0 /\ liveTok > in.lim.tokens)
    BY <2>1 DEF NextChunk, OverBudget
  <2>3. liveTok = SinkTokens(in.ch, in.lim) + in.ch.bound[i + 1] - in.ch.bound[oldest]
    BY <1>4 DEF IInv, WindowInv
  <2>4. in.ch.bound[i + 1] \in Nat /\ in.ch.bound[oldest] \in Nat
    <3>1. i + 1 \in 0 .. N /\ oldest \in 0 .. N
      BY <1>3, <1>5
    <3> QED
      BY <1>0, <3>1 DEF InputOK
  <2>5. i - oldest + 1 = Len(live)
    BY <1>2, <1>3, <1>4
  <2>6. ~ Exceeds(in.ch, in.lim, oldest, i)
    BY <2>2, <2>3, <2>4, <2>5 DEF Exceeds, SpanTokens
  <2>7. IsChunking(in.ch) /\ IsLimits(in.lim)
    BY <1>0 DEF InputOK
  <2>8. /\ oldest \in 0 .. in.ch.n - 1 /\ j \in 0 .. in.ch.n - 1
        /\ i \in 0 .. in.ch.n - 1 /\ oldest <= j
    BY <1>3, <1>5, <1>8 DEF N
  <2> QED
    BY <2>6, <2>7, <2>8, ExceedsShrinks
<1>9. ASSUME NEW j \in 0 .. N - 1
      PROVE  evictAt[j] <= i <=> Evicted(in.ch, in.lim, j, i)
  <2>1. CASE j < in.lim.sink
    <3>1. evictAt[j] = N
      BY <2>1 DEF IInv, ResultInv
    <3> QED
      BY <1>3, <2>1, <3>1 DEF Evicted
  <2>2. CASE in.lim.sink <= j /\ j < oldest
    BY <1>4, <2>2 DEF IInv, ResultInv
  <2>3. CASE oldest <= j
    <3>1. evictAt[j] = N
      BY <2>3 DEF IInv, ResultInv
    <3>2. ~ Evicted(in.ch, in.lim, j, i)
      BY <1>3, <1>5, <1>8, <2>3 DEF Evicted
    <3> QED
      BY <1>3, <3>1, <3>2
  <2> QED
    BY <1>5, <2>1, <2>2, <2>3
<1>10. ResultInv'
  <2>1. ASSUME NEW j \in 0 .. N - 1, NEW c \in 0 .. i, c < N
        PROVE  evictAt[j] <= c <=> Evicted(in.ch, in.lim, j, c)
    <3>1. CASE c = i
      BY <1>9, <3>1
    <3>2. CASE c \in 0 .. i - 1
      BY <2>1, <3>2 DEF IInv, ResultInv
    <3> QED
      BY <1>3, <3>1, <3>2
  <2>2. /\ \A j \in 0 .. N - 1 : in.lim.sink <= j /\ j < oldest =>
              evictAt[j] <= i /\ Evicted(in.ch, in.lim, j, i)
        /\ \A j \in 0 .. N - 1 : j < in.lim.sink \/ oldest <= j => evictAt[j] = N
    BY <1>4 DEF IInv, ResultInv
  <2>3. i' - 1 = i
    BY <1>2, <1>3
  <2> QED
    BY <1>2, <1>4, <2>1, <2>2, <2>3 DEF ResultInv
<1> QED
    BY <1>6, <1>7, <1>10 DEF IInv

LEMMA ReturnIInv == IInv /\ Return => IInv'
<1> SUFFICES ASSUME IInv, Return PROVE IInv'
    OBVIOUS
<1>1. in \in Inputs /\ in' = in /\ N' = N
    BY DEF IInv, TypeOK, Return, N
<1>2. /\ pc = "for" /\ pc' = "done" /\ i = N /\ i' = i /\ live' = live
      /\ liveTok' = liveTok /\ evictAt' = evictAt
    BY DEF Return
<1>3. last' = last /\ oldest' = oldest
    BY <1>2 DEF last, oldest
<1>4. TypeOK'
    BY <1>1, <1>2 DEF IInv, TypeOK
<1>5. WindowInv'
    BY <1>1, <1>2, <1>3 DEF IInv, WindowInv
<1>6. ResultInv'
    BY <1>1, <1>2, <1>3 DEF IInv, ResultInv
<1> QED
    BY <1>4, <1>5, <1>6 DEF IInv

LEMMA StutterIInv == IInv /\ UNCHANGED vars => IInv'
    BY DEF IInv, TypeOK, WindowInv, ResultInv, last, oldest, N, vars

-----------------------------------------------------------------------------

LEMMA Invariance == Spec => []IInv
<1>1. IInv /\ [Next]_vars => IInv'
    BY SkipSinkIInv, ArriveIInv, EvictOldestIInv, NextChunkIInv, ReturnIInv, StutterIInv
    DEF Next
<1> QED
    BY InitIInv, <1>1, PTL DEF Spec

\* The loop of compute_evict_at never leaves its types: in particular the
\* token counter never drops below zero.
THEOREM TypeCorrect == Spec => []TypeOK
    BY Invariance, PTL DEF IInv

\* The list that compute_evict_at returns is the window rule, for every
\* chunking and every limit.
THEOREM LoopCorrect == Spec => []LoopIsWindowRule
<1>1. IInv => LoopIsWindowRule
  <2> SUFFICES ASSUME IInv, pc = "done", NEW j \in 0 .. N - 1, NEW c \in 0 .. N - 1
               PROVE  evictAt[j] <= c <=> Evicted(in.ch, in.lim, j, c)
    BY DEF LoopIsWindowRule
  <2>1. i = N /\ N \in Nat
    BY InputFacts DEF IInv, TypeOK, WindowInv, InputOK
  <2>2. c \in 0 .. i - 1 /\ c < N
    BY <2>1
  <2> QED
    BY <2>2 DEF IInv, ResultInv
<1> QED
    BY Invariance, <1>1, PTL

\* A non-empty set of naturals has a least element.
LEMMA LeastOf ==
    ASSUME NEW S, S \subseteq Nat, S # {}
    PROVE  \E k \in S : \A j \in S : k <= j
<1>1. PICK k \in S : \A j \in S : <<j, k>> \notin OpToRel(<, Nat)
    BY WFMin, NatLessThanWellFounded
<1>2. ASSUME NEW j \in S PROVE k <= j
  <2>1. ~(j < k)
    BY <1>1 DEF OpToRel
  <2> QED
    BY <2>1
<1> QED
    BY <1>2

\* The chunks k .. c have no more tokens than the span from k's first to c's last.
LEMMA TokensOfRun ==
    ASSUME InputOK, NEW k \in 0 .. N - 1, NEW c \in 0 .. N - 1, k <= c,
           NEW S, S \subseteq k .. c
    PROVE  /\ Cardinality(TokensOf(S)) \in Nat
           /\ Cardinality(TokensOf(S)) <= SpanTokens(in.ch, k, c)
<1> DEFINE first == in.ch.bound[k]
           end == in.ch.bound[c + 1]
<1>0. /\ N \in Nat /\ \A j \in 0 .. N : in.ch.bound[j] \in Nat
      /\ \A j, m \in 0 .. N : j < m => in.ch.bound[j] < in.ch.bound[m]
    BY DEF InputOK, IsChunking, N
<1>1. k \in 0 .. N /\ c + 1 \in 0 .. N /\ k < c + 1
    BY <1>0
<1>2. first \in Nat /\ end \in Nat /\ first < end
    BY <1>0, <1>1
<1>3. TokensOf(S) \subseteq first .. end - 1
  <2> SUFFICES ASSUME NEW j \in S, NEW t \in ChunkTokens(in.ch, j)
               PROVE  t \in first .. end - 1
    BY DEF TokensOf
  <2>1. j \in 0 .. N /\ j + 1 \in 0 .. N /\ k <= j /\ j <= c
    BY <1>0
  <2>2. first <= in.ch.bound[j]
    BY <1>0, <1>1, <2>1
  <2>3. in.ch.bound[j + 1] <= end
    BY <1>0, <1>1, <2>1
  <2>4. in.ch.bound[j] \in Nat /\ in.ch.bound[j + 1] \in Nat
    BY <1>0, <2>1
  <2> HIDE DEF first, end
  <2> QED
    BY <1>2, <2>2, <2>3, <2>4 DEF ChunkTokens
<1> HIDE DEF first, end
<1>4. IsFiniteSet(first .. end - 1) /\ Cardinality(first .. end - 1) = end - first
    BY <1>2, FS_Interval
<1>5. /\ IsFiniteSet(TokensOf(S))
      /\ Cardinality(TokensOf(S)) <= Cardinality(first .. end - 1)
  <2> DEFINE span == first .. end - 1
  <2>1. IsFiniteSet(span) /\ TokensOf(S) \in SUBSET span
    BY <1>3, <1>4
  <2> HIDE DEF span
  <2>2. IsFiniteSet(TokensOf(S)) /\ Cardinality(TokensOf(S)) <= Cardinality(span)
    BY <2>1, FS_Subset
  <2> QED
    BY <2>2 DEF span
<1> QED
    BY <1>4, <1>5, FS_CardinalityType DEF SpanTokens, first, end

\* What stays live at every frontier fits the limits, unless it is the
\* frontier's own chunk, for every chunking and every limit.
THEOREM BudgetHolds == Spec => []BudgetAtEveryFrontier
<1>1. IInv /\ LoopIsWindowRule => BudgetAtEveryFrontier
  <2> SUFFICES ASSUME IInv, LoopIsWindowRule, pc = "done", NEW c \in in.lim.sink .. N - 1
               PROVE  LET kept == {j \in in.lim.sink .. c : evictAt[j] > c}
                      IN  \/ kept = {c}
                          \/ /\ Cardinality(kept) <= in.lim.chunks
                             /\ \/ in.lim.tokens = 0
                                \/ SinkTokens(in.ch, in.lim) + Cardinality(TokensOf(kept))
                                       <= in.lim.tokens
    BY DEF BudgetAtEveryFrontier
  <2> DEFINE kept == {j \in in.lim.sink .. c : evictAt[j] > c}
  <2>1. InputOK
    BY InputFacts DEF IInv, TypeOK
  <2>2. N \in Nat /\ in.lim.sink \in Nat /\ in.lim.chunks \in Nat /\ in.lim.tokens \in Nat
        /\ c \in 0 .. N - 1
    BY <2>1 DEF InputOK, IsLimits, IsChunking, N
  <2>3. evictAt \in [0 .. N - 1 -> 0 .. N]
    BY DEF IInv, TypeOK
  <2>4. ASSUME NEW j \in in.lim.sink .. c PROVE evictAt[j] > c <=> ~Evicted(in.ch, in.lim, j, c)
    BY <2>2, <2>3 DEF LoopIsWindowRule
  <2>5. c \in kept
    BY <2>2, <2>4 DEF Evicted
  <2> SUFFICES ASSUME kept # {c}
               PROVE  /\ Cardinality(kept) <= in.lim.chunks
                      /\ \/ in.lim.tokens = 0
                         \/ SinkTokens(in.ch, in.lim) + Cardinality(TokensOf(kept))
                                <= in.lim.tokens
    OBVIOUS
  <2>6. PICK k \in kept : \A j \in kept : k <= j
    <3>1. kept \subseteq Nat
      BY <2>2
    <3> HIDE DEF kept
    <3> QED
      BY <3>1, <2>5, LeastOf
  <2>7. k \in 0 .. N - 1 /\ in.lim.sink <= k /\ k < c /\ kept \subseteq k .. c
    BY <2>2, <2>5, <2>6
  <2>8. ~Exceeds(in.ch, in.lim, k, c)
    BY <2>4, <2>6, <2>7 DEF Evicted
  <2>9. Cardinality(kept) <= in.lim.chunks
    <3>1. IsFiniteSet(k .. c) /\ Cardinality(k .. c) = c - k + 1
      BY <2>2, <2>7, FS_Interval
    <3>2. Cardinality(kept) <= Cardinality(k .. c) /\ Cardinality(kept) \in Nat
      BY <2>7, <3>1, FS_Subset, FS_CardinalityType
    <3> QED
      BY <2>2, <2>7, <2>8, <3>1, <3>2 DEF Exceeds
  <2>10. CASE in.lim.tokens = 0
    BY <2>9, <2>10
  <2>11. CASE in.lim.tokens # 0
    <3>1. SinkTokens(in.ch, in.lim) \in Nat /\ k \in 0 .. N /\ c + 1 \in 0 .. N
      BY <2>1, <2>2, <2>7 DEF InputOK
    <3>2. SpanTokens(in.ch, k, c) \in Int
      BY <2>1, <3>1 DEF SpanTokens, InputOK
    <3>3. SinkTokens(in.ch, in.lim) + SpanTokens(in.ch, k, c) <= in.lim.tokens
      BY <2>2, <2>8, <2>11, <3>1, <3>2 DEF Exceeds
    <3>4. /\ Cardinality(TokensOf(kept)) \in Nat
          /\ Cardinality(TokensOf(kept)) <= SpanTokens(in.ch, k, c)
      <4> HIDE DEF kept
      <4> QED
        BY <2>1, <2>2, <2>7, TokensOfRun
    <3> HIDE DEF kept
    <3> QED
      BY <2>2, <2>9, <3>1, <3>2, <3>3, <3>4
  <2> QED
    BY <2>10, <2>11
<1> QED
    BY Invariance, LoopCorrect, <1>1, PTL

\* Extending a schedule never revises it: for the same sink and boundaries,
\* a longer list of chunks evicts the same chunks at the same frontiers.
\* StrideReqEvict._schedule relies on it when it replaces its cached list.
THEOREM ScheduleExtends ==
    ASSUME NEW short, NEW long, NEW lim,
           IsChunking(short), IsChunking(long), IsLimits(lim),
           short.n <= long.n, lim.sink < short.n,
           \A k \in 0 .. short.n : short.bound[k] = long.bound[k],
           NEW j \in 0 .. short.n - 1, NEW c \in 0 .. short.n - 1
    PROVE  Evicted(short, lim, j, c) <=> Evicted(long, lim, j, c)
<1>1. /\ short.n \in Nat /\ long.n \in Nat /\ lim.sink \in Nat
      /\ c + 1 \in 0 .. short.n /\ j \in 0 .. short.n
    BY DEF IsChunking, IsLimits
<1>2. SinkTokens(short, lim) = SinkTokens(long, lim)
    BY <1>1 DEF SinkTokens
<1>3. SpanTokens(short, j, c) = SpanTokens(long, j, c)
    BY <1>1 DEF SpanTokens
<1> QED
    BY <1>2, <1>3 DEF Evicted, Exceeds
====

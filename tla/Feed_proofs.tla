------------------------------ MODULE Feed_proofs ------------------------------
(***************************************************************************)
(* Theorems about cycles over a market that goes on: what they report of   *)
(* the past, for all bars, providers, lookbacks and sizes of the window.   *)
(***************************************************************************)
EXTENDS MarketFeed, SequenceTheorems, FiniteSetTheorems, TLAPS

(* The walk of a cycle, with what is proved of it.                         *)
Proved == INSTANCE Structure_proofs
            WITH MaxBars <- Count, OteMin <- 0, OteMax <- 0, Tolerance <- 0

(* The walk meets its assumptions.                                         *)
LEMMA ProvedAssumed ==
    /\ Proved!CandlesAssumption /\ Proved!MaxBarsAssumption /\ Proved!ZonesAssumption
BY CandlesAssumption, FeedAssumption
   DEF Proved!CandlesAssumption, Proved!MaxBarsAssumption, Proved!ZonesAssumption

(* Walk and Proved are instances of one module.                            *)
LEMMA SameWalk ==
    /\ Walk!TypeOK <=> Proved!TypeOK
    /\ Walk!Init <=> Proved!Init
    /\ \A bar \in Bars: Walk!ReadBar(bar) <=> Proved!ReadBar(bar)
<1>1. Walk!TypeOK <=> Proved!TypeOK
  BY DEF Walk!TypeOK, Walk!Directions, Walk!NoTrend, Walk!Events, Walk!BreakKinds,
         Proved!TypeOK, Proved!Directions, Proved!NoTrend, Proved!Events, Proved!BreakKinds
<1>2. Walk!Init <=> Proved!Init
  BY DEF Walk!Init, Walk!NoSwing, Walk!NoTrend, Proved!Init, Proved!NoSwing, Proved!NoTrend
<1>3. ASSUME NEW bar \in Bars PROVE Walk!ReadBar(bar) <=> Proved!ReadBar(bar)
  BY DEF Walk!ReadBar, Walk!LatestHigh, Walk!LatestLow, Walk!ClosesAbove, Walk!ClosesBelow,
         Walk!Consumed, Walk!BreakOf, Walk!KindOf, Walk!NoSwing, Walk!NoTrend,
         Walk!IsSwingHigh, Walk!IsSwingLow, Walk!HasWindow, Walk!Neighbours,
         Proved!ReadBar, Proved!LatestHigh, Proved!LatestLow, Proved!ClosesAbove,
         Proved!ClosesBelow, Proved!Consumed, Proved!BreakOf, Proved!KindOf,
         Proved!NoSwing, Proved!NoTrend, Proved!IsSwingHigh, Proved!IsSwingLow,
         Proved!HasWindow, Proved!Neighbours
<1> QED
  BY <1>1, <1>2, <1>3

(* One bar of the walk keeps what is proved of it.                         *)
LEMMA WalkGoesOn ==
    ASSUME Walk!TypeOK, Proved!BreakInv, Proved!FirstClosesInv,
           NEW bar \in Bars, Walk!ReadBar(bar)
    PROVE  Walk!TypeOK' /\ Proved!BreakInv' /\ Proved!FirstClosesInv'
<1>1. Proved!TypeOK /\ Proved!Next
  BY SameWalk DEF Proved!Next
<1>2. Proved!TypeOK' /\ Proved!BreakInv' /\ Proved!FirstClosesInv'
  BY <1>1, ProvedAssumed, Proved!BreakNext, Proved!FirstClosesNext
<1>3. Walk!TypeOK' <=> Proved!TypeOK'
  BY DEF Walk!TypeOK, Walk!Directions, Walk!NoTrend, Walk!Events, Walk!BreakKinds,
         Proved!TypeOK, Proved!Directions, Proved!NoTrend, Proved!Events, Proved!BreakKinds
<1> QED
  BY <1>2, <1>3

-----------------------------------------------------------------------------
(* A break by its place in a market m, with no window in sight.            *)
BreaksAt(m, j, k, direction) ==
    \/ direction = "bullish" /\ Proved!BreaksPeak(m, j, k)
    \/ direction = "bearish" /\ Proved!BreaksTrough(m, j, k)

(* The candles of a window of the market, which is m, from its bar first.  *)
IsWindow(cs, m, first) == \A n \in 1 .. Len(cs): cs[n] = m[first + n - 1]

-----------------------------------------------------------------------------
(* The inductive invariant, in parts.                                      *)
FormingInv == forming = {} \/ \E b \in Bars: forming = {b}

(* While a cycle works, the market stands still: it has what was fetched.  *)
FetchedInv ==
    IF Working
    THEN /\ fetched.first = Oldest(Len(Market)) /\ fetched.finished = Len(history)
         /\ fetched.first + Len(fetched.bars) - 1 \in Len(history) .. Len(Market)
         /\ fetched.first + Len(fetched.bars) - 1
              = IF provider = "twelvedata" THEN Len(Market) ELSE Len(history)
         /\ IsWindow(fetched.bars, Market, fetched.first)
         /\ Len(candles) <= Len(fetched.bars)
         /\ \A n \in 1 .. Len(candles): candles[n] = fetched.bars[n]
    ELSE Walk!Init

(* The last report has exactly the breaks of its window, of which those at *)
(* bars then finished are breaks of the market's history.                  *)
ReportInv ==
    /\ report.first <= Oldest(Len(Market)) /\ report.finished <= Len(history)
    /\ report.first = 0 => report.last = 0
    /\ \A j \in Nat, k \in Nat, direction \in Walk!Directions:
         j <= report.last /\ j <= report.finished =>
           ( [bar |-> j, level |-> k, direction |-> direction]
               \in {Place(e): e \in report.events}
             <=> /\ j > 0 /\ report.first <= k - Lookback
                 /\ BreaksAt(history, j, k, direction) )

-----------------------------------------------------------------------------
(* What fetch_candles makes of an answer.                                  *)

(* The n-th smallest of an interval.                                       *)
LEMMA NthOfInterval ==
    ASSUME NEW a \in Int, NEW b \in Int, NEW n \in 1 .. b - a + 1
    PROVE  Nth(a .. b, n) = a + n - 1
<1>1. ASSUME NEW i \in a .. b PROVE Cardinality({k \in a .. b: k <= i}) = i - a + 1
  <2>1. {k \in a .. b: k <= i} = a .. i
    OBVIOUS
  <2>2. Cardinality(a .. i) = i - a + 1
    BY FS_Interval
  <2> QED
    BY <2>1, <2>2
<1>2. a + n - 1 \in a .. b /\ \A i \in a .. b: i - a + 1 = n <=> i = a + n - 1
  OBVIOUS
<1> QED
  BY <1>1, <1>2 DEF Nth

(* A function on 1 .. n is a sequence of n elements.                       *)
LEMMA SequenceOf ==
    ASSUME NEW S, NEW n \in Nat, NEW s \in [1 .. n -> S]
    PROVE  s \in Seq(S) /\ Len(s) = n
<1>1. s \in Seq(S)
  OBVIOUS
<1>2. DOMAIN s = 1 .. Len(s) /\ Len(s) \in Nat /\ DOMAIN s = 1 .. n
  BY <1>1, LenProperties
<1> QED
  BY <1>1, <1>2

(* A set of one bar, or of none, as a sequence.                            *)
LEMMA FormingBars ==
    ASSUME FormingInv
    PROVE  /\ SetToSeq(forming) \in Seq(Bars)
           /\ Len(SetToSeq(forming)) = IF forming = {} THEN 0 ELSE 1
           /\ Cardinality(forming) <= 1 /\ forming \subseteq Bars
           /\ \A f \in forming: SetToSeq(forming)[1] = f
<1>1. CASE forming = {}
  <2>1. Cardinality(forming) = 0
    BY <1>1, FS_EmptySet
  <2>2. IsInjective(<<>>) /\ <<>> \in [1 .. 0 -> forming]
    BY DEF IsInjective
  <2>3. SetToSeq(forming) \in [1 .. 0 -> forming]
    BY <2>1, <2>2 DEF SetToSeq
  <2>4. SetToSeq(forming) \in [1 .. 0 -> Bars]
    BY <2>3
  <2>5. SetToSeq(forming) \in Seq(Bars) /\ Len(SetToSeq(forming)) = 0
    BY <2>4, SequenceOf
  <2> QED
    BY <1>1, <2>1, <2>5
<1>2. ASSUME NEW b \in Bars, forming = {b}
      PROVE  /\ SetToSeq(forming) \in Seq(Bars) /\ Len(SetToSeq(forming)) = 1
             /\ Cardinality(forming) = 1 /\ forming \subseteq Bars
             /\ \A f \in forming: SetToSeq(forming)[1] = f
  <2>1. Cardinality(forming) = 1
    BY <1>2, FS_Singleton
  <2>2. [n \in 1 .. 1 |-> b] \in [1 .. 1 -> forming] /\ IsInjective([n \in 1 .. 1 |-> b])
    BY <1>2 DEF IsInjective
  <2>3. SetToSeq(forming) \in [1 .. 1 -> forming]
    BY <2>1, <2>2 DEF SetToSeq
  <2>4. SetToSeq(forming) \in [1 .. 1 -> Bars]
    BY <1>2, <2>3
  <2>5. \A f \in forming: SetToSeq(forming)[1] = f
    BY <1>2, <2>3
  <2> QED
    BY <1>2, <2>1, <2>4, <2>5, SequenceOf
<1> QED
  BY <1>1, <1>2 DEF FormingInv

(* The market is its finished bars and perhaps one more.                   *)
LEMMA MarketBars ==
    ASSUME FormingInv, history \in Seq(Bars)
    PROVE  /\ Market \in Seq(Bars) /\ Len(history) \in Nat /\ Len(Market) \in Nat
           /\ Len(Market) = Len(history) + IF forming = {} THEN 0 ELSE 1
           /\ \A n \in 1 .. Len(history): Market[n] = history[n]
           /\ \A f \in forming: Market[Len(history) + 1] = f
<1> DEFINE last == SetToSeq(forming)
<1>1. /\ last \in Seq(Bars) /\ Len(last) = IF forming = {} THEN 0 ELSE 1
      /\ Len(history) \in Nat /\ \A f \in forming: last[1] = f
  BY FormingBars, LenProperties
<1> HIDE DEF last
<1>2. /\ history \o last \in Seq(Bars)
      /\ Len(history \o last) = Len(history) + Len(last)
      /\ \A i \in 1 .. Len(history) + Len(last): (history \o last)[i] =
            IF i <= Len(history) THEN history[i] ELSE last[i - Len(history)]
  BY <1>1, ConcatProperties
<1>3. Market = history \o last
  BY DEF Market, last
<1>4. ASSUME NEW n \in 1 .. Len(history) PROVE Market[n] = history[n]
  <2>1. n \in 1 .. Len(history) + Len(last) /\ n <= Len(history)
    BY <1>1
  <2> QED
    BY <1>2, <1>3, <2>1
<1>5. ASSUME NEW f \in forming PROVE Market[Len(history) + 1] = f
  <2>1. Len(last) = 1 /\ last[1] = f
    BY <1>1
  <2>2. /\ Len(history) + 1 \in 1 .. Len(history) + Len(last)
        /\ ~(Len(history) + 1 <= Len(history)) /\ (Len(history) + 1) - Len(history) = 1
    BY <1>1, <2>1
  <2> QED
    BY <1>2, <1>3, <2>1, <2>2
<1> QED
  BY <1>1, <1>2, <1>3, <1>4, <1>5


(* The window of the last Count bars.                                      *)
LEMMA WindowSize ==
    ASSUME NEW total \in Nat
    PROVE  /\ Oldest(total) \in Nat \ {0} /\ Oldest(total) <= total + 1
           /\ total > 0 => Oldest(total) <= total
           /\ total - Oldest(total) + 1 \in 0 .. Count
           /\ \A n \in Nat: total <= n => Oldest(total) <= Oldest(n)
BY FeedAssumption DEF Oldest

(* What is kept of an answer is its beginning.                             *)
LEMMA KeptBeginning ==
    ASSUME NEW V, NEW vs \in Seq(V), NEW c \in 0 .. Len(vs),
           \A n \in 1 .. Len(vs): Keeps(vs[n]) <=> n <= c
    PROVE  Kept(vs) = [n \in 1 .. c |-> vs[n]]
<1>1. Len(vs) \in Nat
  BY LenProperties
<1>2. {n \in 1 .. Len(vs): Keeps(vs[n])} = 1 .. c
  BY <1>1
<1>3. Cardinality(1 .. c) = c
  BY FS_Interval
<1>4. ASSUME NEW n \in 1 .. c PROVE Nth(1 .. c, n) = n
  BY NthOfInterval
<1> QED
  BY <1>2, <1>3, <1>4 DEF Kept

(* An answer in any order is brought into that of its timestamps.          *)
LEMMA SortedByTime ==
    ASSUME NEW first \in Nat, NEW last \in Int, NEW vs, provider = "twelvedata",
           Len(vs) = last - first + 1, ToSet(vs) = {Value(i): i \in first .. last}
    PROVE  InOrder(vs) = [n \in 1 .. last - first + 1 |-> Value(first + n - 1)]
<1>0. \A i: Value(i).time = i
  BY DEF Value
<1> DEFINE times == {v.time: v \in ToSet(vs)}
<1>1. times = first .. last
  <2>1. ASSUME NEW t \in first .. last PROVE t \in times
    BY <1>0
  <2>2. ASSUME NEW t \in times PROVE t \in first .. last
    BY <1>0
  <2> QED
    BY <2>1, <2>2
<1> HIDE DEF times
<1>2. ASSUME NEW n \in 1 .. last - first + 1
      PROVE  (CHOOSE v \in ToSet(vs): v.time = Nth(first .. last, n)) = Value(first + n - 1)
  <2>1. Nth(first .. last, n) = first + n - 1
    BY NthOfInterval
  <2>2. first + n - 1 \in first .. last
    OBVIOUS
  <2>3. \A v \in ToSet(vs): v.time = first + n - 1 <=> v = Value(first + n - 1)
    BY <2>2 DEF Value
  <2>4. Value(first + n - 1) \in ToSet(vs)
    BY <2>2
  <2> QED
    BY <2>1, <2>3, <2>4
<1>3. InOrder(vs) = [n \in 1 .. Len(vs) |->
                       CHOOSE v \in ToSet(vs): v.time = Nth(times, n)]
  BY DEF InOrder, times
<1> QED
  BY <1>1, <1>2, <1>3


(* Either client makes of its answer the bars of the market from the first *)
(* of the latest Count: Twelve Data's all of them, OANDA's the finished.   *)
LEMMA ParsedBars ==
    ASSUME FormingInv, history \in Seq(Bars), provider \in Providers,
           NEW payload \in Payloads
    PROVE  LET bars == ParseCandles(payload)
               first == Oldest(Len(Market))
           IN  /\ bars \in Seq(Bars) /\ Len(bars) <= Count
               /\ first + Len(bars) - 1 \in Len(history) .. Len(Market)
               /\ IsWindow(bars, Market, first)
               /\ first + Len(bars) - 1
                    = IF provider = "twelvedata" THEN Len(Market) ELSE Len(history)
<1> DEFINE bars == ParseCandles(payload)
           first == Oldest(Len(Market))
           last == Len(Market)
           size == last - first + 1
           values == [n \in 1 .. size |-> Value(first + n - 1)]
           all == {Value(i): i \in first .. last}
<1>1. /\ Market \in Seq(Bars) /\ Len(history) \in Nat /\ last \in Nat
      /\ last = Len(history) \/ last = Len(history) + 1
  BY MarketBars
<1>2. /\ first \in Nat \ {0} /\ size \in 0 .. Count
      /\ first <= last + 1 /\ (last > 0 => first <= last)
  BY <1>1, WindowSize
<1>3. \A i \in 1 .. last: Market[i] \in Bars
  BY <1>1, ElementOfSeq
<1>a. \A n: Value(n).bar = Market[n] /\ (Value(n).complete <=> n <= Len(history))
  BY DEF Value
<1> HIDE DEF last, first
<1>b. \A n \in 1 .. size: values[n] = Value(first + n - 1) /\ values[n] \in all
  BY <1>1, <1>2
<1>4. values \in Seq(all) /\ Len(values) = size
  <2>1. values \in [1 .. size -> all]
    BY <1>1, <1>2, SMTT(20)
  <2> QED
    BY <1>2, <2>1, SequenceOf
<1>5. ASSUME NEW c \in 0 .. size, bars = [n \in 1 .. c |-> Market[first + n - 1]],
             first + c - 1 \in Len(history) .. last
      PROVE  /\ bars \in Seq(Bars) /\ Len(bars) <= Count /\ Len(bars) = c
             /\ first + Len(bars) - 1 \in Len(history) .. last
             /\ IsWindow(bars, Market, first)
  <2>1. [n \in 1 .. c |-> Market[first + n - 1]] \in [1 .. c -> Bars]
    BY <1>1, <1>2, <1>3
  <2>2. bars \in Seq(Bars) /\ Len(bars) = c
    BY <1>5, <2>1, SequenceOf
  <2>3. \A n \in 1 .. c: bars[n] = Market[first + n - 1]
    BY <1>5
  <2>4. size \in 0 .. Count /\ Count \in Nat
    BY <1>2, FeedAssumption
  <2> HIDE DEF bars, values, all, size
  <2>5. Len(bars) <= Count
    BY <2>2, <2>4
  <2>6. IsWindow(bars, Market, first)
    BY <2>2, <2>3 DEF IsWindow
  <2> QED
    BY <1>5, <2>2, <2>5, <2>6
<1>6. CASE provider = "twelvedata"
  <2>1. payload \in {values, Reverse(values)}
    BY <1>6 DEF Payloads, first, last
  <2>2. payload \in Seq(all) /\ Len(payload) = size /\ ToSet(payload) = all
    <3>1. payload \in [1 .. size -> all]
      <4>1. values \in [1 .. size -> all]
        BY <1>1, <1>2, SMTT(20)
      <4>2. Reverse(values) \in [1 .. size -> all]
        BY <1>2, <1>4, <4>1, SMTT(20) DEF Reverse
      <4> QED
        BY <2>1, <4>1, <4>2
    <3>2. ASSUME NEW v \in all PROVE \E n \in 1 .. size: payload[n] = v
      <4>1. PICK i \in first .. last: v = Value(i)
        OBVIOUS
      <4>2. i - first + 1 \in 1 .. size /\ values[i - first + 1] = v
        <5>1. i - first + 1 \in 1 .. size /\ first + (i - first + 1) - 1 = i
          BY <1>1, <1>2
        <5> HIDE DEF values, all, size
        <5>2. values[i - first + 1] = Value(first + (i - first + 1) - 1)
          BY <1>b, <5>1
        <5> QED
          BY <4>1, <5>1, <5>2
      <4>3. CASE payload = values
        BY <4>2, <4>3
      <4>4. CASE payload = Reverse(values)
        <5>1. size - (i - first + 1) + 1 \in 1 .. size
          BY <1>2, <4>2
        <5>2. Reverse(values)[size - (i - first + 1) + 1] = values[i - first + 1]
          <6> HIDE DEF values, all
          <6>1. Reverse(values)[size - (i - first + 1) + 1]
                  = values[(size - (size - (i - first + 1) + 1)) + 1]
            BY <1>4, <5>1 DEF Reverse
          <6>2. (size - (size - (i - first + 1) + 1)) + 1 = i - first + 1
            BY <1>1, <1>2, <4>1
          <6> QED
            BY <6>1, <6>2
        <5> QED
          BY <4>2, <4>4, <5>1, <5>2
      <4> QED
        BY <2>1, <4>3, <4>4
    <3>3. payload \in Seq(all) /\ Len(payload) = size
      BY <1>2, <3>1, SequenceOf
    <3> HIDE DEF all, values
    <3> QED
      BY <3>1, <3>2, <3>3 DEF ToSet
  <2>3. Kept(payload) = [n \in 1 .. size |-> payload[n]]
    <3>1. \A n \in 1 .. Len(payload): Keeps(payload[n]) <=> n <= size
      BY <1>6, <2>2 DEF Keeps
    <3> HIDE DEF all, values
    <3>2. size \in 0 .. Len(payload) /\ payload \in Seq(all)
      BY <1>2, <2>2
    <3> HIDE DEF size
    <3> QED
      BY <3>1, <3>2, KeptBeginning
  <2>4. Kept(payload) = payload
    BY <2>2, <2>3, LenProperties
  <2>5. InOrder(payload) = values
    <3> HIDE DEF values
    <3>1. ToSet(payload) = {Value(i): i \in first .. last}
      BY <2>2
    <3>2. Len(payload) = last - first + 1 /\ first \in Nat /\ last \in Int
      BY <1>1, <1>2, <2>2
    <3> HIDE DEF all
    <3>3. InOrder(payload) = [n \in 1 .. last - first + 1 |-> Value(first + n - 1)]
      BY <1>6, <3>1, <3>2, SortedByTime
    <3> QED
      BY <3>3 DEF values
  <2>6. bars = [n \in 1 .. size |-> Market[first + n - 1]]
    <3>1. bars = [n \in 1 .. Len(values) |-> values[n].bar]
      BY <2>4, <2>5 DEF ParseCandles
    <3>2. \A n \in 1 .. size: values[n].bar = Market[first + n - 1]
      BY <1>a, <1>b
    <3> HIDE DEF bars, values
    <3> QED
      BY <1>4, <3>1, <3>2
  <2> HIDE DEF values, all, bars
  <2>7. size \in 0 .. size /\ first + size - 1 = last /\ last \in Len(history) .. last
    BY <1>1, <1>2
  <2>8. /\ bars \in Seq(Bars) /\ Len(bars) <= Count /\ Len(bars) = size
        /\ first + Len(bars) - 1 \in Len(history) .. last
        /\ IsWindow(bars, Market, first)
    BY <1>5, <2>6, <2>7
  <2> QED
    BY <1>6, <2>7, <2>8 DEF first, last, bars
<1>7. CASE provider # "twelvedata"
  <2> DEFINE c == Len(history) - first + 1
  <2>1. payload = values
    BY <1>7 DEF Payloads, first, last
  <2>2. c \in 0 .. size
    BY <1>1, <1>2
  <2>3. Kept(values) = [n \in 1 .. c |-> values[n]]
    <3>1. ASSUME NEW n \in 1 .. Len(values) PROVE Keeps(values[n]) <=> n <= c
      <4>1. values[n].complete <=> first + n - 1 <= Len(history)
        BY <1>a, <1>b, <1>4
      <4>2. first + n - 1 <= Len(history) <=> n <= c
        BY <1>1, <1>2, <1>4
      <4>3. Keeps(values[n]) <=> values[n].complete
        BY <1>7 DEF Keeps
      <4> QED
        BY <4>1, <4>2, <4>3
    <3> QED
      BY <1>4, <2>2, <3>1, KeptBeginning
  <2> HIDE DEF values, all, bars, size, c
  <2>4. Kept(values) \in [1 .. c -> all]
    <3>1. \A n \in 1 .. c: values[n] \in all
      BY <1>b, <1>2, <2>2
    <3> QED
      BY <2>3, <3>1
  <2>5. Len(Kept(values)) = c
    BY <2>2, <2>4, SequenceOf
  <2>6. bars = [n \in 1 .. c |-> Kept(values)[n].bar]
    BY <1>7, <2>1, <2>5 DEF bars, ParseCandles, InOrder
  <2>7. \A n \in 1 .. c: Kept(values)[n].bar = Market[first + n - 1]
    BY <1>a, <1>b, <1>2, <2>2, <2>3 DEF size
  <2>8. bars = [n \in 1 .. c |-> Market[first + n - 1]]
    BY <2>6, <2>7
  <2>9. first + c - 1 \in Len(history) .. last
    BY <1>1, <1>2 DEF c
  <2>10. /\ bars \in Seq(Bars) /\ Len(bars) <= Count /\ Len(bars) = c
         /\ first + Len(bars) - 1 \in Len(history) .. last
         /\ IsWindow(bars, Market, first)
    BY <1>5, <2>2, <2>8, <2>9
  <2>11. first + c - 1 = Len(history)
    BY <1>1, <1>2 DEF c
  <2> QED
    BY <1>7, <2>10, <2>11 DEF first, last, bars
<1> QED
  BY <1>6, <1>7


-----------------------------------------------------------------------------
(* Breaks in a window, and in the market.                                  *)

(* A bar of a window with its neighbours in it is a swing of the market.   *)
LEMMA SwingsInWindow ==
    ASSUME NEW m, NEW cs \in Seq(Bars), NEW first \in Nat \ {0},
           IsWindow(cs, m, first),
           NEW k \in Int, 1 <= k - Lookback, k + Lookback <= Len(cs)
    PROVE  /\ Proved!PeakAt(cs, k) <=> Proved!PeakAt(m, first + k - 1)
           /\ Proved!TroughAt(cs, k) <=> Proved!TroughAt(m, first + k - 1)
<1> DEFINE p == first + k - 1
<1>1. Len(cs) \in Nat /\ Lookback \in Nat \ {0}
  BY LenProperties, CandlesAssumption
<1>2. \A n \in Proved!Neighbours(k) \cup {k}: cs[n] = m[first + n - 1]
  BY <1>1 DEF Proved!Neighbours, IsWindow
<1>3. \A n \in Proved!Neighbours(k): first + n - 1 \in Proved!Neighbours(p)
  BY <1>1 DEF Proved!Neighbours
<1>4. \A i \in Proved!Neighbours(p): /\ i - first + 1 \in Proved!Neighbours(k)
                                     /\ first + (i - first + 1) - 1 = i
  BY <1>1 DEF Proved!Neighbours
<1>5. cs[k] = m[p]
  BY <1>2
<1> HIDE DEF p
<1>6. Proved!PeakAt(cs, k) <=> Proved!PeakAt(m, p)
  <2>1. Proved!PeakAt(cs, k) => Proved!PeakAt(m, p)
    <3> SUFFICES ASSUME Proved!PeakAt(cs, k), NEW i \in Proved!Neighbours(p)
                 PROVE  m[p].high > m[i].high
      BY DEF Proved!PeakAt
    <3> QED
      BY <1>2, <1>4, <1>5 DEF Proved!PeakAt
  <2>2. Proved!PeakAt(m, p) => Proved!PeakAt(cs, k)
    BY <1>2, <1>3, <1>5 DEF Proved!PeakAt
  <2> QED
    BY <2>1, <2>2
<1>7. (\A n \in Proved!Neighbours(k): cs[k].low < cs[n].low)
        <=> (\A i \in Proved!Neighbours(p): m[p].low < m[i].low)
  <2>1. ASSUME \A n \in Proved!Neighbours(k): cs[k].low < cs[n].low,
               NEW i \in Proved!Neighbours(p)
        PROVE  m[p].low < m[i].low
    BY <1>2, <1>4, <1>5, <2>1
  <2>2. ASSUME \A i \in Proved!Neighbours(p): m[p].low < m[i].low,
               NEW n \in Proved!Neighbours(k)
        PROVE  cs[k].low < cs[n].low
    BY <1>2, <1>3, <1>5, <2>2
  <2> QED
    BY <2>1, <2>2
<1> QED
  BY <1>6, <1>7 DEF Proved!TroughAt, p

(* A break in a window, of a swing with its neighbours in it, is one in    *)
(* the market.                                                             *)
LEMMA BreaksInWindow ==
    ASSUME NEW m, NEW cs \in Seq(Bars), NEW first \in Nat \ {0},
           IsWindow(cs, m, first), NEW direction,
           NEW j \in 1 .. Len(cs), NEW k \in Int, 1 <= k - Lookback
    PROVE  BreaksAt(cs, j, k, direction)
             <=> BreaksAt(m, first + j - 1, first + k - 1, direction)
<1> DEFINE p == first + k - 1
           q == first + j - 1
<1>1. Len(cs) \in Nat /\ Lookback \in Nat \ {0} /\ j \in Nat /\ j <= Len(cs)
  BY LenProperties, CandlesAssumption
<1>2. k + Lookback <= j <=> p + Lookback <= q
  BY <1>1
<1> SUFFICES ASSUME k + Lookback <= j
             PROVE  BreaksAt(cs, j, k, direction) <=> BreaksAt(m, q, p, direction)
  BY <1>2 DEF BreaksAt, Proved!BreaksPeak, Proved!BreaksTrough
<1>3. \A i \in k .. j: cs[i] = m[first + i - 1]
  BY <1>1 DEF IsWindow
<1>4. ASSUME NEW i \in k .. j - Lookback
      PROVE  /\ Proved!PeakAt(cs, i) <=> Proved!PeakAt(m, first + i - 1)
             /\ Proved!TroughAt(cs, i) <=> Proved!TroughAt(m, first + i - 1)
  <2>1. i \in Int /\ 1 <= i - Lookback /\ i + Lookback <= Len(cs)
    BY <1>1
  <2> QED
    BY <2>1, SwingsInWindow
<1>5. /\ \A i \in k + 1 .. j: first + i - 1 \in p + 1 .. q
      /\ \A i \in k + 1 .. j - 1: first + i - 1 \in p + 1 .. q - 1
      /\ \A i \in k + 1 .. j - Lookback: first + i - 1 \in p + 1 .. q - Lookback
      /\ \A n \in p + 1 .. q - 1: /\ n - first + 1 \in k + 1 .. j - 1
                                  /\ first + (n - first + 1) - 1 = n
      /\ \A n \in p + 1 .. q - Lookback: /\ n - first + 1 \in k + 1 .. j - Lookback
                                         /\ first + (n - first + 1) - 1 = n
  BY <1>1
<1>6. /\ cs[k] = m[p] /\ cs[j] = m[q]
      /\ Proved!PeakAt(cs, k) <=> Proved!PeakAt(m, p)
      /\ Proved!TroughAt(cs, k) <=> Proved!TroughAt(m, p)
  BY <1>1, <1>3, <1>4
<1>7. k + Lookback <= j /\ p + Lookback <= q
  BY <1>2
<1>8. k + 1 .. j - 1 \subseteq k .. j /\ k + 1 .. j - Lookback \subseteq k .. j - Lookback
  BY <1>1
<1> HIDE DEF p, q
<1>9. Proved!BreaksPeak(cs, j, k) <=> Proved!BreaksPeak(m, q, p)
  <2>1. (\A i \in k + 1 .. j - Lookback: ~Proved!PeakAt(cs, i))
          <=> (\A i \in p + 1 .. q - Lookback: ~Proved!PeakAt(m, i))
    BY <1>4, <1>5, <1>8
  <2>2. (\A i \in k + 1 .. j - 1: ~(cs[i].close > cs[k].high))
          <=> (\A i \in p + 1 .. q - 1: ~(m[i].close > m[p].high))
    BY <1>3, <1>5, <1>6, <1>8
  <2> QED
    BY <1>6, <1>7, <2>1, <2>2 DEF Proved!BreaksPeak
<1>10. Proved!BreaksTrough(cs, j, k) <=> Proved!BreaksTrough(m, q, p)
  <2>1. (\A i \in k + 1 .. j - Lookback: ~Proved!TroughAt(cs, i))
          <=> (\A i \in p + 1 .. q - Lookback: ~Proved!TroughAt(m, i))
    BY <1>4, <1>5, <1>8
  <2>2. (\A i \in k + 1 .. j - 1: ~(cs[i].close < cs[k].low))
          <=> (\A i \in p + 1 .. q - 1: ~(m[i].close < m[p].low))
    BY <1>3, <1>5, <1>6, <1>8
  <2> QED
    BY <1>6, <1>7, <2>1, <2>2 DEF Proved!BreaksTrough
<1> QED
  BY <1>9, <1>10 DEF BreaksAt


(* The first closes of a series, as breaks.                                *)
LEMMA FirstClosesAreBreaks ==
    ASSUME NEW cs \in Seq(Bars), NEW j \in Int, NEW k \in Int,
           NEW direction \in Walk!Directions
    PROVE  <<j, k, direction>> \in Proved!AboveIn(cs) \cup Proved!BelowIn(cs)
             <=> j \in 1 .. Len(cs) /\ 1 <= k - Lookback /\ BreaksAt(cs, j, k, direction)
<1>1. Lookback \in Nat \ {0} /\ Len(cs) \in Nat
  BY LenProperties, CandlesAssumption
<1>2. direction = "bullish" \/ direction = "bearish"
  BY DEF Walk!Directions
<1>3. ASSUME direction = "bullish"
      PROVE  <<j, k, direction>> \in Proved!AboveIn(cs) \cup Proved!BelowIn(cs)
               <=> j \in 1 .. Len(cs) /\ Proved!FirstAbove(cs, j) /\ k = Proved!SwingHighAt(cs, j)
  BY <1>3 DEF Proved!AboveIn, Proved!BelowIn
<1>4. ASSUME direction = "bearish"
      PROVE  <<j, k, direction>> \in Proved!AboveIn(cs) \cup Proved!BelowIn(cs)
               <=> j \in 1 .. Len(cs) /\ Proved!FirstBelow(cs, j) /\ k = Proved!SwingLowAt(cs, j)
  BY <1>4 DEF Proved!AboveIn, Proved!BelowIn
<1>5. ASSUME NEW i \in 1 .. Len(cs)
      PROVE  /\ Proved!SwingHighAt(cs, i) \in Nat /\ Proved!SwingLowAt(cs, i) \in Nat
             /\ k \in Nat => (Proved!FirstAbove(cs, i) /\ k = Proved!SwingHighAt(cs, i)
                   <=> 1 <= k - Lookback /\ Proved!BreaksPeak(cs, i, k))
             /\ k \in Nat => (Proved!FirstBelow(cs, i) /\ k = Proved!SwingLowAt(cs, i)
                   <=> 1 <= k - Lookback /\ Proved!BreaksTrough(cs, i, k))
  <2>1. i \in Nat
    BY <1>1
  <2>2. Proved!SwingHighAt(cs, i) \in Nat /\ Proved!SwingLowAt(cs, i) \in Nat
    BY <2>1, ProvedAssumed, Proved!SwingHighAtType, Proved!SwingLowAtType
  <2>3. ASSUME k \in Nat
        PROVE  Proved!FirstAbove(cs, i) /\ k = Proved!SwingHighAt(cs, i)
                 <=> 1 <= k - Lookback /\ Proved!BreaksPeak(cs, i, k)
    BY <2>3, ProvedAssumed, Proved!FirstAboveIs
  <2>4. ASSUME k \in Nat
        PROVE  Proved!FirstBelow(cs, i) /\ k = Proved!SwingLowAt(cs, i)
                 <=> 1 <= k - Lookback /\ Proved!BreaksTrough(cs, i, k)
    BY <2>4, ProvedAssumed, Proved!FirstBelowIs
  <2> QED
    BY <2>2, <2>3, <2>4
<1>6. 1 <= k - Lookback => k \in Nat
  BY <1>1
<1>7. CASE direction = "bullish"
  BY <1>3, <1>5, <1>6, <1>7 DEF BreaksAt
<1>8. CASE direction = "bearish"
  BY <1>4, <1>5, <1>6, <1>8 DEF BreaksAt
<1> QED
  BY <1>2, <1>7, <1>8

(* The breaks of the finished bars do not change as the market goes on.    *)
LEMMA HistoryKeepsBreaks ==
    ASSUME NEW cs \in Seq(Bars), NEW bar \in Bars, NEW direction,
           NEW j \in 1 .. Len(cs), NEW k \in Int, 1 <= k - Lookback
    PROVE  BreaksAt(cs, j, k, direction) <=> BreaksAt(Append(cs, bar), j, k, direction)
<1>1. IsWindow(cs, Append(cs, bar), 1)
  <2>1. Len(cs) \in Nat /\ \A n \in 1 .. Len(cs): Append(cs, bar)[n] = cs[n]
    BY AppendProperties, LenProperties
  <2> QED
    BY <2>1 DEF IsWindow
<1>2. /\ 1 \in Nat \ {0} /\ 1 + j - 1 = j /\ 1 + k - 1 = k
  BY LenProperties
<1>3. BreaksAt(cs, j, k, direction)
        <=> BreaksAt(Append(cs, bar), 1 + j - 1, 1 + k - 1, direction)
  BY <1>1, <1>2, BreaksInWindow
<1> QED
  BY <1>2, <1>3

(* Nor does the bar still forming undo a break of the closed ones.         *)
LEMMA MarketKeepsBreaks ==
    ASSUME FormingInv, history \in Seq(Bars), NEW direction,
           NEW j \in 1 .. Len(history), NEW k \in Int, 1 <= k - Lookback
    PROVE  BreaksAt(history, j, k, direction) <=> BreaksAt(Market, j, k, direction)
<1>1. IsWindow(history, Market, 1)
  BY MarketBars DEF IsWindow
<1>2. /\ 1 \in Nat \ {0} /\ 1 + j - 1 = j /\ 1 + k - 1 = k
  BY LenProperties
<1>3. BreaksAt(history, j, k, direction)
        <=> BreaksAt(Market, 1 + j - 1, 1 + k - 1, direction)
  BY <1>1, <1>2, BreaksInWindow
<1> QED
  BY <1>2, <1>3


-----------------------------------------------------------------------------
(* Gaps and order blocks in a window, and in the market.                   *)

(* Bar i of a market m is between two that leave a gap.                    *)
GapAt(m, i, direction, top, bottom) ==
    \/ /\ direction = "bullish" /\ m[i + 1].low > m[i - 1].high
       /\ top = m[i + 1].low /\ bottom = m[i - 1].high
    \/ /\ direction = "bearish" /\ m[i + 1].high < m[i - 1].low
       /\ ~(m[i + 1].low > m[i - 1].high)
       /\ top = m[i - 1].low /\ bottom = m[i + 1].high

Opposes(bar, direction) ==
    IF direction = "bullish" THEN Walk!IsBearish(bar) ELSE Walk!IsBullish(bar)

(* Bar k is the last one up to j, and not before from, that opposes.       *)
BlockAt(m, from, j, direction, k, high, low) ==
    /\ k \in from .. j /\ Opposes(m[k], direction)
    /\ \A i \in k + 1 .. j: ~Opposes(m[i], direction)
    /\ high = m[k].high /\ low = m[k].low

Touches(bar, top, bottom) == bar.low <= top /\ bar.high >= bottom

Untouched(m, top, bottom, start, end) ==
    \A k \in start .. end: ~Touches(m[k], top, bottom)

(* A zone is first touched at bar n, or not at all.                        *)
FirstTouched(m, last, top, bottom, start, n) ==
    IF n = Walk!NotMitigated THEN Untouched(m, top, bottom, start, last)
    ELSE /\ n \in start .. last /\ Touches(m[n], top, bottom)
         /\ Untouched(m, top, bottom, start, n - 1)

PlaceFrom(first, n) == IF n = Walk!NotMitigated THEN n ELSE first + n - 1

(* FirstTouch finds it.                                                    *)
LEMMA FirstTouchFinds ==
    ASSUME NEW cs \in Seq(Bars), NEW top, NEW bottom, NEW start \in Nat \ {0}
    PROVE  LET n == Walk!FirstTouch(cs, top, bottom, start)
           IN  n \in Nat /\ FirstTouched(cs, Len(cs), top, bottom, start, n)
<1> DEFINE n == Walk!FirstTouch(cs, top, bottom, start)
           S == {k \in start .. Len(cs): cs[k].low <= top /\ cs[k].high >= bottom}
<1>1. Len(cs) \in Nat /\ S \subseteq Nat
  BY LenProperties
<1>2. n = IF S = {} THEN Walk!NotMitigated ELSE Walk!Min(S)
  BY DEF Walk!FirstTouch
<1>3. \A k: k \in S <=> k \in start .. Len(cs) /\ Touches(cs[k], top, bottom)
  BY DEF Touches
<1> HIDE DEF S, n
<1>4. CASE S = {}
  <2>1. n = Walk!NotMitigated /\ n = 0
    BY <1>2, <1>4 DEF Walk!NotMitigated
  <2>2. Untouched(cs, top, bottom, start, Len(cs))
    BY <1>3, <1>4 DEF Untouched
  <2> QED
    BY <2>1, <2>2 DEF FirstTouched, n
<1>5. CASE S # {}
  <2>1. PICK x \in S: \A y \in S: x <= y
    BY <1>1, <1>5, Proved!LeastNat, ProvedAssumed
  <2>2. Walk!Min(S) \in S /\ \A y \in S: Walk!Min(S) <= y
    BY <2>1 DEF Walk!Min
  <2>3. n \in S /\ \A y \in S: n <= y
    BY <1>2, <1>5, <2>2
  <2>4. n \in Nat /\ n \in start .. Len(cs) /\ Touches(cs[n], top, bottom) /\ n # 0
    BY <1>1, <1>3, <2>3
  <2>5. ASSUME NEW k \in start .. n - 1 PROVE ~Touches(cs[k], top, bottom)
    <3>1. k \in start .. Len(cs) /\ ~(n <= k)
      BY <1>1, <2>4
    <3> QED
      BY <1>3, <2>3, <3>1
  <2>6. FirstTouched(cs, Len(cs), top, bottom, start, n)
    BY <2>4, <2>5 DEF FirstTouched, Untouched, Walk!NotMitigated
  <2> QED
    BY <2>4, <2>6 DEF n
<1> QED
  BY <1>4, <1>5

(* A touch in a window is one in the market.                               *)
LEMMA TouchInWindow ==
    ASSUME NEW m, NEW cs \in Seq(Bars), NEW first \in Nat \ {0}, IsWindow(cs, m, first),
           NEW top, NEW bottom, NEW start \in Nat \ {0}, NEW n \in Nat,
           FirstTouched(cs, Len(cs), top, bottom, start, n)
    PROVE  /\ FirstTouched(m, first + Len(cs) - 1, top, bottom, first + start - 1,
                           PlaceFrom(first, n))
           /\ PlaceFrom(first, n) \in Nat
<1>1. Len(cs) \in Nat
  BY LenProperties
<1>2. ASSUME NEW end \in 0 .. Len(cs), Untouched(cs, top, bottom, start, end)
      PROVE  Untouched(m, top, bottom, first + start - 1, first + end - 1)
  <2> SUFFICES ASSUME NEW k \in first + start - 1 .. first + end - 1
               PROVE  ~Touches(m[k], top, bottom)
    BY DEF Untouched
  <2>1. /\ k - first + 1 \in start .. end /\ k - first + 1 \in 1 .. Len(cs)
        /\ first + (k - first + 1) - 1 = k
    BY <1>1
  <2>2. cs[k - first + 1] = m[k]
    BY <2>1 DEF IsWindow
  <2> QED
    BY <1>2, <2>1, <2>2 DEF Untouched
<1>3. CASE n = Walk!NotMitigated
  <2>1. Untouched(cs, top, bottom, start, Len(cs)) /\ Len(cs) \in 0 .. Len(cs)
    BY <1>1, <1>3 DEF FirstTouched
  <2>2. Untouched(m, top, bottom, first + start - 1, first + Len(cs) - 1)
    BY <1>2, <2>1
  <2> QED
    BY <1>3, <2>2 DEF FirstTouched, PlaceFrom
<1>4. CASE n # Walk!NotMitigated
  <2> DEFINE p == first + n - 1
  <2>1. /\ n \in start .. Len(cs) /\ Touches(cs[n], top, bottom)
        /\ Untouched(cs, top, bottom, start, n - 1)
    BY <1>4 DEF FirstTouched
  <2>2. n - 1 \in 0 .. Len(cs) /\ n \in 1 .. Len(cs) /\ first + (n - 1) - 1 = p - 1
    BY <1>1, <2>1
  <2>3. Untouched(m, top, bottom, first + start - 1, p - 1)
    BY <1>2, <2>1, <2>2
  <2>4. Touches(m[p], top, bottom)
    BY <2>1, <2>2 DEF IsWindow
  <2>5. p \in first + start - 1 .. first + Len(cs) - 1 /\ p \in Nat /\ p # 0
    BY <1>1, <2>1
  <2>6. PlaceFrom(first, n) = p /\ p # Walk!NotMitigated
    BY <1>4, <2>5 DEF PlaceFrom, Walk!NotMitigated
  <2> HIDE DEF p
  <2> QED
    BY <2>3, <2>4, <2>5, <2>6 DEF FirstTouched
<1> QED
  BY <1>3, <1>4

(* The bars of a gap, in a window and in the market.                       *)
LEMMA GapInWindow ==
    ASSUME NEW m, NEW cs \in Seq(Bars), NEW first \in Nat \ {0}, IsWindow(cs, m, first),
           NEW i \in 2 .. Len(cs) - 1, NEW direction, NEW top, NEW bottom
    PROVE  GapAt(cs, i, direction, top, bottom)
             <=> GapAt(m, first + i - 1, direction, top, bottom)
<1>1. Len(cs) \in Nat
  BY LenProperties
<1>2. /\ i - 1 \in 1 .. Len(cs) /\ i + 1 \in 1 .. Len(cs)
      /\ first + (i - 1) - 1 = (first + i - 1) - 1
      /\ first + (i + 1) - 1 = (first + i - 1) + 1
  BY <1>1
<1>3. cs[i - 1] = m[(first + i - 1) - 1] /\ cs[i + 1] = m[(first + i - 1) + 1]
  <2>1. \A n \in 1 .. Len(cs): cs[n] = m[first + n - 1]
    BY DEF IsWindow
  <2>2. cs[i - 1] = m[first + (i - 1) - 1] /\ cs[i + 1] = m[first + (i + 1) - 1]
    BY <1>2, <2>1
  <2> QED
    BY <1>2, <2>2
<1> QED
  BY <1>3 DEF GapAt

(* The gaps of a window are those of the market whose bars it has, each    *)
(* mitigated where the market first touches it.                            *)
LEMMA GapsOfWindow ==
    ASSUME NEW m, NEW cs \in Seq(Bars), NEW first \in Nat \ {0}, IsWindow(cs, m, first)
    PROVE  \A g \in Walk!FairValueGaps(cs):
             /\ g \in Gaps /\ g.index \in 2 .. Len(cs) - 1
             /\ GapAt(m, first + g.index - 1, g.direction, g.top, g.bottom)
             /\ FirstTouched(m, first + Len(cs) - 1, g.top, g.bottom,
                             first + g.index + 1, PlaceFrom(first, g.mitigated))
             /\ PlaceFrom(first, g.mitigated) \in Nat
<1>1. Len(cs) \in Nat
  BY LenProperties
<1>2. ASSUME NEW g \in Walk!FairValueGaps(cs)
      PROVE  /\ g \in Gaps /\ g.index \in 2 .. Len(cs) - 1
             /\ GapAt(m, first + g.index - 1, g.direction, g.top, g.bottom)
             /\ FirstTouched(m, first + Len(cs) - 1, g.top, g.bottom,
                             first + g.index + 1, PlaceFrom(first, g.mitigated))
             /\ PlaceFrom(first, g.mitigated) \in Nat
  <2>1. PICK i, direction, top, bottom:
             /\ i \in 2 .. Len(cs) - 1 /\ direction \in Walk!Directions
             /\ g = Walk!Gap(cs, i, direction, top, bottom)
             /\ GapAt(cs, i, direction, top, bottom)
    BY DEF Walk!FairValueGaps, GapAt, Walk!Directions
  <2> DEFINE n == Walk!FirstTouch(cs, top, bottom, i + 2)
  <2>2. g = [index |-> i, direction |-> direction, top |-> top, bottom |-> bottom,
             mitigated |-> n]
    BY <2>1 DEF Walk!Gap
  <2>3. i + 2 \in Nat \ {0} /\ i \in Nat
    BY <1>1, <2>1
  <2>4. n \in Nat /\ FirstTouched(cs, Len(cs), top, bottom, i + 2, n)
    BY <2>3, FirstTouchFinds
  <2>5. top \in Int /\ bottom \in Int
    <3>1. i - 1 \in 1 .. Len(cs) /\ i + 1 \in 1 .. Len(cs)
      BY <1>1, <2>1
    <3>2. cs[i - 1] \in Bars /\ cs[i + 1] \in Bars
      BY <3>1, ElementOfSeq
    <3> QED
      BY <2>1, <3>2, CandlesAssumption DEF GapAt
  <2> HIDE DEF n
  <2>6. first + (i + 2) - 1 = first + i + 1
    BY <2>3
  <2>7. /\ FirstTouched(m, first + Len(cs) - 1, top, bottom, first + i + 1,
                        PlaceFrom(first, n))
        /\ PlaceFrom(first, n) \in Nat
    BY <2>3, <2>4, <2>6, TouchInWindow
  <2>8. GapAt(m, first + i - 1, direction, top, bottom)
    BY <2>1, GapInWindow
  <2>9. g \in Gaps
    BY <2>1, <2>2, <2>3, <2>4, <2>5 DEF Gaps
  <2>10. /\ g.index = i /\ g.direction = direction /\ g.top = top /\ g.bottom = bottom
         /\ g.mitigated = n
    BY <2>2
  <2> QED
    BY <2>1, <2>7, <2>8, <2>9, <2>10
<1> QED
  BY <1>2

(* All of them.                                                            *)
LEMMA GapsAreFound ==
    ASSUME NEW m, NEW cs \in Seq(Bars), NEW first \in Nat \ {0}, IsWindow(cs, m, first),
           NEW i \in 2 .. Len(cs) - 1, NEW direction, NEW top, NEW bottom,
           GapAt(m, first + i - 1, direction, top, bottom)
    PROVE  \E g \in Walk!FairValueGaps(cs): /\ g.index = i /\ g.direction = direction
                                            /\ g.top = top /\ g.bottom = bottom
<1>1. GapAt(cs, i, direction, top, bottom)
  BY GapInWindow
<1>2. Walk!Gap(cs, i, direction, top, bottom) \in Walk!FairValueGaps(cs)
  BY <1>1 DEF GapAt, Walk!FairValueGaps
<1> QED
  BY <1>2 DEF Walk!Gap


(* The last opposing bar before a break, in a window and in the market.    *)
LEMMA BlockInWindow ==
    ASSUME NEW m, NEW cs \in Seq(Bars), NEW first \in Nat \ {0}, IsWindow(cs, m, first),
           NEW j \in 1 .. Len(cs), NEW k \in Int, NEW direction, NEW high, NEW low
    PROVE  BlockAt(cs, 1, j, direction, k, high, low)
             <=> BlockAt(m, first, first + j - 1, direction, first + k - 1, high, low)
<1> DEFINE p == first + k - 1
           q == first + j - 1
<1>1. Len(cs) \in Nat
  BY LenProperties
<1>2. k \in 1 .. j <=> p \in first .. q
  BY <1>1
<1> SUFFICES ASSUME k \in 1 .. j
             PROVE  BlockAt(cs, 1, j, direction, k, high, low)
                      <=> BlockAt(m, first, q, direction, p, high, low)
  BY <1>2 DEF BlockAt
<1>3. /\ cs[k] = m[p]
      /\ \A i \in k + 1 .. j: cs[i] = m[first + i - 1]
  BY <1>1 DEF IsWindow
<1>4. /\ \A i \in k + 1 .. j: first + i - 1 \in p + 1 .. q
      /\ \A n \in p + 1 .. q: n - first + 1 \in k + 1 .. j /\ first + (n - first + 1) - 1 = n
  BY <1>1
<1> HIDE DEF p, q
<1>5. (\A i \in k + 1 .. j: ~Opposes(cs[i], direction))
        <=> (\A n \in p + 1 .. q: ~Opposes(m[n], direction))
  <2>1. ASSUME \A i \in k + 1 .. j: ~Opposes(cs[i], direction), NEW n \in p + 1 .. q
        PROVE  ~Opposes(m[n], direction)
    <3>1. cs[n - first + 1] = m[n] /\ n - first + 1 \in k + 1 .. j
      BY <1>3, <1>4
    <3> QED
      BY <2>1, <3>1
  <2>2. ASSUME \A n \in p + 1 .. q: ~Opposes(m[n], direction), NEW i \in k + 1 .. j
        PROVE  ~Opposes(cs[i], direction)
    <3>1. cs[i] = m[first + i - 1] /\ first + i - 1 \in p + 1 .. q
      BY <1>3, <1>4
    <3> QED
      BY <2>2, <3>1
  <2> QED
    BY <2>1, <2>2
<1> QED
  BY <1>2, <1>3, <1>5 DEF BlockAt

(* The order block of an event, if there is one, is the last of the        *)
(* opposing bars up to its own.                                            *)
LEMMA OpposingBar ==
    ASSUME NEW cs \in Seq(Bars), NEW e \in Walk!Events, e.index <= Len(cs)
    PROVE  Walk!Opposing(cs, e) # {} =>
             LET b == Walk!OrderBlock(cs, e)
             IN  /\ e.index \in 1 .. Len(cs) /\ b.index \in 1 .. e.index
                 /\ BlockAt(cs, 1, e.index, e.direction, b.index, b.high, b.low)
<1> DEFINE S == Walk!Opposing(cs, e)
           j == e.index
<1>1. j \in Nat /\ Len(cs) \in Nat /\ e.direction \in {"bullish", "bearish"}
  BY LenProperties DEF Walk!Events, Walk!Directions
<1>2. \A k: k \in S <=> k \in 1 .. j /\ Opposes(cs[k], e.direction)
  BY <1>1 DEF Walk!Opposing, Opposes
<1>3. LET b == Walk!OrderBlock(cs, e)
      IN  b.index = Walk!Max(S) /\ b.high = cs[Walk!Max(S)].high /\ b.low = cs[Walk!Max(S)].low
  BY DEF Walk!OrderBlock
<1>4. S \subseteq 0 .. j
  BY <1>1, <1>2
<1> HIDE DEF S
<1>5. ASSUME S # {}
      PROVE  LET b == Walk!OrderBlock(cs, e)
             IN  /\ j \in 1 .. Len(cs) /\ b.index \in 1 .. j
                 /\ BlockAt(cs, 1, j, e.direction, b.index, b.high, b.low)
  <2>1. Proved!Max(S) \in S /\ \A y \in S: y <= Proved!Max(S)
    BY <1>1, <1>4, <1>5, Proved!MaxOfNats, ProvedAssumed
  <2>2. Walk!Max(S) = Proved!Max(S)
    BY DEF Walk!Max, Proved!Max
  <2> DEFINE k == Walk!Max(S)
  <2>3. k \in S /\ \A y \in S: y <= k
    BY <2>1, <2>2
  <2> HIDE DEF k
  <2>4. k \in 1 .. j /\ Opposes(cs[k], e.direction)
    BY <1>2, <2>3
  <2>5. ASSUME NEW i \in k + 1 .. j PROVE ~Opposes(cs[i], e.direction)
    <3>1. i \in 1 .. j /\ ~(i <= k)
      BY <1>1, <2>4
    <3> QED
      BY <1>2, <2>3, <3>1
  <2>6. j \in 1 .. Len(cs)
    BY <1>1, <2>4
  <2> QED
    BY <1>3, <2>4, <2>5, <2>6 DEF BlockAt, k
<1> QED
  BY <1>5 DEF S

(* And any last opposing bar is that of the order block.                   *)
LEMMA OpposingBarIs ==
    ASSUME NEW cs \in Seq(Bars), NEW e \in Walk!Events, NEW k, NEW high, NEW low,
           NEW j, NEW d, e.index = j, e.direction = d, BlockAt(cs, 1, j, d, k, high, low)
    PROVE  /\ Walk!Opposing(cs, e) # {} /\ Walk!OrderBlock(cs, e).index = k
           /\ Walk!OrderBlock(cs, e).high = high /\ Walk!OrderBlock(cs, e).low = low
<1> DEFINE S == Walk!Opposing(cs, e)
<1>1. j \in Nat /\ e.direction \in {"bullish", "bearish"}
  BY DEF Walk!Events, Walk!Directions
<1>2. \A x: x \in S <=> x \in 1 .. j /\ Opposes(cs[x], e.direction)
  BY <1>1 DEF Walk!Opposing, Opposes
<1>3. LET b == Walk!OrderBlock(cs, e)
      IN  b.index = Walk!Max(S) /\ b.high = cs[Walk!Max(S)].high /\ b.low = cs[Walk!Max(S)].low
  BY DEF Walk!OrderBlock
<1> HIDE DEF S
<1>4. /\ k \in 1 .. j /\ Opposes(cs[k], e.direction)
      /\ \A i \in k + 1 .. j: ~Opposes(cs[i], e.direction)
      /\ high = cs[k].high /\ low = cs[k].low
  BY DEF BlockAt
<1>5. k \in S
  BY <1>2, <1>4
<1>6. ASSUME NEW y \in S PROVE y <= k
  <2>1. y \in 1 .. j /\ y \notin k + 1 .. j
    BY <1>2, <1>4
  <2> QED
    BY <1>1, <1>4, <2>1
<1>7. \A x \in S: (\A y \in S: x >= y) => x = k
  <2>1. \A x \in S: x \in Int /\ k \in Int
    BY <1>2, <1>4
  <2> QED
    BY <1>5, <1>6, <2>1
<1>8. \A y \in S: k >= y
  BY <1>2, <1>4, <1>6
<1>9. Walk!Max(S) = k
  BY <1>5, <1>7, <1>8 DEF Walk!Max
<1> QED
  BY <1>3, <1>4, <1>5, <1>9 DEF S

(* The order blocks of a window are those of the breaks told of it, where  *)
(* the market has them.                                                    *)
LEMMA BlocksOfWindow ==
    ASSUME NEW m, NEW cs \in Seq(Bars), NEW first \in Nat \ {0}, IsWindow(cs, m, first),
           NEW es \in Seq(Walk!Events), \A n \in 1 .. Len(es): es[n].index <= Len(cs)
    PROVE  \A b \in Walk!OrderBlocks(cs, es):
             /\ b \in Blocks /\ b.index \in Nat \ {0} /\ b.breaksAt \in Nat \ {0}
             /\ \E n \in 1 .. Len(es): /\ es[n].index = b.breaksAt
                                       /\ es[n].direction = b.direction
             /\ BlockAt(m, first, first + b.breaksAt - 1, b.direction,
                        first + b.index - 1, b.high, b.low)
             /\ FirstTouched(m, first + Len(cs) - 1, b.high, b.low,
                             first + b.breaksAt, PlaceFrom(first, b.mitigated))
             /\ PlaceFrom(first, b.mitigated) \in Nat
<1>1. Len(cs) \in Nat /\ Len(es) \in Nat
  BY LenProperties
<1>2. Walk!ToSet(es) = {es[n]: n \in 1 .. Len(es)}
  BY LenProperties DEF Walk!ToSet
<1>3. ASSUME NEW n \in 1 .. Len(es)
      PROVE  es[n] \in Walk!Events /\ es[n].index \in Nat /\ es[n].index <= Len(cs)
  <2>1. es[n] \in Walk!Events
    BY ElementOfSeq
  <2> QED
    BY <2>1 DEF Walk!Events
<1>4. ASSUME NEW b \in Walk!OrderBlocks(cs, es)
      PROVE  /\ b \in Blocks /\ b.index \in Nat \ {0} /\ b.breaksAt \in Nat \ {0}
             /\ \E n \in 1 .. Len(es): /\ es[n].index = b.breaksAt
                                       /\ es[n].direction = b.direction
             /\ BlockAt(m, first, first + b.breaksAt - 1, b.direction,
                        first + b.index - 1, b.high, b.low)
             /\ FirstTouched(m, first + Len(cs) - 1, b.high, b.low,
                             first + b.breaksAt, PlaceFrom(first, b.mitigated))
             /\ PlaceFrom(first, b.mitigated) \in Nat
  <2>1. PICK n \in 1 .. Len(es): /\ Walk!Opposing(cs, es[n]) # {}
                                 /\ b = Walk!OrderBlock(cs, es[n])
    BY <1>2 DEF Walk!OrderBlocks
  <2> DEFINE e == es[n]
  <2>2. e \in Walk!Events /\ e.index \in Nat /\ e.index <= Len(cs)
    BY <1>3
  <2> HIDE DEF e
  <2>3. /\ e.index \in 1 .. Len(cs) /\ b.index \in 1 .. e.index
        /\ BlockAt(cs, 1, e.index, e.direction, b.index, b.high, b.low)
    BY <2>1, <2>2, OpposingBar DEF e
  <2>4. /\ b.breaksAt = e.index /\ b.direction = e.direction
        /\ b.mitigated = Walk!FirstTouch(cs, b.high, b.low, e.index + 1)
        /\ b = [index |-> b.index, direction |-> b.direction, high |-> b.high,
                low |-> b.low, breaksAt |-> b.breaksAt, mitigated |-> b.mitigated]
    BY <2>1 DEF Walk!OrderBlock, e
  <2>5. e.index + 1 \in Nat \ {0} /\ b.index \in Int
    BY <2>2, <2>3
  <2>6. /\ b.mitigated \in Nat
        /\ FirstTouched(cs, Len(cs), b.high, b.low, e.index + 1, b.mitigated)
    BY <2>4, <2>5, FirstTouchFinds
  <2>7. first + (e.index + 1) - 1 = first + b.breaksAt
    BY <2>2, <2>4
  <2>8. /\ FirstTouched(m, first + Len(cs) - 1, b.high, b.low, first + b.breaksAt,
                        PlaceFrom(first, b.mitigated))
        /\ PlaceFrom(first, b.mitigated) \in Nat
    BY <2>5, <2>6, <2>7, TouchInWindow
  <2>9. BlockAt(m, first, first + b.breaksAt - 1, b.direction,
                first + b.index - 1, b.high, b.low)
    BY <2>3, <2>4, <2>5, BlockInWindow
  <2>10. b \in Blocks
    <3>1. cs[b.index] \in Bars /\ b.high = cs[b.index].high /\ b.low = cs[b.index].low
      <4>1. b.index \in 1 .. Len(cs)
        BY <1>1, <2>2, <2>3
      <4> QED
        BY <2>3, <4>1, ElementOfSeq DEF BlockAt
    <3>2. b.high \in Int /\ b.low \in Int
      BY <3>1, CandlesAssumption
    <3>3. b.index \in Nat /\ b.breaksAt \in Nat /\ b.direction \in Walk!Directions
      BY <2>2, <2>3, <2>4 DEF Walk!Events
    <3> QED
      BY <2>4, <2>6, <3>2, <3>3 DEF Blocks
  <2>11. b.index \in Nat \ {0} /\ b.breaksAt \in Nat \ {0}
    BY <2>2, <2>3, <2>4
  <2>12. \E i \in 1 .. Len(es): es[i].index = b.breaksAt /\ es[i].direction = b.direction
    BY <2>4 DEF e
  <2> QED
    BY <2>8, <2>9, <2>10, <2>11, <2>12
<1> QED
  BY <1>4


-----------------------------------------------------------------------------
(* The inductive invariant, its part about the zones.                      *)

(* What a report with so many finished bars, and this last one, says of a  *)
(* zone's first touch still holds in the market: a touch of the bar that   *)
(* was forming is one of the bar it became.                                *)
TouchHolds(m, finished, last, top, bottom, start, n) ==
    IF n = Walk!NotMitigated THEN Untouched(m, top, bottom, start, finished)
    ELSE /\ n \in start .. last /\ Touches(m[n], top, bottom)
         /\ Untouched(m, top, bottom, start, n - 1)

WindowInv ==
    /\ report.first = 0 => report = NoReport
    /\ report.last \in report.finished .. report.finished + 1
    /\ report.last <= Len(Market) /\ report.finished <= Len(history)
    /\ report.last > report.finished => provider = "twelvedata"

(* The last report has exactly the gaps over the bars then finished, and   *)
(* exactly the order blocks of the breaks at them that it tells.           *)
GapsInv ==
    /\ \A g \in report.gaps: g.index + 1 <= report.finished =>
         /\ report.first < g.index
         /\ GapAt(Market, g.index, g.direction, g.top, g.bottom)
         /\ TouchHolds(Market, report.finished, report.last, g.top, g.bottom,
                       g.index + 2, g.mitigated)
    /\ \A i \in Nat: report.first < i /\ i + 1 <= report.finished =>
         \A direction, top, bottom: GapAt(Market, i, direction, top, bottom) =>
           \E g \in report.gaps: /\ g.index = i /\ g.direction = direction
                                 /\ g.top = top /\ g.bottom = bottom

BlocksInv ==
    /\ \A e, f \in report.events: e.bar = f.bar => e.direction = f.direction
    /\ \A b \in report.blocks: b.breaksAt <= report.finished =>
         /\ \E e \in report.events: e.bar = b.breaksAt /\ e.direction = b.direction
         /\ BlockAt(Market, report.first, b.breaksAt, b.direction, b.index, b.high, b.low)
         /\ TouchHolds(Market, report.finished, report.last, b.high, b.low,
                       b.breaksAt + 1, b.mitigated)
    /\ \A e \in report.events: e.bar <= report.finished =>
         \A k, high, low:
           BlockAt(Market, report.first, e.bar, e.direction, k, high, low) =>
             \E b \in report.blocks:
               /\ b.breaksAt = e.bar /\ b.direction = e.direction
               /\ b.index = k /\ b.high = high /\ b.low = low

ZonesInv == WindowInv /\ GapsInv /\ BlocksInv

-----------------------------------------------------------------------------
(* The inductive invariant, initially and step by step.                    *)
WalkInv == Walk!TypeOK /\ Proved!BreakInv /\ Proved!FirstClosesInv

FeedInv == TypeOK /\ FormingInv /\ FetchedInv /\ ReportInv /\ ZonesInv /\ WalkInv

(* A walk that begins, in this state or the next.                          *)
LEMMA WalkBegins == Walk!Init => WalkInv
<1> SUFFICES ASSUME Walk!Init PROVE WalkInv
  OBVIOUS
<1>1. Proved!Init
  BY SameWalk
<1>2. Proved!TypeOK /\ Proved!BreakInv /\ Proved!FirstClosesInv
  BY <1>1, ProvedAssumed, Proved!BreakInit, Proved!FirstClosesInit
<1> QED
  BY <1>2, SameWalk DEF WalkInv

(* A walk that starts satisfies its invariant.                             *)
LEMMA NextWalkBegins == Walk!Init' => WalkInv'
BY WalkBegins, PTL

(* The bars of the market, in this state or the next.                      *)
LEMMA MarketSize ==
    FormingInv /\ history \in Seq(Bars) =>
        /\ Len(history) \in Nat /\ Len(Market) \in Nat
        /\ Len(Market) = Len(history) + IF forming = {} THEN 0 ELSE 1
        /\ \A n \in 1 .. Len(history): Market[n] = history[n]
        /\ \A f \in forming: Market[Len(history) + 1] = f
BY MarketBars

(* The bars of the market after a step.                                    *)
LEMMA NextMarketSize ==
    (FormingInv /\ history \in Seq(Bars) =>
        /\ Len(history) \in Nat /\ Len(Market) \in Nat
        /\ Len(Market) = Len(history) + IF forming = {} THEN 0 ELSE 1
        /\ \A n \in 1 .. Len(history): Market[n] = history[n]
        /\ \A f \in forming: Market[Len(history) + 1] = f)'
BY MarketSize, PTL

(* The invariant holds at the start,                                       *)
LEMMA FeedInit == Init => FeedInv
<1> SUFFICES ASSUME Init PROVE FeedInv
  OBVIOUS
<1>1. /\ provider \in Providers /\ history = <<>> /\ forming = {}
      /\ fetched = Nothing /\ report = NoReport /\ Walk!Init
  BY DEF Init
<1>2. WalkInv
  BY <1>1, WalkBegins
<1>3. history \in Seq(Bars) /\ Len(history) = 0
  BY <1>1, EmptySeq
<1>4. FormingInv
  BY <1>1 DEF FormingInv
<1>5. Len(Market) \in Nat
  BY <1>3, <1>4, MarketSize
<1>6. TypeOK
  <2>1. fetched \in [first: Nat, finished: Nat, bars: Seq(Bars)] /\ Len(fetched.bars) = 0
    BY <1>1, EmptySeq DEF Nothing
  <2>2. Cardinality(forming) <= 1 /\ forming \subseteq Bars
    BY <1>4, FormingBars
  <2>3. /\ report.first \in Nat /\ report.last \in Nat /\ report.finished \in Nat
        /\ report.events \subseteq Breaks
        /\ report.gaps \subseteq Gaps /\ report.blocks \subseteq Blocks
    BY <1>1 DEF NoReport
  <2>4. Len(fetched.bars) <= Count
    BY <2>1, FeedAssumption
  <2> QED
    BY <1>1, <1>2, <1>3, <2>1, <2>2, <2>3, <2>4 DEF TypeOK, WalkInv
<1>7. FetchedInv
  BY <1>1 DEF FetchedInv, Working, Nothing
<1>8. ReportInv
  <2>1. report.first = 0 /\ report.last = 0 /\ report.finished = 0 /\ report.events = {}
    BY <1>1 DEF NoReport
  <2>2. Oldest(Len(Market)) \in Nat
    BY <1>5, WindowSize
  <2> QED
    BY <1>3, <2>1, <2>2 DEF ReportInv
<1>9. ZonesInv
  BY <1>1, <1>5 DEF ZonesInv, WindowInv, GapsInv, BlocksInv, NoReport
<1> QED
  BY <1>2, <1>4, <1>6, <1>7, <1>8, <1>9 DEF FeedInv

(* What has been reported stays so as the market goes on.                  *)
LEMMA ReportStays ==
    ASSUME TypeOK, ReportInv, report' = report, FormingInv, FormingInv',
           history' = history \/ \E b \in Bars: history' = Append(history, b),
           Len(Market) \in Nat, Len(Market') \in Nat, Len(Market) <= Len(Market')
    PROVE  ReportInv'
<1>1. /\ history \in Seq(Bars) /\ Len(history) \in Nat /\ Lookback \in Nat \ {0}
      /\ report.first \in Nat /\ report.last \in Nat /\ report.finished \in Nat
  BY LenProperties, CandlesAssumption DEF TypeOK
<1>2. /\ report.first <= Oldest(Len(Market)) /\ report.finished <= Len(history)
      /\ report.first = 0 => report.last = 0
      /\ \A j \in Nat, k \in Nat, direction \in Walk!Directions:
           j <= report.last /\ j <= report.finished =>
             ( [bar |-> j, level |-> k, direction |-> direction]
                 \in {Place(e): e \in report.events}
               <=> /\ j > 0 /\ report.first <= k - Lookback
                   /\ BreaksAt(history, j, k, direction) )
  BY DEF ReportInv
<1>3. report.first <= Oldest(Len(Market'))
  <2>1. /\ Oldest(Len(Market)) \in Nat /\ Oldest(Len(Market')) \in Nat
        /\ Oldest(Len(Market)) <= Oldest(Len(Market'))
    BY WindowSize
  <2> QED
    BY <1>1, <1>2, <2>1
<1>4. Len(history) <= Len(history') /\ Len(history') \in Nat
  BY <1>1, AppendProperties
<1>5. ASSUME NEW j \in Nat, NEW k \in Nat, NEW direction \in Walk!Directions,
             j <= report.last, j <= report.finished, j > 0, report.first <= k - Lookback
      PROVE  BreaksAt(history, j, k, direction) <=> BreaksAt(history', j, k, direction)
  <2>1. j \in 1 .. Len(history) /\ 1 <= k - Lookback
    BY <1>1, <1>2, <1>5
  <2>2. CASE history' = history
    BY <2>2
  <2>3. ASSUME NEW b \in Bars, history' = Append(history, b)
        PROVE  BreaksAt(history, j, k, direction) <=> BreaksAt(history', j, k, direction)
    <3>1. BreaksAt(history, j, k, direction)
            <=> BreaksAt(Append(history, b), j, k, direction)
      BY <1>1, <2>1, HistoryKeepsBreaks
    <3> QED
      BY <2>3, <3>1
  <2> QED
    BY <2>2, <2>3
<1>6. report.finished <= Len(history')
  BY <1>1, <1>2, <1>4
<1>7. \A j \in Nat, k \in Nat, direction \in Walk!Directions:
        j <= report.last /\ j <= report.finished =>
          ( [bar |-> j, level |-> k, direction |-> direction]
              \in {Place(e): e \in report.events}
            <=> /\ j > 0 /\ report.first <= k - Lookback
                /\ BreaksAt(history', j, k, direction) )
  BY <1>2, <1>5
<1> QED
  BY <1>2, <1>3, <1>6, <1>7 DEF ReportInv


(* As a bar opens or closes, the finished bars stay, and what touched a    *)
(* zone still does.                                                        *)
LEMMA MarketGoesOn ==
    ASSUME FormingInv, history \in Seq(Bars), FormingInv', history' \in Seq(Bars),
           BarOpens \/ BarCloses
    PROVE  /\ Len(history) <= Len(history') /\ Len(Market) <= Len(Market')
           /\ \A k \in 1 .. Len(history): Market'[k] = Market[k]
           /\ \A k \in 1 .. Len(Market): \A top \in Int, bottom \in Int:
                Touches(Market[k], top, bottom) => Touches(Market'[k], top, bottom)
<1>1. /\ Len(history) \in Nat /\ Len(Market) \in Nat
      /\ Len(Market) = Len(history) + IF forming = {} THEN 0 ELSE 1
      /\ \A n \in 1 .. Len(history): Market[n] = history[n]
      /\ \A f \in forming: Market[Len(history) + 1] = f
  BY MarketSize
<1>2. /\ Len(history') \in Nat /\ Len(Market') \in Nat
      /\ Len(Market') = Len(history') + IF forming' = {} THEN 0 ELSE 1
      /\ \A n \in 1 .. Len(history'): Market'[n] = history'[n]
  BY NextMarketSize
<1>3. CASE BarOpens
  <2>1. forming = {} /\ forming' # {} /\ history' = history
    BY <1>3 DEF BarOpens
  <2>2. Len(Market) = Len(history) /\ Len(Market') = Len(history) + 1
    BY <1>1, <1>2, <2>1
  <2>3. \A k \in 1 .. Len(history): Market'[k] = Market[k]
    BY <1>1, <1>2, <2>1
  <2> QED
    BY <1>1, <2>1, <2>2, <2>3
<1>4. ASSUME NEW f \in forming, NEW b \in Bars, b.low <= f.low, f.high <= b.high,
             history' = Append(history, b), forming' = {}
      PROVE  /\ Len(history) <= Len(history') /\ Len(Market) <= Len(Market')
             /\ \A k \in 1 .. Len(history): Market'[k] = Market[k]
             /\ \A k \in 1 .. Len(Market): \A top \in Int, bottom \in Int:
                  Touches(Market[k], top, bottom) => Touches(Market'[k], top, bottom)
  <2>1. /\ Len(history') = Len(history) + 1 /\ history'[Len(history) + 1] = b
        /\ \A k \in 1 .. Len(history): history'[k] = history[k]
    BY <1>4, AppendProperties
  <2>2. Len(Market) = Len(history) + 1 /\ Len(Market') = Len(history) + 1
    BY <1>1, <1>2, <1>4, <2>1
  <2>3. /\ \A k \in 1 .. Len(history): Market'[k] = Market[k]
        /\ Market[Len(history) + 1] = f /\ Market'[Len(history) + 1] = b
    BY <1>1, <1>2, <1>4, <2>1
  <2>4. f \in Bars
    BY <1>4 DEF FormingInv
  <2>5. ASSUME NEW top \in Int, NEW bottom \in Int, Touches(f, top, bottom)
        PROVE  Touches(b, top, bottom)
    <3>1. f.low \in Int /\ f.high \in Int /\ b.low \in Int /\ b.high \in Int
      BY <2>4, CandlesAssumption
    <3> QED
      BY <1>4, <2>5, <3>1 DEF Touches
  <2>6. \A k \in 1 .. Len(Market): k \in 1 .. Len(history) \/ k = Len(history) + 1
    BY <1>1, <2>2
  <2> QED
    BY <1>1, <2>1, <2>2, <2>3, <2>5, <2>6
<1>5. CASE BarCloses
  BY <1>4, <1>5 DEF BarCloses
<1> QED
  BY <1>3, <1>4, <1>5

(* What a report says of the zones stays so.                               *)
LEMMA ZonesStay ==
    ASSUME TypeOK, ZonesInv, report' = report, provider' = provider,
           Len(history) \in Nat, Len(history') \in Nat,
           Len(Market) \in Nat, Len(Market') \in Nat,
           Len(history) <= Len(history'), Len(Market) <= Len(Market'),
           \A k \in 1 .. Len(history): Market'[k] = Market[k],
           \A k \in 1 .. Len(Market): \A top \in Int, bottom \in Int:
             Touches(Market[k], top, bottom) => Touches(Market'[k], top, bottom)
    PROVE  ZonesInv'
<1> DEFINE finished == report.finished
           last == report.last
<1>1. /\ report.first \in Nat /\ last \in Nat /\ finished \in Nat
      /\ report.events \subseteq Breaks
      /\ report.gaps \subseteq Gaps /\ report.blocks \subseteq Blocks
  BY DEF TypeOK
<1>2. WindowInv /\ GapsInv /\ BlocksInv
  BY DEF ZonesInv
<1>3. /\ last <= finished + 1 /\ last <= Len(Market) /\ finished <= Len(history)
      /\ report.first = 0 => report = NoReport
  BY <1>1, <1>2 DEF WindowInv
<1>4. WindowInv'
  BY <1>1, <1>2 DEF WindowInv
<1>5. \A k \in 1 .. finished: Market'[k] = Market[k]
  BY <1>1, <1>3
<1>6. ASSUME NEW top \in Int, NEW bottom \in Int, NEW start \in Nat \ {0}, NEW n,
             TouchHolds(Market, finished, last, top, bottom, start, n)
      PROVE  TouchHolds(Market', finished, last, top, bottom, start, n)
  <2>1. ASSUME NEW end \in Int, end <= finished,
               Untouched(Market, top, bottom, start, end)
        PROVE  Untouched(Market', top, bottom, start, end)
    <3>1. \A k \in start .. end: k \in 1 .. finished
      BY <1>1, <2>1
    <3> QED
      BY <1>5, <2>1, <3>1 DEF Untouched
  <2>2. CASE n = Walk!NotMitigated
    BY <1>1, <1>6, <2>1, <2>2 DEF TouchHolds
  <2>3. CASE n # Walk!NotMitigated
    <3>1. /\ n \in start .. last /\ Touches(Market[n], top, bottom)
          /\ Untouched(Market, top, bottom, start, n - 1)
      BY <1>6, <2>3 DEF TouchHolds
    <3>2. n - 1 \in Int /\ n - 1 <= finished /\ n \in 1 .. Len(Market)
      BY <1>1, <1>3, <3>1
    <3>3. Touches(Market'[n], top, bottom) /\ Untouched(Market', top, bottom, start, n - 1)
      BY <2>1, <3>1, <3>2
    <3> QED
      BY <2>3, <3>1, <3>3 DEF TouchHolds
  <2> QED
    BY <2>2, <2>3
<1>7. ASSUME NEW i \in Nat, report.first < i, i + 1 <= finished,
             NEW direction, NEW top, NEW bottom
      PROVE  GapAt(Market, i, direction, top, bottom)
               <=> GapAt(Market', i, direction, top, bottom)
  <2>1. report.first # 0
    BY <1>1, <1>3, <1>7 DEF NoReport
  <2>2. i - 1 \in 1 .. finished /\ i + 1 \in 1 .. finished
    BY <1>1, <1>7, <2>1
  <2> QED
    BY <1>5, <2>2 DEF GapAt
<1>8. GapsInv'
  <2>1. ASSUME NEW g \in report.gaps, g.index + 1 <= finished
        PROVE  /\ report.first < g.index
               /\ GapAt(Market', g.index, g.direction, g.top, g.bottom)
               /\ TouchHolds(Market', finished, last, g.top, g.bottom, g.index + 2, g.mitigated)
    <3>1. g.index \in Nat /\ g.top \in Int /\ g.bottom \in Int
      BY <1>1 DEF Gaps
    <3>2. /\ report.first < g.index
          /\ GapAt(Market, g.index, g.direction, g.top, g.bottom)
          /\ TouchHolds(Market, finished, last, g.top, g.bottom, g.index + 2, g.mitigated)
      BY <1>2, <2>1 DEF GapsInv
    <3>3. g.index + 2 \in Nat \ {0}
      BY <3>1
    <3> HIDE DEF finished, last
    <3>4. TouchHolds(Market', finished, last, g.top, g.bottom, g.index + 2, g.mitigated)
      BY <1>6, <3>1, <3>2, <3>3
    <3>5. GapAt(Market', g.index, g.direction, g.top, g.bottom)
      BY <1>7, <2>1, <3>1, <3>2
    <3> QED
      BY <3>2, <3>4, <3>5
  <2>2. ASSUME NEW i \in Nat, report.first < i, i + 1 <= finished,
               NEW direction, NEW top, NEW bottom,
               GapAt(Market', i, direction, top, bottom)
        PROVE  \E g \in report.gaps: /\ g.index = i /\ g.direction = direction
                                     /\ g.top = top /\ g.bottom = bottom
    <3>1. GapAt(Market, i, direction, top, bottom)
      BY <1>7, <2>2
    <3> QED
      BY <1>2, <2>2, <3>1 DEF GapsInv
  <2> QED
    BY <2>1, <2>2 DEF GapsInv
<1>9. ASSUME NEW j \in Nat, j <= finished, report.first # 0,
             NEW direction, NEW k, NEW high, NEW low
      PROVE  BlockAt(Market, report.first, j, direction, k, high, low)
               <=> BlockAt(Market', report.first, j, direction, k, high, low)
  <2> SUFFICES ASSUME k \in report.first .. j
               PROVE  BlockAt(Market, report.first, j, direction, k, high, low)
                        <=> BlockAt(Market', report.first, j, direction, k, high, low)
    BY DEF BlockAt
  <2>1. k \in 1 .. finished /\ \A i \in k + 1 .. j: i \in 1 .. finished
    BY <1>1, <1>9
  <2>2. Market'[k] = Market[k] /\ \A i \in k + 1 .. j: Market'[i] = Market[i]
    BY <1>5, <2>1
  <2> QED
    BY <2>2 DEF BlockAt
<1>10. BlocksInv'
  <2>1. ASSUME NEW b \in report.blocks, b.breaksAt <= finished
        PROVE  /\ \E e \in report.events: e.bar = b.breaksAt /\ e.direction = b.direction
               /\ BlockAt(Market', report.first, b.breaksAt, b.direction, b.index,
                          b.high, b.low)
               /\ TouchHolds(Market', finished, last, b.high, b.low, b.breaksAt + 1,
                             b.mitigated)
    <3>1. /\ b.breaksAt \in Nat /\ b.high \in Int /\ b.low \in Int
          /\ b.breaksAt + 1 \in Nat \ {0}
      BY <1>1 DEF Blocks
    <3>2. /\ \E e \in report.events: e.bar = b.breaksAt /\ e.direction = b.direction
          /\ BlockAt(Market, report.first, b.breaksAt, b.direction, b.index, b.high, b.low)
          /\ TouchHolds(Market, finished, last, b.high, b.low, b.breaksAt + 1, b.mitigated)
      BY <1>2, <2>1 DEF BlocksInv
    <3>3. report.first # 0
      BY <1>3, <2>1 DEF NoReport
    <3> HIDE DEF finished, last
    <3>4. TouchHolds(Market', finished, last, b.high, b.low, b.breaksAt + 1, b.mitigated)
      BY <1>6, <3>1, <3>2
    <3>5. BlockAt(Market', report.first, b.breaksAt, b.direction, b.index, b.high, b.low)
      BY <1>9, <2>1, <3>1, <3>2, <3>3
    <3> QED
      BY <3>2, <3>4, <3>5
  <2>2. ASSUME NEW e \in report.events, e.bar <= finished, NEW k, NEW high, NEW low,
               BlockAt(Market', report.first, e.bar, e.direction, k, high, low)
        PROVE  \E b \in report.blocks:
                 /\ b.breaksAt = e.bar /\ b.direction = e.direction
                 /\ b.index = k /\ b.high = high /\ b.low = low
    <3>1. e.bar \in Nat
      BY <1>1 DEF Breaks
    <3>2. report.first # 0
      BY <1>3, <2>2 DEF NoReport
    <3>3. BlockAt(Market, report.first, e.bar, e.direction, k, high, low)
      BY <1>9, <2>2, <3>1, <3>2
    <3> QED
      BY <1>2, <2>2, <3>3 DEF BlocksInv
  <2>3. \A e, f \in report.events: e.bar = f.bar => e.direction = f.direction
    BY <1>2 DEF BlocksInv
  <2> QED
    BY <2>1, <2>2, <2>3 DEF BlocksInv
<1> QED
  BY <1>4, <1>8, <1>10 DEF ZonesInv

(* The zones do not change with a step that leaves market and report.      *)
LEMMA ZonesUnmoved ==
    ASSUME ZonesInv, report' = report, provider' = provider, history' = history,
           Market' = Market
    PROVE  ZonesInv'
BY DEF ZonesInv, WindowInv, GapsInv, BlocksInv

(* The market goes on, between two cycles.                                 *)
LEMMA BarOpensKeeps == FeedInv /\ BarOpens => FeedInv'
<1> SUFFICES ASSUME FeedInv, BarOpens PROVE FeedInv'
  OBVIOUS
<1>1. /\ TypeOK /\ FormingInv /\ FetchedInv /\ ReportInv /\ ZonesInv /\ WalkInv
  BY DEF FeedInv
<1>2. PICK b \in Bars: forming' = {b}
  BY DEF BarOpens
<1>3. /\ ~Working /\ forming = {}
      /\ provider' = provider /\ history' = history /\ fetched' = fetched
      /\ report' = report
      /\ candles' = candles /\ pendingHigh' = pendingHigh /\ pendingLow' = pendingLow
      /\ trend' = trend /\ events' = events
  BY DEF BarOpens, walkVars
<1>4. history \in Seq(Bars) /\ history' \in Seq(Bars) /\ FormingInv'
  BY <1>1, <1>2, <1>3 DEF TypeOK, FormingInv
<1>5. Len(Market) \in Nat /\ Len(Market') \in Nat /\ Len(Market) <= Len(Market')
  BY <1>1, <1>2, <1>3, <1>4, MarketSize, NextMarketSize
<1>6. ReportInv'
  BY <1>1, <1>3, <1>4, <1>5, ReportStays
<1>7. Walk!Init' /\ FetchedInv'
  BY <1>1, <1>3 DEF FetchedInv, Working, Walk!Init
<1>8. WalkInv'
  BY <1>7, NextWalkBegins
<1>9. TypeOK'
  <2>1. Cardinality(forming') <= 1 /\ forming' \subseteq Bars
    BY <1>2, FS_Singleton
  <2> QED
    BY <1>1, <1>3, <1>8, <2>1 DEF TypeOK, WalkInv
<1>10. ZonesInv'
  BY <1>1, <1>3, <1>4, <1>5, LenProperties, MarketGoesOn, ZonesStay
<1> QED
  BY <1>4, <1>6, <1>7, <1>8, <1>9, <1>10 DEF FeedInv

(* A bar that closes adds to the history and leaves the walk alone.        *)
LEMMA BarClosesKeeps == FeedInv /\ BarCloses => FeedInv'
<1> SUFFICES ASSUME FeedInv, BarCloses PROVE FeedInv'
  OBVIOUS
<1>1. /\ TypeOK /\ FormingInv /\ FetchedInv /\ ReportInv /\ ZonesInv /\ WalkInv
  BY DEF FeedInv
<1>2. PICK f \in forming, b \in Bars: history' = Append(history, b)
  BY DEF BarCloses
<1>3. /\ ~Working /\ forming' = {}
      /\ provider' = provider /\ fetched' = fetched /\ report' = report
      /\ candles' = candles /\ pendingHigh' = pendingHigh /\ pendingLow' = pendingLow
      /\ trend' = trend /\ events' = events
  BY DEF BarCloses, walkVars
<1>4. /\ history \in Seq(Bars) /\ history' \in Seq(Bars) /\ FormingInv'
      /\ Len(history') = Len(history) + 1
  BY <1>1, <1>2, <1>3, AppendProperties DEF TypeOK, FormingInv
<1>5. Len(Market) \in Nat /\ Len(Market') \in Nat /\ Len(Market) <= Len(Market')
  BY <1>1, <1>2, <1>3, <1>4, MarketSize, NextMarketSize
<1>6. ReportInv'
  BY <1>1, <1>2, <1>3, <1>4, <1>5, ReportStays
<1>7. Walk!Init' /\ FetchedInv'
  BY <1>1, <1>3 DEF FetchedInv, Working, Walk!Init
<1>8. WalkInv'
  BY <1>7, NextWalkBegins
<1>9. TypeOK'
  <2>1. Cardinality(forming') <= 1 /\ forming' \subseteq Bars
    BY <1>3, FS_EmptySet
  <2> QED
    BY <1>1, <1>3, <1>4, <1>8, <2>1 DEF TypeOK, WalkInv
<1>10. ZonesInv'
  BY <1>1, <1>3, <1>4, <1>5, LenProperties, MarketGoesOn, ZonesStay
<1> QED
  BY <1>4, <1>6, <1>7, <1>8, <1>9, <1>10 DEF FeedInv

(* A cycle fetches a window that reaches to the end of the history.        *)
LEMMA FetchKeeps == FeedInv /\ Fetch => FeedInv'
<1> SUFFICES ASSUME FeedInv, Fetch PROVE FeedInv'
  OBVIOUS
<1>1. /\ TypeOK /\ FormingInv /\ FetchedInv /\ ReportInv /\ ZonesInv /\ WalkInv
  BY DEF FeedInv
<1>2. PICK payload \in Payloads:
        fetched' = [first |-> Oldest(Len(Market)), finished |-> Len(history),
                    bars |-> ParseCandles(payload)]
  BY DEF Fetch
<1>3. /\ ~Working
      /\ provider' = provider /\ history' = history /\ forming' = forming
      /\ report' = report
      /\ candles' = candles /\ pendingHigh' = pendingHigh /\ pendingLow' = pendingLow
      /\ trend' = trend /\ events' = events
  BY DEF Fetch, marketVars, walkVars
<1>4. history \in Seq(Bars) /\ provider \in Providers
  BY <1>1 DEF TypeOK
<1>5. Len(history) \in Nat /\ Len(Market) \in Nat /\ Market' = Market
  BY <1>1, <1>3, <1>4, MarketSize DEF Market
<1> DEFINE bars == ParseCandles(payload)
           first == Oldest(Len(Market))
<1>6. /\ bars \in Seq(Bars) /\ Len(bars) <= Count
      /\ first + Len(bars) - 1 \in Len(history) .. Len(Market)
      /\ IsWindow(bars, Market, first)
      /\ first + Len(bars) - 1
           = IF provider = "twelvedata" THEN Len(Market) ELSE Len(history)
  BY <1>1, <1>4, ParsedBars
<1>7. first \in Nat \ {0}
  BY <1>5, WindowSize
<1>8. fetched'.first = first /\ fetched'.finished = Len(history) /\ fetched'.bars = bars
  BY <1>2
<1> HIDE DEF bars, first
<1>9. Walk!Init /\ Walk!Init'
  BY <1>1, <1>3 DEF FetchedInv, Walk!Init
<1>10. WalkInv'
  BY <1>9, NextWalkBegins
<1>11. FormingInv' /\ ReportInv' /\ ZonesInv'
  BY <1>1, <1>3, <1>5, ZonesUnmoved DEF FormingInv, ReportInv
<1>12. TypeOK'
  <2>1. fetched' \in [first: Nat, finished: Nat, bars: Seq(Bars)]
    BY <1>2, <1>5, <1>6, <1>7 DEF first, bars
  <2> QED
    BY <1>1, <1>3, <1>6, <1>8, <1>10, <2>1 DEF TypeOK, WalkInv
<1>13. FetchedInv'
  <2>1. Working'
    BY <1>7, <1>8 DEF Working
  <2>2. candles' = <<>> /\ Len(candles') = 0
    BY <1>9, EmptySeq DEF Walk!Init
  <2>3. Len(bars) \in Nat
    BY <1>6, LenProperties
  <2>4. /\ fetched'.first = Oldest(Len(Market')) /\ fetched'.finished = Len(history')
        /\ fetched'.first + Len(fetched'.bars) - 1 \in Len(history') .. Len(Market')
        /\ IsWindow(fetched'.bars, Market', fetched'.first)
        /\ fetched'.first + Len(fetched'.bars) - 1
             = IF provider' = "twelvedata" THEN Len(Market') ELSE Len(history')
    BY <1>3, <1>5, <1>6, <1>8 DEF first
  <2>5. /\ Len(candles') <= Len(fetched'.bars)
        /\ \A n \in 1 .. Len(candles'): candles'[n] = fetched'.bars[n]
    BY <1>8, <2>2, <2>3
  <2> QED
    BY <2>1, <2>4, <2>5 DEF FetchedInv
<1> QED
  BY <1>10, <1>11, <1>12, <1>13 DEF FeedInv


(* The walk takes up the next of the fetched bars.                         *)
LEMMA ReadNextKeeps == FeedInv /\ ReadNext => FeedInv'
<1> SUFFICES ASSUME FeedInv, ReadNext PROVE FeedInv'
  OBVIOUS
<1>1. /\ TypeOK /\ FormingInv /\ FetchedInv /\ ReportInv /\ ZonesInv /\ WalkInv
  BY DEF FeedInv
<1>2. /\ Working /\ Len(candles) < Len(fetched.bars)
      /\ Walk!ReadBar(fetched.bars[Len(candles) + 1])
      /\ provider' = provider /\ history' = history /\ forming' = forming
      /\ fetched' = fetched /\ report' = report
  BY DEF ReadNext, marketVars
<1>3. /\ candles \in Seq(Bars) /\ Len(candles) \in Nat
      /\ fetched.bars \in Seq(Bars) /\ Len(fetched.bars) \in Nat
  BY <1>1, LenProperties DEF TypeOK, Walk!TypeOK
<1> DEFINE bar == fetched.bars[Len(candles) + 1]
<1>4. bar \in Bars
  BY <1>2, <1>3, ElementOfSeq
<1>5. candles' = Append(candles, bar)
  BY <1>2 DEF Walk!ReadBar
<1>6. WalkInv'
  BY <1>1, <1>2, <1>4, WalkGoesOn DEF WalkInv
<1>7. Market' = Market
  BY <1>2 DEF Market
<1>8. FormingInv' /\ ReportInv' /\ ZonesInv'
  BY <1>1, <1>2, <1>7, ZonesUnmoved DEF FormingInv, ReportInv
<1>9. TypeOK'
  BY <1>1, <1>2, <1>6 DEF TypeOK, WalkInv
<1>10. FetchedInv'
  <2>1. Working'
    BY <1>2 DEF Working
  <2>2. /\ fetched.first = Oldest(Len(Market)) /\ fetched.finished = Len(history)
        /\ fetched.first + Len(fetched.bars) - 1 \in Len(history) .. Len(Market)
        /\ IsWindow(fetched.bars, Market, fetched.first)
        /\ fetched.first + Len(fetched.bars) - 1
             = IF provider = "twelvedata" THEN Len(Market) ELSE Len(history)
        /\ \A n \in 1 .. Len(candles): candles[n] = fetched.bars[n]
    BY <1>1, <1>2 DEF FetchedInv
  <2>3. /\ Len(candles') = Len(candles) + 1 /\ candles'[Len(candles) + 1] = bar
        /\ \A n \in 1 .. Len(candles): candles'[n] = candles[n]
    BY <1>3, <1>4, <1>5, AppendProperties
  <2>4. \A n \in 1 .. Len(candles'): n \in 1 .. Len(candles) \/ n = Len(candles) + 1
    BY <1>3, <2>3
  <2>5. \A n \in 1 .. Len(candles'): candles'[n] = fetched.bars[n]
    BY <2>2, <2>3, <2>4
  <2>6. Len(candles') <= Len(fetched.bars)
    BY <1>2, <1>3, <2>3
  <2> QED
    BY <1>2, <1>7, <2>1, <2>2, <2>5, <2>6 DEF FetchedInv
<1> QED
  BY <1>6, <1>8, <1>9, <1>10 DEF FeedInv

(* What the cycle at hand would report of a place in the market: exactly   *)
(* the breaks of swings with all their neighbours in its window.           *)
Reported(j, k, direction) ==
    [bar |-> j, level |-> k, direction |-> direction]
        \in {Place(Located(events[n])): n \in 1 .. Len(events)}

(* What a walk over all of its window reports: the breaks of that window.  *)
LEMMA ReportsTheBreaks ==
    ASSUME FeedInv, Working, Len(candles) = Len(fetched.bars),
           NEW j \in Nat, NEW k \in Nat, NEW direction \in Walk!Directions,
           j <= fetched.first + Len(fetched.bars) - 1, j <= fetched.finished
    PROVE  Reported(j, k, direction)
             <=> j > 0 /\ fetched.first <= k - Lookback /\ BreaksAt(history, j, k, direction)
<1> DEFINE first == fetched.first
           q == j - first + 1
           p == k - first + 1
<1>1. /\ TypeOK /\ FormingInv /\ FetchedInv /\ WalkInv
  BY DEF FeedInv
<1>2. /\ candles \in Seq(Bars) /\ Len(candles) \in Nat /\ history \in Seq(Bars)
      /\ events \in Seq(Walk!Events) /\ Len(events) \in Nat
      /\ first \in Nat \ {0} /\ Lookback \in Nat \ {0} /\ Len(history) \in Nat
  BY <1>1, LenProperties, CandlesAssumption DEF TypeOK, Walk!TypeOK, Working
<1>3. /\ fetched.finished = Len(history) /\ IsWindow(candles, Market, first)
      /\ q <= Len(candles)
  <2>1. fetched.finished = Len(history) /\ IsWindow(fetched.bars, Market, first)
        /\ \A n \in 1 .. Len(candles): candles[n] = fetched.bars[n]
    BY <1>1 DEF FetchedInv
  <2>2. IsWindow(candles, Market, first)
    BY <2>1 DEF IsWindow
  <2>3. j <= first + Len(candles) - 1
    OBVIOUS
  <2> HIDE DEF first
  <2>4. q <= Len(candles)
    BY <1>2, <2>3
  <2> QED
    BY <2>1, <2>2, <2>4
<1> HIDE DEF first
<1>4. ASSUME NEW n \in 1 .. Len(events)
      PROVE  /\ events[n].index \in Nat /\ events[n].level \in Nat
             /\ events[n].direction \in Walk!Directions
             /\ Place(Located(events[n])) = [bar |-> first + events[n].index - 1,
                                             level |-> first + events[n].level - 1,
                                             direction |-> events[n].direction]
  <2>1. events[n] \in Walk!Events
    BY <1>2, ElementOfSeq
  <2> QED
    BY <2>1 DEF Walk!Events, Place, Located, PlaceOf, first
<1>5. Reported(j, k, direction) <=> <<q, p, direction>> \in Proved!ToldBy(events)
  <2>1. Reported(j, k, direction) <=>
          \E n \in 1 .. Len(events): /\ events[n].index = q /\ events[n].level = p
                                     /\ events[n].direction = direction
    <3>1. ASSUME NEW n \in 1 .. Len(events)
          PROVE  [bar |-> j, level |-> k, direction |-> direction]
                     = Place(Located(events[n]))
                   <=> /\ events[n].index = q /\ events[n].level = p
                       /\ events[n].direction = direction
      <4> DEFINE i == events[n].index
                 l == events[n].level
      <4>1. /\ i \in Nat /\ l \in Nat
            /\ Place(Located(events[n])) = [bar |-> first + i - 1, level |-> first + l - 1,
                                            direction |-> events[n].direction]
        BY <1>4
      <4> HIDE DEF i, l
      <4>2. /\ j = first + i - 1 <=> i = q
            /\ k = first + l - 1 <=> l = p
        BY <1>2, <4>1
      <4> HIDE DEF q, p
      <4> QED
        BY <4>1, <4>2 DEF i, l
    <3> QED
      BY <3>1 DEF Reported
  <2>2. <<q, p, direction>> \in Proved!ToldBy(events) <=>
          \E n \in 1 .. Len(events): /\ events[n].index = q /\ events[n].level = p
                                     /\ events[n].direction = direction
    <3>1. DOMAIN events = 1 .. Len(events)
      BY <1>2, LenProperties
    <3>2. <<q, p, direction>> \in Proved!ToldBy(events) <=>
            \E n \in 1 .. Len(events): <<q, p, direction>> = Proved!Told(events[n])
      BY <3>1 DEF Proved!ToldBy, Proved!ToSet
    <3> QED
      BY <3>2 DEF Proved!Told
  <2> QED
    BY <2>1, <2>2
<1>6. Proved!ToldBy(events) = Proved!AboveIn(candles) \cup Proved!BelowIn(candles)
  BY <1>1 DEF WalkInv, Proved!FirstClosesInv
<1>7. <<q, p, direction>> \in Proved!AboveIn(candles) \cup Proved!BelowIn(candles)
        <=> /\ q \in 1 .. Len(candles) /\ 1 <= p - Lookback
            /\ BreaksAt(candles, q, p, direction)
  <2>1. q \in Int /\ p \in Int
    BY <1>2
  <2> HIDE DEF q, p
  <2> QED
    BY <1>2, <2>1, FirstClosesAreBreaks
<1>8. 1 <= p - Lookback <=> first <= k - Lookback
  BY <1>2
<1>9. ASSUME 1 <= p - Lookback, q \in 1 .. Len(candles)
      PROVE  BreaksAt(candles, q, p, direction) <=> BreaksAt(history, j, k, direction)
  <2>1. first + q - 1 = j /\ first + p - 1 = k /\ p \in Int
    BY <1>2
  <2>2. j \in 1 .. Len(history) /\ 1 <= k - Lookback
    BY <1>2, <1>3, <1>8, <1>9
  <2> HIDE DEF q, p
  <2>3. BreaksAt(candles, q, p, direction)
          <=> BreaksAt(Market, first + q - 1, first + p - 1, direction)
    BY <1>2, <1>3, <1>9, <2>1, BreaksInWindow
  <2>4. BreaksAt(history, j, k, direction) <=> BreaksAt(Market, j, k, direction)
    BY <1>1, <1>2, <2>2, MarketKeepsBreaks
  <2> QED
    BY <2>1, <2>3, <2>4
<1>10. ASSUME 1 <= p - Lookback, BreaksAt(history, j, k, direction)
       PROVE  j > 0 /\ q \in 1 .. Len(candles)
  <2>1. k + Lookback <= j
    BY <1>10 DEF BreaksAt, Proved!BreaksPeak, Proved!BreaksTrough
  <2> QED
    BY <1>2, <1>3, <1>8, <1>10, <2>1
<1>11. q \in 1 .. Len(candles) => j > 0
  BY <1>2
<1> HIDE DEF p, q
<1> QED
  BY <1>5, <1>6, <1>7, <1>8, <1>9, <1>10, <1>11 DEF first


(* A report of the zones of a window of the market that ends at last: all  *)
(* of its gaps, and the order blocks of all the breaks told, exactly.      *)
GapsToldExactly(r) ==
    /\ \A g \in r.gaps:
         /\ g \in Gaps /\ r.first < g.index
         /\ GapAt(Market, g.index, g.direction, g.top, g.bottom)
         /\ FirstTouched(Market, r.last, g.top, g.bottom, g.index + 2, g.mitigated)
    /\ \A i \in Nat: r.first < i /\ i + 1 <= r.last =>
         \A direction, top, bottom: GapAt(Market, i, direction, top, bottom) =>
           \E g \in r.gaps: /\ g.index = i /\ g.direction = direction
                            /\ g.top = top /\ g.bottom = bottom

BlocksToldExactly(r) ==
    /\ \A e, f \in r.events: e.bar = f.bar => e.direction = f.direction
    /\ \A b \in r.blocks:
         /\ b \in Blocks
         /\ \E e \in r.events: e.bar = b.breaksAt /\ e.direction = b.direction
         /\ BlockAt(Market, r.first, b.breaksAt, b.direction, b.index, b.high, b.low)
         /\ FirstTouched(Market, r.last, b.high, b.low, b.breaksAt + 1, b.mitigated)
    /\ \A e \in r.events: \A k, high, low:
         BlockAt(Market, r.first, e.bar, e.direction, k, high, low) =>
           \E b \in r.blocks: /\ b.breaksAt = e.bar /\ b.direction = e.direction
                              /\ b.index = k /\ b.high = high /\ b.low = low

(* The window of the walk that has read all its bars.                      *)
LEMMA WindowRead ==
    ASSUME FeedInv, Report
    PROVE  /\ candles \in Seq(Bars) /\ Len(candles) \in Nat
           /\ fetched.first \in Nat \ {0} /\ IsWindow(candles, Market, fetched.first)
           /\ report'.first = fetched.first /\ report'.finished = Len(history)
           /\ report'.last = fetched.first + Len(candles) - 1
           /\ report'.events = {Located(events[n]): n \in 1 .. Len(events)}
           /\ report'.gaps = {LocatedGap(g): g \in Walk!FairValueGaps(candles)}
           /\ report'.blocks = {LocatedBlock(b): b \in Walk!OrderBlocks(candles, events)}
<1>1. TypeOK /\ FetchedInv /\ WalkInv /\ Working /\ Len(candles) = Len(fetched.bars)
  BY DEF FeedInv, Report
<1>2. /\ candles \in Seq(Bars) /\ Len(candles) \in Nat
      /\ fetched.first \in Nat \ {0}
  BY <1>1, LenProperties DEF TypeOK, Walk!TypeOK, Working
<1>3. /\ fetched.finished = Len(history)
      /\ IsWindow(fetched.bars, Market, fetched.first)
      /\ \A n \in 1 .. Len(candles): candles[n] = fetched.bars[n]
  BY <1>1 DEF FetchedInv
<1>4. IsWindow(candles, Market, fetched.first)
  BY <1>1, <1>3 DEF IsWindow
<1> QED
  BY <1>1, <1>2, <1>3, <1>4 DEF Report

(* The gaps that are reported.                                             *)
LEMMA ReportsTheGaps ==
    ASSUME FeedInv, Report
    PROVE  GapsToldExactly(report')
<1> DEFINE first == fetched.first
<1>1. /\ candles \in Seq(Bars) /\ Len(candles) \in Nat
      /\ first \in Nat \ {0} /\ IsWindow(candles, Market, first)
      /\ report'.first = first /\ report'.last = first + Len(candles) - 1
      /\ report'.gaps = {LocatedGap(g): g \in Walk!FairValueGaps(candles)}
  BY WindowRead
<1>2. ASSUME NEW g \in Walk!FairValueGaps(candles)
      PROVE  /\ g \in Gaps
             /\ LocatedGap(g) = [index |-> first + g.index - 1, direction |-> g.direction,
                                 top |-> g.top, bottom |-> g.bottom,
                                 mitigated |-> PlaceFrom(first, g.mitigated)]
  <2>1. g \in Gaps
    BY <1>1, GapsOfWindow
  <2> QED
    BY <2>1 DEF LocatedGap, PlaceOf, TouchPlace, PlaceFrom
<1> HIDE DEF first
<1>3. ASSUME NEW h \in report'.gaps
      PROVE  /\ h \in Gaps /\ report'.first < h.index
             /\ GapAt(Market, h.index, h.direction, h.top, h.bottom)
             /\ FirstTouched(Market, report'.last, h.top, h.bottom, h.index + 2, h.mitigated)
  <2>1. PICK g \in Walk!FairValueGaps(candles): h = LocatedGap(g)
    BY <1>1
  <2>2. /\ g \in Gaps /\ h.index = first + g.index - 1 /\ h.direction = g.direction
        /\ h.top = g.top /\ h.bottom = g.bottom
        /\ h.mitigated = PlaceFrom(first, g.mitigated)
    BY <1>2, <2>1
  <2>3. /\ g.index \in 2 .. Len(candles) - 1
        /\ GapAt(Market, first + g.index - 1, g.direction, g.top, g.bottom)
        /\ FirstTouched(Market, first + Len(candles) - 1, g.top, g.bottom,
                        first + g.index + 1, PlaceFrom(first, g.mitigated))
        /\ PlaceFrom(first, g.mitigated) \in Nat
    BY <1>1, GapsOfWindow
  <2>4. h.index \in Nat /\ first < h.index /\ first + g.index + 1 = h.index + 2
    BY <1>1, <2>2, <2>3
  <2>5. h \in Gaps
    BY <1>2, <2>1, <2>2, <2>3, <2>4 DEF Gaps
  <2> QED
    BY <1>1, <2>2, <2>3, <2>4, <2>5
<1>4. ASSUME NEW i \in Nat, report'.first < i, i + 1 <= report'.last,
             NEW direction, NEW top, NEW bottom, GapAt(Market, i, direction, top, bottom)
      PROVE  \E h \in report'.gaps: /\ h.index = i /\ h.direction = direction
                                    /\ h.top = top /\ h.bottom = bottom
  <2> DEFINE n == i - first + 1
  <2>1. n \in 2 .. Len(candles) - 1 /\ first + n - 1 = i
    BY <1>1, <1>4
  <2> HIDE DEF n
  <2>2. GapAt(Market, first + n - 1, direction, top, bottom)
    BY <1>4, <2>1
  <2>3. PICK g \in Walk!FairValueGaps(candles):
               /\ g.index = n /\ g.direction = direction
               /\ g.top = top /\ g.bottom = bottom
    BY <1>1, <2>1, <2>2, GapsAreFound
  <2>4. /\ LocatedGap(g).index = i /\ LocatedGap(g).direction = direction
        /\ LocatedGap(g).top = top /\ LocatedGap(g).bottom = bottom
    BY <1>2, <2>1, <2>3
  <2>5. LocatedGap(g) \in report'.gaps
    BY <1>1
  <2> QED
    BY <2>4, <2>5
<1> QED
  BY <1>3, <1>4 DEF GapsToldExactly

(* The order blocks that are reported.                                     *)
LEMMA ReportsTheBlocks ==
    ASSUME FeedInv, Report
    PROVE  BlocksToldExactly(report')
<1> DEFINE first == fetched.first
<1>1. /\ candles \in Seq(Bars) /\ Len(candles) \in Nat
      /\ first \in Nat \ {0} /\ IsWindow(candles, Market, first)
      /\ report'.first = first /\ report'.last = first + Len(candles) - 1
      /\ report'.events = {Located(events[n]): n \in 1 .. Len(events)}
      /\ report'.blocks = {LocatedBlock(b): b \in Walk!OrderBlocks(candles, events)}
  BY WindowRead
<1>2. /\ events \in Seq(Walk!Events) /\ Len(events) \in Nat
      /\ \A n \in 1 .. Len(events): events[n].index <= Len(candles)
      /\ Proved!OneBreakPerBar
  BY LenProperties DEF FeedInv, WalkInv, Walk!TypeOK, Proved!BreakInv
<1>3. ASSUME NEW n \in 1 .. Len(events)
      PROVE  /\ events[n].index \in Nat
             /\ Located(events[n]).bar = first + events[n].index - 1
             /\ Located(events[n]).direction = events[n].direction
  <2>1. events[n] \in Walk!Events
    BY <1>2, ElementOfSeq
  <2> QED
    BY <2>1 DEF Walk!Events, Located, PlaceOf
<1>4. ASSUME NEW b \in Walk!OrderBlocks(candles, events)
      PROVE  /\ b \in Blocks
             /\ LocatedBlock(b) = [index |-> first + b.index - 1, direction |-> b.direction,
                                   high |-> b.high, low |-> b.low,
                                   breaksAt |-> first + b.breaksAt - 1,
                                   mitigated |-> PlaceFrom(first, b.mitigated)]
  <2>1. b \in Blocks
    BY <1>1, <1>2, BlocksOfWindow
  <2> QED
    BY <2>1 DEF LocatedBlock, PlaceOf, TouchPlace, PlaceFrom
<1> HIDE DEF first
<1>5. ASSUME NEW e \in report'.events, NEW f \in report'.events, e.bar = f.bar
      PROVE  e.direction = f.direction
  <2>1. PICK m \in 1 .. Len(events), n \in 1 .. Len(events):
             e = Located(events[m]) /\ f = Located(events[n])
    BY <1>1
  <2> DEFINE i == events[m].index
             j == events[n].index
  <2>2. first + i - 1 = first + j - 1 /\ i \in Nat /\ j \in Nat
    BY <1>3, <1>5, <2>1
  <2>3. (m < n => i < j) /\ (n < m => j < i)
    BY <1>2, <2>1 DEF Proved!OneBreakPerBar
  <2> HIDE DEF i, j
  <2>4. m = n
    BY <1>1, <1>2, <2>2, <2>3
  <2> QED
    BY <2>1, <2>4
<1>6. ASSUME NEW h \in report'.blocks
      PROVE  /\ h \in Blocks
             /\ \E e \in report'.events: e.bar = h.breaksAt /\ e.direction = h.direction
             /\ BlockAt(Market, report'.first, h.breaksAt, h.direction, h.index,
                        h.high, h.low)
             /\ FirstTouched(Market, report'.last, h.high, h.low, h.breaksAt + 1,
                             h.mitigated)
  <2>1. PICK b \in Walk!OrderBlocks(candles, events): h = LocatedBlock(b)
    BY <1>1
  <2>2. /\ b \in Blocks /\ h.index = first + b.index - 1 /\ h.direction = b.direction
        /\ h.high = b.high /\ h.low = b.low /\ h.breaksAt = first + b.breaksAt - 1
        /\ h.mitigated = PlaceFrom(first, b.mitigated)
    BY <1>4, <2>1
  <2>3. /\ b.index \in Nat \ {0} /\ b.breaksAt \in Nat \ {0}
        /\ \E n \in 1 .. Len(events): /\ events[n].index = b.breaksAt
                                      /\ events[n].direction = b.direction
        /\ BlockAt(Market, first, first + b.breaksAt - 1, b.direction,
                   first + b.index - 1, b.high, b.low)
        /\ FirstTouched(Market, first + Len(candles) - 1, b.high, b.low,
                        first + b.breaksAt, PlaceFrom(first, b.mitigated))
        /\ PlaceFrom(first, b.mitigated) \in Nat
    <3> DEFINE ends == \A n \in 1 .. Len(events): events[n].index <= Len(candles)
    <3>1. ends /\ events \in Seq(Walk!Events)
      BY <1>2
    <3> QED
      BY <1>1, <3>1, BlocksOfWindow
  <2>4. /\ h.index \in Nat /\ h.breaksAt \in Nat /\ first + b.breaksAt = h.breaksAt + 1
    <3>1. \A a \in Nat \ {0}, i \in Nat \ {0}: a + i - 1 \in Nat /\ a + i = (a + i - 1) + 1
      OBVIOUS
    <3>2. first \in Nat \ {0} /\ b.index \in Nat \ {0} /\ b.breaksAt \in Nat \ {0}
      BY <1>1, <2>3
    <3> QED
      BY <2>2, <3>1, <3>2
  <2>5. h \in Blocks
    BY <1>4, <2>1, <2>2, <2>3, <2>4 DEF Blocks
  <2>6. PICK n \in 1 .. Len(events): /\ events[n].index = b.breaksAt
                                     /\ events[n].direction = b.direction
    BY <2>3
  <2>7. /\ Located(events[n]).bar = h.breaksAt /\ Located(events[n]).direction = h.direction
        /\ Located(events[n]) \in report'.events
    BY <1>1, <1>3, <2>2, <2>6
  <2> QED
    BY <1>1, <2>2, <2>3, <2>4, <2>5, <2>7
<1>7. ASSUME NEW e \in report'.events, NEW k, NEW high, NEW low,
             BlockAt(Market, report'.first, e.bar, e.direction, k, high, low)
      PROVE  \E h \in report'.blocks: /\ h.breaksAt = e.bar /\ h.direction = e.direction
                                      /\ h.index = k /\ h.high = high /\ h.low = low
  <2>1. PICK n \in 1 .. Len(events): e = Located(events[n])
    BY <1>1
  <2>2. e.bar = first + events[n].index - 1 /\ e.direction = events[n].direction
    BY <1>3, <2>1
  <2>3. BlockAt(Market, first, first + events[n].index - 1, events[n].direction,
                k, high, low)
    BY <1>1, <1>7, <2>2
  <2>4. PICK b \in Walk!OrderBlocks(candles, events):
               /\ b.breaksAt = events[n].index /\ b.direction = events[n].direction
               /\ first + b.index - 1 = k /\ b.high = high /\ b.low = low
    <3> DEFINE f == events[n]
               j == events[n].index
               d == events[n].direction
               i == k - first + 1
               b == Walk!OrderBlock(candles, f)
    <3>1. /\ f \in Walk!Events /\ f \in Walk!ToSet(events)
          /\ f.index = j /\ f.direction = d /\ j \in Nat /\ j <= Len(candles)
          /\ Len(candles) \in Nat /\ candles \in Seq(Bars) /\ first \in Nat \ {0}
          /\ IsWindow(candles, Market, first)
      BY <1>1, <1>2, <1>3, ElementOfSeq, LenProperties DEF Walk!ToSet
    <3>2. BlockAt(Market, first, first + j - 1, d, k, high, low)
      BY <2>3
    <3> HIDE DEF f, j, d, first
    <3>3. i \in Int /\ first + i - 1 = k /\ j \in 1 .. Len(candles)
      BY <3>1, <3>2 DEF BlockAt
    <3> HIDE DEF i
    <3>4. BlockAt(candles, 1, j, d, i, high, low)
      BY <3>1, <3>2, <3>3, BlockInWindow
    <3>5. Walk!Opposing(candles, f) # {} /\ b.index = i /\ b.high = high /\ b.low = low
      BY <3>1, <3>4, OpposingBarIs
    <3>6. b \in Walk!OrderBlocks(candles, events)
      BY <3>1, <3>5 DEF Walk!OrderBlocks
    <3>7. b.breaksAt = j /\ b.direction = d
      BY <3>1 DEF Walk!OrderBlock
    <3> QED
      BY <3>3, <3>5, <3>6, <3>7 DEF j, d, first
  <2>5. LocatedBlock(b) \in report'.blocks
    BY <1>1
  <2>6. /\ LocatedBlock(b).breaksAt = e.bar /\ LocatedBlock(b).direction = e.direction
        /\ LocatedBlock(b).index = k
        /\ LocatedBlock(b).high = high /\ LocatedBlock(b).low = low
    BY <1>4, <2>2, <2>4
  <2> QED
    BY <2>5, <2>6
<1> QED
  BY <1>5, <1>6, <1>7 DEF BlocksToldExactly

(* What is told exactly, of a window to the end of the history, holds for  *)
(* as long as the market goes on.                                          *)
LEMMA ReportedZonesHold ==
    ASSUME FeedInv, Report, Market' = Market, history' = history, provider' = provider
    PROVE  ZonesInv'
<1>1. /\ candles \in Seq(Bars) /\ Len(candles) \in Nat /\ fetched.first \in Nat \ {0}
      /\ report'.first = fetched.first /\ report'.finished = Len(history)
      /\ report'.last = fetched.first + Len(candles) - 1
  BY WindowRead
<1>2. /\ TypeOK /\ FetchedInv /\ FormingInv /\ Working
      /\ Len(candles) = Len(fetched.bars)
  BY DEF FeedInv, Report
<1>3. /\ report'.last \in Len(history) .. Len(Market)
      /\ Len(history) \in Nat /\ Len(Market) \in Nat
      /\ Len(Market) = Len(history) \/ Len(Market) = Len(history) + 1
  BY <1>1, <1>2, MarketSize DEF FetchedInv, TypeOK
<1>4. GapsToldExactly(report') /\ BlocksToldExactly(report')
  BY ReportsTheGaps, ReportsTheBlocks
<1>5. ASSUME NEW top, NEW bottom, NEW start, NEW n,
             FirstTouched(Market, report'.last, top, bottom, start, n)
      PROVE  TouchHolds(Market, report'.finished, report'.last, top, bottom, start, n)
  <2>1. CASE n = Walk!NotMitigated
    <3>1. Untouched(Market, top, bottom, start, report'.last)
      BY <1>5, <2>1 DEF FirstTouched
    <3>2. start .. report'.finished \subseteq start .. report'.last
      BY <1>1, <1>3
    <3> QED
      BY <2>1, <3>1, <3>2 DEF TouchHolds, Untouched
  <2>2. CASE n # Walk!NotMitigated
    BY <1>5, <2>2 DEF FirstTouched, TouchHolds
  <2> QED
    BY <2>1, <2>2
<1>6. WindowInv'
  <2>1. report'.last > report'.finished => provider = "twelvedata"
    <3>1. provider # "twelvedata" => provider = "oanda"
      BY <1>2, FeedAssumption DEF TypeOK
    <3> QED
      BY <1>1, <1>2, <1>3, <3>1 DEF FetchedInv
  <2> QED
    BY <1>1, <1>3, <2>1 DEF WindowInv
<1>7. GapsInv'
  <2>1. \A i \in Nat: i + 1 <= report'.finished => i + 1 <= report'.last
    BY <1>1, <1>3
  <2> QED
    BY <1>4, <1>5, <2>1 DEF GapsInv, GapsToldExactly
<1>8. BlocksInv'
  BY <1>4, <1>5 DEF BlocksInv, BlocksToldExactly
<1> QED
  BY <1>6, <1>7, <1>8 DEF ZonesInv

(* The report: all that is known, from then on, of the bars now finished.  *)
LEMMA ReportKeeps == FeedInv /\ Report => FeedInv'
<1> SUFFICES ASSUME FeedInv, Report PROVE FeedInv'
  OBVIOUS
<1>1. /\ TypeOK /\ FormingInv /\ FetchedInv /\ ReportInv /\ ZonesInv /\ WalkInv
  BY DEF FeedInv
<1>2. /\ Working /\ Len(candles) = Len(fetched.bars)
      /\ report' = [first |-> fetched.first,
                    last |-> fetched.first + Len(fetched.bars) - 1,
                    finished |-> fetched.finished,
                    events |-> {Located(events[n]): n \in 1 .. Len(events)},
                    gaps |-> {LocatedGap(g): g \in Walk!FairValueGaps(candles)},
                    blocks |-> {LocatedBlock(b):
                                  b \in Walk!OrderBlocks(candles, events)}]
      /\ fetched' = Nothing /\ WalkStarts
      /\ provider' = provider /\ history' = history /\ forming' = forming
  BY DEF Report, marketVars
<1>3. /\ events \in Seq(Walk!Events) /\ history \in Seq(Bars)
      /\ fetched.bars \in Seq(Bars) /\ Len(fetched.bars) \in Nat
      /\ fetched.first \in Nat \ {0} /\ fetched.finished \in Nat
  BY <1>1, <1>2, LenProperties DEF TypeOK, Walk!TypeOK, Working
<1>4. /\ fetched.first = Oldest(Len(Market)) /\ fetched.finished = Len(history)
      /\ fetched.first + Len(fetched.bars) - 1 \in Nat
  BY <1>1, <1>2, <1>3 DEF FetchedInv
<1>5. Walk!Init'
  BY <1>2 DEF WalkStarts, Walk!Init
<1>6. WalkInv'
  BY <1>5, NextWalkBegins
<1>7. FormingInv' /\ Market' = Market
  BY <1>1, <1>2 DEF FormingInv, Market
<1>8. FetchedInv'
  BY <1>2, <1>5 DEF FetchedInv, Working, Nothing
<1>9. /\ report'.first = fetched.first /\ report'.finished = fetched.finished
      /\ report'.last = fetched.first + Len(fetched.bars) - 1
      /\ report'.events = {Located(events[n]): n \in 1 .. Len(events)}
  BY <1>2
<1>12. GapsToldExactly(report') /\ BlocksToldExactly(report') /\ ZonesInv'
  BY <1>2, <1>7, ReportsTheGaps, ReportsTheBlocks, ReportedZonesHold
<1>10. TypeOK'
  <2>1. ASSUME NEW n \in 1 .. Len(events) PROVE Located(events[n]) \in Breaks
    <3>1. events[n] \in Walk!Events
      BY <1>3, ElementOfSeq
    <3>2. /\ events[n].index \in Nat /\ events[n].level \in Nat
          /\ events[n].direction \in Walk!Directions /\ events[n].kind \in Walk!BreakKinds
      BY <3>1 DEF Walk!Events
    <3>3. fetched.first + events[n].index - 1 \in Nat /\ fetched.first + events[n].level - 1 \in Nat
      <4>1. \A a \in Nat \ {0}, i \in Nat: a + i - 1 \in Nat
        OBVIOUS
      <4> QED
        BY <1>3, <3>2, <4>1
    <3> QED
      BY <3>2, <3>3 DEF Located, PlaceOf, Breaks
  <2>2. report'.events \subseteq Breaks
    BY <1>9, <2>1
  <2>3. /\ fetched' \in [first: Nat, finished: Nat, bars: Seq(Bars)]
        /\ Len(fetched'.bars) <= Count
    BY <1>2, EmptySeq, FeedAssumption DEF Nothing
  <2> QED
    BY <1>1, <1>2, <1>3, <1>4, <1>6, <1>9, <1>12, <2>2, <2>3
       DEF TypeOK, WalkInv, GapsToldExactly, BlocksToldExactly
<1>11. ReportInv'
  <2>1. report'.first <= Oldest(Len(Market')) /\ report'.finished <= Len(history')
    BY <1>2, <1>3, <1>4, <1>7, <1>9
  <2>2. report'.first # 0
    BY <1>3, <1>9
  <2>3. {Place(e): e \in report'.events}
          = {Place(Located(events[n])): n \in 1 .. Len(events)}
    BY <1>9
  <2>4. ASSUME NEW j \in Nat, NEW k \in Nat, NEW direction \in Walk!Directions,
               j <= report'.last, j <= report'.finished
        PROVE  [bar |-> j, level |-> k, direction |-> direction]
                   \in {Place(e): e \in report'.events}
                 <=> /\ j > 0 /\ report'.first <= k - Lookback
                     /\ BreaksAt(history', j, k, direction)
    <3>1. Reported(j, k, direction)
             <=> j > 0 /\ fetched.first <= k - Lookback /\ BreaksAt(history, j, k, direction)
      BY <1>2, <1>9, <2>4, ReportsTheBreaks
    <3> QED
      BY <1>2, <1>9, <2>3, <3>1 DEF Reported
  <2> QED
    BY <2>1, <2>2, <2>4 DEF ReportInv
<1> QED
  BY <1>6, <1>7, <1>8, <1>10, <1>11, <1>12 DEF FeedInv

(* The invariant holds for ever.                                           *)
LEMMA FeedStutters == FeedInv /\ UNCHANGED vars => FeedInv'
<1> SUFFICES ASSUME FeedInv, UNCHANGED vars PROVE FeedInv'
  OBVIOUS
<1>1. /\ provider' = provider /\ history' = history /\ forming' = forming
      /\ fetched' = fetched /\ report' = report
      /\ candles' = candles /\ pendingHigh' = pendingHigh /\ pendingLow' = pendingLow
      /\ trend' = trend /\ events' = events
  BY DEF vars, marketVars, walkVars
<1>2. Walk!TypeOK' = Walk!TypeOK /\ Walk!Init' = Walk!Init
  BY <1>1 DEF Walk!TypeOK, Walk!Init
<1>3. Proved!BreakInv' /\ Proved!FirstClosesInv'
  BY <1>1 DEF FeedInv, WalkInv, Proved!BreakInv, Proved!OneBreakPerBar, Proved!FirstClosesInv
<1>4. TypeOK' /\ FormingInv'
  BY <1>1, <1>2 DEF FeedInv, TypeOK, FormingInv
<1>5. FetchedInv' /\ ReportInv' /\ ZonesInv'
  <2>1. Market' = Market
    BY <1>1 DEF Market
  <2> QED
    BY <1>1, <1>2, <2>1, ZonesUnmoved DEF FeedInv, FetchedInv, ReportInv, Working
<1> QED
  BY <1>2, <1>3, <1>4, <1>5 DEF FeedInv, WalkInv

(* Every step keeps the invariant,                                         *)
LEMMA FeedNext == FeedInv /\ [Next]_vars => FeedInv'
BY BarOpensKeeps, BarClosesKeeps, FetchKeeps, ReadNextKeeps, ReportKeeps, FeedStutters
   DEF Next

(* so it always holds.                                                     *)
LEMMA FeedInvariant == Spec => []FeedInv
BY FeedInit, FeedNext, PTL DEF Spec

-----------------------------------------------------------------------------
(* Every state of the feed is well formed: what either provider returns,   *)
(* in whatever order, makes at most Count bars, and all that is reported   *)
(* are breaks of the market.                                               *)
THEOREM FeedTypeCorrect == Spec => []TypeOK
BY FeedInvariant, PTL DEF FeedInv

(* A report that follows another agrees with it on all the bars the first  *)
(* had seen finished.                                                      *)
LEMMA ReportsAgree ==
    ASSUME FeedInv, FeedInv', Report
    PROVE  LET known == {Place(e): e \in report.events}
               told == {Place(e): e \in report'.events}
               settled(e) == e.bar <= report.last /\ e.bar <= report.finished
           IN  /\ \A e \in known: settled(e) /\ Covers(report', e) => e \in told
               /\ \A e \in told: settled(e) => e \in known
<1>1. /\ report'.first = fetched.first /\ report'.finished = fetched.finished
      /\ report'.last = fetched.first + Len(fetched.bars) - 1 /\ history' = history
  BY DEF Report, marketVars
<1>2. /\ TypeOK /\ TypeOK' /\ ReportInv /\ ReportInv' /\ FetchedInv /\ Working
      /\ Len(history) \in Nat /\ Lookback \in Nat \ {0}
  BY LenProperties, CandlesAssumption DEF FeedInv, Report, TypeOK
<1>3. /\ report.first \in Nat /\ report.last \in Nat /\ report.finished \in Nat
      /\ report'.first \in Nat /\ report'.last \in Nat /\ report'.finished \in Nat
  BY <1>2 DEF TypeOK
<1>4. /\ report.first <= report'.first /\ report.finished <= report'.finished
      /\ report.finished <= report'.last
  BY <1>1, <1>2, <1>3, SMTT(20) DEF ReportInv, FetchedInv
<1>5. ASSUME NEW es, es \subseteq Breaks, NEW e \in {Place(x): x \in es}
      PROVE  \E j \in Nat, k \in Nat, direction \in Walk!Directions:
               e = [bar |-> j, level |-> k, direction |-> direction]
  BY <1>5 DEF Place, Breaks
<1>6. report.events \subseteq Breaks /\ report'.events \subseteq Breaks
  BY <1>2 DEF TypeOK
<1>7. ASSUME NEW j \in Nat, NEW k \in Nat, NEW direction \in Walk!Directions,
             j <= report.last, j <= report.finished
      PROVE  LET e == [bar |-> j, level |-> k, direction |-> direction]
             IN  /\ e \in {Place(x): x \in report.events}
                      <=> /\ j > 0 /\ report.first <= k - Lookback
                          /\ BreaksAt(history, j, k, direction)
                 /\ e \in {Place(x): x \in report'.events}
                      <=> /\ j > 0 /\ report'.first <= k - Lookback
                          /\ BreaksAt(history, j, k, direction)
  <2>1. j <= report'.last /\ j <= report'.finished
    BY <1>3, <1>4, <1>7
  <2> QED
    BY <1>1, <1>2, <1>7, <2>1 DEF ReportInv
<1>8. ASSUME NEW e \in {Place(x): x \in report.events},
             e.bar <= report.last, e.bar <= report.finished, Covers(report', e)
      PROVE  e \in {Place(x): x \in report'.events}
  <2>1. PICK j \in Nat, k \in Nat, direction \in Walk!Directions:
          e = [bar |-> j, level |-> k, direction |-> direction]
    BY <1>5, <1>6
  <2>2. j <= report.last /\ j <= report.finished /\ report'.first <= k - Lookback
    BY <1>8, <2>1 DEF Covers
  <2> QED
    BY <1>7, <2>1, <2>2
<1>9. ASSUME NEW e \in {Place(x): x \in report'.events},
             e.bar <= report.last, e.bar <= report.finished
      PROVE  e \in {Place(x): x \in report.events}
  <2>1. PICK j \in Nat, k \in Nat, direction \in Walk!Directions:
          e = [bar |-> j, level |-> k, direction |-> direction]
    BY <1>5, <1>6
  <2>2. j <= report.last /\ j <= report.finished
    BY <1>9, <2>1
  <2>3. report'.first <= k - Lookback => report.first <= k - Lookback
    BY <1>2, <1>3, <1>4
  <2> QED
    BY <1>7, <2>1, <2>2, <2>3
<1> QED
  BY <1>8, <1>9

(* Cycle after cycle, what has been reported of finished bars is reported  *)
(* again, and nothing is added to it, for all bars, both providers, every  *)
(* lookback and every number of bars asked for: neither the order of the   *)
(* answer, nor where the window begins, nor the bar still forming changes  *)
(* what the agent is told of the past.                                     *)
THEOREM ReportedBreaksAlwaysLast == Spec => ReportedBreaksLast
<1> DEFINE Lasts ==
             report # NoReport =>
               LET known == {Place(e): e \in report.events}
                   told == {Place(e): e \in report'.events}
                   settled(e) == e.bar <= report.last /\ e.bar <= report.finished
               IN  /\ \A e \in known: settled(e) /\ Covers(report', e) => e \in told
                   /\ \A e \in told: settled(e) => e \in known
<1>1. FeedInv /\ FeedInv' /\ [Next]_vars => [Lasts]_report
  <2> SUFFICES ASSUME FeedInv, FeedInv', [Next]_vars, report' # report PROVE Lasts
    OBVIOUS
  <2>1. Report
    BY DEF Next, BarOpens, BarCloses, Fetch, ReadNext, vars
  <2> QED
    BY <2>1, ReportsAgree
<1>2. ReportedBreaksLast <=> [][Lasts]_report
  BY PTL DEF ReportedBreaksLast, Lasts
<1> HIDE DEF Lasts
<1> QED
  BY <1>1, <1>2, FeedInvariant, PTL DEF Spec

(* What the last report told of a zone's first touch and what the next one *)
(* finds: the same, unless it was untouched until the bar not yet finished.*)
LEMMA TouchAgrees ==
    ASSUME NEW m, NEW finished \in Nat, NEW last \in finished .. finished + 1,
           NEW until \in Nat, last <= until, NEW top, NEW bottom, NEW start \in Nat \ {0},
           NEW n \in Nat, NEW k \in Nat,
           TouchHolds(m, finished, last, top, bottom, start, n),
           FirstTouched(m, until, top, bottom, start, k)
    PROVE  k = n \/ (n = Walk!NotMitigated /\ k > finished)
<1>1. Walk!NotMitigated = 0
  BY DEF Walk!NotMitigated
<1>2. CASE n = 0 /\ k # 0
  <2>1. Untouched(m, top, bottom, start, finished) /\ k \in start .. until
        /\ Touches(m[k], top, bottom)
    BY <1>1, <1>2 DEF TouchHolds, FirstTouched
  <2>2. ~(k <= finished)
    BY <2>1 DEF Untouched
  <2> QED
    BY <1>1, <1>2, <2>2
<1>3. CASE n # 0 /\ k = 0
  <2>1. Untouched(m, top, bottom, start, until) /\ n \in start .. last
        /\ Touches(m[n], top, bottom)
    BY <1>1, <1>3 DEF TouchHolds, FirstTouched
  <2>2. n \in start .. until
    BY <2>1
  <2> QED
    BY <2>1, <2>2 DEF Untouched
<1>4. CASE n # 0 /\ k # 0
  <2>1. /\ n \in Nat /\ n >= start /\ Touches(m[n], top, bottom)
        /\ k \in Nat /\ k >= start /\ Touches(m[k], top, bottom)
        /\ Untouched(m, top, bottom, start, n - 1)
        /\ Untouched(m, top, bottom, start, k - 1)
    BY <1>1, <1>4 DEF TouchHolds, FirstTouched
  <2>2. ~(n < k) /\ ~(k < n)
    BY <2>1 DEF Untouched
  <2> QED
    BY <2>1, <2>2
<1> QED
  BY <1>2, <1>3, <1>4

(* A report that follows another has its zones too.                        *)
LEMMA ZonesAgree ==
    ASSUME FeedInv, FeedInv', Report
    PROVE  LET told == {e.bar: e \in report'.events}
               gapLasts(g) == g.index + 1 <= report.finished /\ report'.first < g.index
               blockLasts(b) == /\ b.breaksAt <= report.finished
                                /\ report'.first <= b.index /\ b.breaksAt \in told
           IN  /\ \A g \in report.gaps:
                    gapLasts(g) => \E h \in report'.gaps: Remains(g, h)
               /\ \A h \in report'.gaps:
                    gapLasts(h) => \E g \in report.gaps: Remains(g, h)
               /\ \A b \in report.blocks:
                    blockLasts(b) => \E h \in report'.blocks: Remains(b, h)
               /\ \A h \in report'.blocks:
                    blockLasts(h) => \E b \in report.blocks: Remains(b, h)
<1>1. /\ report'.first = fetched.first /\ report'.finished = fetched.finished
      /\ report'.last = fetched.first + Len(fetched.bars) - 1
      /\ history' = history /\ provider' = provider
  BY DEF Report, marketVars
<1>2. /\ TypeOK /\ TypeOK' /\ ReportInv /\ FetchedInv /\ FormingInv /\ ZonesInv /\ Working
      /\ Len(history) \in Nat /\ Len(Market) \in Nat /\ Len(history) <= Len(Market)
  BY MarketSize DEF FeedInv, Report, TypeOK
<1>3. /\ report.first \in Nat /\ report.last \in Nat /\ report.finished \in Nat
      /\ report'.first \in Nat /\ report'.last \in Nat /\ report'.finished \in Nat
      /\ report.gaps \subseteq Gaps /\ report'.gaps \subseteq Gaps
      /\ report.blocks \subseteq Blocks /\ report'.blocks \subseteq Blocks
      /\ report.events \subseteq Breaks /\ report'.events \subseteq Breaks
  BY <1>2 DEF TypeOK
<1>4. /\ report.first <= report'.first /\ report.finished <= report'.last
      /\ report.last \in report.finished .. report.finished + 1
      /\ report.last <= report'.last
  <2>1. /\ report.first <= report'.first /\ report.finished <= report'.last
    BY <1>1, <1>2, <1>3, SMTT(20) DEF ReportInv, FetchedInv
  <2>2. /\ report.last \in report.finished .. report.finished + 1
        /\ report.last <= Len(Market)
        /\ report.last > report.finished => provider = "twelvedata"
    BY <1>2 DEF ZonesInv, WindowInv
  <2>3. provider = "twelvedata" => report'.last = Len(Market)
    BY <1>1, <1>2 DEF FetchedInv
  <2> QED
    BY <1>3, <2>1, <2>2, <2>3
<1>5. GapsToldExactly(report') /\ BlocksToldExactly(report')
  BY ReportsTheGaps, ReportsTheBlocks
<1>6. ASSUME NEW g \in Gaps, NEW h \in Gaps,
             g.index = h.index, g.direction = h.direction, g.top = h.top,
             g.bottom = h.bottom,
             TouchHolds(Market, report.finished, report.last, g.top, g.bottom,
                        g.index + 2, g.mitigated),
             FirstTouched(Market, report'.last, h.top, h.bottom, h.index + 2, h.mitigated)
      PROVE  Remains(g, h)
  <2>1. /\ g.index + 2 \in Nat \ {0} /\ g.mitigated \in Nat /\ h.mitigated \in Nat
    BY DEF Gaps
  <2>2. \/ h.mitigated = g.mitigated
        \/ g.mitigated = Walk!NotMitigated /\ h.mitigated > report.finished
    BY <1>3, <1>4, <1>6, <2>1, TouchAgrees
  <2>3. h = [g EXCEPT !.mitigated = h.mitigated]
    BY <1>6 DEF Gaps
  <2> QED
    BY <2>2, <2>3 DEF Remains
<1>7. ASSUME NEW b \in Blocks, NEW h \in Blocks,
             b.index = h.index, b.direction = h.direction, b.high = h.high,
             b.low = h.low, b.breaksAt = h.breaksAt,
             TouchHolds(Market, report.finished, report.last, b.high, b.low,
                        b.breaksAt + 1, b.mitigated),
             FirstTouched(Market, report'.last, h.high, h.low, h.breaksAt + 1, h.mitigated)
      PROVE  Remains(b, h)
  <2>1. /\ b.breaksAt + 1 \in Nat \ {0} /\ b.mitigated \in Nat /\ h.mitigated \in Nat
    BY DEF Blocks
  <2>2. \/ h.mitigated = b.mitigated
        \/ b.mitigated = Walk!NotMitigated /\ h.mitigated > report.finished
    BY <1>3, <1>4, <1>7, <2>1, TouchAgrees
  <2>3. h = [b EXCEPT !.mitigated = h.mitigated]
    BY <1>7 DEF Blocks
  <2> QED
    BY <2>2, <2>3 DEF Remains
<1>8. ASSUME NEW g \in report.gaps, g.index + 1 <= report.finished, report'.first < g.index
      PROVE  \E h \in report'.gaps: Remains(g, h)
  <2>1. /\ g \in Gaps /\ g.index \in Nat
        /\ GapAt(Market, g.index, g.direction, g.top, g.bottom)
        /\ TouchHolds(Market, report.finished, report.last, g.top, g.bottom,
                      g.index + 2, g.mitigated)
    BY <1>2, <1>3, <1>8 DEF ZonesInv, GapsInv, Gaps
  <2>2. g.index + 1 <= report'.last
    BY <1>3, <1>4, <1>8, <2>1
  <2>3. PICK h \in report'.gaps: /\ h.index = g.index /\ h.direction = g.direction
                                 /\ h.top = g.top /\ h.bottom = g.bottom
    BY <1>5, <1>8, <2>1, <2>2 DEF GapsToldExactly
  <2>4. /\ h \in Gaps
        /\ FirstTouched(Market, report'.last, h.top, h.bottom, h.index + 2, h.mitigated)
    BY <1>5 DEF GapsToldExactly
  <2> QED
    BY <1>6, <2>1, <2>3, <2>4
<1>9. ASSUME NEW h \in report'.gaps, h.index + 1 <= report.finished, report'.first < h.index
      PROVE  \E g \in report.gaps: Remains(g, h)
  <2>1. /\ h \in Gaps /\ h.index \in Nat
        /\ GapAt(Market, h.index, h.direction, h.top, h.bottom)
        /\ FirstTouched(Market, report'.last, h.top, h.bottom, h.index + 2, h.mitigated)
    BY <1>5, <1>9 DEF GapsToldExactly, Gaps
  <2>2. report.first < h.index
    BY <1>3, <1>4, <1>9, <2>1
  <2>3. PICK g \in report.gaps: /\ g.index = h.index /\ g.direction = h.direction
                                /\ g.top = h.top /\ g.bottom = h.bottom
    BY <1>2, <1>9, <2>1, <2>2 DEF ZonesInv, GapsInv
  <2>4. /\ g \in Gaps
        /\ TouchHolds(Market, report.finished, report.last, g.top, g.bottom,
                      g.index + 2, g.mitigated)
    BY <1>2, <1>3, <1>9, <2>3 DEF ZonesInv, GapsInv
  <2> QED
    BY <1>6, <2>1, <2>3, <2>4
<1>10. ASSUME NEW e \in report'.events, e.bar <= report.finished
       PROVE  \E f \in report.events: f.bar = e.bar /\ f.direction = e.direction
  <2>1. Place(e).bar = e.bar /\ Place(e).direction = e.direction
    BY DEF Place
  <2>2. e.bar <= report.last
    BY <1>3, <1>4, <1>10 DEF Breaks
  <2>3. Place(e) \in {Place(x): x \in report.events}
    BY <1>10, <2>1, <2>2, ReportsAgree
  <2> QED
    BY <2>1, <2>3 DEF Place
<1>11. ASSUME NEW k, NEW j, NEW direction, NEW high, NEW low, k \in Nat, j \in Nat,
              report'.first <= k
       PROVE  BlockAt(Market, report.first, j, direction, k, high, low)
                <=> BlockAt(Market, report'.first, j, direction, k, high, low)
  <2>1. k \in report.first .. j <=> k \in report'.first .. j
    BY <1>3, <1>4, <1>11
  <2> QED
    BY <2>1 DEF BlockAt
<1>12. ASSUME NEW b \in report.blocks, b.breaksAt <= report.finished,
              report'.first <= b.index, \E e \in report'.events: b.breaksAt = e.bar
       PROVE  \E h \in report'.blocks: Remains(b, h)
  <2>1. /\ b \in Blocks /\ b.index \in Nat /\ b.breaksAt \in Nat
        /\ \E f \in report.events: f.bar = b.breaksAt /\ f.direction = b.direction
        /\ BlockAt(Market, report.first, b.breaksAt, b.direction, b.index, b.high, b.low)
        /\ TouchHolds(Market, report.finished, report.last, b.high, b.low,
                      b.breaksAt + 1, b.mitigated)
    BY <1>2, <1>3, <1>12 DEF ZonesInv, BlocksInv, Blocks
  <2>2. PICK e \in report'.events: e.bar = b.breaksAt
    BY <1>12
  <2>3. e.direction = b.direction
    <3>1. PICK f \in report.events: f.bar = e.bar /\ f.direction = e.direction
      BY <1>10, <1>12, <2>2
    <3>2. PICK g \in report.events: g.bar = b.breaksAt /\ g.direction = b.direction
      BY <2>1
    <3> QED
      BY <1>2, <2>2, <3>1, <3>2 DEF ZonesInv, BlocksInv
  <2>4. BlockAt(Market, report'.first, e.bar, e.direction, b.index, b.high, b.low)
    BY <1>11, <1>12, <2>1, <2>2, <2>3
  <2>5. PICK h \in report'.blocks: /\ h.breaksAt = e.bar /\ h.direction = e.direction
                                   /\ h.index = b.index /\ h.high = b.high /\ h.low = b.low
    BY <1>5, <2>4 DEF BlocksToldExactly
  <2>6. /\ h \in Blocks
        /\ FirstTouched(Market, report'.last, h.high, h.low, h.breaksAt + 1, h.mitigated)
    BY <1>5 DEF BlocksToldExactly
  <2> QED
    BY <1>7, <2>1, <2>2, <2>3, <2>5, <2>6
<1>13. ASSUME NEW h \in report'.blocks, h.breaksAt <= report.finished,
              report'.first <= h.index
       PROVE  \E b \in report.blocks: Remains(b, h)
  <2>1. /\ h \in Blocks /\ h.index \in Nat /\ h.breaksAt \in Nat
        /\ \E e \in report'.events: e.bar = h.breaksAt /\ e.direction = h.direction
        /\ BlockAt(Market, report'.first, h.breaksAt, h.direction, h.index, h.high, h.low)
        /\ FirstTouched(Market, report'.last, h.high, h.low, h.breaksAt + 1, h.mitigated)
    BY <1>5, <1>13 DEF BlocksToldExactly, Blocks
  <2>2. PICK f \in report.events: f.bar = h.breaksAt /\ f.direction = h.direction
    BY <1>10, <1>13, <2>1
  <2>3. BlockAt(Market, report.first, f.bar, f.direction, h.index, h.high, h.low)
    BY <1>11, <1>13, <2>1, <2>2
  <2>4. PICK b \in report.blocks: /\ b.breaksAt = f.bar /\ b.direction = f.direction
                                  /\ b.index = h.index /\ b.high = h.high /\ b.low = h.low
    BY <1>2, <1>13, <2>2, <2>3 DEF ZonesInv, BlocksInv
  <2>5. /\ b \in Blocks
        /\ TouchHolds(Market, report.finished, report.last, b.high, b.low,
                      b.breaksAt + 1, b.mitigated)
    BY <1>2, <1>3, <1>13, <2>2, <2>4 DEF ZonesInv, BlocksInv
  <2> QED
    BY <1>7, <2>1, <2>2, <2>4, <2>5
<1> QED
  BY <1>8, <1>9, <1>12, <1>13

(* So are the fair value gaps between finished bars, and the order blocks  *)
(* of the breaks told again: neither the window that slides nor the bar    *)
(* still forming, which both providers' clients and detect_all pass on to  *)
(* the agent's next cycle, moves one, takes its mitigation back or adds    *)
(* one that could have been told before.                                   *)
THEOREM ReportedZonesAlwaysLast == Spec => ReportedZonesLast
<1> DEFINE Lasts ==
             report # NoReport =>
               LET told == {e.bar: e \in report'.events}
                   gapLasts(g) == g.index + 1 <= report.finished /\ report'.first < g.index
                   blockLasts(b) == /\ b.breaksAt <= report.finished
                                    /\ report'.first <= b.index /\ b.breaksAt \in told
               IN  /\ \A g \in report.gaps:
                        gapLasts(g) => \E h \in report'.gaps: Remains(g, h)
                   /\ \A h \in report'.gaps:
                        gapLasts(h) => \E g \in report.gaps: Remains(g, h)
                   /\ \A b \in report.blocks:
                        blockLasts(b) => \E h \in report'.blocks: Remains(b, h)
                   /\ \A h \in report'.blocks:
                        blockLasts(h) => \E b \in report.blocks: Remains(b, h)
<1>1. FeedInv /\ FeedInv' /\ [Next]_vars => [Lasts]_report
  <2> SUFFICES ASSUME FeedInv, FeedInv', [Next]_vars, report' # report PROVE Lasts
    OBVIOUS
  <2>1. Report
    BY DEF Next, BarOpens, BarCloses, Fetch, ReadNext, vars
  <2> QED
    BY <2>1, ZonesAgree
<1>2. ReportedZonesLast <=> [][Lasts]_report
  BY PTL DEF ReportedZonesLast, Lasts
<1> HIDE DEF Lasts
<1> QED
  BY <1>1, <1>2, FeedInvariant, PTL DEF Spec
=============================================================================

--------------------------- MODULE Structure_proofs ---------------------------
(***************************************************************************)
(* Theorems about the walk of detect_structure_breaks, for all bars, every *)
(* lookback and every length of the series.                                *)
(***************************************************************************)
EXTENDS StructureProperties, SequenceTheorems, WellFoundedInduction, TLAPS

(* A set of naturals that is not empty has a least element.                *)
LEMMA LeastNat ==
    ASSUME NEW S, S \subseteq Nat, S # {}
    PROVE  \E x \in S: \A y \in S: x <= y
<1>1. PICK x \in S: \A y \in S: ~ (<<y, x>> \in OpToRel(<, Nat))
  BY NatLessThanWellFounded, WFMin
<1>2. \A y \in S: ~(y < x)
  BY <1>1 DEF OpToRel
<1> QED
  BY <1>2

(* The least of a set of naturals.                                         *)
LEMMA MinOfNats ==
    ASSUME NEW S, S \subseteq Nat, S # {}
    PROVE  Min(S) \in S /\ \A y \in S: Min(S) <= y
BY LeastNat DEF Min

(* The greatest of a bounded set of naturals.                              *)
LEMMA MaxOfNats ==
    ASSUME NEW n \in Nat, NEW S, S \subseteq 0 .. n, S # {}
    PROVE  Max(S) \in S /\ \A y \in S: y <= Max(S)
<1> DEFINE T == {m \in Nat: \A x \in S: x <= m}
<1>1. n \in T
  OBVIOUS
<1>2. PICK m \in T: \A k \in T: m <= k
  BY <1>1, LeastNat
<1>3. m \in S
  <2> SUFFICES ASSUME m \notin S PROVE FALSE
    OBVIOUS
  <2>1. m \in Nat /\ \A x \in S: x \in 0 .. n /\ x < m
    BY <1>2
  <2>2. m - 1 \in Nat
    <3>1. PICK x \in S: TRUE
      OBVIOUS
    <3> QED
      BY <2>1, <3>1
  <2>3. \A x \in S: x <= m - 1
    BY <2>1, <2>2
  <2>4. m <= m - 1
    BY <1>2, <2>2, <2>3
  <2> QED
    BY <2>1, <2>4
<1>4. m \in S /\ \A y \in S: y \in Int /\ m >= y
  BY <1>2, <1>3
<1> HIDE DEF T
<1>5. Max(S) \in S /\ \A y \in S: y \in Int /\ Max(S) >= y
  BY <1>4 DEF Max
<1> QED
  BY <1>5

-----------------------------------------------------------------------------

(* A series one bar longer, bar by bar.                                    *)
LEMMA AppendBar ==
    ASSUME NEW cs \in Seq(Bars), NEW bar \in Bars
    PROVE  /\ Append(cs, bar) \in Seq(Bars)
           /\ Len(cs) \in Nat /\ Len(Append(cs, bar)) = Len(cs) + 1
           /\ Append(cs, bar)[Len(cs) + 1] = bar
           /\ \A k \in 1 .. Len(cs): Append(cs, bar)[k] = cs[k]
BY AppendProperties, LenProperties

(* What the provider's bars are.                                           *)
LEMMA BarType ==
    ASSUME NEW cs \in Seq(Bars), NEW k \in 1 .. Len(cs)
    PROVE  /\ cs[k] \in Bars
           /\ cs[k].high \in Int /\ cs[k].low \in Int /\ cs[k].close \in Int
           /\ cs[k].low <= cs[k].close /\ cs[k].close <= cs[k].high
<1>1. cs[k] \in Bars
  BY ElementOfSeq
<1> QED
  BY <1>1, CandlesAssumption

(* Whether a bar with a whole window is a swing does not depend on later   *)
(* bars: what find_swing_points sees of the full series is what the walk   *)
(* sees when it gets there.                                                *)
LEMMA SwingsStay ==
    ASSUME NEW cs \in Seq(Bars), NEW bar \in Bars, NEW i \in Nat, HasWindow(cs, i)
    PROVE  /\ HasWindow(Append(cs, bar), i)
           /\ IsSwingHigh(Append(cs, bar), i) <=> IsSwingHigh(cs, i)
           /\ IsSwingLow(Append(cs, bar), i) <=> IsSwingLow(cs, i)
<1> DEFINE ds == Append(cs, bar)
<1>1. Lookback \in Nat \ {0} /\ Len(cs) \in Nat /\ Len(ds) = Len(cs) + 1
  BY AppendBar, CandlesAssumption
<1>2. HasWindow(ds, i)
  BY <1>1 DEF HasWindow
<1>3. i \in 1 .. Len(cs) /\ \A k \in Neighbours(i): k \in 1 .. Len(cs)
  BY <1>1 DEF HasWindow, Neighbours
<1>4. ds[i] = cs[i] /\ \A k \in Neighbours(i): ds[k] = cs[k]
  BY <1>3, AppendBar
<1> HIDE DEF ds
<1>5. IsSwingHigh(ds, i) <=> IsSwingHigh(cs, i)
  BY <1>2, <1>4 DEF IsSwingHigh
<1>6. IsSwingLow(ds, i) <=> IsSwingLow(cs, i)
  BY <1>2, <1>4, <1>5 DEF IsSwingLow
<1> QED
  BY <1>2, <1>5, <1>6 DEF ds

-----------------------------------------------------------------------------
(* A pending swing is a swing, and no bar up to n has closed beyond it.    *)
PendingHighOK(cs, i, n) ==
    i # NoSwing =>
        /\ i \in Nat /\ IsSwingHigh(cs, i)
        /\ \A k \in i + 1 .. n: cs[k].close <= cs[i].high

PendingLowOK(cs, i, n) ==
    i # NoSwing =>
        /\ i \in Nat /\ IsSwingLow(cs, i)
        /\ \A k \in i + 1 .. n: cs[k].close >= cs[i].low

(* The swing high a bar confirms was not closed above while it waited for  *)
(* its confirmation, and the one it replaces not before.                   *)
LEMMA LatestHighOK ==
    ASSUME NEW cs \in Seq(Bars), NEW bar \in Bars, NEW pending \in Nat,
           PendingHighOK(cs, pending, Len(cs))
    PROVE  /\ LatestHigh(Append(cs, bar), pending) \in Nat
           /\ PendingHighOK(Append(cs, bar),
                            LatestHigh(Append(cs, bar), pending), Len(cs))
<1> DEFINE ds == Append(cs, bar)
           i == Len(ds) - Lookback
<1>1. Lookback \in Nat \ {0} /\ Len(cs) \in Nat /\ Len(ds) = Len(cs) + 1 /\ ds \in Seq(Bars)
  BY AppendBar, CandlesAssumption
<1>2. CASE IsSwingHigh(ds, i)
  <2>1. LatestHigh(ds, pending) = i /\ i \in Nat
    <3>1. LatestHigh(ds, pending) = i
      BY <1>2 DEF LatestHigh
    <3>2. i - Lookback \in 1 .. Len(ds)
      BY <1>2 DEF IsSwingHigh, HasWindow
    <3>3. i \in Nat
      BY <1>1, <3>2
    <3> QED
      BY <3>1, <3>3
  <2>2. ASSUME NEW k \in i + 1 .. Len(cs) PROVE ds[k].close <= ds[i].high
    <3>1. k \in Neighbours(i) /\ k \in 1 .. Len(ds) /\ i \in 1 .. Len(ds)
      BY <1>1, <1>2, <2>1 DEF Neighbours, IsSwingHigh, HasWindow
    <3>2. ds[i].high > ds[k].high
      BY <1>2, <3>1 DEF IsSwingHigh
    <3> HIDE DEF ds, i
    <3> QED
      BY <1>1, <3>1, <3>2, BarType, SMTT(20)
  <2> QED
    BY <1>2, <2>1, <2>2 DEF PendingHighOK
<1>3. CASE ~IsSwingHigh(ds, i)
  <2>1. LatestHigh(ds, pending) = pending
    BY <1>3 DEF LatestHigh
  <2>2. ASSUME pending # NoSwing
        PROVE  /\ IsSwingHigh(ds, pending)
               /\ \A k \in pending + 1 .. Len(cs): ds[k].close <= ds[pending].high
    <3>1. IsSwingHigh(cs, pending) /\ HasWindow(cs, pending)
      BY <2>2 DEF PendingHighOK, IsSwingHigh
    <3>2. pending \in 1 .. Len(cs)
      BY <1>1, <3>1 DEF HasWindow
    <3>3. ds[pending] = cs[pending] /\ \A k \in pending + 1 .. Len(cs): ds[k] = cs[k]
      BY <1>1, <3>2, AppendBar
    <3> QED
      BY <2>2, <3>1, <3>3, SwingsStay DEF PendingHighOK
  <2> QED
    BY <2>1, <2>2 DEF PendingHighOK
<1> QED
  BY <1>2, <1>3

(* The same for the swing low.                                             *)
LEMMA LatestLowOK ==
    ASSUME NEW cs \in Seq(Bars), NEW bar \in Bars, NEW pending \in Nat,
           PendingLowOK(cs, pending, Len(cs))
    PROVE  /\ LatestLow(Append(cs, bar), pending) \in Nat
           /\ PendingLowOK(Append(cs, bar),
                           LatestLow(Append(cs, bar), pending), Len(cs))
<1> DEFINE ds == Append(cs, bar)
           i == Len(ds) - Lookback
<1>1. Lookback \in Nat \ {0} /\ Len(cs) \in Nat /\ Len(ds) = Len(cs) + 1 /\ ds \in Seq(Bars)
  BY AppendBar, CandlesAssumption
<1>2. CASE IsSwingLow(ds, i)
  <2>1. LatestLow(ds, pending) = i /\ i \in Nat
    <3>1. LatestLow(ds, pending) = i
      BY <1>2 DEF LatestLow
    <3>2. i - Lookback \in 1 .. Len(ds)
      BY <1>2 DEF IsSwingLow, HasWindow
    <3>3. i \in Nat
      BY <1>1, <3>2
    <3> QED
      BY <3>1, <3>3
  <2>2. ASSUME NEW k \in i + 1 .. Len(cs) PROVE ds[k].close >= ds[i].low
    <3>1. k \in Neighbours(i) /\ k \in 1 .. Len(ds) /\ i \in 1 .. Len(ds)
      BY <1>1, <1>2, <2>1 DEF Neighbours, IsSwingLow, HasWindow
    <3>2. ds[i].low < ds[k].low
      BY <1>2, <3>1 DEF IsSwingLow
    <3> HIDE DEF ds, i
    <3>3. /\ ds[i].low \in Int /\ ds[k].low \in Int /\ ds[k].close \in Int
          /\ ds[k].low <= ds[k].close
      BY <1>1, <3>1, BarType
    <3> QED
      BY <3>2, <3>3
  <2> QED
    BY <1>2, <2>1, <2>2 DEF PendingLowOK
<1>3. CASE ~IsSwingLow(ds, i)
  <2>1. LatestLow(ds, pending) = pending
    BY <1>3 DEF LatestLow
  <2>2. ASSUME pending # NoSwing
        PROVE  /\ IsSwingLow(ds, pending)
               /\ \A k \in pending + 1 .. Len(cs): ds[k].close >= ds[pending].low
    <3>1. IsSwingLow(cs, pending) /\ HasWindow(cs, pending)
      BY <2>2 DEF PendingLowOK, IsSwingLow
    <3>2. pending \in 1 .. Len(cs)
      BY <1>1, <3>1 DEF HasWindow
    <3>3. ds[pending] = cs[pending] /\ \A k \in pending + 1 .. Len(cs): ds[k] = cs[k]
      BY <1>1, <3>2, AppendBar
    <3> QED
      BY <2>2, <3>1, <3>3, SwingsStay DEF PendingLowOK
  <2> QED
    BY <2>1, <2>2 DEF PendingLowOK
<1> QED
  BY <1>2, <1>3

(* The pending low is never above the pending high, so that one close      *)
(* cannot be beyond both: the swing that came second closed on the inner   *)
(* side of the first, and no bar is both (the elif of find_swing_points).  *)
LEMMA NotBothBroken ==
    ASSUME NEW cs \in Seq(Bars), NEW h \in Nat, NEW l \in Nat,
           Len(cs) > 0,
           PendingHighOK(cs, h, Len(cs) - 1), PendingLowOK(cs, l, Len(cs) - 1)
    PROVE  ~(ClosesAbove(cs, Len(cs), h) /\ ClosesBelow(cs, Len(cs), l))
<1> SUFFICES ASSUME ClosesAbove(cs, Len(cs), h), ClosesBelow(cs, Len(cs), l)
             PROVE  FALSE
  OBVIOUS
<1>1. Lookback \in Nat \ {0} /\ Len(cs) \in Nat
  BY LenProperties, CandlesAssumption
<1>2. /\ IsSwingHigh(cs, h) /\ HasWindow(cs, h)
      /\ IsSwingLow(cs, l) /\ HasWindow(cs, l)
  BY DEF ClosesAbove, ClosesBelow, PendingHighOK, PendingLowOK, IsSwingHigh, IsSwingLow
<1>3. h \in 1 .. Len(cs) - 1 /\ l \in 1 .. Len(cs) - 1 /\ Len(cs) \in 1 .. Len(cs)
  BY <1>1, <1>2 DEF HasWindow
<1>4. h # l
  BY <1>2 DEF IsSwingLow
<1>5. cs[l].low <= cs[h].high
  <2>1. CASE h < l
    <3>1. cs[l].close <= cs[h].high
      BY <1>1, <1>3, <2>1 DEF ClosesAbove, PendingHighOK
    <3> QED
      BY <1>1, <1>3, <3>1, BarType
  <2>2. CASE l < h
    <3>1. cs[h].close >= cs[l].low
      BY <1>1, <1>3, <2>2 DEF ClosesBelow, PendingLowOK
    <3> QED
      BY <1>1, <1>3, <3>1, BarType
  <2> QED
    BY <1>3, <1>4, <2>1, <2>2
<1>6. cs[Len(cs)].close > cs[h].high /\ cs[Len(cs)].close < cs[l].low
  BY DEF ClosesAbove, ClosesBelow
<1> QED
  BY <1>1, <1>3, <1>5, <1>6, BarType

-----------------------------------------------------------------------------
(* The inductive invariant: the pending swings, and events that come in    *)
(* the order of bars already passed.                                       *)
BreakInv ==
    /\ PendingHighOK(candles, pendingHigh, Len(candles))
    /\ PendingLowOK(candles, pendingLow, Len(candles))
    /\ \A n \in 1 .. Len(events): events[n].index <= Len(candles)
    /\ OneBreakPerBar

(* A round of the loop, with the bars and swings it works on by name.      *)
LEMMA ReadBarRound ==
    ASSUME TypeOK, BreakInv, NEW bar \in Bars, ReadBar(bar)
    PROVE  LET cs == Append(candles, bar)
               h == LatestHigh(cs, pendingHigh)
               l == LatestLow(cs, pendingLow)
               j == Len(cs)
               up == ClosesAbove(cs, j, h)
               down == ClosesBelow(cs, j, l)
           IN  /\ cs \in Seq(Bars) /\ h \in Nat /\ l \in Nat
               /\ candles' = cs /\ j = Len(candles) + 1
               /\ PendingHighOK(cs, h, j - 1) /\ PendingLowOK(cs, l, j - 1)
               /\ ~(up /\ down)
               /\ pendingHigh' = Consumed(up, h) /\ pendingLow' = Consumed(down, l)
               /\ trend' = IF down THEN "bearish" ELSE IF up THEN "bullish" ELSE trend
               /\ events' = IF up THEN Append(events, BreakOf("bullish", j, h, trend))
                            ELSE IF down
                            THEN Append(events, BreakOf("bearish", j, l, trend))
                            ELSE events
<1> DEFINE cs == Append(candles, bar)
           h == LatestHigh(cs, pendingHigh)
           l == LatestLow(cs, pendingLow)
           j == Len(cs)
           up == ClosesAbove(cs, j, h)
           down == ClosesBelow(cs, j, l)
<1>1. /\ candles \in Seq(Bars) /\ pendingHigh \in Nat /\ pendingLow \in Nat
      /\ events \in Seq(Events)
  BY DEF TypeOK
<1>2. cs \in Seq(Bars) /\ j = Len(candles) + 1 /\ Len(candles) \in Nat
  BY <1>1, AppendBar
<1>3. h \in Nat /\ PendingHighOK(cs, h, Len(candles))
  BY <1>1, LatestHighOK DEF BreakInv
<1>4. l \in Nat /\ PendingLowOK(cs, l, Len(candles))
  BY <1>1, LatestLowOK DEF BreakInv
<1>5. candles' = cs /\ pendingHigh' = Consumed(up, h) /\ pendingLow' = Consumed(down, l)
  BY DEF ReadBar
<1>6. /\ trend' = IF down THEN "bearish" ELSE IF up THEN "bullish" ELSE trend
      /\ events' = events
           \o (IF up THEN <<BreakOf("bullish", j, h, trend)>> ELSE <<>>)
           \o (IF down THEN <<BreakOf("bearish", j, l, IF up THEN "bullish" ELSE trend)>>
                       ELSE <<>>)
  BY DEF ReadBar
<1> HIDE DEF cs, h, l
<1>7. PendingHighOK(cs, h, j - 1) /\ PendingLowOK(cs, l, j - 1)
  BY <1>2, <1>3, <1>4
<1>8. ~(up /\ down)
  BY <1>2, <1>3, <1>4, <1>7, NotBothBroken
<1>9. events' = IF up THEN Append(events, BreakOf("bullish", j, h, trend))
                ELSE IF down THEN Append(events, BreakOf("bearish", j, l, trend))
                ELSE events
  <2>1. \A x \in Events: events \o <<x>> = Append(events, x) /\ events \o <<x>> \in Seq(Events)
    BY <1>1, AppendIsConcat, AppendProperties
  <2>2. \A s \in Seq(Events): s \o <<>> = s
    BY ConcatEmptySeq
  <2>3. j \in Nat /\ trend \in Directions \cup {NoTrend}
    BY <1>2 DEF TypeOK
  <2>4. /\ BreakOf("bullish", j, h, trend) \in Events
        /\ BreakOf("bearish", j, l, trend) \in Events
    BY <1>3, <1>4, <2>3 DEF BreakOf, KindOf, Events, BreakKinds, Directions
  <2> QED
    BY <1>1, <1>6, <1>8, <2>1, <2>2, <2>4
<1> QED
  BY <1>2, <1>3, <1>4, <1>5, <1>6, <1>7, <1>8, <1>9 DEF cs, h, l

(* The same, of some bars and swings.                                      *)
LEMMA ReadBarCases ==
    ASSUME TypeOK, BreakInv, NEW bar \in Bars, ReadBar(bar)
    PROVE  \E cs \in Seq(Bars), h \in Nat, l \in Nat:
             LET j == Len(cs)
                 up == ClosesAbove(cs, j, h)
                 down == ClosesBelow(cs, j, l)
             IN  /\ candles' = cs /\ j = Len(candles) + 1
                 /\ PendingHighOK(cs, h, j - 1) /\ PendingLowOK(cs, l, j - 1)
                 /\ ~(up /\ down)
                 /\ pendingHigh' = Consumed(up, h) /\ pendingLow' = Consumed(down, l)
                 /\ trend' = IF down THEN "bearish" ELSE IF up THEN "bullish" ELSE trend
                 /\ events' = IF up THEN Append(events, BreakOf("bullish", j, h, trend))
                              ELSE IF down
                              THEN Append(events, BreakOf("bearish", j, l, trend))
                              ELSE events
BY ReadBarRound

(* A walk that has not begun satisfies the invariants.                     *)
LEMMA BreakInit == Init => TypeOK /\ BreakInv
<1> SUFFICES ASSUME Init PROVE TypeOK /\ BreakInv
  OBVIOUS
<1>1. candles \in Seq(Bars) /\ events \in Seq(Events) /\ Len(events) = 0
  BY EmptySeq DEF Init
<1>2. TypeOK
  BY <1>1 DEF Init, TypeOK, NoSwing
<1>3. BreakInv
  BY <1>1 DEF Init, BreakInv, PendingHighOK, PendingLowOK, OneBreakPerBar
<1> QED
  BY <1>2, <1>3

(* What one more event, at a bar after all the others, does to the events. *)
LEMMA AppendEvent ==
    ASSUME NEW es \in Seq(Events), NEW e \in Events
    PROVE  /\ Append(es, e) \in Seq(Events)
           /\ Len(es) \in Nat /\ Len(Append(es, e)) = Len(es) + 1
           /\ Append(es, e)[Len(es) + 1] = e
           /\ \A n \in 1 .. Len(es): Append(es, e)[n] = es[n] /\ es[n] \in Events
BY AppendProperties, LenProperties, ElementOfSeq

(* Every round of the loop preserves the invariants.                       *)
LEMMA BreakNext == TypeOK /\ BreakInv /\ [Next]_vars => TypeOK' /\ BreakInv'
<1> SUFFICES ASSUME TypeOK, BreakInv, [Next]_vars PROVE TypeOK' /\ BreakInv'
  OBVIOUS
<1>1. CASE UNCHANGED vars
  BY <1>1 DEF vars, TypeOK, BreakInv, OneBreakPerBar
<1>2. CASE Next
  <2>1. PICK bar \in Bars: ReadBar(bar)
    BY <1>2 DEF Next
  <2>2. PICK cs \in Seq(Bars), h \in Nat, l \in Nat:
             LET j == Len(cs)
                 up == ClosesAbove(cs, j, h)
                 down == ClosesBelow(cs, j, l)
             IN  /\ candles' = cs /\ j = Len(candles) + 1
                 /\ PendingHighOK(cs, h, j - 1) /\ PendingLowOK(cs, l, j - 1)
                 /\ ~(up /\ down)
                 /\ pendingHigh' = Consumed(up, h) /\ pendingLow' = Consumed(down, l)
                 /\ trend' = IF down THEN "bearish" ELSE IF up THEN "bullish" ELSE trend
                 /\ events' = IF up THEN Append(events, BreakOf("bullish", j, h, trend))
                              ELSE IF down
                              THEN Append(events, BreakOf("bearish", j, l, trend))
                              ELSE events
    BY <2>1, ReadBarCases
  <2> DEFINE j == Len(cs)
             up == ClosesAbove(cs, j, h)
             down == ClosesBelow(cs, j, l)
  <2>3. /\ j \in Nat /\ Len(candles) \in Nat /\ j = Len(candles) + 1
        /\ events \in Seq(Events) /\ trend \in Directions \cup {NoTrend}
    BY <2>2, LenProperties DEF TypeOK
  <2>4. /\ BreakOf("bullish", j, h, trend) \in Events
        /\ BreakOf("bearish", j, l, trend) \in Events
    BY <2>3 DEF BreakOf, KindOf, Events, BreakKinds, Directions
  <2>5. \/ events' = events
        \/ \E e \in Events: e.index = j /\ events' = Append(events, e)
    BY <2>2, <2>4 DEF BreakOf
  <2>6. TypeOK'
    <3>1. events' \in Seq(Events)
      BY <2>3, <2>5, AppendProperties
    <3>2. pendingHigh' \in Nat /\ pendingLow' \in Nat
      BY <2>2 DEF Consumed, NoSwing
    <3>3. trend' \in Directions \cup {NoTrend}
      BY <2>2, <2>3 DEF Directions
    <3> QED
      BY <2>2, <3>1, <3>2, <3>3 DEF TypeOK
  <2>7. PendingHighOK(candles, pendingHigh, Len(candles))'
    <3>1. CASE up
      BY <2>2, <3>1 DEF Consumed, PendingHighOK
    <3>2. CASE ~up
      <4>1. pendingHigh' = h
        BY <2>2, <3>2 DEF Consumed
      <4>2. h # NoSwing => cs[j].close <= cs[h].high
        <5>1. ASSUME h # NoSwing PROVE h \in 1 .. j
          BY <2>2, <2>3, <5>1, CandlesAssumption DEF PendingHighOK, IsSwingHigh, HasWindow
        <5> QED
          BY <2>3, <3>2, <5>1, BarType DEF ClosesAbove
      <4> QED
        BY <2>2, <2>3, <4>1, <4>2, SMTT(20) DEF PendingHighOK
    <3> QED
      BY <3>1, <3>2
  <2>8. PendingLowOK(candles, pendingLow, Len(candles))'
    <3>1. CASE down
      BY <2>2, <3>1 DEF Consumed, PendingLowOK
    <3>2. CASE ~down
      <4>1. pendingLow' = l
        BY <2>2, <3>2 DEF Consumed
      <4>2. l # NoSwing => cs[j].close >= cs[l].low
        <5>1. ASSUME l # NoSwing PROVE l \in 1 .. j
          BY <2>2, <2>3, <5>1, CandlesAssumption DEF PendingLowOK, IsSwingLow, HasWindow
        <5> QED
          BY <2>3, <3>2, <5>1, BarType DEF ClosesBelow
      <4> QED
        BY <2>2, <2>3, <4>1, <4>2, SMTT(20) DEF PendingLowOK
    <3> QED
      BY <3>1, <3>2
  <2>9. /\ \A n \in 1 .. Len(events'): events'[n].index <= j
        /\ OneBreakPerBar'
    <3>1. CASE events' = events
      <4>1. OneBreakPerBar'
        BY <3>1 DEF BreakInv, OneBreakPerBar
      <4>2. \A n \in 1 .. Len(events): events[n] \in Events
        BY <2>3, ElementOfSeq
      <4>3. \A n \in 1 .. Len(events): events[n].index \in Nat
        BY <4>2 DEF Events
      <4> QED
        BY <2>3, <3>1, <4>1, <4>3 DEF BreakInv
    <3>2. ASSUME NEW e \in Events, e.index = j, events' = Append(events, e)
          PROVE  /\ \A n \in 1 .. Len(events'): events'[n].index <= j
                 /\ OneBreakPerBar'
      <4>1. /\ Len(events) \in Nat /\ Len(events') = Len(events) + 1
            /\ events'[Len(events) + 1] = e
            /\ \A n \in 1 .. Len(events):
                 events'[n] = events[n] /\ events[n].index \in Nat
        BY <2>3, <3>2, AppendEvent DEF Events
      <4>2. \A n \in 1 .. Len(events): events[n].index < j
        BY <2>3, <4>1 DEF BreakInv
      <4>3. \A n \in 1 .. Len(events'): n \in 1 .. Len(events) \/ n = Len(events) + 1
        BY <4>1
      <4>4. \A n \in 1 .. Len(events'): events'[n].index <= j
        BY <2>3, <3>2, <4>1, <4>2, <4>3
      <4>5. ASSUME NEW m \in 1 .. Len(events'), NEW n \in 1 .. Len(events'), m < n
            PROVE  events'[m].index < events'[n].index
        <5>1. m \in 1 .. Len(events)
          BY <4>1, <4>5
        <5>2. CASE n \in 1 .. Len(events)
          BY <4>1, <4>5, <5>1, <5>2 DEF BreakInv, OneBreakPerBar
        <5>3. CASE n = Len(events) + 1
          BY <3>2, <4>1, <4>2, <5>1, <5>3
        <5> QED
          BY <4>3, <5>2, <5>3
      <4>6. OneBreakPerBar'
        BY <4>5 DEF OneBreakPerBar
      <4> QED
        BY <4>4, <4>6
    <3> QED
      BY <2>5, <3>1, <3>2
  <2> QED
    BY <2>2, <2>6, <2>7, <2>8, <2>9 DEF BreakInv
<1> QED
  BY <1>1, <1>2

(* The pending swings and the order of the events stay right for ever.     *)
LEMMA BreakInvariant == Spec => [](TypeOK /\ BreakInv)
BY BreakInit, BreakNext, PTL DEF Spec

(* Every variable of the walk has its type.                                *)
THEOREM WalkTypeCorrect == Spec => []TypeOK
BY BreakInvariant, PTL

(* No bar breaks structure both ways, whatever the series and whatever the *)
(* lookback: the second `if` of the loop could as well be an `elif`.       *)
THEOREM OneBreakPerBarAlways == Spec => []OneBreakPerBar
<1>1. BreakInv => OneBreakPerBar
  BY DEF BreakInv
<1> QED
  BY <1>1, BreakInvariant, PTL

-----------------------------------------------------------------------------
(* The swings of a series one bar longer: those of the series, and perhaps *)
(* the bar whose window the new bar completes.                             *)
LEMMA SwingsGrow ==
    ASSUME NEW cs \in Seq(Bars), NEW bar \in Bars, NEW i \in Nat
    PROVE  LET ds == Append(cs, bar) IN
           /\ i \in SwingHighs(ds) => i # NoSwing /\ i + Lookback <= Len(ds)
           /\ i \in SwingLows(ds) => i # NoSwing /\ i + Lookback <= Len(ds)
           /\ i + Lookback <= Len(cs) =>
                /\ i \in SwingHighs(ds) <=> i \in SwingHighs(cs)
                /\ i \in SwingLows(ds) <=> i \in SwingLows(cs)
           /\ i \in SwingHighs(ds) <=> IsSwingHigh(ds, i)
           /\ i \in SwingLows(ds) <=> IsSwingLow(ds, i)
<1> DEFINE ds == Append(cs, bar)
<1>1. Lookback \in Nat \ {0} /\ Len(cs) \in Nat /\ Len(ds) = Len(cs) + 1 /\ ds \in Seq(Bars)
  BY AppendBar, CandlesAssumption
<1>2. HasWindow(ds, i) => i \in 1 .. Len(ds) /\ i + Lookback <= Len(ds)
  BY <1>1 DEF HasWindow
<1>3. HasWindow(cs, i) => i \in 1 .. Len(cs)
  BY <1>1 DEF HasWindow
<1>4. /\ i \in SwingHighs(ds) <=> IsSwingHigh(ds, i)
      /\ i \in SwingLows(ds) <=> IsSwingLow(ds, i)
      /\ i \in SwingHighs(cs) <=> IsSwingHigh(cs, i)
      /\ i \in SwingLows(cs) <=> IsSwingLow(cs, i)
  BY <1>2, <1>3 DEF SwingHighs, SwingLows, IsSwingHigh, IsSwingLow
<1>5. i + Lookback <= Len(cs) /\ HasWindow(ds, i) => HasWindow(cs, i)
  BY <1>1 DEF HasWindow
<1>6. i + Lookback <= Len(cs) =>
        /\ IsSwingHigh(ds, i) <=> IsSwingHigh(cs, i)
        /\ IsSwingLow(ds, i) <=> IsSwingLow(cs, i)
  <2>1. CASE HasWindow(cs, i)
    BY <2>1, SwingsStay
  <2>2. CASE ~HasWindow(cs, i)
    BY <1>5, <2>2 DEF IsSwingHigh, IsSwingLow
  <2> QED
    BY <2>1, <2>2
<1>7. IsSwingHigh(ds, i) \/ IsSwingLow(ds, i) => HasWindow(ds, i)
  BY DEF IsSwingHigh, IsSwingLow
<1>8. HasWindow(ds, i) => i # NoSwing /\ i + Lookback <= Len(ds)
  BY <1>1, <1>2 DEF NoSwing
<1> QED
  BY <1>4, <1>6, <1>7, <1>8

(* The swings that count at bar j, of which LatestConfirmed is the last.   *)
LEMMA LatestIsLast ==
    ASSUME NEW S, S \subseteq Nat, NEW j \in Nat
    PROVE  /\ LatestConfirmed(S, j) \in Nat
           /\ \/ LatestConfirmed(S, j) = NoSwing
              \/ /\ LatestConfirmed(S, j) \in S
                 /\ LatestConfirmed(S, j) + Lookback <= j
           /\ \A i \in S: i + Lookback <= j => i <= LatestConfirmed(S, j)
<1> DEFINE T == {NoSwing} \cup {i \in S: i + Lookback <= j}
<1>1. Lookback \in Nat \ {0}
  BY CandlesAssumption
<1>2. T \subseteq 0 .. j /\ T # {}
  <2>1. \A i \in S: i \in Nat /\ (i + Lookback <= j => i \in 0 .. j)
    BY <1>1
  <2>2. NoSwing \in 0 .. j /\ NoSwing \in T
    BY DEF NoSwing
  <2>3. ASSUME NEW x \in T PROVE x \in 0 .. j
    BY <2>1, <2>2
  <2> QED
    BY <2>2, <2>3
<1>3. Max(T) \in T /\ \A i \in T: i <= Max(T)
  BY <1>2, MaxOfNats
<1>4. LatestConfirmed(S, j) = Max(T)
  BY DEF LatestConfirmed
<1>5. LatestConfirmed(S, j) \in Nat
  BY <1>2, <1>3, <1>4
<1> QED
  BY <1>3, <1>4, <1>5

(* What was the latest swing at an earlier bar remains it, and the latest  *)
(* at the new bar is the swing the bar confirms, or as before.             *)
LEMMA LatestHighGrows ==
    ASSUME NEW cs \in Seq(Bars), NEW bar \in Bars
    PROVE  LET ds == Append(cs, bar) IN
           /\ \A j \in 1 .. Len(cs):
                LatestConfirmed(SwingHighs(ds), j) = LatestConfirmed(SwingHighs(cs), j)
           /\ LatestConfirmed(SwingHighs(ds), Len(ds)) =
                LatestHigh(ds, LatestConfirmed(SwingHighs(cs), Len(cs)))
<1> DEFINE ds == Append(cs, bar)
           S == SwingHighs(cs)
           T == SwingHighs(ds)
<1>1. Lookback \in Nat \ {0} /\ Len(cs) \in Nat /\ Len(ds) = Len(cs) + 1 /\ ds \in Seq(Bars)
  BY AppendBar, CandlesAssumption
<1>2. S \subseteq Nat /\ T \subseteq Nat
  BY DEF SwingHighs
<1>3. /\ \A i \in T: i + Lookback <= Len(cs) + 1 /\ i # NoSwing
      /\ \A i \in Nat: i + Lookback <= Len(cs) => (i \in T <=> i \in S)
      /\ \A i \in Nat: i \in T <=> IsSwingHigh(ds, i)
  BY <1>1, <1>2, SwingsGrow
<1>a. LatestHigh(ds, LatestConfirmed(S, Len(cs))) =
        IF IsSwingHigh(ds, Len(ds) - Lookback) THEN Len(ds) - Lookback
        ELSE LatestConfirmed(S, Len(cs))
  BY DEF LatestHigh
<1>b. IsSwingHigh(ds, Len(ds) - Lookback) => Len(ds) - Lookback \in Nat
  <2>1. IsSwingHigh(ds, Len(ds) - Lookback) => (Len(ds) - Lookback) - Lookback \in 1 .. Len(ds)
    BY DEF IsSwingHigh, HasWindow
  <2> QED
    BY <1>1, <2>1
<1> HIDE DEF S, T, ds
<1>4. ASSUME NEW j \in 1 .. Len(cs) PROVE LatestConfirmed(T, j) = LatestConfirmed(S, j)
  <2>1. \A i \in Nat: i + Lookback <= j => i + Lookback <= Len(cs)
    BY <1>1
  <2>2. {i \in T: i + Lookback <= j} = {i \in S: i + Lookback <= j}
    BY <1>2, <1>3, <2>1
  <2> QED
    BY <2>2 DEF LatestConfirmed
<1>5. LatestConfirmed(T, Len(ds)) = LatestHigh(ds, LatestConfirmed(S, Len(cs)))
  <2> DEFINE i == Len(ds) - Lookback
             new == LatestConfirmed(T, Len(ds))
             old == LatestConfirmed(S, Len(cs))
  <2>1. /\ new \in Nat /\ old \in Nat
        /\ new = NoSwing \/ new \in T
        /\ \A k \in T: k <= new
        /\ old = NoSwing \/ (old \in S /\ old + Lookback <= Len(cs))
        /\ \A k \in S: k + Lookback <= Len(cs) => k <= old
    <3>1. Len(ds) \in Nat
      BY <1>1
    <3>2. /\ new \in Nat /\ (new = NoSwing \/ new \in T)
          /\ \A k \in T: k + Lookback <= Len(ds) => k <= new
      BY <1>2, <3>1, LatestIsLast
    <3>3. /\ old \in Nat
          /\ old = NoSwing \/ (old \in S /\ old + Lookback <= Len(cs))
          /\ \A k \in S: k + Lookback <= Len(cs) => k <= old
      BY <1>1, <1>2, LatestIsLast
    <3> HIDE DEF new, old
    <3> QED
      BY <1>1, <1>3, <3>2, <3>3
  <2> HIDE DEF new, old
  <2>2. CASE IsSwingHigh(ds, i)
    <3>1. i \in T /\ \A k \in T: k <= i
      BY <1>1, <1>2, <1>3, <1>b, <2>2
    <3>2. i # NoSwing /\ i \in Nat /\ new \in T
      BY <1>1, <1>2, <1>3, <2>1, <3>1 DEF NoSwing
    <3>3. new = i
      BY <1>1, <2>1, <3>1, <3>2
    <3> QED
      BY <1>a, <2>2, <3>3 DEF new, old
  <2>3. CASE ~IsSwingHigh(ds, i)
    <3>1. \A k \in T: k \in S /\ k + Lookback <= Len(cs)
      BY <1>1, <1>2, <1>3, <2>3
    <3>2. new <= old
      BY <2>1, <3>1 DEF NoSwing
    <3>3. old <= new
      BY <1>3, <2>1 DEF NoSwing
    <3>4. new = old
      BY <2>1, <3>2, <3>3
    <3> QED
      BY <1>a, <2>3, <3>4 DEF new, old
  <2> QED
    BY <2>2, <2>3
<1> QED
  BY <1>4, <1>5 DEF S, T, ds

(* The same for the swing lows.                                            *)
LEMMA LatestLowGrows ==
    ASSUME NEW cs \in Seq(Bars), NEW bar \in Bars
    PROVE  LET ds == Append(cs, bar) IN
           /\ \A j \in 1 .. Len(cs):
                LatestConfirmed(SwingLows(ds), j) = LatestConfirmed(SwingLows(cs), j)
           /\ LatestConfirmed(SwingLows(ds), Len(ds)) =
                LatestLow(ds, LatestConfirmed(SwingLows(cs), Len(cs)))
<1> DEFINE ds == Append(cs, bar)
           S == SwingLows(cs)
           T == SwingLows(ds)
<1>1. Lookback \in Nat \ {0} /\ Len(cs) \in Nat /\ Len(ds) = Len(cs) + 1 /\ ds \in Seq(Bars)
  BY AppendBar, CandlesAssumption
<1>2. S \subseteq Nat /\ T \subseteq Nat
  BY DEF SwingLows
<1>3. /\ \A i \in T: i + Lookback <= Len(cs) + 1 /\ i # NoSwing
      /\ \A i \in Nat: i + Lookback <= Len(cs) => (i \in T <=> i \in S)
      /\ \A i \in Nat: i \in T <=> IsSwingLow(ds, i)
  BY <1>1, <1>2, SwingsGrow
<1>a. LatestLow(ds, LatestConfirmed(S, Len(cs))) =
        IF IsSwingLow(ds, Len(ds) - Lookback) THEN Len(ds) - Lookback
        ELSE LatestConfirmed(S, Len(cs))
  BY DEF LatestLow
<1>b. IsSwingLow(ds, Len(ds) - Lookback) => Len(ds) - Lookback \in Nat
  <2>1. IsSwingLow(ds, Len(ds) - Lookback) => (Len(ds) - Lookback) - Lookback \in 1 .. Len(ds)
    BY DEF IsSwingLow, HasWindow
  <2> QED
    BY <1>1, <2>1
<1> HIDE DEF S, T, ds
<1>4. ASSUME NEW j \in 1 .. Len(cs) PROVE LatestConfirmed(T, j) = LatestConfirmed(S, j)
  <2>1. \A i \in Nat: i + Lookback <= j => i + Lookback <= Len(cs)
    BY <1>1
  <2>2. {i \in T: i + Lookback <= j} = {i \in S: i + Lookback <= j}
    BY <1>2, <1>3, <2>1
  <2> QED
    BY <2>2 DEF LatestConfirmed
<1>5. LatestConfirmed(T, Len(ds)) = LatestLow(ds, LatestConfirmed(S, Len(cs)))
  <2> DEFINE i == Len(ds) - Lookback
             new == LatestConfirmed(T, Len(ds))
             old == LatestConfirmed(S, Len(cs))
  <2>1. /\ new \in Nat /\ old \in Nat
        /\ new = NoSwing \/ new \in T
        /\ \A k \in T: k <= new
        /\ old = NoSwing \/ (old \in S /\ old + Lookback <= Len(cs))
        /\ \A k \in S: k + Lookback <= Len(cs) => k <= old
    <3>1. Len(ds) \in Nat
      BY <1>1
    <3>2. /\ new \in Nat /\ (new = NoSwing \/ new \in T)
          /\ \A k \in T: k + Lookback <= Len(ds) => k <= new
      BY <1>2, <3>1, LatestIsLast
    <3>3. /\ old \in Nat
          /\ old = NoSwing \/ (old \in S /\ old + Lookback <= Len(cs))
          /\ \A k \in S: k + Lookback <= Len(cs) => k <= old
      BY <1>1, <1>2, LatestIsLast
    <3> HIDE DEF new, old
    <3> QED
      BY <1>1, <1>3, <3>2, <3>3
  <2> HIDE DEF new, old
  <2>2. CASE IsSwingLow(ds, i)
    <3>1. i \in T /\ \A k \in T: k <= i
      BY <1>1, <1>2, <1>3, <1>b, <2>2
    <3>2. i # NoSwing /\ i \in Nat /\ new \in T
      BY <1>1, <1>2, <1>3, <2>1, <3>1 DEF NoSwing
    <3>3. new = i
      BY <1>1, <2>1, <3>1, <3>2
    <3> QED
      BY <1>a, <2>2, <3>3 DEF new, old
  <2>3. CASE ~IsSwingLow(ds, i)
    <3>1. \A k \in T: k \in S /\ k + Lookback <= Len(cs)
      BY <1>1, <1>2, <1>3, <2>3
    <3>2. new <= old
      BY <2>1, <3>1 DEF NoSwing
    <3>3. old <= new
      BY <1>3, <2>1 DEF NoSwing
    <3>4. new = old
      BY <2>1, <3>2, <3>3
    <3> QED
      BY <1>a, <2>3, <3>4 DEF new, old
  <2> QED
    BY <2>2, <2>3
<1> QED
  BY <1>4, <1>5 DEF S, T, ds

(* The bar that is the first to close above the swing high confirmed last, *)
(* and the pending high in terms of the candles alone.                     *)
SwingHighAt(cs, j) == LatestConfirmed(SwingHighs(cs), j)

FirstAbove(cs, j) ==
    /\ ClosesAbove(cs, j, SwingHighAt(cs, j))
    /\ \A k \in SwingHighAt(cs, j) + 1 .. j - 1: ~ClosesAbove(cs, k, SwingHighAt(cs, j))

AwaitedHigh(cs) ==
    IF \E k \in SwingHighAt(cs, Len(cs)) + 1 .. Len(cs):
         ClosesAbove(cs, k, SwingHighAt(cs, Len(cs)))
    THEN NoSwing ELSE SwingHighAt(cs, Len(cs))

AboveIn(cs) ==
    {<<j, SwingHighAt(cs, j), "bullish">>: j \in {j \in 1 .. Len(cs): FirstAbove(cs, j)}}

(* A test against a swing that is there does not change with a later bar.  *)
LEMMA ClosesAboveStays ==
    ASSUME NEW cs \in Seq(Bars), NEW bar \in Bars,
           NEW k \in 1 .. Len(cs), NEW level \in 0 .. Len(cs)
    PROVE  ClosesAbove(Append(cs, bar), k, level) <=> ClosesAbove(cs, k, level)
<1>1. level # NoSwing => level \in 1 .. Len(cs)
  BY DEF NoSwing
<1> QED
  BY <1>1, AppendBar DEF ClosesAbove

(* The latest swing before a bar is one of the bars before it.             *)
LEMMA SwingHighAtType ==
    ASSUME NEW cs \in Seq(Bars), NEW j \in Nat
    PROVE  SwingHighAt(cs, j) \in Nat /\ SwingHighAt(cs, j) <= j /\ SwingHighAt(cs, j) <= Len(cs)
<1>1. SwingHighs(cs) \subseteq Nat /\ Lookback \in Nat \ {0} /\ Len(cs) \in Nat
      /\ \A i \in SwingHighs(cs): i <= Len(cs)
  BY LenProperties, CandlesAssumption DEF SwingHighs
<1> DEFINE l == SwingHighAt(cs, j)
<1>2. l \in Nat /\ (l = NoSwing \/ (l \in SwingHighs(cs) /\ l + Lookback <= j))
  BY <1>1, LatestIsLast DEF SwingHighAt
<1> HIDE DEF l
<1>3. l <= j /\ l <= Len(cs)
  BY <1>1, <1>2 DEF NoSwing
<1> QED
  BY <1>2, <1>3 DEF l

(* One more bar: the first closes before it stay what they are.            *)
LEMMA FirstAboveStays ==
    ASSUME NEW cs \in Seq(Bars), NEW bar \in Bars, NEW j \in 1 .. Len(cs)
    PROVE  /\ SwingHighAt(Append(cs, bar), j) = SwingHighAt(cs, j)
           /\ FirstAbove(Append(cs, bar), j) <=> FirstAbove(cs, j)
<1> DEFINE ds == Append(cs, bar)
           l == SwingHighAt(cs, j)
<1>1. SwingHighAt(ds, j) = l
  BY LatestHighGrows DEF SwingHighAt
<1>2. Len(cs) \in Nat /\ l \in 0 .. Len(cs)
  BY LenProperties, SwingHighAtType
<1> HIDE DEF ds, l
<1>3. ASSUME NEW k \in l + 1 .. j PROVE ClosesAbove(ds, k, l) <=> ClosesAbove(cs, k, l)
  <2>1. k \in 1 .. Len(cs)
    BY <1>2
  <2> QED
    BY <1>2, <2>1, ClosesAboveStays DEF ds
<1>4. ClosesAbove(ds, j, l) <=> ClosesAbove(cs, j, l)
  BY <1>2, ClosesAboveStays DEF ds
<1>5. \A k \in l + 1 .. j - 1: k \in l + 1 .. j
  BY <1>2
<1>6. FirstAbove(ds, j) <=> FirstAbove(cs, j)
  BY <1>1, <1>3, <1>4, <1>5 DEF FirstAbove, l
<1> QED
  BY <1>1, <1>6 DEF ds, l

(* What the round of the loop tests is whether its bar is a first close,   *)
(* and what it leaves pending is what is still awaited.                    *)
LEMMA RoundFindsFirstAbove ==
    ASSUME NEW cs \in Seq(Bars), NEW bar \in Bars,
           PendingHighOK(cs, AwaitedHigh(cs), Len(cs))
    PROVE  LET ds == Append(cs, bar)
               j == Len(ds)
               h == LatestHigh(ds, AwaitedHigh(cs))
               up == ClosesAbove(ds, j, h)
           IN  /\ up <=> FirstAbove(ds, j)
               /\ up => h = SwingHighAt(ds, j)
               /\ Consumed(up, h) = AwaitedHigh(ds)
<1> DEFINE ds == Append(cs, bar)
           j == Len(ds)
           h == LatestHigh(ds, AwaitedHigh(cs))
           up == ClosesAbove(ds, j, h)
           old == SwingHighAt(cs, Len(cs))
           l == SwingHighAt(ds, j)
           Broken == \E k \in l + 1 .. j - 1: ClosesAbove(ds, k, l)
<1>1. Lookback \in Nat \ {0} /\ Len(cs) \in Nat /\ j = Len(cs) + 1 /\ ds \in Seq(Bars)
  BY AppendBar, CandlesAssumption
<1>2. l = LatestHigh(ds, old)
  BY LatestHighGrows DEF SwingHighAt
<1>3. old \in 0 .. Len(cs) /\ l \in 0 .. j
  <2>1. old \in Nat /\ old <= Len(cs)
    BY <1>1, SwingHighAtType
  <2> HIDE DEF old, ds
  <2>2. l \in Nat /\ l <= j
    BY <1>1, SwingHighAtType
  <2> HIDE DEF l, j
  <2> QED
    BY <1>1, <2>1, <2>2
<1>4. /\ h = IF Broken THEN NoSwing ELSE l
      /\ ~Broken \/ ~IsSwingHigh(ds, j - Lookback)
  <2>1. CASE IsSwingHigh(ds, j - Lookback)
    <3>1. h = j - Lookback /\ l = j - Lookback
      BY <1>2, <2>1 DEF LatestHigh
    <3>2. AwaitedHigh(cs) \in Nat
      BY <1>3 DEF AwaitedHigh, NoSwing
    <3>3. PendingHighOK(ds, h, Len(cs)) /\ h \in Nat
      BY <3>2, LatestHighOK
    <3>4. h # NoSwing
      <4>1. (j - Lookback) - Lookback \in 1 .. j
        BY <2>1 DEF IsSwingHigh, HasWindow
      <4> QED
        BY <1>1, <3>1, <4>1 DEF NoSwing
    <3>5. \A k \in l + 1 .. j - 1: ds[k].close <= ds[l].high
      <4> HIDE DEF ds, l, j, h
      <4>1. h = l /\ j - 1 = Len(cs)
        BY <1>1, <3>1
      <4> QED
        BY <3>3, <3>4, <4>1 DEF PendingHighOK
    <3>6. l \in 1 .. j
      BY <1>1, <1>3, <3>1, <3>3, <3>4 DEF NoSwing
    <3>7. ~Broken
      <4> SUFFICES ASSUME NEW k \in l + 1 .. j - 1, ClosesAbove(ds, k, l) PROVE FALSE
        OBVIOUS
      <4>1. k \in 1 .. j
        BY <1>1, <3>6
      <4> HIDE DEF ds, l
      <4>2. ds[k].close > ds[l].high
        BY DEF ClosesAbove
      <4>3. ds[k].close \in Int /\ ds[l].high \in Int
        BY <1>1, <3>6, <4>1, BarType
      <4> QED
        BY <3>5, <4>2, <4>3
    <3> QED
      BY <3>1, <3>7
  <2>2. CASE ~IsSwingHigh(ds, j - Lookback)
    <3>1. h = AwaitedHigh(cs) /\ l = old
      BY <1>2, <2>2 DEF LatestHigh
    <3>2. \A k \in l + 1 .. j - 1: ClosesAbove(ds, k, l) <=> ClosesAbove(cs, k, old)
      <4>1. \A k \in l + 1 .. j - 1: k \in 1 .. Len(cs)
        BY <1>1, <1>3
      <4> QED
        BY <1>3, <3>1, <4>1, ClosesAboveStays
    <3>3. l + 1 .. j - 1 = old + 1 .. Len(cs)
      BY <1>1, <3>1
    <3> HIDE DEF ds, l, h, j, old
    <3> QED
      BY <2>2, <3>1, <3>2, <3>3 DEF AwaitedHigh, old
  <2> QED
    BY <2>1, <2>2
<1>5. up <=> FirstAbove(ds, j)
  BY <1>4 DEF FirstAbove, ClosesAbove
<1>6. up => h = l
  BY <1>4 DEF ClosesAbove
<1>7. Consumed(up, h) = AwaitedHigh(ds)
  <2>1. \A k: k \in l + 1 .. j <=> k \in l + 1 .. j - 1 \/ (k = j /\ l < j)
    BY <1>1, <1>3
  <2>2. AwaitedHigh(ds) = IF \E k \in l + 1 .. j: ClosesAbove(ds, k, l) THEN NoSwing ELSE l
    BY DEF AwaitedHigh
  <2>3. ClosesAbove(ds, j, l) => l < j
    <3> HIDE DEF ds
    <3>1. ds[j].close <= ds[j].high /\ ds[j].close \in Int /\ ds[j].high \in Int
      <4>1. j \in 1 .. j
        BY <1>1
      <4> QED
        BY <1>1, <4>1, BarType
    <3> HIDE DEF l, j
    <3> QED
      BY <1>1, <1>3, <3>1 DEF ClosesAbove
  <2> HIDE DEF ds, l, j, h
  <2>4. CASE Broken
    BY <1>4, <2>1, <2>2, <2>4 DEF Consumed, ClosesAbove
  <2>5. CASE ~Broken
    BY <1>4, <2>1, <2>2, <2>3, <2>5 DEF Consumed
  <2> QED
    BY <2>4, <2>5
<1> QED
  BY <1>5, <1>6, <1>7

(* So the first closes of the longer series are those of the series and,   *)
(* if the round finds one, that of its bar.                                *)
LEMMA AboveGrows ==
    ASSUME NEW cs \in Seq(Bars), NEW bar \in Bars
    PROVE  LET ds == Append(cs, bar)
               j == Len(ds)
           IN  AboveIn(ds) = AboveIn(cs) \cup
                 IF FirstAbove(ds, j) THEN {<<j, SwingHighAt(ds, j), "bullish">>} ELSE {}
<1> DEFINE ds == Append(cs, bar)
           j == Len(ds)
<1>1. Len(cs) \in Nat /\ j = Len(cs) + 1
  BY AppendBar
<1>2. \A k \in 1 .. Len(cs): /\ SwingHighAt(ds, k) = SwingHighAt(cs, k)
                             /\ FirstAbove(ds, k) <=> FirstAbove(cs, k)
  BY FirstAboveStays
<1>3. \A k: k \in 1 .. j <=> k \in 1 .. Len(cs) \/ k = j
  BY <1>1
<1> HIDE DEF ds, j
<1>4. AboveIn(ds) = {<<k, SwingHighAt(ds, k), "bullish">>: k \in {k \in 1 .. j: FirstAbove(ds, k)}}
  BY DEF AboveIn, j
<1> QED
  BY <1>2, <1>3, <1>4 DEF AboveIn, ds, j

(* The same for closes below the swing low confirmed last.                 *)
SwingLowAt(cs, j) == LatestConfirmed(SwingLows(cs), j)

FirstBelow(cs, j) ==
    /\ ClosesBelow(cs, j, SwingLowAt(cs, j))
    /\ \A k \in SwingLowAt(cs, j) + 1 .. j - 1: ~ClosesBelow(cs, k, SwingLowAt(cs, j))

AwaitedLow(cs) ==
    IF \E k \in SwingLowAt(cs, Len(cs)) + 1 .. Len(cs):
         ClosesBelow(cs, k, SwingLowAt(cs, Len(cs)))
    THEN NoSwing ELSE SwingLowAt(cs, Len(cs))

BelowIn(cs) ==
    {<<j, SwingLowAt(cs, j), "bearish">>: j \in {j \in 1 .. Len(cs): FirstBelow(cs, j)}}

(* The mirror image of the lemma of the same form above.                   *)
LEMMA ClosesBelowStays ==
    ASSUME NEW cs \in Seq(Bars), NEW bar \in Bars,
           NEW k \in 1 .. Len(cs), NEW level \in 0 .. Len(cs)
    PROVE  ClosesBelow(Append(cs, bar), k, level) <=> ClosesBelow(cs, k, level)
<1>1. level # NoSwing => level \in 1 .. Len(cs)
  BY DEF NoSwing
<1> QED
  BY <1>1, AppendBar DEF ClosesBelow

(* The mirror image of the lemma of the same form above.                   *)
LEMMA SwingLowAtType ==
    ASSUME NEW cs \in Seq(Bars), NEW j \in Nat
    PROVE  SwingLowAt(cs, j) \in Nat /\ SwingLowAt(cs, j) <= j /\ SwingLowAt(cs, j) <= Len(cs)
<1>1. SwingLows(cs) \subseteq Nat /\ Lookback \in Nat \ {0} /\ Len(cs) \in Nat
      /\ \A i \in SwingLows(cs): i <= Len(cs)
  BY LenProperties, CandlesAssumption DEF SwingLows
<1> DEFINE l == SwingLowAt(cs, j)
<1>2. l \in Nat /\ (l = NoSwing \/ (l \in SwingLows(cs) /\ l + Lookback <= j))
  BY <1>1, LatestIsLast DEF SwingLowAt
<1> HIDE DEF l
<1>3. l <= j /\ l <= Len(cs)
  BY <1>1, <1>2 DEF NoSwing
<1> QED
  BY <1>2, <1>3 DEF l

(* The mirror image of the lemma of the same form above.                   *)
LEMMA FirstBelowStays ==
    ASSUME NEW cs \in Seq(Bars), NEW bar \in Bars, NEW j \in 1 .. Len(cs)
    PROVE  /\ SwingLowAt(Append(cs, bar), j) = SwingLowAt(cs, j)
           /\ FirstBelow(Append(cs, bar), j) <=> FirstBelow(cs, j)
<1> DEFINE ds == Append(cs, bar)
           l == SwingLowAt(cs, j)
<1>1. SwingLowAt(ds, j) = l
  BY LatestLowGrows DEF SwingLowAt
<1>2. Len(cs) \in Nat /\ l \in 0 .. Len(cs)
  BY LenProperties, SwingLowAtType
<1> HIDE DEF ds, l
<1>3. ASSUME NEW k \in l + 1 .. j PROVE ClosesBelow(ds, k, l) <=> ClosesBelow(cs, k, l)
  <2>1. k \in 1 .. Len(cs)
    BY <1>2
  <2> QED
    BY <1>2, <2>1, ClosesBelowStays DEF ds
<1>4. ClosesBelow(ds, j, l) <=> ClosesBelow(cs, j, l)
  BY <1>2, ClosesBelowStays DEF ds
<1>5. \A k \in l + 1 .. j - 1: k \in l + 1 .. j
  BY <1>2
<1>6. FirstBelow(ds, j) <=> FirstBelow(cs, j)
  BY <1>1, <1>3, <1>4, <1>5 DEF FirstBelow, l
<1> QED
  BY <1>1, <1>6 DEF ds, l

(* The mirror image of the lemma of the same form above.                   *)
LEMMA RoundFindsFirstBelow ==
    ASSUME NEW cs \in Seq(Bars), NEW bar \in Bars,
           PendingLowOK(cs, AwaitedLow(cs), Len(cs))
    PROVE  LET ds == Append(cs, bar)
               j == Len(ds)
               h == LatestLow(ds, AwaitedLow(cs))
               up == ClosesBelow(ds, j, h)
           IN  /\ up <=> FirstBelow(ds, j)
               /\ up => h = SwingLowAt(ds, j)
               /\ Consumed(up, h) = AwaitedLow(ds)
<1> DEFINE ds == Append(cs, bar)
           j == Len(ds)
           h == LatestLow(ds, AwaitedLow(cs))
           up == ClosesBelow(ds, j, h)
           old == SwingLowAt(cs, Len(cs))
           l == SwingLowAt(ds, j)
           Broken == \E k \in l + 1 .. j - 1: ClosesBelow(ds, k, l)
<1>1. Lookback \in Nat \ {0} /\ Len(cs) \in Nat /\ j = Len(cs) + 1 /\ ds \in Seq(Bars)
  BY AppendBar, CandlesAssumption
<1>2. l = LatestLow(ds, old)
  BY LatestLowGrows DEF SwingLowAt
<1>3. old \in 0 .. Len(cs) /\ l \in 0 .. j
  <2>1. old \in Nat /\ old <= Len(cs)
    BY <1>1, SwingLowAtType
  <2> HIDE DEF old, ds
  <2>2. l \in Nat /\ l <= j
    BY <1>1, SwingLowAtType
  <2> HIDE DEF l, j
  <2> QED
    BY <1>1, <2>1, <2>2
<1>4. /\ h = IF Broken THEN NoSwing ELSE l
      /\ ~Broken \/ ~IsSwingLow(ds, j - Lookback)
  <2>1. CASE IsSwingLow(ds, j - Lookback)
    <3>1. h = j - Lookback /\ l = j - Lookback
      BY <1>2, <2>1 DEF LatestLow
    <3>2. AwaitedLow(cs) \in Nat
      BY <1>3 DEF AwaitedLow, NoSwing
    <3>3. PendingLowOK(ds, h, Len(cs)) /\ h \in Nat
      BY <3>2, LatestLowOK
    <3>4. h # NoSwing
      <4>1. (j - Lookback) - Lookback \in 1 .. j
        BY <2>1 DEF IsSwingLow, HasWindow
      <4> QED
        BY <1>1, <3>1, <4>1 DEF NoSwing
    <3>5. \A k \in l + 1 .. j - 1: ds[k].close >= ds[l].low
      <4> HIDE DEF ds, l, j, h
      <4>1. h = l /\ j - 1 = Len(cs)
        BY <1>1, <3>1
      <4> QED
        BY <3>3, <3>4, <4>1 DEF PendingLowOK
    <3>6. l \in 1 .. j
      BY <1>1, <1>3, <3>1, <3>3, <3>4 DEF NoSwing
    <3>7. ~Broken
      <4> SUFFICES ASSUME NEW k \in l + 1 .. j - 1, ClosesBelow(ds, k, l) PROVE FALSE
        OBVIOUS
      <4>1. k \in 1 .. j
        BY <1>1, <3>6
      <4> HIDE DEF ds, l
      <4>2. ds[k].close < ds[l].low
        BY DEF ClosesBelow
      <4>3. ds[k].close \in Int /\ ds[l].low \in Int
        BY <1>1, <3>6, <4>1, BarType
      <4> QED
        BY <3>5, <4>2, <4>3
    <3> QED
      BY <3>1, <3>7
  <2>2. CASE ~IsSwingLow(ds, j - Lookback)
    <3>1. h = AwaitedLow(cs) /\ l = old
      BY <1>2, <2>2 DEF LatestLow
    <3>2. \A k \in l + 1 .. j - 1: ClosesBelow(ds, k, l) <=> ClosesBelow(cs, k, old)
      <4>1. \A k \in l + 1 .. j - 1: k \in 1 .. Len(cs)
        BY <1>1, <1>3
      <4> QED
        BY <1>3, <3>1, <4>1, ClosesBelowStays
    <3>3. l + 1 .. j - 1 = old + 1 .. Len(cs)
      BY <1>1, <3>1
    <3> HIDE DEF ds, l, h, j, old
    <3> QED
      BY <2>2, <3>1, <3>2, <3>3 DEF AwaitedLow, old
  <2> QED
    BY <2>1, <2>2
<1>5. up <=> FirstBelow(ds, j)
  BY <1>4 DEF FirstBelow, ClosesBelow
<1>6. up => h = l
  BY <1>4 DEF ClosesBelow
<1>7. Consumed(up, h) = AwaitedLow(ds)
  <2>1. \A k: k \in l + 1 .. j <=> k \in l + 1 .. j - 1 \/ (k = j /\ l < j)
    BY <1>1, <1>3
  <2>2. AwaitedLow(ds) = IF \E k \in l + 1 .. j: ClosesBelow(ds, k, l) THEN NoSwing ELSE l
    BY DEF AwaitedLow
  <2>3. ClosesBelow(ds, j, l) => l < j
    <3> HIDE DEF ds
    <3>1. ds[j].close >= ds[j].low /\ ds[j].close \in Int /\ ds[j].low \in Int
      <4>1. j \in 1 .. j
        BY <1>1
      <4> QED
        BY <1>1, <4>1, BarType
    <3> HIDE DEF l, j
    <3> QED
      BY <1>1, <1>3, <3>1 DEF ClosesBelow
  <2> HIDE DEF ds, l, j, h
  <2>4. CASE Broken
    BY <1>4, <2>1, <2>2, <2>4 DEF Consumed, ClosesBelow
  <2>5. CASE ~Broken
    BY <1>4, <2>1, <2>2, <2>3, <2>5 DEF Consumed
  <2> QED
    BY <2>4, <2>5
<1> QED
  BY <1>5, <1>6, <1>7

(* The mirror image of the lemma of the same form above.                   *)
LEMMA BelowGrows ==
    ASSUME NEW cs \in Seq(Bars), NEW bar \in Bars
    PROVE  LET ds == Append(cs, bar)
               j == Len(ds)
           IN  BelowIn(ds) = BelowIn(cs) \cup
                 IF FirstBelow(ds, j) THEN {<<j, SwingLowAt(ds, j), "bearish">>} ELSE {}
<1> DEFINE ds == Append(cs, bar)
           j == Len(ds)
<1>1. Len(cs) \in Nat /\ j = Len(cs) + 1
  BY AppendBar
<1>2. \A k \in 1 .. Len(cs): /\ SwingLowAt(ds, k) = SwingLowAt(cs, k)
                             /\ FirstBelow(ds, k) <=> FirstBelow(cs, k)
  BY FirstBelowStays
<1>3. \A k: k \in 1 .. j <=> k \in 1 .. Len(cs) \/ k = j
  BY <1>1
<1> HIDE DEF ds, j
<1>4. BelowIn(ds) = {<<k, SwingLowAt(ds, k), "bearish">>: k \in {k \in 1 .. j: FirstBelow(ds, k)}}
  BY DEF BelowIn, j
<1> QED
  BY <1>2, <1>3, <1>4 DEF BelowIn, ds, j

-----------------------------------------------------------------------------
(* What the property says of an event, and of all the events.              *)
Told(e) == <<e.index, e.level, e.direction>>
ToldBy(es) == {Told(e): e \in ToSet(es)}

(* The set of a list of events with one more,                              *)
LEMMA ToSetGrows ==
    ASSUME NEW es \in Seq(Events), NEW e \in Events
    PROVE  ToSet(Append(es, e)) = ToSet(es) \cup {e}
<1> DEFINE fs == Append(es, e)
<1>1. /\ Len(es) \in Nat /\ Len(fs) = Len(es) + 1 /\ fs[Len(es) + 1] = e
      /\ \A n \in 1 .. Len(es): fs[n] = es[n]
      /\ DOMAIN es = 1 .. Len(es) /\ DOMAIN fs = 1 .. Len(fs)
  BY AppendEvent, LenProperties
<1>2. \A n: n \in DOMAIN fs <=> n \in DOMAIN es \/ n = Len(es) + 1
  BY <1>1
<1> HIDE DEF fs
<1> QED
  BY <1>1, <1>2 DEF ToSet, fs

(* and what it tells of.                                                   *)
LEMMA ToldGrows ==
    ASSUME NEW es \in Seq(Events), NEW e \in Events
    PROVE  ToldBy(Append(es, e)) = ToldBy(es) \cup {Told(e)}
BY ToSetGrows DEF ToldBy

(* The other half of the inductive invariant: what is pending is what is   *)
(* awaited, and the events are the first closes so far.                    *)
FirstClosesInv ==
    /\ pendingHigh = AwaitedHigh(candles) /\ pendingLow = AwaitedLow(candles)
    /\ ToldBy(events) = AboveIn(candles) \cup BelowIn(candles)

(* What the first-close invariant is for: it says which events there are.  *)
LEMMA FirstClosesMeanBreaks == FirstClosesInv => EventsAreTheBreaks
<1>1. BreaksAbove = AboveIn(candles)
  BY DEF BreaksAbove, AboveIn, FirstAbove, SwingHighAt
<1>2. BreaksBelow = BelowIn(candles)
  BY DEF BreaksBelow, BelowIn, FirstBelow, SwingLowAt
<1> QED
  BY <1>1, <1>2 DEF FirstClosesInv, EventsAreTheBreaks, ToldBy, Told

(* A walk that has not begun has found no break and awaits no swing.       *)
LEMMA FirstClosesInit == Init => FirstClosesInv
<1> SUFFICES ASSUME Init PROVE FirstClosesInv
  OBVIOUS
<1>1. candles = <<>> /\ candles \in Seq(Bars) /\ Len(candles) = 0
  BY EmptySeq DEF Init
<1>2. SwingHighAt(candles, 0) = NoSwing /\ SwingLowAt(candles, 0) = NoSwing
  <2>1. SwingHighAt(candles, 0) \in Nat /\ SwingHighAt(candles, 0) <= 0
    BY <1>1, SwingHighAtType
  <2>2. SwingLowAt(candles, 0) \in Nat /\ SwingLowAt(candles, 0) <= 0
    BY <1>1, SwingLowAtType
  <2> QED
    BY <2>1, <2>2 DEF NoSwing
<1>3. AwaitedHigh(candles) = NoSwing /\ AwaitedLow(candles) = NoSwing
  BY <1>1, <1>2 DEF AwaitedHigh, AwaitedLow
<1>4. AboveIn(candles) = {} /\ BelowIn(candles) = {}
  BY <1>1 DEF AboveIn, BelowIn
<1>5. ToldBy(events) = {}
  <2>1. events = <<>> /\ DOMAIN events = {}
    BY EmptySeq DEF Init
  <2> QED
    BY <2>1 DEF ToldBy, ToSet
<1> QED
  BY <1>3, <1>4, <1>5 DEF Init, FirstClosesInv

(* Every step keeps the first-close invariant.                             *)
LEMMA FirstClosesNext ==
    TypeOK /\ BreakInv /\ FirstClosesInv /\ [Next]_vars => FirstClosesInv'
<1> SUFFICES ASSUME TypeOK, BreakInv, FirstClosesInv, [Next]_vars
             PROVE  FirstClosesInv'
  OBVIOUS
<1>1. CASE UNCHANGED vars
  BY <1>1 DEF vars, FirstClosesInv
<1>2. CASE Next
  <2>1. PICK bar \in Bars: ReadBar(bar)
    BY <1>2 DEF Next
  <2> DEFINE cs == Append(candles, bar)
             j == Len(cs)
             h == LatestHigh(cs, pendingHigh)
             l == LatestLow(cs, pendingLow)
             up == ClosesAbove(cs, j, h)
             down == ClosesBelow(cs, j, l)
  <2>2. /\ candles' = cs /\ ~(up /\ down) /\ h \in Nat /\ l \in Nat
        /\ pendingHigh' = Consumed(up, h) /\ pendingLow' = Consumed(down, l)
        /\ events' = IF up THEN Append(events, BreakOf("bullish", j, h, trend))
                     ELSE IF down
                     THEN Append(events, BreakOf("bearish", j, l, trend))
                     ELSE events
    BY <2>1, ReadBarRound
  <2>3. /\ candles \in Seq(Bars) /\ events \in Seq(Events) /\ cs \in Seq(Bars) /\ j \in Nat
        /\ trend \in Directions \cup {NoTrend}
    BY AppendBar DEF TypeOK
  <2>4. /\ up <=> FirstAbove(cs, j)
        /\ up => h = SwingHighAt(cs, j)
        /\ Consumed(up, h) = AwaitedHigh(cs)
    BY <2>3, RoundFindsFirstAbove DEF BreakInv, FirstClosesInv
  <2>5. /\ down <=> FirstBelow(cs, j)
        /\ down => l = SwingLowAt(cs, j)
        /\ Consumed(down, l) = AwaitedLow(cs)
    BY <2>3, RoundFindsFirstBelow DEF BreakInv, FirstClosesInv
  <2>6. AboveIn(cs) = AboveIn(candles) \cup
          IF FirstAbove(cs, j) THEN {<<j, SwingHighAt(cs, j), "bullish">>} ELSE {}
    BY <2>3, AboveGrows
  <2>7. BelowIn(cs) = BelowIn(candles) \cup
          IF FirstBelow(cs, j) THEN {<<j, SwingLowAt(cs, j), "bearish">>} ELSE {}
    BY <2>3, BelowGrows
  <2> HIDE DEF cs, j, h, l
  <2>8. /\ BreakOf("bullish", j, h, trend) \in Events
        /\ BreakOf("bearish", j, l, trend) \in Events
    BY <2>2, <2>3 DEF BreakOf, KindOf, Events, BreakKinds, Directions
  <2>9. /\ Told(BreakOf("bullish", j, h, trend)) = <<j, h, "bullish">>
        /\ Told(BreakOf("bearish", j, l, trend)) = <<j, l, "bearish">>
    BY DEF Told, BreakOf
  <2>10. ToldBy(events') = ToldBy(events)
           \cup (IF up THEN {<<j, h, "bullish">>} ELSE {})
           \cup (IF down THEN {<<j, l, "bearish">>} ELSE {})
    <3>1. CASE up
      BY <2>2, <2>3, <2>8, <2>9, <3>1, ToldGrows
    <3>2. CASE ~up /\ down
      BY <2>2, <2>3, <2>8, <2>9, <3>2, ToldGrows
    <3>3. CASE ~up /\ ~down
      BY <2>2, <3>3
    <3> QED
      BY <3>1, <3>2, <3>3
  <2> HIDE DEF up, down
  <2>11. ToldBy(events') = AboveIn(cs) \cup BelowIn(cs)
    BY <2>4, <2>5, <2>6, <2>7, <2>10 DEF FirstClosesInv
  <2> QED
    BY <2>2, <2>4, <2>5, <2>11 DEF FirstClosesInv
<1> QED
  BY <1>1, <1>2

(* Both halves of the inductive invariant, for ever.                       *)
LEMMA FirstClosesInvariant == Spec => [](TypeOK /\ BreakInv /\ FirstClosesInv)
BY BreakInit, FirstClosesInit, BreakNext, FirstClosesNext, PTL DEF Spec

(* The events are exactly the first closes beyond the swing confirmed last *)
(* at the time, for all bars, every lookback and every length: the walk    *)
(* with its pointers and pending swings computes what the definition says. *)
THEOREM EventsAreAlwaysTheBreaks == Spec => []EventsAreTheBreaks
BY FirstClosesInvariant, FirstClosesMeanBreaks, PTL

-----------------------------------------------------------------------------
(* The same breaks with no pointer and no maximum: the bars of m around k  *)
(* make it a swing, j is the first bar to close beyond it, and no later    *)
(* swing is confirmed by then.                                             *)
PeakAt(m, k) == \A n \in Neighbours(k): m[k].high > m[n].high
TroughAt(m, k) == ~PeakAt(m, k) /\ \A n \in Neighbours(k): m[k].low < m[n].low

BreaksPeak(m, j, k) ==
    /\ k + Lookback <= j /\ PeakAt(m, k)
    /\ \A i \in k + 1 .. j - Lookback: ~PeakAt(m, i)
    /\ m[j].close > m[k].high
    /\ \A i \in k + 1 .. j - 1: ~(m[i].close > m[k].high)

BreaksTrough(m, j, k) ==
    /\ k + Lookback <= j /\ TroughAt(m, k)
    /\ \A i \in k + 1 .. j - Lookback: ~TroughAt(m, i)
    /\ m[j].close < m[k].low
    /\ \A i \in k + 1 .. j - 1: ~(m[i].close < m[k].low)

(* A first close is a break of the swing it closes above, which has its    *)
(* neighbours in the series.                                               *)
LEMMA FirstAboveIs ==
    ASSUME NEW cs \in Seq(Bars), NEW j \in 1 .. Len(cs), NEW l \in Nat
    PROVE  FirstAbove(cs, j) /\ l = SwingHighAt(cs, j)
             <=> 1 <= l - Lookback /\ BreaksPeak(cs, j, l)
<1> DEFINE S == SwingHighs(cs)
           last == SwingHighAt(cs, j)
<1>1. Lookback \in Nat \ {0} /\ Len(cs) \in Nat /\ j \in Nat /\ j <= Len(cs)
  BY LenProperties, CandlesAssumption
<1>2. ASSUME NEW i \in Nat, i + Lookback <= j
      PROVE  i \in S <=> 1 <= i - Lookback /\ PeakAt(cs, i)
  <2>1. HasWindow(cs, i) <=> 1 <= i - Lookback
    BY <1>1, <1>2 DEF HasWindow
  <2>2. 1 <= i - Lookback => i \in 1 .. Len(cs)
    BY <1>1, <1>2
  <2> QED
    BY <2>1, <2>2 DEF SwingHighs, IsSwingHigh, PeakAt
<1>3. /\ S \subseteq Nat /\ last \in Nat
      /\ last = NoSwing \/ (last \in S /\ last + Lookback <= j)
      /\ \A i \in S: i + Lookback <= j => i <= last
  <2>1. S \subseteq Nat
    BY <1>1 DEF SwingHighs
  <2> QED
    BY <1>1, <2>1, LatestIsLast DEF SwingHighAt
<1>4. FirstAbove(cs, j) <=>
        /\ last # NoSwing /\ cs[j].close > cs[last].high
        /\ \A k \in last + 1 .. j - 1: ~(cs[k].close > cs[last].high)
  BY DEF FirstAbove, ClosesAbove
<1> HIDE DEF S, last
<1>5. ASSUME FirstAbove(cs, j), l = last
      PROVE  1 <= l - Lookback /\ BreaksPeak(cs, j, l)
  <2>1. l \in S /\ l + Lookback <= j
    BY <1>3, <1>4, <1>5
  <2>2. 1 <= l - Lookback /\ PeakAt(cs, l)
    BY <1>2, <2>1
  <2>3. \A i \in l + 1 .. j - Lookback: ~PeakAt(cs, i)
    <3> SUFFICES ASSUME NEW i \in l + 1 .. j - Lookback, PeakAt(cs, i) PROVE FALSE
      OBVIOUS
    <3>1. i \in Nat /\ i + Lookback <= j /\ 1 <= i - Lookback /\ i > l
      BY <1>1, <2>1, <2>2
    <3>2. i \in S
      BY <1>2, <3>1
    <3> QED
      BY <1>3, <1>5, <3>1, <3>2
  <2> QED
    BY <1>4, <1>5, <2>1, <2>2, <2>3 DEF BreaksPeak
<1>6. ASSUME 1 <= l - Lookback, BreaksPeak(cs, j, l)
      PROVE  FirstAbove(cs, j) /\ l = last
  <2>1. /\ l + Lookback <= j /\ PeakAt(cs, l)
        /\ \A i \in l + 1 .. j - Lookback: ~PeakAt(cs, i)
        /\ cs[j].close > cs[l].high
        /\ \A i \in l + 1 .. j - 1: ~(cs[i].close > cs[l].high)
    BY <1>6 DEF BreaksPeak
  <2>2. l \in S /\ l <= last
    BY <1>2, <1>3, <1>6, <2>1
  <2>3. last # NoSwing
    BY <1>1, <1>3, <1>6, <2>2 DEF NoSwing
  <2>4. last \in S /\ last + Lookback <= j /\ PeakAt(cs, last)
    BY <1>2, <1>3, <2>3
  <2>5. last = l
    BY <1>1, <1>3, <2>1, <2>2, <2>4
  <2> QED
    BY <1>4, <2>1, <2>3, <2>5
<1> QED
  BY <1>5, <1>6 DEF last

(* The mirror image of the lemma of the same form above.                   *)
LEMMA FirstBelowIs ==
    ASSUME NEW cs \in Seq(Bars), NEW j \in 1 .. Len(cs), NEW l \in Nat
    PROVE  FirstBelow(cs, j) /\ l = SwingLowAt(cs, j)
             <=> 1 <= l - Lookback /\ BreaksTrough(cs, j, l)
<1> DEFINE S == SwingLows(cs)
           last == SwingLowAt(cs, j)
<1>1. Lookback \in Nat \ {0} /\ Len(cs) \in Nat /\ j \in Nat /\ j <= Len(cs)
  BY LenProperties, CandlesAssumption
<1>2. ASSUME NEW i \in Nat, i + Lookback <= j
      PROVE  i \in S <=> 1 <= i - Lookback /\ TroughAt(cs, i)
  <2>1. HasWindow(cs, i) <=> 1 <= i - Lookback
    BY <1>1, <1>2 DEF HasWindow
  <2>2. 1 <= i - Lookback => i \in 1 .. Len(cs)
    BY <1>1, <1>2
  <2> QED
    BY <2>1, <2>2 DEF SwingLows, IsSwingLow, IsSwingHigh, TroughAt, PeakAt
<1>3. /\ S \subseteq Nat /\ last \in Nat
      /\ last = NoSwing \/ (last \in S /\ last + Lookback <= j)
      /\ \A i \in S: i + Lookback <= j => i <= last
  <2>1. S \subseteq Nat
    BY <1>1 DEF SwingLows
  <2> QED
    BY <1>1, <2>1, LatestIsLast DEF SwingLowAt
<1>4. FirstBelow(cs, j) <=>
        /\ last # NoSwing /\ cs[j].close < cs[last].low
        /\ \A k \in last + 1 .. j - 1: ~(cs[k].close < cs[last].low)
  BY DEF FirstBelow, ClosesBelow
<1> HIDE DEF S, last
<1>5. ASSUME FirstBelow(cs, j), l = last
      PROVE  1 <= l - Lookback /\ BreaksTrough(cs, j, l)
  <2>1. l \in S /\ l + Lookback <= j
    BY <1>3, <1>4, <1>5
  <2>2. 1 <= l - Lookback /\ TroughAt(cs, l)
    BY <1>2, <2>1
  <2>3. \A i \in l + 1 .. j - Lookback: ~TroughAt(cs, i)
    <3> SUFFICES ASSUME NEW i \in l + 1 .. j - Lookback, TroughAt(cs, i) PROVE FALSE
      OBVIOUS
    <3>1. i \in Nat /\ i + Lookback <= j /\ 1 <= i - Lookback /\ i > l
      BY <1>1, <2>1, <2>2
    <3>2. i \in S
      BY <1>2, <3>1
    <3> QED
      BY <1>3, <1>5, <3>1, <3>2
  <2> QED
    BY <1>4, <1>5, <2>1, <2>2, <2>3 DEF BreaksTrough
<1>6. ASSUME 1 <= l - Lookback, BreaksTrough(cs, j, l)
      PROVE  FirstBelow(cs, j) /\ l = last
  <2>1. /\ l + Lookback <= j /\ TroughAt(cs, l)
        /\ \A i \in l + 1 .. j - Lookback: ~TroughAt(cs, i)
        /\ cs[j].close < cs[l].low
        /\ \A i \in l + 1 .. j - 1: ~(cs[i].close < cs[l].low)
    BY <1>6 DEF BreaksTrough
  <2>2. l \in S /\ l <= last
    BY <1>2, <1>3, <1>6, <2>1
  <2>3. last # NoSwing
    BY <1>1, <1>3, <1>6, <2>2 DEF NoSwing
  <2>4. last \in S /\ last + Lookback <= j /\ TroughAt(cs, last)
    BY <1>2, <1>3, <2>3
  <2>5. last = l
    BY <1>1, <1>3, <2>1, <2>2, <2>4
  <2> QED
    BY <1>4, <2>1, <2>3, <2>5
<1> QED
  BY <1>5, <1>6 DEF last

-----------------------------------------------------------------------------
(* The trend the walk keeps is the direction of the last event.            *)
LEMMA LabelsNext == TypeOK /\ BreakInv /\ LabelsFollowTrend /\ [Next]_vars
                      => LabelsFollowTrend'
<1> SUFFICES ASSUME TypeOK, BreakInv, LabelsFollowTrend, [Next]_vars
             PROVE  LabelsFollowTrend'
  OBVIOUS
<1>1. CASE UNCHANGED vars
  BY <1>1 DEF vars, LabelsFollowTrend
<1>2. CASE Next
  <2>1. \/ events' = events /\ trend' = trend
        \/ \E j \in Nat, level \in Nat, d \in Directions:
             /\ events' = Append(events, BreakOf(d, j, level, trend))
             /\ trend' = d
    <3>1. PICK bar \in Bars: ReadBar(bar)
      BY <1>2 DEF Next
    <3> QED
      BY <3>1, ReadBarCases, LenProperties DEF Directions
  <2>2. CASE events' = events /\ trend' = trend
    BY <2>2 DEF LabelsFollowTrend
  <2>3. ASSUME NEW j \in Nat, NEW level \in Nat, NEW d \in Directions,
               events' = Append(events, BreakOf(d, j, level, trend)), trend' = d
        PROVE  LabelsFollowTrend'
    <3> DEFINE e == BreakOf(d, j, level, trend)
    <3>1. trend \in Directions \cup {NoTrend} /\ events \in Seq(Events)
      BY DEF TypeOK
    <3>2. e \in Events /\ e.direction = d
          /\ (e.kind = "CHoCH" <=> trend # NoTrend /\ trend # d)
      BY <3>1 DEF BreakOf, KindOf, Events, BreakKinds, Directions, NoTrend
    <3> HIDE DEF e
    <3>3. /\ Len(events) \in Nat /\ Len(events') = Len(events) + 1
          /\ events'[Len(events) + 1] = e
          /\ \A n \in 1 .. Len(events): events'[n] = events[n] /\ events[n] \in Events
      BY <2>3, <3>1, <3>2, AppendEvent DEF e
    <3>4. events = <<>> <=> Len(events) = 0
      BY <3>1, EmptySeq
    <3>5. events' # <<>>
      BY <2>3, <3>1, <3>2, AppendProperties DEF e
    <3>6. trend # NoTrend <=> Len(events) > 0
      BY <3>3, <3>4 DEF LabelsFollowTrend, Last, Events, Directions, NoTrend
    <3>7. Len(events) > 0 => trend = events[Len(events)].direction
      BY <3>3, <3>4 DEF LabelsFollowTrend, Last
    <3>8. ASSUME NEW n \in 1 .. Len(events')
          PROVE  events'[n].kind = "CHoCH" <=>
                   n > 1 /\ events'[n].direction # events'[n - 1].direction
      <4>1. CASE n \in 1 .. Len(events)
        <5>1. n > 1 => n - 1 \in 1 .. Len(events)
          BY <3>3, <4>1
        <5> QED
          BY <3>3, <4>1, <5>1 DEF LabelsFollowTrend
      <4>2. CASE n = Len(events) + 1
        <5>1. n > 1 => n - 1 = Len(events) /\ Len(events) \in 1 .. Len(events)
          BY <3>3, <4>2
        <5> QED
          BY <3>2, <3>3, <3>6, <3>7, <4>2, <5>1
      <4> QED
        BY <3>3, <4>1, <4>2
    <3>9. trend' = Last(events').direction
      BY <2>3, <3>2, <3>3 DEF Last
    <3> QED
      BY <3>5, <3>8, <3>9 DEF LabelsFollowTrend
  <2> QED
    BY <2>1, <2>2, <2>3
<1> QED
  BY <1>1, <1>2

(* An event is a CHoCH exactly when it turns against the one before it,    *)
(* for all bars and every lookback.                                        *)
THEOREM LabelsFollowTrendAlways == Spec => []LabelsFollowTrend
<1>1. Init => LabelsFollowTrend
  BY EmptySeq DEF Init, LabelsFollowTrend
<1> QED
  BY <1>1, LabelsNext, BreakInvariant, PTL DEF Spec
=============================================================================

--------------------------- MODULE StructureBreaks ---------------------------
(***************************************************************************)
(* structure/structure_breaks.py: the walk of detect_structure_breaks over *)
(* the candles, one step per bar.                                          *)
(*                                                                         *)
(* find_swing_points runs over all the candles first, but the walk takes   *)
(* up a swing at index i only once i + Lookback is reached, and whether i  *)
(* is a swing depends on no later bar.  So the walk is modelled over the   *)
(* candles it has passed, and one behaviour is one call of it, as well as  *)
(* the calls of successive cycles over a series that grows at its end.     *)
(***************************************************************************)
EXTENDS Candles

CONSTANT MaxBars   \* bound on the length of the series

ASSUME MaxBarsAssumption == MaxBars \in Nat

VARIABLES
    candles,       \* the bars the walk has passed
    pendingHigh,   \* index of the latest confirmed swing high not broken yet
    pendingLow,    \* the same for lows; NoSwing is the code's None
    trend,         \* the direction of the latest event, or NoTrend
    events         \* the StructureEvents so far

vars == <<candles, pendingHigh, pendingLow, trend, events>>

NoSwing == 0
NoTrend == "none"
Directions == {"bullish", "bearish"}
BreakKinds == {"BOS", "CHoCH"}

Events == [index: Nat, kind: BreakKinds, direction: Directions, level: Nat]

TypeOK ==
    /\ candles \in Seq(Bars)
    /\ pendingHigh \in Nat /\ pendingLow \in Nat
    /\ trend \in Directions \cup {NoTrend}
    /\ events \in Seq(Events)

Init ==
    /\ candles = <<>>
    /\ pendingHigh = NoSwing /\ pendingLow = NoSwing
    /\ trend = NoTrend
    /\ events = <<>>

(* The swing that the last bar confirms, if any, replaces the pending one. *)
LatestHigh(cs, pending) ==
    LET i == Len(cs) - Lookback IN IF IsSwingHigh(cs, i) THEN i ELSE pending

LatestLow(cs, pending) ==
    LET i == Len(cs) - Lookback IN IF IsSwingLow(cs, i) THEN i ELSE pending

ClosesAbove(cs, j, level) == level # NoSwing /\ cs[j].close > cs[level].high
ClosesBelow(cs, j, level) == level # NoSwing /\ cs[j].close < cs[level].low

(* Mutant: a break always continues the trend.                             *)
MutantKindOf(direction, current) == "BOS"

(* Mutant: the first break has no trend to name it after.                  *)
MutantFirstKindOf(direction, current) ==
    IF current = direction THEN "BOS"
    ELSE IF current = NoTrend THEN NoTrend ELSE "CHoCH"

KindOf(direction, current) ==
    IF current \in {NoTrend, direction} THEN "BOS" ELSE "CHoCH"

BreakOf(direction, j, level, current) ==
    [index |-> j, kind |-> KindOf(direction, current),
     direction |-> direction, level |-> level]

(* Mutant: the broken level stays pending.                                 *)
MutantConsumed(broken, level) == level

Consumed(broken, level) == IF broken THEN NoSwing ELSE level

(* One round of the loop: confirm, test the high, then test the low under  *)
(* the trend the high has left.                                            *)
ReadBar(bar) ==
    LET cs == Append(candles, bar)
        j == Len(cs)
        high == LatestHigh(cs, pendingHigh)
        low == LatestLow(cs, pendingLow)
        up == ClosesAbove(cs, j, high)
        down == ClosesBelow(cs, j, low)
        between == IF up THEN "bullish" ELSE trend
    IN  /\ Len(candles) < MaxBars
        /\ candles' = cs
        /\ pendingHigh' = Consumed(up, high)
        /\ pendingLow' = Consumed(down, low)
        /\ trend' = IF down THEN "bearish" ELSE between
        /\ events' = events
             \o (IF up THEN <<BreakOf("bullish", j, high, trend)>> ELSE <<>>)
             \o (IF down THEN <<BreakOf("bearish", j, low, between)>> ELSE <<>>)

Next == \E bar \in Bars: ReadBar(bar)

Spec == Init /\ [][Next]_vars
=============================================================================

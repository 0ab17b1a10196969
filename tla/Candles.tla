------------------------------- MODULE Candles -------------------------------
(***************************************************************************)
(* structure/types.py and structure/swings.py: bars and swing points.      *)
(*                                                                         *)
(* Prices are integers, multiples of some tick: the structure code only    *)
(* compares them.  Indices start at 1.  A swing point is known by the      *)
(* index of its bar, its price read from the candles.                      *)
(***************************************************************************)
EXTENDS Integers, Sequences

CONSTANTS
    Bars,      \* the bars a provider may return
    Lookback   \* StructureConfig.swing_lookback

(* An OHLC bar as every provider defines it; find_swing_points raises when *)
(* the lookback is less than one.                                          *)
ASSUME CandlesAssumption ==
    /\ Bars \subseteq [open: Int, high: Int, low: Int, close: Int]
    /\ \A b \in Bars: /\ b.low <= b.open /\ b.open <= b.high
                      /\ b.low <= b.close /\ b.close <= b.high
    /\ Lookback \in Nat \ {0}

IsBullish(bar) == bar.close > bar.open
IsBearish(bar) == bar.close < bar.open

(* The bars on both sides of bar i, and i itself, all there?               *)
HasWindow(cs, i) == i - Lookback \in 1 .. Len(cs) /\ i + Lookback \in 1 .. Len(cs)

Neighbours(i) == (i - Lookback .. i + Lookback) \ {i}

(* all(pivot.high > c.high ...) over the window.                          *)
IsSwingHigh(cs, i) ==
    HasWindow(cs, i) /\ \A k \in Neighbours(i): cs[i].high > cs[k].high

(* The elif of find_swing_points: a swing high is not looked at again.     *)
IsSwingLow(cs, i) ==
    /\ HasWindow(cs, i) /\ ~IsSwingHigh(cs, i)
    /\ \A k \in Neighbours(i): cs[i].low < cs[k].low

SwingHighs(cs) == {i \in 1 .. Len(cs): IsSwingHigh(cs, i)}
SwingLows(cs) == {i \in 1 .. Len(cs): IsSwingLow(cs, i)}
=============================================================================

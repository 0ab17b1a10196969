------------------------------- MODULE MCFeed -------------------------------
(* Constants for the runs of MarketFeed: a bar between, a peak with a gap   *)
(* to it, a bar that closes above the peak and does not touch the gap, and  *)
(* one that may look like it while it forms and then falls below them all.  *)
EXTENDS MarketFeed

Bar(o, h, l, c) == [open |-> o, high |-> h, low |-> l, close |-> c]

MCBars == {Bar(102, 102, 100, 101), Bar(103, 105, 103, 104),
           Bar(104, 106, 104, 106), Bar(104, 106, 98, 98)}
=============================================================================

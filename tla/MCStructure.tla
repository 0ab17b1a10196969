----------------------------- MODULE MCStructure -----------------------------
(***************************************************************************)
(* Small instances of the structure modules for TLC.                       *)
(***************************************************************************)
EXTENDS StructureProperties

Bar(o, h, l, c) == [open |-> o, high |-> h, low |-> l, close |-> c]

(* Two levels of rises and falls, a bar outside its neighbours, and a gap  *)
(* up that closes down.                                                    *)
MCBars == {Bar(101, 102, 101, 102), Bar(101, 101, 99, 100),
           Bar(102, 107, 102, 103), Bar(105, 107, 105, 106),
           Bar(101, 105, 98, 101), Bar(105, 107, 104, 104)}

(* The shapes that longer series, with a lookback of two, need.            *)
MCFewBars == {Bar(101, 102, 100, 102), Bar(102, 103, 101, 101),
              Bar(102, 104, 102, 104), Bar(101, 101, 99, 100),
              Bar(104, 106, 104, 105)}
=============================================================================

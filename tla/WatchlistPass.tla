---------------------------- MODULE WatchlistPass ----------------------------
(***************************************************************************)
(* What a decision loop promises of its passes over a watchlist, whatever  *)
(* fails in them: each pass serves every instrument once and in order, is  *)
(* reported once and only when it is complete, and is followed by one rest *)
(* before the next; after the last pass there is none.                     *)
(***************************************************************************)
EXTENDS Integers, Sequences

CONSTANT List

VARIABLES
    limit,    \* how many passes there are to be, or NoLimit
    served,   \* who has been served in this pass
    reports,  \* the passes reported
    rests     \* the rests since then

NoLimit == -1

passVars == <<limit, served, reports, rests>>

NewLoop == served = <<>> /\ reports = 0 /\ rests = 0

Init == limit \in Nat \cup {NoLimit} /\ NewLoop

MorePasses == limit = NoLimit \/ reports < limit

Serve ==
    /\ reports = rests
    /\ Len(served) < Len(List)
    /\ served' = Append(served, List[Len(served) + 1])
    /\ UNCHANGED <<limit, reports, rests>>

Report ==
    /\ reports = rests
    /\ served = List
    /\ MorePasses
    /\ served' = <<>>
    /\ reports' = reports + 1
    /\ UNCHANGED <<limit, rests>>

Rest ==
    /\ reports = rests + 1
    /\ MorePasses
    /\ rests' = rests + 1
    /\ UNCHANGED <<limit, served, reports>>

(* The loop ends, at any point, and another may begin.                     *)
Restart ==
    /\ limit' \in Nat \cup {NoLimit}
    /\ served' = <<>> /\ reports' = 0 /\ rests' = 0

Next == Serve \/ Report \/ Rest \/ Restart

Spec == Init /\ [][Next]_passVars
=============================================================================

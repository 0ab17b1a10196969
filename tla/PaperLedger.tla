----------------------------- MODULE PaperLedger -----------------------------
(***************************************************************************)
(* What a paper account promises, whoever drives it: at most one position  *)
(* per instrument, opened only when flat, every position one of its own,   *)
(* closed at most once, and never lost except when the process ends.       *)
(***************************************************************************)
EXTENDS Naturals

CONSTANT Names

VARIABLES open, done

ledgerVars == <<open, done>>

Init ==
    /\ open = [n \in Names |-> 0]
    /\ done = {}

(* The new position open'[n] is one never seen before.                     *)
Open(n) ==
    /\ open[n] = 0
    /\ open'[n] \in Nat \ ({0} \cup done \cup {open[m] : m \in Names})
    /\ open' = [open EXCEPT ![n] = open'[n]]
    /\ UNCHANGED done

Close(n) ==
    /\ open[n] # 0
    /\ open' = [open EXCEPT ![n] = 0]
    /\ done' = done \cup {open[n]}

Restart ==
    /\ open' = [n \in Names |-> 0]
    /\ done' = {}

Next == Restart \/ \E n \in Names: Open(n) \/ Close(n)

Spec == Init /\ [][Next]_ledgerVars
=============================================================================

----------------------------- MODULE PaperBroker -----------------------------
(***************************************************************************)
(* execution/simulator.py: the simulated positions, a dict in memory that  *)
(* every thread's ExecutionGate shares.  _enter tests the dict and assigns *)
(* to it in two steps; _exit is one atomic dict.pop.                       *)
(*                                                                         *)
(* A position is identified by the audit row of the decision that opened   *)
(* it (the code stores that decision's fields in the Position).  `closed`  *)
(* remembers the positions that were exited: the code returns each         *)
(* ClosedPosition and keeps none.                                          *)
(***************************************************************************)
EXTENDS Naturals, TradingTypes

VARIABLES
    positions,  \* instrument -> the open position, or Flat
    closed      \* the positions closed since the process started

brokerVars == <<positions, closed>>

Flat == 0

BrokerTypeOK == positions \in [Instruments -> Nat] /\ closed \subseteq Nat

BrokerInit ==
    /\ positions = [i \in Instruments |-> Flat]
    /\ closed = {}

HasPosition(i) == positions[i] # Flat

OpenPosition(i, id) ==
    /\ positions' = [positions EXCEPT ![i] = id]
    /\ UNCHANGED closed

(* Mutant: _exit reads the position and leaves it in the dict.             *)
MutantClosePosition(i) ==
    /\ closed' = closed \cup {positions[i]}
    /\ UNCHANGED positions

ClosePosition(i) ==
    /\ positions' = [positions EXCEPT ![i] = Flat]
    /\ closed' = closed \cup {positions[i]}

(* Positions live in memory only: a new process starts flat.               *)
BrokerCrash ==
    /\ positions' = [i \in Instruments |-> Flat]
    /\ closed' = {}
=============================================================================

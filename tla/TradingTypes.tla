---------------------------- MODULE TradingTypes ----------------------------
(***************************************************************************)
(* The vocabulary every other module of ICTAgent speaks: phases, actions,  *)
(* decisions (agent/types.py, config/settings.py) and what the reasoner    *)
(* makes of a model reply (agent/reasoner.py).                             *)
(*                                                                         *)
(* A price is abstracted to whether it is there: `priced` is               *)
(* `decision.entry is not None`, the only thing control flow asks of it.   *)
(***************************************************************************)
CONSTANTS
    Instruments,   \* the names a decision can carry
    NoName         \* the empty `instrument` of a reply

ASSUME NoNameAssumption == NoName \notin Instruments

Phases == {"paper", "semi_auto", "autonomous"}

NoPhase == "none"

Actions == {"enter", "exit", "hold", "no_trade"}

Decisions == [action: Actions, instrument: Instruments, priced: BOOLEAN]

NoDecision == [action |-> "none", instrument |-> NoName, priced |-> FALSE]

(* The `record_trade_decision` inputs _decision_from_tool_input accepts:   *)
(* what it turns into an AgentError is a failing Decide of the cycle.      *)
Replies == [action: Actions, instrument: Instruments \cup {NoName},
            priced: BOOLEAN]

(* `raw.get("instrument") or instrument`: the model's name wins.           *)
DecisionFromReply(reply, instrument) ==
    [reply EXCEPT !.instrument = IF @ = NoName THEN instrument ELSE @]

(* The environment variables a process reads once, when it starts.         *)
(* `confirmed`: ICTAGENT_LIVE_TRADING_CONFIRM is the exact string;         *)
(* `credentials`: the keys CycleScheduler.__init__ needs are all there.    *)
Settings == [phase: Phases, confirmed: BOOLEAN, credentials: BOOLEAN]

IsPaper(phase) == phase = "paper"

LiveTradingEnabled(phase, confirmed) == ~IsPaper(phase) /\ confirmed
=============================================================================

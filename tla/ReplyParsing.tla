---------------------------- MODULE ReplyParsing ----------------------------
(***************************************************************************)
(* agent/reasoner.py and agent/types.py: what Reasoner.decide makes of the *)
(* API's answer, field by field: a decision, or an exception of one class. *)
(*                                                                         *)
(* A field is one of the values the code tells apart: "missing" is a key   *)
(* the tool input lacks, "none" a null, "unknown" a string outside the     *)
(* enumeration, "text" a rationale with words in it.                       *)
(***************************************************************************)
EXTENDS TradingTypes

ToolInputs ==
    [action: Actions \cup {"missing", "unknown"},
     instrument: Instruments \cup {NoName},
     direction: {"bullish", "bearish", "none", "unknown"},
     priced: BOOLEAN,
     confidence: {"none", "in_range", "out_of_range", "not_a_number"},
     rationale: {"text", "blank", "missing", "not_a_string"}]

(* What messages.create raises, or a reply without a tool_use block, is    *)
(* the first; a stop_reason of "refusal" the second.                       *)
CallErrors == {"AgentError", "AgentRefusalError"}

(* A Decision: a blank rationale or a confidence out of range is refused   *)
(* by __post_init__, so no decision has one.                               *)
ParsedDecisions ==
    [action: Actions, instrument: Instruments, priced: BOOLEAN,
     direction: {"bullish", "bearish", "none"},
     confidence: {"none", "in_range"}]

(* Mutant: an enter needs no direction.                                    *)
MutantPostInitError(raw) ==
    CASE raw.rationale = "blank" -> {"AgentError"}
      [] raw.rationale = "not_a_string" -> {"AttributeError"}
      [] raw.confidence = "not_a_number" -> {"TypeError"}
      [] raw.confidence = "out_of_range" -> {"AgentError"}
      [] OTHER -> {}

(* Decision.__post_init__, whose ValueError becomes an AgentError.  A null *)
(* rationale is a blank one.                                               *)
PostInitError(raw) ==
    CASE raw.rationale = "blank" -> {"AgentError"}
      [] raw.rationale = "not_a_string" -> {"AttributeError"}
      [] raw.confidence = "not_a_number" -> {"TypeError"}
      [] raw.confidence = "out_of_range" -> {"AgentError"}
      [] raw.action = "enter" /\ raw.direction = "none" -> {"AgentError"}
      [] OTHER -> {}

(* _decision_from_tool_input: only the ValueErrors are turned into         *)
(* AgentErrors, a missing key stays a KeyError.                            *)
ToolInputError(raw) ==
    CASE raw.action = "missing" -> {"KeyError"}
      [] raw.action = "unknown" -> {"AgentError"}
      [] raw.direction = "unknown" -> {"AgentError"}
      [] raw.rationale = "missing" -> {"KeyError"}
      [] OTHER -> PostInitError(raw)

(* A reply that keeps to DECISION_TOOL's strict schema, which knows nothing *)
(* of blank texts, of the range of a number, or of fields that depend on    *)
(* each other.                                                              *)
KeepsSchema(raw) ==
    /\ raw.action \in Actions
    /\ raw.direction # "unknown"
    /\ raw.confidence # "not_a_number"
    /\ raw.rationale \in {"text", "blank"}

(* The playbook's decision discipline, for a reply of known words.         *)
Disciplined(raw) ==
    /\ raw.action \in Actions
    /\ raw.direction # "unknown"
    /\ raw.rationale = "text"
    /\ raw.confidence \in {"none", "in_range"}
    /\ raw.action = "enter" => raw.direction # "none"

(* The name in the reply wins over the one that was asked about.           *)
ParsedDecision(raw, instrument) ==
    [action |-> raw.action,
     instrument |-> DecisionFromReply(raw, instrument).instrument,
     priced |-> raw.priced, direction |-> raw.direction,
     confidence |-> raw.confidence]
=============================================================================

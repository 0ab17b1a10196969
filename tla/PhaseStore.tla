----------------------------- MODULE PhaseStore -----------------------------
(***************************************************************************)
(* web/phase_store.py: the one-row table that overrides ICTAGENT_PHASE.    *)
(* Like the decision log it is one connection shared by all threads, and   *)
(* get_phase reads through that connection: it sees a written phase before *)
(* set_phase has committed it.                                             *)
(***************************************************************************)
EXTENDS TradingTypes

VARIABLES
    override,       \* the row as this process reads it
    savedOverride   \* the row on disk

phaseStoreVars == <<override, savedOverride>>

PhaseStoreTypeOK ==
    /\ override \in Phases \cup {NoPhase}
    /\ savedOverride \in Phases \cup {NoPhase}

PhaseStoreInit == override = NoPhase /\ savedOverride = NoPhase

GetPhase(default) == IF override = NoPhase THEN default ELSE override

WritePhase(p) ==
    /\ override' = p
    /\ UNCHANGED savedOverride

(* Mutant: set_phase forgets to commit.                                    *)
MutantCommitPhase == UNCHANGED phaseStoreVars

CommitPhase ==
    /\ savedOverride' = override
    /\ UNCHANGED override

CommitPhaseFails(error) ==
    /\ override' = IF error = "rollback" THEN savedOverride ELSE override
    /\ UNCHANGED savedOverride

PhaseStoreCrash ==
    /\ override' = savedOverride
    /\ UNCHANGED savedOverride
=============================================================================

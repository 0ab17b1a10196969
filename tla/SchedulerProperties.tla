------------------------ MODULE SchedulerProperties ------------------------
(***************************************************************************)
(* What CycleScheduler must guarantee, and what the repository says of it  *)
(* that it does not.                                                       *)
(***************************************************************************)
EXTENDS CycleScheduler

(* A position exists only because of an enter decision for its instrument  *)
(* that is durably in the audit trail, and the gate is handed only         *)
(* decisions that are: cycle.py records before it executes.                *)
EveryFillIsAudited ==
    /\ \A i \in Instruments: HasPosition(i) =>
        /\ positions[i] \in 1 .. durable
        /\ rows[positions[i]].action = "enter"
        /\ rows[positions[i]].instrument = i
    /\ \A w \in Workers: pc[w] \in {"gate", "store"} =>
        IsDurableRow(row[w], decision[w])

(* A decision fills at most once: an open position was never closed, two   *)
(* instruments never hold the same one, and a fill in the making (between  *)
(* the test and the assignment of _enter) is of a decision not yet filled. *)
FilledOnce ==
    /\ \A i \in Instruments: HasPosition(i) => positions[i] \notin closed
    /\ \A i, j \in Instruments:
        HasPosition(i) /\ positions[i] = positions[j] => i = j
    /\ \A w \in Workers: pc[w] = "store" =>
        /\ row[w] \notin closed
        /\ \A i \in Instruments: positions[i] # row[w]

(* The ledger moves only in a process's cycles that run under paper, and,  *)
(* once the dashboard has left paper, only in those that had read the      *)
(* phase before: the gate of a cycle keeps the phase the cycle began with. *)
LedgerMovesUnderPaper ==
    [][ \A i \in Instruments:
          positions'[i] # positions[i] /\ mode' # "down" =>
            \E w \in Workers:
                /\ pc[w] \in {"gate", "store"} /\ pc'[w] # pc[w]
                /\ decision[w].instrument = i
                /\ phase[w] = "paper"
                /\ EffectivePhase = "paper" \/ w \in stale ]_vars

(* What is committed to the audit trail stays there unchanged, through     *)
(* failing commits of other threads, crashes and restarts.                 *)
AuditTrailIsAppendOnly ==
    [][ /\ durable' >= durable
        /\ Len(rows') >= durable
        /\ \A id \in 1 .. durable: rows'[id] = rows[id] ]_vars

(* A phase the dashboard has acknowledged is the one every later cycle     *)
(* runs under, until another POST /phase: in this process, and in every    *)
(* later one that opens the same database file, whatever phase its         *)
(* settings start it in (phase_store.py: the row is read back at boot).  A *)
(* redeploy that does not keep the file is outside of this.                *)
AcknowledgedPhaseLasts ==
    acknowledged # NoPhase =>
        override = acknowledged /\ savedOverride = acknowledged

(* The paper broker is a ledger: no position is overwritten, opened twice  *)
(* or closed twice.  It is one while the loop is the only worker.          *)
Ledger == INSTANCE PaperLedger
            WITH Names <- Instruments, open <- positions, done <- closed

LedgerSpec == Ledger!Spec

(* What dashboard() shows as an error: scheduler_error or last_error.       *)
BannerShown == mode = "up" /\ (schedulerError \/ (SchedulerExists /\ lastError))

(* A dashboard that shows no error is that of a process whose loop thread  *)
(* is alive: no way of failing to start or of ending the loop is silent.   *)
QuietDashboardMeansLoopRuns ==
    mode = "up" /\ ~BannerShown => pc[Loop] # "off"

-----------------------------------------------------------------------------
(* A cycle that has begun ends, or its process does, unless a provider     *)
(* never answers: nothing else in a cycle can hold its thread for ever.    *)
CyclesFinish ==
    \A w \in Workers: InCycle(w) ~> ~InCycle(w) \/ pc[w] = "hung"

(* The loop goes on: in a process that has its credentials and is neither  *)
(* stopped nor killed it runs every cycle the bound allows, whatever the   *)
(* providers, the model and the databases raise, and whatever request      *)
(* hangs in another thread: only one that hangs in the loop's ends it.     *)
LoopGoesOn ==
    (mode = "up" /\ env.credentials)
        ~> (cycles = MaxCycles \/ mode # "up" \/ pc[Loop] = "hung")

(* After stop() the loop thread ends, if no provider holds it.             *)
StopIsHonoured == mode = "stopping" ~> pc[Loop] \in {"off", "hung"}

(* Once paper is left, paper cycles die out, or never get to the gate.     *)
LeavingPaperDrains ==
    (mode # "down" /\ EffectivePhase # "paper")
        ~> (EffectivePhase = "paper"
              \/ \A w \in Workers: phase[w] # "paper" \/ pc[w] = "hung")

-----------------------------------------------------------------------------
(* What the repository says, and the code does not do.                     *)

(* simulator.py: "Already have an open paper position ...; ignoring        *)
(* duplicate enter."                                                       *)
DuplicateEnterIsIgnored ==
    [][ \A i \in Instruments:
          HasPosition(i) /\ positions'[i] # Flat => positions'[i] = positions[i] ]_vars

(* store.py: "CPython's GIL keeps individual calls effectively atomic ...  *)
(* doesn't need its own additional locking": record() returns the id of    *)
(* the row it persisted.                                                   *)
RecordReturnsItsRow ==
    \A w \in Workers: pc[w] = "gate" => IsDurableRow(row[w], decision[w])

(* README.md: "Two independent environment variables, not one, control     *)
(* whether the agent can ever place a real order", and autonomous takes    *)
(* "both ICTAGENT_PHASE and ICTAGENT_LIVE_TRADING_CONFIRM correctly set".  *)
(* An order that passes the gate as live has both, and so the dashboard,   *)
(* which shows live_trading_enabled of that environment, says so.          *)
LiveTakesBothVariables ==
    \A w \in Workers:
        (AtGate(w, "enter") \/ AtGate(w, "exit")) /\ PassesLiveGate(w) => LiveIsShown
=============================================================================

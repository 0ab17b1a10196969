--------------------------- MODULE CycleScheduler ---------------------------
(***************************************************************************)
(* The trading process: web/scheduler.py running the decision cycle of     *)
(* cycle.py on its loop thread and on the dashboard's run-now threads, all *)
(* of them over one decision log, one phase store and one paper broker.    *)
(*                                                                         *)
(* A worker is a thread that runs cycles.  Its cycle is                    *)
(*   phase -> (fetch -> decide -> insert -> commit -> gate [-> store])*    *)
(*         -> finish                                                       *)
(* with one action per step between which another thread can run.         *)
(***************************************************************************)
EXTENDS Naturals, Sequences, FiniteSets, TradingTypes, DecisionLog,
        PhaseStore, PaperBroker

CONSTANTS
    Loop,            \* the background thread
    RunNowThreads,   \* request threads that may run POST /run-now
    PhaseThreads,    \* request threads that may run POST /phase
    Watchlist,       \* the instruments of a cycle, in order
    Environments,    \* the settings a process can be started with
    ModelReplies,    \* what the model may answer
    CanHang,         \* whether a request to a data provider can never return
    MaxCycles,       \* bound on the cycles started
    MaxPhaseChanges, \* bound on the POST /phase requests
    MaxBoots         \* bound on the processes started

ASSUME ConstantsAssumption ==
    /\ Loop \notin RunNowThreads
    /\ Watchlist \in Seq(Instruments)
    /\ Environments \subseteq Settings
    /\ ModelReplies \subseteq Replies
    /\ CanHang \in BOOLEAN
    /\ MaxCycles \in Nat /\ MaxPhaseChanges \in Nat /\ MaxBoots \in Nat

Workers == {Loop} \cup RunNowThreads

VARIABLES
    env,             \* the settings the process was started with
    mode,            \* "down", "up", or "stopping": stop() has been called
    schedulerError,  \* app.state.scheduler_error is set
    lastError,       \* scheduler.last_error is set
    pc,              \* where each worker is
    item,            \* the watchlist index of the instrument at hand
    phase,           \* the phase of the worker's cycle_settings
    decision,        \* the decision at hand
    row,             \* the audit row of the decision at hand
    failed,          \* the cycle's results hold a CycleError
    setting,         \* the phase a request thread has written, not committed
    cycles, phaseChanges, boots,  \* the counters the bounds apply to
    stale,           \* ghost: workers whose cycle began before paper was left
    newest,          \* ghost: the thread whose phase was written last
    acknowledged     \* ghost: the phase last acknowledged, if none came since

appVars == <<env, mode, schedulerError>>
jobVars == <<item, phase, decision, row, failed>>
requestVars == <<setting, phaseChanges, newest, acknowledged>>
vars == <<rows, durable, override, savedOverride, positions, closed,
          env, mode, schedulerError, lastError, pc, item, phase, decision,
          row, failed, setting, cycles, phaseChanges, boots, stale, newest,
          acknowledged>>

CycleSteps == {"phase", "fetch", "decide", "insert", "commit", "gate",
               "store", "finish"}

PCs == CycleSteps \cup {"off", "top", "sleep", "hung"}

InstrumentSteps == CycleSteps \ {"phase", "finish"}

(* What a step of the cycle may rely on in its thread's local variables.   *)
LocalsOK(w) ==
    /\ pc[w] \in InstrumentSteps =>
        item[w] \in 1 .. Len(Watchlist) /\ phase[w] \in Phases
    /\ pc[w] \in {"insert", "commit", "gate", "store"} =>
        decision[w] \in Decisions
    /\ pc[w] \in {"commit", "gate", "store"} => row[w] # 0

TypeOK ==
    /\ LogTypeOK
    /\ PhaseStoreTypeOK
    /\ BrokerTypeOK
    /\ env \in Settings
    /\ mode \in {"down", "up", "stopping"}
    /\ schedulerError \in BOOLEAN
    /\ lastError \in BOOLEAN
    /\ pc \in [Workers -> PCs]
    /\ item \in [Workers -> Nat]
    /\ phase \in [Workers -> Phases \cup {NoPhase}]
    /\ decision \in [Workers -> Decisions \cup {NoDecision}]
    /\ row \in [Workers -> Nat]
    /\ failed \in [Workers -> BOOLEAN]
    /\ \A w \in Workers: LocalsOK(w)
    /\ setting \in [PhaseThreads -> Phases \cup {NoPhase}]
    /\ cycles \in Nat /\ phaseChanges \in Nat /\ boots \in Nat
    /\ stale \subseteq Workers
    /\ newest \subseteq PhaseThreads
    /\ acknowledged \in Phases \cup {NoPhase}

-----------------------------------------------------------------------------
EffectivePhase == GetPhase(env.phase)

(* lifespan: CycleScheduler's constructor raises when a key is missing.    *)
SchedulerExists == mode # "down" /\ env.credentials

InCycle(w) == pc[w] \in CycleSteps \cup {"hung"}

Init ==
    /\ LogInit /\ PhaseStoreInit /\ BrokerInit
    /\ env \in Environments
    /\ mode = "down"
    /\ schedulerError = FALSE /\ lastError = FALSE
    /\ pc = [w \in Workers |-> "off"]
    /\ item = [w \in Workers |-> 0]
    /\ phase = [w \in Workers |-> NoPhase]
    /\ decision = [w \in Workers |-> NoDecision]
    /\ row = [w \in Workers |-> 0]
    /\ failed = [w \in Workers |-> FALSE]
    /\ setting = [t \in PhaseThreads |-> NoPhase]
    /\ cycles = 0 /\ phaseChanges = 0 /\ boots = 0
    /\ stale = {} /\ newest = {}
    /\ acknowledged = NoPhase

-----------------------------------------------------------------------------
(* The process: lifespan() of web/app.py, and its end.                     *)

(* Mutant: an exception of the constructor is not shown.                   *)
MutantBoot ==
    /\ mode = "down"
    /\ boots < MaxBoots
    /\ boots' = boots + 1
    /\ mode' = "up"
    /\ env' \in Environments
    /\ pc' = [pc EXCEPT ![Loop] = IF env'.credentials THEN "top" ELSE "off"]
    /\ UNCHANGED <<logVars, phaseStoreVars, brokerVars, jobVars, requestVars,
                   schedulerError, lastError, cycles, stale>>

Boot ==
    /\ mode = "down"
    /\ boots < MaxBoots
    /\ boots' = boots + 1
    /\ mode' = "up"
    /\ env' \in Environments
    /\ schedulerError' = ~env'.credentials
    /\ pc' = [pc EXCEPT ![Loop] = IF env'.credentials THEN "top" ELSE "off"]
    /\ UNCHANGED <<logVars, phaseStoreVars, brokerVars, jobVars, requestVars,
                   lastError, cycles, stale>>

(* Shutdown: scheduler.stop() sets the event, and nothing joins the loop.  *)
Stop ==
    /\ mode = "up"
    /\ mode' = "stopping"
    /\ UNCHANGED <<logVars, phaseStoreVars, brokerVars, jobVars, requestVars,
                   env, schedulerError, lastError, pc, cycles, boots, stale>>

(* The process ends, at any point: a crash, a redeploy, or the end of a    *)
(* shutdown, which kills the daemon thread wherever it is.                 *)
Crash ==
    /\ mode # "down"
    /\ LogCrash /\ PhaseStoreCrash /\ BrokerCrash
    /\ mode' = "down"
    /\ schedulerError' = FALSE /\ lastError' = FALSE
    /\ pc' = [w \in Workers |-> "off"]
    /\ item' = [w \in Workers |-> 0]
    /\ phase' = [w \in Workers |-> NoPhase]
    /\ decision' = [w \in Workers |-> NoDecision]
    /\ row' = [w \in Workers |-> 0]
    /\ failed' = [w \in Workers |-> FALSE]
    /\ setting' = [t \in PhaseThreads |-> NoPhase]
    /\ stale' = {} /\ newest' = {}
    /\ UNCHANGED <<env, cycles, phaseChanges, boots, acknowledged>>

-----------------------------------------------------------------------------
(* The loop thread between cycles: CycleScheduler._run_forever.            *)

BeginCycle(w) ==
    /\ cycles < MaxCycles
    /\ cycles' = cycles + 1
    /\ pc' = [pc EXCEPT ![w] = "phase"]
    /\ UNCHANGED <<logVars, phaseStoreVars, brokerVars, appVars, jobVars,
                   requestVars, lastError, boots, stale>>

LoopBegins == pc[Loop] = "top" /\ mode = "up" /\ BeginCycle(Loop)

LoopMoves(from, to) ==
    /\ pc[Loop] = from
    /\ pc' = [pc EXCEPT ![Loop] = to]
    /\ UNCHANGED <<logVars, phaseStoreVars, brokerVars, appVars, jobVars,
                   requestVars, lastError, cycles, boots, stale>>

LoopExits == mode = "stopping" /\ LoopMoves("top", "off")

(* Mutant: the wait between cycles does not notice the event.              *)
MutantLoopWakes == mode = "up" /\ LoopMoves("sleep", "top")

(* stop_event.wait: the interval is over, or the event is set.             *)
LoopWakes == LoopMoves("sleep", "top")

(* POST /run-now; without a scheduler the request does nothing.            *)
RunNow(w) ==
    /\ mode = "up" /\ SchedulerExists
    /\ pc[w] = "off"
    /\ BeginCycle(w)

-----------------------------------------------------------------------------
(* One cycle: CycleScheduler.run_once over DecisionCycleRunner.run_once.   *)

(* Mutant: one step past the end of the watchlist.                         *)
MutantAtItem(n) == IF n <= Len(Watchlist) + 1 THEN "fetch" ELSE "finish"

AtItem(n) == IF n <= Len(Watchlist) THEN "fetch" ELSE "finish"

(* Between cycles: the loop sleeps, a request thread has answered.         *)
Resting(w) == IF w = Loop THEN "sleep" ELSE "off"

(* A worker's step that leaves the process and the requests alone.         *)
WorkerFrame == UNCHANGED <<phaseStoreVars, appVars, requestVars, cycles, boots>>

ReadPhase(w) ==
    /\ pc[w] = "phase"
    /\ phase' = [phase EXCEPT ![w] = EffectivePhase]
    /\ item' = [item EXCEPT ![w] = 1]
    /\ pc' = [pc EXCEPT ![w] = AtItem(1)]
    /\ UNCHANGED <<decision, row, failed, lastError, logVars, brokerVars,
                   stale>>
    /\ WorkerFrame

(* get_phase raises: the whole cycle fails, before any instrument.         *)
ReadPhaseFails(w) ==
    /\ pc[w] = "phase"
    /\ pc' = [pc EXCEPT ![w] = Resting(w)]
    /\ lastError' = (w = Loop \/ lastError)
    /\ schedulerError' = (w # Loop \/ schedulerError)
    /\ UNCHANGED <<jobVars, logVars, phaseStoreVars, brokerVars, requestVars,
                   env, mode, cycles, boots, stale>>

(* fetch_candles and compute_structure.                                    *)
Fetch(w) ==
    /\ pc[w] = "fetch"
    /\ pc' = [pc EXCEPT ![w] = "decide"]
    /\ UNCHANGED <<jobVars, lastError, logVars, brokerVars, stale>>
    /\ WorkerFrame

(* The data client sends its request without a timeout.                    *)
FetchHangs(w) ==
    /\ CanHang
    /\ pc[w] = "fetch"
    /\ pc' = [pc EXCEPT ![w] = "hung"]
    /\ UNCHANGED <<jobVars, lastError, logVars, brokerVars, stale>>
    /\ WorkerFrame

Decide(w) ==
    /\ pc[w] = "decide"
    /\ \E reply \in ModelReplies:
        decision' = [decision EXCEPT
            ![w] = DecisionFromReply(reply, Watchlist[item[w]])]
    /\ pc' = [pc EXCEPT ![w] = "insert"]
    /\ UNCHANGED <<item, phase, row, failed, lastError, logVars, brokerVars,
                   stale>>
    /\ WorkerFrame

(* DecisionLog.record, its execute and its commit.  The row's id is this   *)
(* cursor's lastrowid: record reads it after the commit, where it is still *)
(* what this INSERT left there.                                            *)
InsertRow(w) ==
    /\ pc[w] = "insert"
    /\ LogInsert(decision[w])
    /\ row' = [row EXCEPT ![w] = Len(rows) + 1]
    /\ pc' = [pc EXCEPT ![w] = "commit"]
    /\ UNCHANGED <<item, phase, decision, failed, lastError, brokerVars, stale>>
    /\ WorkerFrame

CommitRow(w) ==
    /\ pc[w] = "commit"
    /\ LogCommit
    /\ pc' = [pc EXCEPT ![w] = "gate"]
    /\ UNCHANGED <<jobVars, lastError, brokerVars, stale>>
    /\ WorkerFrame

(* The instrument is done with, with a CycleResult or with a CycleError.   *)
NextInstrument(w, isError) ==
    /\ item' = [item EXCEPT ![w] = @ + 1]
    /\ pc' = [pc EXCEPT ![w] = AtItem(item[w] + 1)]
    /\ decision' = [decision EXCEPT ![w] = NoDecision]
    /\ row' = [row EXCEPT ![w] = 0]
    /\ failed' = [failed EXCEPT ![w] = @ \/ isError]
    /\ UNCHANGED <<phase, lastError, stale>>
    /\ WorkerFrame

(* Mutant: a failing instrument is tried again, for ever.                  *)
MutantInstrumentFails(w) ==
    /\ pc[w] \in {"fetch", "decide", "insert"}
    /\ pc' = [pc EXCEPT ![w] = "fetch"]
    /\ UNCHANGED <<jobVars, lastError, logVars, brokerVars, stale>>
    /\ WorkerFrame

(* Anything raised before the commit: the provider, the structure code,    *)
(* the reasoner, or the INSERT.                                            *)
InstrumentFails(w) ==
    /\ pc[w] \in {"fetch", "decide", "insert"}
    /\ NextInstrument(w, TRUE)
    /\ UNCHANGED <<logVars, brokerVars>>

(* Mutant: the failing commit is swallowed and the decision acted on.      *)
MutantCommitRowFails(w) ==
    /\ pc[w] = "commit"
    /\ \E error \in CommitErrors: LogCommitFails(error)
    /\ pc' = [pc EXCEPT ![w] = "gate"]
    /\ UNCHANGED <<jobVars, lastError, brokerVars, stale>>
    /\ WorkerFrame

CommitRowFails(w) ==
    /\ pc[w] = "commit"
    /\ \E error \in CommitErrors: LogCommitFails(error)
    /\ NextInstrument(w, TRUE)
    /\ UNCHANGED brokerVars

-----------------------------------------------------------------------------
(* ExecutionGate.handle, and PaperBroker behind it.                        *)

AtGate(w, action) == pc[w] = "gate" /\ decision[w].action = action

NothingToExecute(w) ==
    /\ AtGate(w, "hold") \/ AtGate(w, "no_trade")
    /\ NextInstrument(w, FALSE)
    /\ UNCHANGED <<logVars, brokerVars>>

PendingConfirmation(w) ==
    /\ AtGate(w, "enter") \/ AtGate(w, "exit")
    /\ phase[w] = "semi_auto"
    /\ NextInstrument(w, FALSE)
    /\ UNCHANGED <<logVars, brokerVars>>

(* Whether require_live_trading_enabled lets an order pass: it asks the    *)
(* settings of the cycle, whose phase is the override's.                   *)
PassesLiveGate(w) ==
    phase[w] = "autonomous" /\ LiveTradingEnabled(phase[w], env.confirmed)

(* What dashboard() says of that: the settings of the environment, which   *)
(* know no override.                                                       *)
LiveIsShown == LiveTradingEnabled(env.phase, env.confirmed)

(* It raises, or NotImplementedError does.                                 *)
LiveOrderRaises(w) ==
    /\ AtGate(w, "enter") \/ AtGate(w, "exit")
    /\ phase[w] = "autonomous"
    /\ NextInstrument(w, TRUE)
    /\ UNCHANGED <<logVars, brokerVars>>

(* Mutant: the gate does not ask for the phase.                            *)
MutantAtBroker(w, action) == AtGate(w, action)

AtBroker(w, action) == AtGate(w, action) /\ IsPaper(phase[w])

(* "rejected": a duplicate enter, or an exit with nothing to exit.         *)
BrokerRejects(w) ==
    /\ \/ AtBroker(w, "enter") /\ HasPosition(decision[w].instrument)
       \/ AtBroker(w, "exit") /\ ~HasPosition(decision[w].instrument)
    /\ NextInstrument(w, FALSE)
    /\ UNCHANGED <<logVars, brokerVars>>

EnterUnpriced(w) ==
    /\ AtBroker(w, "enter")
    /\ ~HasPosition(decision[w].instrument)
    /\ ~decision[w].priced
    /\ NextInstrument(w, TRUE)
    /\ UNCHANGED <<logVars, brokerVars>>

(* Mutant: _enter does not look for an open position.                      *)
MutantEnterChecked(w) ==
    /\ AtBroker(w, "enter")
    /\ decision[w].priced
    /\ pc' = [pc EXCEPT ![w] = "store"]
    /\ UNCHANGED <<jobVars, lastError, logVars, brokerVars, stale>>
    /\ WorkerFrame

(* _enter found no position; the assignment is a step of its own.          *)
EnterChecked(w) ==
    /\ AtBroker(w, "enter")
    /\ ~HasPosition(decision[w].instrument)
    /\ decision[w].priced
    /\ pc' = [pc EXCEPT ![w] = "store"]
    /\ UNCHANGED <<jobVars, lastError, logVars, brokerVars, stale>>
    /\ WorkerFrame

EnterStores(w) ==
    /\ pc[w] = "store"
    /\ OpenPosition(decision[w].instrument, row[w])
    /\ NextInstrument(w, FALSE)
    /\ UNCHANGED logVars

Exit(w) ==
    /\ AtBroker(w, "exit")
    /\ HasPosition(decision[w].instrument)
    /\ ClosePosition(decision[w].instrument)
    /\ NextInstrument(w, FALSE)
    /\ UNCHANGED logVars

(* run_once assigns last_error and returns.                                *)
FinishCycle(w) ==
    /\ pc[w] = "finish"
    /\ lastError' = failed[w]
    /\ pc' = [pc EXCEPT ![w] = Resting(w)]
    /\ item' = [item EXCEPT ![w] = 0]
    /\ phase' = [phase EXCEPT ![w] = NoPhase]
    /\ failed' = [failed EXCEPT ![w] = FALSE]
    /\ stale' = stale \ {w}
    /\ UNCHANGED <<decision, row, logVars, brokerVars>>
    /\ WorkerFrame

-----------------------------------------------------------------------------
(* POST /phase: PhaseStore.set_phase, its execute and its commit.          *)

PhaseFrame == UNCHANGED <<logVars, brokerVars, appVars, jobVars, lastError,
                          pc, cycles, boots>>

(* Who is in a cycle that read the phase before paper was left.            *)
MarkStale ==
    stale' = CASE EffectivePhase' = "paper" -> {}
               [] EffectivePhase = "paper" /\ EffectivePhase' # "paper" ->
                    {w \in Workers: InCycle(w) /\ pc[w] # "phase"}
               [] OTHER -> stale

SetPhaseWrites(t) ==
    /\ mode = "up"
    /\ setting[t] = NoPhase
    /\ phaseChanges < MaxPhaseChanges
    /\ phaseChanges' = phaseChanges + 1
    /\ \E p \in Phases: WritePhase(p) /\ setting' = [setting EXCEPT ![t] = p]
    /\ newest' = {t}
    /\ acknowledged' = NoPhase
    /\ PhaseFrame
    /\ MarkStale

(* The commit succeeds and the browser is redirected.                      *)
SetPhaseCommits(t) ==
    /\ setting[t] # NoPhase
    /\ CommitPhase
    /\ acknowledged' = IF t \in newest THEN setting[t] ELSE acknowledged
    /\ setting' = [setting EXCEPT ![t] = NoPhase]
    /\ newest' = newest \ {t}
    /\ UNCHANGED <<phaseChanges, stale>>
    /\ PhaseFrame

(* The commit raises: the request is answered with a server error.         *)
SetPhaseCommitFails(t) ==
    /\ setting[t] # NoPhase
    /\ \E error \in CommitErrors: CommitPhaseFails(error)
    /\ setting' = [setting EXCEPT ![t] = NoPhase]
    /\ newest' = newest \ {t}
    /\ UNCHANGED <<phaseChanges, acknowledged>>
    /\ PhaseFrame
    /\ MarkStale

-----------------------------------------------------------------------------
AtTheGate(w) ==
    \/ NothingToExecute(w) \/ PendingConfirmation(w) \/ LiveOrderRaises(w)
    \/ BrokerRejects(w) \/ EnterUnpriced(w) \/ EnterChecked(w)
    \/ EnterStores(w) \/ Exit(w)

WorkerStep(w) ==
    \/ ReadPhase(w) \/ ReadPhaseFails(w) \/ Fetch(w) \/ FetchHangs(w)
    \/ Decide(w) \/ InsertRow(w) \/ CommitRow(w) \/ CommitRowFails(w)
    \/ InstrumentFails(w) \/ AtTheGate(w) \/ FinishCycle(w)

LoopStep == LoopBegins \/ LoopExits \/ LoopWakes

PhaseRequestStep(t) ==
    \/ SetPhaseWrites(t) \/ SetPhaseCommits(t) \/ SetPhaseCommitFails(t)

Next ==
    \/ Boot \/ Stop \/ Crash \/ LoopStep
    \/ \E w \in RunNowThreads: RunNow(w)
    \/ \E w \in Workers: WorkerStep(w)
    \/ \E t \in PhaseThreads: PhaseRequestStep(t)

(* Threads the operating system runs keep running; requests, shutdowns and *)
(* restarts are the operator's and the host's, and may never come.         *)
Fairness ==
    /\ WF_vars(LoopStep)
    /\ \A w \in Workers: WF_vars(WorkerStep(w))

Spec == Init /\ [][Next]_vars

FairSpec == Spec /\ Fairness
=============================================================================

-------------------------- MODULE Scheduler_proofs --------------------------
(***************************************************************************)
(* Theorems about CycleScheduler, for every set of threads, watchlist and  *)
(* bound, with the inductive invariants they need.                         *)
(***************************************************************************)
EXTENDS SchedulerProperties, SequenceTheorems, TLAPS

(* The committed rows are a prefix of the table.                           *)
DurableIsPrefix == durable <= Len(rows)

TypeInv == TypeOK /\ DurableIsPrefix

-----------------------------------------------------------------------------
(* What _decision_from_tool_input builds for a watched instrument is a     *)
(* Decision about a known instrument.                                      *)
LEMMA DecisionFromReplyType ==
    ASSUME NEW reply \in Replies, NEW i \in Instruments
    PROVE  DecisionFromReply(reply, i) \in Decisions
BY SMT DEF DecisionFromReply, Replies, Decisions

(* The log's operations keep it a sequence of decisions with a committed   *)
(* prefix.                                                                 *)
LEMMA LogTypePreserved ==
    ASSUME LogTypeOK, DurableIsPrefix,
           \/ \E d \in Decisions: LogInsert(d)
           \/ LogCommit
           \/ \E error \in CommitErrors: LogCommitFails(error)
           \/ LogCrash
    PROVE  LogTypeOK' /\ DurableIsPrefix'
<1> USE DEF LogTypeOK, DurableIsPrefix
<1>1. Len(rows) \in Nat
  BY LenProperties
<1>2. ASSUME NEW d \in Decisions, LogInsert(d)
      PROVE  LogTypeOK' /\ DurableIsPrefix'
  BY <1>1, <1>2, AppendProperties DEF LogInsert
<1>3. CASE LogCommit
  BY <1>1, <1>3 DEF LogCommit
<1>4. SubSeq(rows, 1, durable) \in Seq(Decisions)
      /\ Len(SubSeq(rows, 1, durable)) = durable
  <2>1. /\ 1 \in 1 .. Len(rows) + 1
        /\ durable \in 0 .. Len(rows)
    BY <1>1
  <2>2. \A k \in 1 .. durable: k \in 1 .. Len(rows)
    BY <1>1
  <2> QED
    BY <1>1, <2>1, <2>2, SubSeqProperties
<1>5. CASE \E error \in CommitErrors: LogCommitFails(error)
  BY <1>4, <1>5 DEF LogCommitFails
<1>6. CASE LogCrash
  BY <1>4, <1>6 DEF LogCrash
<1> QED
  BY <1>2, <1>3, <1>5, <1>6

(* Moving on to the next instrument leaves the thread's locals in order.   *)
LEMMA NextInstrumentType ==
    ASSUME TypeOK, NEW w \in Workers, NEW isError \in BOOLEAN,
           pc[w] \in InstrumentSteps, NextInstrument(w, isError),
           LogTypeOK', BrokerTypeOK'
    PROVE  TypeOK'
<1> USE DEF TypeOK
<1>1. item[w] \in Nat /\ item[w] + 1 \in Nat /\ item[w] \in 1 .. Len(Watchlist)
  BY DEF LocalsOK
<1>2. AtItem(item[w] + 1) \in {"fetch", "finish"}
  BY DEF AtItem
<1>3. AtItem(item[w] + 1) = "fetch" => item[w] + 1 \in 1 .. Len(Watchlist)
  BY <1>1, ConstantsAssumption, LenProperties DEF AtItem
<1>4. /\ pc' \in [Workers -> PCs] /\ item' \in [Workers -> Nat]
      /\ decision' \in [Workers -> Decisions \cup {NoDecision}]
      /\ row' \in [Workers -> Nat] /\ failed' \in [Workers -> BOOLEAN]
      /\ phase' \in [Workers -> Phases \cup {NoPhase}]
      /\ stale' \subseteq Workers /\ lastError' \in BOOLEAN
  BY <1>1, <1>2 DEF NextInstrument, PCs, CycleSteps
<1>5. ASSUME NEW v \in Workers PROVE LocalsOK(v)'
  <2>1. CASE v = w
    BY <1>1, <1>2, <1>3, <2>1 DEF NextInstrument, LocalsOK, InstrumentSteps, CycleSteps
  <2>2. CASE v # w
    BY <2>2 DEF NextInstrument, LocalsOK
  <2> QED BY <2>1, <2>2
<1> QED
  BY <1>4, <1>5 DEF NextInstrument, WorkerFrame, phaseStoreVars, appVars,
     requestVars, PhaseStoreTypeOK

-----------------------------------------------------------------------------
(* A process that was never started satisfies the typing invariant.        *)
LEMMA TypeInit == Init => TypeInv
<1> SUFFICES ASSUME Init PROVE TypeInv
  OBVIOUS
<1>1. LogTypeOK /\ DurableIsPrefix
  BY EmptySeq DEF Init, LogInit, LogTypeOK, DurableIsPrefix
<1>2. PhaseStoreTypeOK /\ BrokerTypeOK
  BY DEF Init, PhaseStoreInit, PhaseStoreTypeOK, BrokerInit, BrokerTypeOK, Flat
<1>3. \A w \in Workers: LocalsOK(w)
  BY DEF Init, LocalsOK, InstrumentSteps, CycleSteps
<1> QED
  BY <1>1, <1>2, <1>3, ConstantsAssumption
  DEF Init, TypeInv, TypeOK, PCs, CycleSteps

(* The process and its loop thread between cycles.                         *)
LEMMA TypeProcess ==
    ASSUME TypeInv,
           \/ Boot \/ Stop \/ Crash \/ LoopStep
           \/ \E w \in RunNowThreads: RunNow(w)
    PROVE  TypeInv'
<1> USE DEF TypeInv, TypeOK
<1> USE ConstantsAssumption
<1>1. CASE Boot
  <2>1. env' \in Settings
    BY <1>1 DEF Boot
  <2>2. /\ mode' = "up" /\ schedulerError' = ~env'.credentials /\ boots' \in Nat
        /\ pc' \in [Workers -> PCs]
        /\ \A w \in Workers: pc'[w] = pc[w] \/ pc'[w] \in {"top", "off"}
    BY <1>1 DEF Boot, Workers, PCs, CycleSteps
  <2>3. schedulerError' \in BOOLEAN
    BY <2>1, <2>2 DEF Settings
  <2>4. \A w \in Workers: LocalsOK(w)'
    BY <1>1, <2>2 DEF Boot, jobVars, LocalsOK, InstrumentSteps, CycleSteps
  <2> QED
    BY <1>1, <2>1, <2>2, <2>3, <2>4
    DEF Boot, logVars, phaseStoreVars, brokerVars, jobVars, requestVars,
        LogTypeOK, DurableIsPrefix, PhaseStoreTypeOK, BrokerTypeOK
<1>2. CASE Stop
  BY <1>2
  DEF Stop, logVars, phaseStoreVars, brokerVars, jobVars, requestVars, LocalsOK,
      LogTypeOK, DurableIsPrefix, PhaseStoreTypeOK, BrokerTypeOK
<1>3. CASE Crash
  <2>1. LogTypeOK' /\ DurableIsPrefix'
    BY <1>3, LogTypePreserved DEF Crash
  <2>2. PhaseStoreTypeOK' /\ BrokerTypeOK'
    BY <1>3 DEF Crash, PhaseStoreCrash, PhaseStoreTypeOK, BrokerCrash, BrokerTypeOK, Flat
  <2>3. \A w \in Workers: LocalsOK(w)'
    BY <1>3 DEF Crash, LocalsOK, InstrumentSteps, CycleSteps
  <2> QED
    BY <1>3, <2>1, <2>2, <2>3 DEF Crash, PCs, CycleSteps
<1>4. ASSUME NEW w \in Workers, BeginCycle(w)
      PROVE  TypeInv'
  <2>1. \A v \in Workers: LocalsOK(v)'
    BY <1>4 DEF BeginCycle, jobVars, LocalsOK, InstrumentSteps, CycleSteps
  <2> QED
    BY <1>4, <2>1
    DEF BeginCycle, logVars, phaseStoreVars, brokerVars, appVars, jobVars, requestVars,
        LogTypeOK, DurableIsPrefix, PhaseStoreTypeOK, BrokerTypeOK, PCs, CycleSteps
<1>5. ASSUME NEW from, NEW to \in {"off", "top"}, LoopMoves(from, to)
      PROVE  TypeInv'
  <2>1. \A v \in Workers: LocalsOK(v)'
    BY <1>5 DEF LoopMoves, jobVars, LocalsOK, InstrumentSteps, CycleSteps, Workers
  <2> QED
    BY <1>5, <2>1, ZenonT(30)
    DEF LoopMoves, logVars, phaseStoreVars, brokerVars, appVars, jobVars, requestVars,
        LogTypeOK, DurableIsPrefix, PhaseStoreTypeOK, BrokerTypeOK, PCs, CycleSteps
<1>6. Loop \in Workers /\ RunNowThreads \subseteq Workers
  BY DEF Workers
<1> QED
  BY <1>1, <1>2, <1>3, <1>4, <1>5, <1>6
  DEF LoopStep, LoopBegins, LoopExits, LoopWakes, RunNow

(* A step of a cycle before the gate.                                      *)
LEMMA TypeCycle ==
    ASSUME TypeInv, NEW w \in Workers,
           \/ ReadPhase(w) \/ ReadPhaseFails(w) \/ Fetch(w) \/ FetchHangs(w)
           \/ Decide(w) \/ InsertRow(w) \/ CommitRow(w) \/ CommitRowFails(w)
           \/ InstrumentFails(w) \/ FinishCycle(w)
    PROVE  TypeInv'
<1> USE DEF TypeInv, TypeOK
<1> USE ConstantsAssumption
<1>1. CASE ReadPhase(w)
  <2>1. EffectivePhase \in Phases
    BY DEF EffectivePhase, GetPhase, PhaseStoreTypeOK, Settings
  <2>2. AtItem(1) \in {"fetch", "finish"}
        /\ (AtItem(1) = "fetch" => 1 \in 1 .. Len(Watchlist))
    BY LenProperties DEF AtItem
  <2>3. ASSUME NEW v \in Workers PROVE LocalsOK(v)'
    <3>1. CASE v = w
      BY <1>1, <2>1, <2>2, <3>1 DEF ReadPhase, LocalsOK, InstrumentSteps, CycleSteps
    <3>2. CASE v # w
      BY <1>1, <3>2 DEF ReadPhase, LocalsOK
    <3> QED BY <3>1, <3>2
  <2> QED
    BY <1>1, <2>1, <2>2, <2>3
    DEF ReadPhase, WorkerFrame, logVars, phaseStoreVars, brokerVars, appVars, requestVars,
        LogTypeOK, DurableIsPrefix, PhaseStoreTypeOK, BrokerTypeOK, PCs, CycleSteps
<1>2. CASE ReadPhaseFails(w)
  <2>1. Resting(w) \in {"sleep", "off"}
    BY DEF Resting
  <2>2. \A v \in Workers: LocalsOK(v)'
    BY <1>2, <2>1 DEF ReadPhaseFails, jobVars, LocalsOK, InstrumentSteps, CycleSteps
  <2>3. lastError' \in BOOLEAN /\ schedulerError' \in BOOLEAN
    BY <1>2 DEF ReadPhaseFails
  <2> QED
    BY <1>2, <2>1, <2>2, <2>3
    DEF ReadPhaseFails, logVars, phaseStoreVars, brokerVars, jobVars, requestVars,
        LogTypeOK, DurableIsPrefix, PhaseStoreTypeOK, BrokerTypeOK, PCs, CycleSteps
<1>3. CASE Fetch(w) \/ FetchHangs(w)
  <2>1. \A v \in Workers: LocalsOK(v)'
    BY <1>3 DEF Fetch, FetchHangs, jobVars, LocalsOK, InstrumentSteps, CycleSteps
  <2> QED
    BY <1>3, <2>1
    DEF Fetch, FetchHangs, WorkerFrame, logVars, phaseStoreVars, brokerVars, appVars,
        jobVars, requestVars,
        LogTypeOK, DurableIsPrefix, PhaseStoreTypeOK, BrokerTypeOK, PCs, CycleSteps
<1>4. CASE Decide(w)
  <2>1. item[w] \in 1 .. Len(Watchlist) /\ phase[w] \in Phases
    BY <1>4 DEF Decide, LocalsOK, InstrumentSteps, CycleSteps
  <2>2. Watchlist[item[w]] \in Instruments
    BY <2>1, ElementOfSeq
  <2>3. decision'[w] \in Decisions /\ decision' \in [Workers -> Decisions \cup {NoDecision}]
    BY <1>4, <2>2, DecisionFromReplyType DEF Decide
  <2>4. ASSUME NEW v \in Workers PROVE LocalsOK(v)'
    <3>1. CASE v = w
      BY <1>4, <2>1, <2>3, <3>1 DEF Decide, LocalsOK
    <3>2. CASE v # w
      BY <1>4, <3>2 DEF Decide, LocalsOK
    <3> QED BY <3>1, <3>2
  <2> QED
    BY <1>4, <2>3, <2>4
    DEF Decide, WorkerFrame, logVars, phaseStoreVars, brokerVars, appVars, requestVars,
        LogTypeOK, DurableIsPrefix, PhaseStoreTypeOK, BrokerTypeOK, PCs, CycleSteps
<1>5. CASE InsertRow(w)
  <2>1. decision[w] \in Decisions
    BY <1>5 DEF InsertRow, LocalsOK
  <2>2. LogTypeOK' /\ DurableIsPrefix'
    BY <1>5, <2>1, LogTypePreserved DEF InsertRow
  <2>3. Len(rows) + 1 \in Nat \ {0}
    BY LenProperties DEF LogTypeOK
  <2>4. \A v \in Workers: LocalsOK(v)'
    BY <1>5, <2>3 DEF InsertRow, LocalsOK, InstrumentSteps, CycleSteps
  <2> QED
    BY <1>5, <2>2, <2>3, <2>4
    DEF InsertRow, WorkerFrame, phaseStoreVars, brokerVars, appVars, requestVars,
        PhaseStoreTypeOK, BrokerTypeOK, PCs, CycleSteps
<1>6. CASE CommitRow(w)
  <2>1. LogTypeOK' /\ DurableIsPrefix'
    BY <1>6, LogTypePreserved DEF CommitRow
  <2>2. \A v \in Workers: LocalsOK(v)'
    BY <1>6 DEF CommitRow, jobVars, LocalsOK, InstrumentSteps, CycleSteps
  <2> QED
    BY <1>6, <2>1, <2>2
    DEF CommitRow, WorkerFrame, phaseStoreVars, brokerVars, appVars, jobVars, requestVars,
        PhaseStoreTypeOK, BrokerTypeOK, PCs, CycleSteps
<1>7. CASE CommitRowFails(w)
  <2>1. LogTypeOK' /\ DurableIsPrefix'
    BY <1>7, LogTypePreserved DEF CommitRowFails
  <2> QED
    BY <1>7, <2>1, NextInstrumentType
    DEF CommitRowFails, brokerVars, BrokerTypeOK, InstrumentSteps, CycleSteps
<1>8. CASE InstrumentFails(w)
  BY <1>8, NextInstrumentType
  DEF InstrumentFails, logVars, brokerVars, LogTypeOK, DurableIsPrefix, BrokerTypeOK,
      InstrumentSteps, CycleSteps
<1>9. CASE FinishCycle(w)
  <2>1. Resting(w) \in {"sleep", "off"}
    BY DEF Resting
  <2>2. \A v \in Workers: LocalsOK(v)'
    BY <1>9, <2>1 DEF FinishCycle, LocalsOK, InstrumentSteps, CycleSteps
  <2> QED
    BY <1>9, <2>1, <2>2
    DEF FinishCycle, WorkerFrame, logVars, phaseStoreVars, brokerVars, appVars, requestVars,
        LogTypeOK, DurableIsPrefix, PhaseStoreTypeOK, BrokerTypeOK, PCs, CycleSteps
<1> QED
  BY <1>1, <1>2, <1>3, <1>4, <1>5, <1>6, <1>7, <1>8, <1>9

(* A step of the gate or of the broker behind it.                          *)
LEMMA TypeGate ==
    ASSUME TypeInv, NEW w \in Workers, AtTheGate(w)
    PROVE  TypeInv'
<1> USE DEF TypeInv
<1>1. pc[w] \in {"gate", "store"} /\ pc[w] \in InstrumentSteps
  BY DEF AtTheGate, NothingToExecute, PendingConfirmation, LiveOrderRaises, BrokerRejects,
     EnterUnpriced, EnterChecked, EnterStores, Exit, AtBroker, AtGate,
     InstrumentSteps, CycleSteps
<1>2. decision[w].instrument \in Instruments /\ row[w] \in Nat
  BY <1>1 DEF TypeOK, LocalsOK, Decisions
<1>3. CASE EnterChecked(w)
  <2>1. \A v \in Workers: LocalsOK(v)'
    BY <1>3 DEF TypeOK, EnterChecked, AtBroker, AtGate, jobVars, LocalsOK,
       InstrumentSteps, CycleSteps
  <2> QED
    BY <1>3, <2>1
    DEF TypeOK, EnterChecked, WorkerFrame, logVars, phaseStoreVars, brokerVars, appVars,
        jobVars, requestVars,
        LogTypeOK, DurableIsPrefix, PhaseStoreTypeOK, BrokerTypeOK, PCs, CycleSteps
<1>4. ASSUME UNCHANGED logVars
      PROVE  LogTypeOK' /\ DurableIsPrefix'
  BY <1>4 DEF TypeOK, logVars, LogTypeOK, DurableIsPrefix
<1>5. ASSUME NEW isError \in BOOLEAN, NextInstrument(w, isError), UNCHANGED logVars,
             \/ UNCHANGED brokerVars
             \/ OpenPosition(decision[w].instrument, row[w])
             \/ ClosePosition(decision[w].instrument)
      PROVE  TypeInv'
  <2>1. BrokerTypeOK'
    <3>1. positions \in [Instruments -> Nat] /\ closed \subseteq Nat
      BY DEF TypeOK, BrokerTypeOK
    <3>2. CASE UNCHANGED brokerVars
      BY <3>1, <3>2 DEF brokerVars, BrokerTypeOK
    <3>3. CASE OpenPosition(decision[w].instrument, row[w])
      BY <1>2, <3>1, <3>3 DEF BrokerTypeOK, OpenPosition
    <3>4. CASE ClosePosition(decision[w].instrument)
      <4>1. positions[decision[w].instrument] \in Nat
        BY <1>2, <3>1
      <4> QED
        BY <3>1, <3>4, <4>1 DEF BrokerTypeOK, ClosePosition, Flat
    <3> QED
      BY <1>5, <3>2, <3>3, <3>4
  <2> QED
    BY <1>1, <1>4, <1>5, <2>1, NextInstrumentType
<1> QED
  BY <1>3, <1>5
  DEF AtTheGate, NothingToExecute, PendingConfirmation, LiveOrderRaises, BrokerRejects,
      EnterUnpriced, EnterStores, Exit

(* A step of POST /phase.                                                  *)
LEMMA TypePhaseRequest ==
    ASSUME TypeInv, NEW t \in PhaseThreads, PhaseRequestStep(t)
    PROVE  TypeInv'
<1> USE DEF TypeInv, TypeOK
<1>1. PhaseStoreTypeOK'
  BY DEF PhaseRequestStep, SetPhaseWrites, SetPhaseCommits, SetPhaseCommitFails,
     WritePhase, CommitPhase, CommitPhaseFails, PhaseStoreTypeOK
<1>2. /\ PhaseFrame
      /\ setting' \in [PhaseThreads -> Phases \cup {NoPhase}]
      /\ phaseChanges' \in Nat /\ newest' \subseteq PhaseThreads
      /\ acknowledged' \in Phases \cup {NoPhase}
  BY DEF PhaseRequestStep, SetPhaseWrites, SetPhaseCommits, SetPhaseCommitFails
<1>3. stale' \subseteq Workers
  BY DEF PhaseRequestStep, SetPhaseWrites, SetPhaseCommits, SetPhaseCommitFails, MarkStale
<1>4. \A w \in Workers: LocalsOK(w)'
  BY <1>2 DEF PhaseFrame, jobVars, LocalsOK
<1> QED
  BY <1>1, <1>2, <1>3, <1>4
  DEF PhaseFrame, logVars, brokerVars, appVars, jobVars,
      LogTypeOK, DurableIsPrefix, BrokerTypeOK

(* Every step of Next preserves the typing invariant.                      *)
LEMMA TypeNext == TypeInv /\ [Next]_vars => TypeInv'
<1> SUFFICES ASSUME TypeInv, [Next]_vars PROVE TypeInv'
  OBVIOUS
<1>1. CASE UNCHANGED vars
  BY <1>1 DEF vars, TypeInv, TypeOK, LocalsOK, LogTypeOK, DurableIsPrefix,
     PhaseStoreTypeOK, BrokerTypeOK
<1>2. CASE Next
  BY <1>2, TypeProcess, TypeCycle, TypeGate, TypePhaseRequest DEF Next, WorkerStep
<1> QED BY <1>1, <1>2

(* The typing invariant, with the committed prefix, holds for ever.        *)
LEMMA TypeInvariant == Spec => []TypeInv
BY TypeInit, TypeNext, PTL DEF Spec

(* Every variable keeps its type, and a thread's locals are set when a     *)
(* step of its cycle reads them.                                           *)
THEOREM TypeCorrect == Spec => []TypeOK
<1>1. TypeInv => TypeOK
  BY DEF TypeInv
<1> QED BY <1>1, TypeInvariant, PTL

-----------------------------------------------------------------------------
(* Every step uses the log through one of its operations.                  *)
LEMMA LogSteps ==
    ASSUME TypeInv, [Next]_vars
    PROVE  \/ UNCHANGED logVars
           \/ \E d \in Decisions: LogInsert(d)
           \/ LogCommit
           \/ \E error \in CommitErrors: LogCommitFails(error)
           \/ LogCrash
<1>1. CASE UNCHANGED vars
  BY <1>1 DEF vars, logVars
<1>2. CASE Boot \/ Stop \/ Crash \/ LoopStep
  BY <1>2 DEF Boot, Stop, Crash, LoopStep, LoopBegins, LoopExits, LoopWakes, BeginCycle,
     LoopMoves
<1>3. CASE \E w \in RunNowThreads: RunNow(w)
  BY <1>3 DEF RunNow, BeginCycle
<1>4. ASSUME NEW w \in Workers, WorkerStep(w)
      PROVE  \/ UNCHANGED logVars
             \/ \E d \in Decisions: LogInsert(d)
             \/ LogCommit
             \/ \E error \in CommitErrors: LogCommitFails(error)
  <2>1. InsertRow(w) => decision[w] \in Decisions
    BY DEF InsertRow, TypeInv, TypeOK, LocalsOK
  <2>2. CASE AtTheGate(w)
    BY <2>2 DEF AtTheGate, NothingToExecute, PendingConfirmation, LiveOrderRaises,
       BrokerRejects, EnterUnpriced, EnterChecked, EnterStores, Exit
  <2> QED
    BY <1>4, <2>1, <2>2
    DEF WorkerStep, ReadPhase, ReadPhaseFails, Fetch, FetchHangs, Decide, InsertRow,
        CommitRow, CommitRowFails, InstrumentFails, FinishCycle
<1>5. CASE \E t \in PhaseThreads: PhaseRequestStep(t)
  BY <1>5 DEF PhaseRequestStep, SetPhaseWrites, SetPhaseCommits, SetPhaseCommitFails,
     PhaseFrame
<1> QED BY <1>1, <1>2, <1>3, <1>4, <1>5 DEF Next

(* What the log's operations do to the committed rows.                     *)
LEMMA CommittedRowsStay ==
    ASSUME LogTypeOK, DurableIsPrefix,
           \/ UNCHANGED logVars
           \/ \E d \in Decisions: LogInsert(d)
           \/ LogCommit
           \/ \E error \in CommitErrors: LogCommitFails(error)
           \/ LogCrash
    PROVE  /\ durable' >= durable
           /\ Len(rows') >= durable
           /\ \A id \in 1 .. durable: rows'[id] = rows[id]
<1> USE DEF LogTypeOK, DurableIsPrefix
<1>1. Len(rows) \in Nat
  BY LenProperties
<1>2. ASSUME NEW d \in Decisions, LogInsert(d)
      PROVE  /\ durable' >= durable
             /\ Len(rows') >= durable
             /\ \A id \in 1 .. durable: rows'[id] = rows[id]
  BY <1>1, <1>2, AppendProperties DEF LogInsert
<1>3. /\ Len(SubSeq(rows, 1, durable)) = durable
      /\ \A id \in 1 .. durable: SubSeq(rows, 1, durable)[id] = rows[id]
  <2>1. \A k \in 1 .. durable: rows[k] \in Decisions
    BY <1>1, ElementOfSeq
  <2>2. /\ Len(SubSeq(rows, 1, durable)) = IF 1 <= durable THEN durable - 1 + 1 ELSE 0
        /\ \A id \in 1 .. durable - 1 + 1:
             SubSeq(rows, 1, durable)[id] = rows[1 + id - 1]
    BY <2>1, SubSeqProperties
  <2> QED
    BY <2>2
<1>4. CASE UNCHANGED logVars \/ LogCommit
  BY <1>1, <1>4 DEF logVars, LogCommit
<1>5. CASE LogCrash \/ \E error \in CommitErrors: LogCommitFails(error)
  BY <1>1, <1>3, <1>5 DEF LogCrash, LogCommitFails
<1> QED BY <1>2, <1>4, <1>5

(* The audit trail only grows: a committed decision is never changed or    *)
(* lost, whatever fails afterwards.                                        *)
THEOREM AuditTrailCorrect == Spec => AuditTrailIsAppendOnly
<1>1. TypeInv /\ [Next]_vars =>
        [ /\ durable' >= durable
          /\ Len(rows') >= durable
          /\ \A id \in 1 .. durable: rows'[id] = rows[id] ]_vars
  <2> SUFFICES ASSUME TypeInv, [Next]_vars
               PROVE  /\ durable' >= durable
                      /\ Len(rows') >= durable
                      /\ \A id \in 1 .. durable: rows'[id] = rows[id]
    OBVIOUS
  <2>1. LogTypeOK /\ DurableIsPrefix
    BY DEF TypeInv, TypeOK
  <2> QED
    BY <2>1, LogSteps, CommittedRowsStay
<1> QED
  BY <1>1, TypeInvariant, PTL DEF Spec, AuditTrailIsAppendOnly

-----------------------------------------------------------------------------
(* Fills and the audit trail.  A worker holds a row from its INSERT until  *)
(* it is done with the instrument; what makes the safety of a fill         *)
(* inductive is that rows held are rows of the table, distinct from each   *)
(* other and from every position ever opened.                              *)
Holding(w) == pc[w] \in {"commit", "gate", "store"}

HeldRowOK(w) ==
    /\ row[w] \in 1 .. Len(rows)
    /\ rows[row[w]] = decision[w]
    /\ row[w] \notin closed
    /\ \A i \in Instruments: positions[i] # row[w]
    /\ pc[w] # "commit" => row[w] <= durable
    /\ pc[w] = "store" => decision[w].action = "enter"

PositionOK(i) ==
    HasPosition(i) =>
        /\ positions[i] \in 1 .. durable
        /\ rows[positions[i]].action = "enter"
        /\ rows[positions[i]].instrument = i
        /\ positions[i] \notin closed

FillInv ==
    /\ \A i \in Instruments: PositionOK(i)
    /\ \A i, j \in Instruments:
        HasPosition(i) /\ positions[i] = positions[j] => i = j
    /\ closed \subseteq 1 .. durable
    /\ \A w \in Workers: Holding(w) => HeldRowOK(w)
    /\ \A v, w \in Workers:
        Holding(v) /\ Holding(w) /\ row[v] = row[w] => v = w

(* A rollback takes the pending rows of every thread with it, so that      *)
(* either no commit ends in one or a single thread runs cycles.            *)
NoRollbackRace == "rollback" \notin CommitErrors \/ RunNowThreads = {}

(* A step that moves neither log nor ledger, and in which a thread comes   *)
(* to hold a row only by passing the duplicate test with an enter.         *)
LEMMA FillQuiet ==
    ASSUME TypeInv, FillInv, UNCHANGED logVars, UNCHANGED brokerVars,
           \A w \in Workers: Holding(w)' =>
               /\ Holding(w) /\ row'[w] = row[w] /\ decision'[w] = decision[w]
               /\ \/ pc'[w] = pc[w]
                  \/ pc[w] = "gate" /\ decision[w].action = "enter"
    PROVE  FillInv'
<1>1. \A i \in Instruments: PositionOK(i)'
  BY DEF FillInv, PositionOK, HasPosition, Flat, logVars, brokerVars
<1>2. \A w \in Workers: Holding(w)' => HeldRowOK(w)'
  <2> TAKE w \in Workers
  <2> HAVE Holding(w)'
  <2>1. /\ Holding(w) /\ row'[w] = row[w] /\ decision'[w] = decision[w]
        /\ \/ pc'[w] = pc[w]
           \/ pc[w] = "gate" /\ decision[w].action = "enter"
    OBVIOUS
  <2>2. HeldRowOK(w)
    BY <2>1 DEF FillInv
  <2> QED
    BY <2>1, <2>2 DEF HeldRowOK, logVars, brokerVars
<1>3. \A v, w \in Workers: Holding(v)' /\ Holding(w)' /\ row'[v] = row'[w] => v = w
  BY DEF FillInv
<1> QED
  BY <1>1, <1>2, <1>3 DEF FillInv, HasPosition, Flat, logVars, brokerVars

(* The INSERT of record() adds a row that no other thread and no position  *)
(* holds.                                                                  *)
LEMMA FillInsert ==
    ASSUME TypeInv, FillInv, NEW w \in Workers, InsertRow(w)
    PROVE  FillInv'
<1>1. /\ rows \in Seq(Decisions) /\ Len(rows) \in Nat /\ durable \in Nat
      /\ durable <= Len(rows) /\ decision[w] \in Decisions
      /\ row \in [Workers -> Nat] /\ pc \in [Workers -> PCs]
      /\ positions \in [Instruments -> Nat]
  BY LenProperties DEF TypeInv, TypeOK, LogTypeOK, BrokerTypeOK, DurableIsPrefix, InsertRow,
     LocalsOK
<1>2. /\ rows' = Append(rows, decision[w]) /\ durable' = durable
      /\ row' = [row EXCEPT ![w] = Len(rows) + 1]
      /\ pc' = [pc EXCEPT ![w] = "commit"] /\ decision' = decision
      /\ positions' = positions /\ closed' = closed /\ pc[w] = "insert"
  BY DEF InsertRow, LogInsert, brokerVars
<1>3. /\ Len(rows') = Len(rows) + 1
      /\ \A k \in 1 .. Len(rows): rows'[k] = rows[k]
      /\ rows'[Len(rows) + 1] = decision[w]
  BY <1>1, <1>2, AppendProperties
<1>4. \A i \in Instruments: PositionOK(i)'
  BY <1>1, <1>2, <1>3 DEF FillInv, PositionOK, HasPosition, Flat
<1>5. \A i \in Instruments: positions[i] # Len(rows) + 1
  BY <1>1 DEF FillInv, PositionOK, HasPosition, Flat
<1>6. \A v \in Workers \ {w}: Holding(v)' =>
        /\ Holding(v) /\ HeldRowOK(v) /\ row'[v] = row[v] /\ row[v] \in 1 .. Len(rows)
  BY <1>1, <1>2 DEF FillInv, Holding, HeldRowOK
<1>7. ASSUME NEW v \in Workers, Holding(v)' PROVE HeldRowOK(v)'
  <2>1. CASE v = w
    BY <1>1, <1>2, <1>3, <1>5, <2>1 DEF FillInv, HeldRowOK
  <2>2. CASE v # w
    BY <1>1, <1>2, <1>3, <1>6, <1>7, <2>2 DEF HeldRowOK
  <2> QED BY <2>1, <2>2
<1>8. ASSUME NEW u \in Workers, NEW v \in Workers, Holding(u)', Holding(v)', row'[u] = row'[v]
      PROVE  u = v
  <2>1. row'[w] = Len(rows) + 1
    BY <1>1, <1>2
  <2>2. CASE u # w /\ v # w
    BY <1>6, <1>8, <2>2 DEF FillInv
  <2>3. CASE u = w \/ v = w
    BY <1>1, <1>6, <1>8, <2>1, <2>3
  <2> QED BY <2>2, <2>3
<1> QED
  BY <1>2, <1>4, <1>7, <1>8 DEF FillInv, HasPosition, Flat

(* The commit of record() makes the thread's own row durable before the    *)
(* gate sees it.                                                           *)
LEMMA FillCommit ==
    ASSUME TypeInv, FillInv, NEW w \in Workers, CommitRow(w)
    PROVE  FillInv'
<1>1. /\ Len(rows) \in Nat /\ durable \in Nat /\ durable <= Len(rows)
      /\ pc \in [Workers -> PCs] /\ positions \in [Instruments -> Nat]
  BY LenProperties DEF TypeInv, TypeOK, LogTypeOK, BrokerTypeOK, DurableIsPrefix
<1>2. /\ rows' = rows /\ durable' = Len(rows) /\ row' = row /\ decision' = decision
      /\ pc' = [pc EXCEPT ![w] = "gate"] /\ pc[w] = "commit"
      /\ positions' = positions /\ closed' = closed
  BY DEF CommitRow, LogCommit, jobVars, brokerVars
<1>3. \A i \in Instruments: PositionOK(i)'
  BY <1>1, <1>2 DEF FillInv, PositionOK, HasPosition, Flat
<1>4. \A v \in Workers: Holding(v)' => Holding(v) /\ (pc'[v] = "store" => pc[v] = "store")
  BY <1>1, <1>2 DEF Holding
<1>5. \A v \in Workers: Holding(v)' => HeldRowOK(v)'
  BY <1>1, <1>2, <1>4 DEF FillInv, HeldRowOK
<1>6. closed' \subseteq 1 .. durable'
  BY <1>1, <1>2 DEF FillInv
<1> QED
  BY <1>2, <1>3, <1>4, <1>5, <1>6 DEF FillInv, HasPosition, Flat

(* The thread that moves on holds nothing; the others are where they were. *)
LEMMA NextInstrumentHolds ==
    ASSUME TypeInv, NEW w \in Workers, NEW isError, NextInstrument(w, isError)
    PROVE  \A v \in Workers: Holding(v)' =>
             /\ v # w /\ Holding(v)
             /\ pc'[v] = pc[v] /\ row'[v] = row[v] /\ decision'[v] = decision[v]
<1>1. /\ pc \in [Workers -> PCs] /\ row \in [Workers -> Nat]
      /\ decision \in [Workers -> Decisions \cup {NoDecision}]
  BY DEF TypeInv, TypeOK
<1> QED
  BY <1>1 DEF NextInstrument, AtItem, Holding

(* A failing commit leaves the rows that positions and other threads hold, *)
(* provided it cannot roll them back.                                      *)
LEMMA FillCommitFails ==
    ASSUME TypeInv, FillInv, NoRollbackRace, NEW w \in Workers, CommitRowFails(w)
    PROVE  FillInv'
<1>1. PICK error \in CommitErrors: LogCommitFails(error)
  BY DEF CommitRowFails
<1>2. NextInstrument(w, TRUE) /\ UNCHANGED brokerVars
  BY DEF CommitRowFails
<1>3. CASE error # "rollback"
  BY <1>1, <1>2, <1>3, FillQuiet, NextInstrumentHolds DEF LogCommitFails, logVars
<1>4. CASE error = "rollback"
  <2>1. \A v \in Workers: ~Holding(v)'
    BY <1>1, <1>2, <1>4, NextInstrumentHolds DEF NoRollbackRace, Workers
  <2>2. durable' = durable /\ \A id \in 1 .. durable: rows'[id] = rows[id]
    BY <1>1, CommittedRowsStay DEF TypeInv, TypeOK, LogCommitFails
  <2>3. \A i \in Instruments: PositionOK(i)'
    BY <1>2, <2>2 DEF FillInv, PositionOK, HasPosition, Flat, brokerVars
  <2> QED
    BY <1>2, <2>1, <2>2, <2>3 DEF FillInv, HasPosition, Flat, brokerVars
<1> QED BY <1>3, <1>4

(* After the process ended nobody holds a row.                             *)
LEMMA FillCrash ==
    ASSUME Crash PROVE FillInv'
BY DEF Crash, BrokerCrash, FillInv, PositionOK, HasPosition, Flat, Holding

(* The assignment of PaperBroker._enter hands the thread's row over to the *)
(* position.                                                               *)
LEMMA FillStores ==
    ASSUME TypeInv, FillInv, NEW w \in Workers, EnterStores(w)
    PROVE  FillInv'
<1>0. PICK i \in Instruments: i = decision[w].instrument
  BY DEF TypeInv, TypeOK, LocalsOK, EnterStores, Decisions
<1>1. /\ positions \in [Instruments -> Nat]
      /\ i \in Instruments /\ durable \in Nat
  BY DEF TypeInv, TypeOK, LogTypeOK, BrokerTypeOK
<1>2. /\ positions' = [positions EXCEPT ![i] = row[w]] /\ closed' = closed
      /\ rows' = rows /\ durable' = durable
      /\ pc[w] = "store" /\ NextInstrument(w, FALSE)
  BY <1>0 DEF EnterStores, OpenPosition, logVars
<1>3. Holding(w) /\ HeldRowOK(w) /\ row[w] \in 1 .. durable
  BY <1>1, <1>2 DEF FillInv, Holding, HeldRowOK
<1>4. positions'[i] = row[w] /\ \A j \in Instruments \ {i}: positions'[j] = positions[j]
  BY <1>1, <1>2
<1>5. \A j \in Instruments: PositionOK(j)'
  <2>1. PositionOK(i)'
    BY <1>0, <1>2, <1>3, <1>4 DEF PositionOK, HeldRowOK
  <2>2. ASSUME NEW j \in Instruments, j # i PROVE PositionOK(j)'
    BY <1>2, <1>4, <2>2 DEF FillInv, PositionOK, HasPosition, Flat
  <2> QED BY <2>1, <2>2
<1>6. ASSUME NEW j \in Instruments, NEW k \in Instruments,
             HasPosition(j)', positions'[j] = positions'[k]
      PROVE  j = k
  BY <1>3, <1>4, <1>6 DEF FillInv, HasPosition, Flat, HeldRowOK
<1>7. ASSUME NEW v \in Workers, Holding(v)' PROVE HeldRowOK(v)'
  <2>1. /\ v # w /\ Holding(v) /\ HeldRowOK(v) /\ row[v] # row[w]
        /\ pc'[v] = pc[v] /\ row'[v] = row[v] /\ decision'[v] = decision[v]
    BY <1>2, <1>3, <1>7, NextInstrumentHolds DEF FillInv
  <2>2. \A j \in Instruments: positions'[j] # row[v]
    BY <1>4, <2>1 DEF HeldRowOK
  <2> QED
    BY <1>2, <2>1, <2>2 DEF HeldRowOK
<1>8. \A u, v \in Workers: Holding(u)' /\ Holding(v)' /\ row'[u] = row'[v] => u = v
  BY <1>2, NextInstrumentHolds DEF FillInv
<1> QED
  BY <1>2, <1>5, <1>6, <1>7, <1>8 DEF FillInv

(* PaperBroker._exit moves the row from the position to the closed ones.   *)
LEMMA FillExit ==
    ASSUME TypeInv, FillInv, NEW w \in Workers, Exit(w)
    PROVE  FillInv'
<1>0. PICK i \in Instruments: i = decision[w].instrument
  BY DEF TypeInv, TypeOK, LocalsOK, Exit, AtBroker, AtGate, Decisions
<1>1. /\ positions \in [Instruments -> Nat]
      /\ i \in Instruments /\ durable \in Nat
  BY DEF TypeInv, TypeOK, LogTypeOK, BrokerTypeOK
<1>2. /\ positions' = [positions EXCEPT ![i] = Flat]
      /\ closed' = closed \cup {positions[i]}
      /\ rows' = rows /\ durable' = durable
      /\ HasPosition(i) /\ NextInstrument(w, FALSE)
  BY <1>0 DEF Exit, ClosePosition, logVars
<1>3. positions[i] \in 1 .. durable
  BY <1>1, <1>2 DEF FillInv, PositionOK
<1>4. positions'[i] = Flat /\ \A j \in Instruments \ {i}: positions'[j] = positions[j]
  BY <1>1, <1>2
<1>5. \A j \in Instruments: PositionOK(j)'
  <2>1. PositionOK(i)'
    BY <1>4 DEF PositionOK, HasPosition
  <2>2. ASSUME NEW j \in Instruments, j # i PROVE PositionOK(j)'
    BY <1>2, <1>4, <2>2 DEF FillInv, PositionOK, HasPosition, Flat
  <2> QED BY <2>1, <2>2
<1>6. ASSUME NEW j \in Instruments, NEW k \in Instruments,
             HasPosition(j)', positions'[j] = positions'[k]
      PROVE  j = k
  BY <1>4, <1>6 DEF FillInv, HasPosition
<1>7. ASSUME NEW v \in Workers, Holding(v)' PROVE HeldRowOK(v)'
  <2>1. /\ v # w /\ Holding(v) /\ HeldRowOK(v)
        /\ pc'[v] = pc[v] /\ row'[v] = row[v] /\ decision'[v] = decision[v]
    BY <1>2, <1>7, NextInstrumentHolds DEF FillInv
  <2>2. \A j \in Instruments: positions'[j] # row[v]
    BY <1>4, <2>1 DEF HeldRowOK, Flat
  <2>3. row[v] \notin closed'
    BY <1>1, <1>2, <2>1 DEF HeldRowOK
  <2> QED
    BY <1>2, <2>1, <2>2, <2>3 DEF HeldRowOK
<1>8. \A u, v \in Workers: Holding(u)' /\ Holding(v)' /\ row'[u] = row'[v] => u = v
  BY <1>2, NextInstrumentHolds DEF FillInv
<1> QED
  BY <1>2, <1>3, <1>5, <1>6, <1>7, <1>8 DEF FillInv

(* At the start nobody holds a row.                                        *)
LEMMA FillInit == Init => FillInv
BY DEF Init, LogInit, BrokerInit, FillInv, PositionOK, HasPosition, Flat, Holding

(* Every step of Next preserves the ownership of rows.                     *)
LEMMA FillNext ==
    TypeInv /\ FillInv /\ NoRollbackRace /\ [Next]_vars => FillInv'
<1> SUFFICES ASSUME TypeInv, FillInv, NoRollbackRace, [Next]_vars PROVE FillInv'
  OBVIOUS
<1>1. /\ pc \in [Workers -> PCs] /\ decision \in [Workers -> Decisions \cup {NoDecision}]
      /\ Loop \in Workers /\ RunNowThreads \subseteq Workers
  BY DEF TypeInv, TypeOK, Workers
<1>2. CASE UNCHANGED vars
  BY <1>2, FillQuiet DEF vars, logVars, brokerVars, Holding
<1>3. CASE Boot \/ Stop \/ LoopStep \/ \E w \in RunNowThreads: RunNow(w)
  <2>1. UNCHANGED logVars /\ UNCHANGED brokerVars /\ row' = row /\ decision' = decision
    BY <1>3 DEF Boot, Stop, LoopStep, LoopBegins, LoopExits, LoopWakes, BeginCycle,
       LoopMoves, RunNow, jobVars
  <2>2. \A w \in Workers: Holding(w)' => pc'[w] = pc[w]
    BY <1>1, <1>3 DEF Boot, Stop, LoopStep, LoopBegins, LoopExits, LoopWakes, BeginCycle,
       LoopMoves, RunNow, Holding
  <2> QED BY <2>1, <2>2, FillQuiet DEF Holding
<1>4. CASE Crash
  BY <1>4, FillCrash
<1>5. ASSUME NEW w \in Workers, WorkerStep(w) PROVE FillInv'
  <2>1. CASE InsertRow(w) \/ CommitRow(w) \/ CommitRowFails(w) \/ EnterStores(w) \/ Exit(w)
    BY <2>1, FillInsert, FillCommit, FillCommitFails, FillStores, FillExit
  <2>2. CASE ReadPhase(w) \/ ReadPhaseFails(w) \/ Fetch(w) \/ FetchHangs(w) \/ Decide(w)
             \/ FinishCycle(w)
    <3>1. UNCHANGED logVars /\ UNCHANGED brokerVars
      BY <2>2 DEF ReadPhase, ReadPhaseFails, Fetch, FetchHangs, Decide, FinishCycle
    <3>2. \A v \in Workers: Holding(v)' =>
            /\ v # w /\ Holding(v)
            /\ pc'[v] = pc[v] /\ row'[v] = row[v] /\ decision'[v] = decision[v]
      BY <1>1, <2>2 DEF ReadPhase, ReadPhaseFails, Fetch, FetchHangs, Decide, FinishCycle,
         Holding, AtItem, Resting, jobVars
    <3> QED BY <3>1, <3>2, FillQuiet
  <2>3. CASE EnterChecked(w)
    <3>1. UNCHANGED logVars /\ UNCHANGED brokerVars /\ row' = row /\ decision' = decision
      BY <2>3 DEF EnterChecked, jobVars
    <3>2. AtGate(w, "enter") /\ pc' = [pc EXCEPT ![w] = "store"]
      BY <2>3 DEF EnterChecked, AtBroker
    <3>3. \A v \in Workers: Holding(v)' =>
            /\ Holding(v)
            /\ pc'[v] = pc[v] \/ (pc[v] = "gate" /\ decision[v].action = "enter")
      BY <1>1, <3>2 DEF AtGate, Holding
    <3> QED BY <3>1, <3>3, FillQuiet
  <2>4. CASE InstrumentFails(w) \/ NothingToExecute(w) \/ PendingConfirmation(w)
             \/ LiveOrderRaises(w) \/ BrokerRejects(w) \/ EnterUnpriced(w)
    <3>1. /\ UNCHANGED logVars /\ UNCHANGED brokerVars
          /\ NextInstrument(w, TRUE) \/ NextInstrument(w, FALSE)
      BY <2>4 DEF InstrumentFails, NothingToExecute, PendingConfirmation, LiveOrderRaises,
         BrokerRejects, EnterUnpriced
    <3> QED BY <3>1, NextInstrumentHolds, FillQuiet
  <2> QED
    BY <1>5, <2>1, <2>2, <2>3, <2>4 DEF WorkerStep, AtTheGate
<1>6. CASE \E t \in PhaseThreads: PhaseRequestStep(t)
  <2>1. PhaseFrame
    BY <1>6 DEF PhaseRequestStep, SetPhaseWrites, SetPhaseCommits, SetPhaseCommitFails
  <2> QED BY <2>1, FillQuiet DEF PhaseFrame, jobVars, Holding
<1> QED BY <1>2, <1>3, <1>4, <1>5, <1>6 DEF Next

(* The ownership of rows holds for ever, if no commit can roll back        *)
(* another thread's INSERT.                                                *)
LEMMA FillInvariant == NoRollbackRace /\ Spec => []FillInv
<1>1. ASSUME NoRollbackRace PROVE Spec => []FillInv
  BY <1>1, FillInit, FillNext, TypeInvariant, PTL DEF Spec
<1> QED BY <1>1

(* Unless a commit can roll back another thread's row, every position ever *)
(* open comes from a committed enter decision for its instrument, and the  *)
(* gate acts on committed decisions only.                                  *)
THEOREM FillsAreAudited ==
    ASSUME NoRollbackRace PROVE Spec => []EveryFillIsAudited
<1>1. TypeInv /\ FillInv => EveryFillIsAudited
  BY DEF TypeInv, TypeOK, LogTypeOK, FillInv, PositionOK, HeldRowOK, Holding, IsDurableRow,
     EveryFillIsAudited
<1> QED BY <1>1, FillInvariant, TypeInvariant, PTL

(* Under the same assumption no decision fills twice, however many threads *)
(* race through the broker.                                                *)
THEOREM FillsHappenOnce ==
    ASSUME NoRollbackRace PROVE Spec => []FilledOnce
<1>1. FillInv => FilledOnce
  BY DEF FillInv, PositionOK, HeldRowOK, Holding, FilledOnce
<1> QED BY <1>1, FillInvariant, PTL

(* The GIL comment of store.py is right but for that rollback: without it, *)
(* the id that record() returns is that of the row it committed, whatever  *)
(* the other threads insert and commit between its own steps.              *)
THEOREM RecordReturnsItsRowUnraced ==
    ASSUME NoRollbackRace PROVE Spec => []RecordReturnsItsRow
<1>1. TypeInv /\ FillInv => RecordReturnsItsRow
  BY DEF TypeInv, TypeOK, LogTypeOK, FillInv, HeldRowOK, Holding, IsDurableRow,
     RecordReturnsItsRow
<1> QED BY <1>1, FillInvariant, TypeInvariant, PTL

-----------------------------------------------------------------------------
(* The ledger moves in two steps of a worker, and when the process ends.   *)
LEMMA BrokerSteps ==
    ASSUME [Next]_vars
    PROVE  \/ UNCHANGED brokerVars
           \/ Crash
           \/ \E w \in Workers: EnterStores(w) \/ Exit(w)
<1>1. CASE UNCHANGED vars
  BY <1>1 DEF vars, brokerVars
<1>2. CASE Boot \/ Stop \/ LoopStep \/ \E w \in RunNowThreads: RunNow(w)
  BY <1>2 DEF Boot, Stop, LoopStep, LoopBegins, LoopExits, LoopWakes, BeginCycle,
     LoopMoves, RunNow
<1>3. CASE \E w \in Workers: WorkerStep(w)
  BY <1>3 DEF WorkerStep, ReadPhase, ReadPhaseFails, Fetch, FetchHangs, Decide, InsertRow,
     CommitRow, CommitRowFails, InstrumentFails, FinishCycle, AtTheGate,
     NothingToExecute, PendingConfirmation, LiveOrderRaises, BrokerRejects, EnterUnpriced,
     EnterChecked
<1>4. CASE \E t \in PhaseThreads: PhaseRequestStep(t)
  BY <1>4 DEF PhaseRequestStep, SetPhaseWrites, SetPhaseCommits, SetPhaseCommitFails,
     PhaseFrame
<1> QED BY <1>1, <1>2, <1>3, <1>4 DEF Next

-----------------------------------------------------------------------------
(* With the loop as the only worker the broker is the abstract ledger:     *)
(* what _enter tested still holds when it assigns.                         *)
OnlyLoop == RunNowThreads = {}

EnterStillFlat ==
    pc[Loop] = "store" => ~HasPosition(decision[Loop].instrument)

(* While the loop is the only worker, nothing opens a position between the *)
(* test and the assignment of PaperBroker._enter.                          *)
LEMMA EnterStillFlatNext ==
    OnlyLoop /\ TypeInv /\ EnterStillFlat /\ [Next]_vars => EnterStillFlat'
<1> SUFFICES ASSUME OnlyLoop, TypeInv, EnterStillFlat, [Next]_vars, pc'[Loop] = "store"
             PROVE  ~HasPosition(decision[Loop].instrument)'
  BY DEF EnterStillFlat
<1>1. pc \in [Workers -> PCs] /\ Workers = {Loop}
  BY DEF TypeInv, TypeOK, OnlyLoop, Workers
<1>2. CASE UNCHANGED vars
  BY <1>2 DEF vars, EnterStillFlat, HasPosition, Flat
<1>3. CASE Boot \/ Stop \/ Crash \/ LoopStep \/ \E w \in RunNowThreads: RunNow(w)
  BY <1>1, <1>3 DEF Boot, Stop, Crash, LoopStep, LoopBegins, LoopExits, LoopWakes, BeginCycle,
     LoopMoves, RunNow, OnlyLoop, EnterStillFlat, HasPosition, Flat, jobVars, brokerVars
<1>4. CASE WorkerStep(Loop)
  <2>1. CASE EnterChecked(Loop)
    BY <2>1 DEF EnterChecked, HasPosition, Flat, jobVars, brokerVars
  <2>2. \A isError: ~NextInstrument(Loop, isError)
    BY <1>1 DEF NextInstrument, AtItem
  <2>3. CASE ReadPhase(Loop) \/ ReadPhaseFails(Loop) \/ Fetch(Loop) \/ FetchHangs(Loop)
             \/ Decide(Loop) \/ InsertRow(Loop) \/ CommitRow(Loop) \/ FinishCycle(Loop)
    BY <1>1, <2>3 DEF ReadPhase, ReadPhaseFails, Fetch, FetchHangs, Decide, InsertRow,
       CommitRow, FinishCycle, AtItem, Resting
  <2> QED
    BY <1>4, <2>1, <2>2, <2>3
    DEF WorkerStep, CommitRowFails, InstrumentFails, AtTheGate, NothingToExecute,
        PendingConfirmation, LiveOrderRaises, BrokerRejects, EnterUnpriced, EnterStores, Exit
<1>5. CASE \E t \in PhaseThreads: PhaseRequestStep(t)
  <2>1. PhaseFrame
    BY <1>5 DEF PhaseRequestStep, SetPhaseWrites, SetPhaseCommits, SetPhaseCommitFails
  <2> QED BY <2>1 DEF PhaseFrame, jobVars, brokerVars, EnterStillFlat, HasPosition, Flat
<1> QED BY <1>1, <1>2, <1>3, <1>4, <1>5 DEF Next

(* Every step of the lone loop is a step of the abstract ledger, or a      *)
(* stutter of it.                                                          *)
LEMMA LedgerStep ==
    ASSUME OnlyLoop, TypeInv, FillInv, EnterStillFlat, [Next]_vars
    PROVE  [Ledger!Next]_(Ledger!ledgerVars)
<1>1. positions \in [Instruments -> Nat] /\ Workers = {Loop}
  BY DEF TypeInv, TypeOK, BrokerTypeOK, OnlyLoop, Workers
<1>2. CASE UNCHANGED brokerVars
  BY <1>2 DEF brokerVars, Ledger!ledgerVars
<1>3. CASE Crash
  BY <1>3 DEF Crash, BrokerCrash, Flat, Ledger!Next, Ledger!Restart
<1>4. CASE EnterStores(Loop)
  <2>1. PICK i \in Instruments: i = decision[Loop].instrument
    BY <1>4, <1>1 DEF TypeInv, TypeOK, LocalsOK, EnterStores, Decisions
  <2>2. /\ positions[i] = 0 /\ closed' = closed
        /\ positions' = [positions EXCEPT ![i] = row[Loop]]
    BY <1>4, <2>1 DEF EnterStores, OpenPosition, EnterStillFlat, HasPosition, Flat
  <2>3. /\ row[Loop] \in Nat \ {0} /\ row[Loop] \notin closed
        /\ \A m \in Instruments: positions[m] # row[Loop]
    BY <1>1, <1>4 DEF TypeInv, TypeOK, LocalsOK, FillInv, Holding, HeldRowOK, EnterStores
  <2>4. positions'[i] = row[Loop]
    BY <1>1, <2>2
  <2>5. positions'[i] \in Nat \ ({0} \cup closed \cup {positions[m] : m \in Instruments})
    BY <2>3, <2>4
  <2>6. Ledger!Open(i)
    BY <2>2, <2>4, <2>5 DEF Ledger!Open
  <2> QED BY <2>6 DEF Ledger!Next
<1>5. CASE Exit(Loop)
  <2>1. PICK i \in Instruments: i = decision[Loop].instrument
    BY <1>5, <1>1 DEF TypeInv, TypeOK, LocalsOK, Exit, AtBroker, AtGate, Decisions
  <2>2. Ledger!Close(i)
    BY <1>5, <2>1 DEF Exit, ClosePosition, HasPosition, Flat, Ledger!Close
  <2> QED BY <2>2 DEF Ledger!Next
<1> QED BY <1>1, <1>2, <1>3, <1>4, <1>5, BrokerSteps

(* While no run-now request is served, the scheduler implements the paper  *)
(* ledger: every position is opened when flat, is one of its own, and is   *)
(* closed at most once.                                                    *)
THEOREM LoopImplementsLedger ==
    ASSUME OnlyLoop PROVE Spec => LedgerSpec
<1>1. Init => Ledger!Init
  BY DEF Init, BrokerInit, Flat, Ledger!Init
<1>2. Init => EnterStillFlat
  BY DEF Init, EnterStillFlat, Workers
<1>3. NoRollbackRace
  BY DEF NoRollbackRace, OnlyLoop
<1>4. Spec => []EnterStillFlat
  BY <1>2, EnterStillFlatNext, TypeInvariant, PTL DEF Spec
<1>5. TypeInv /\ FillInv /\ EnterStillFlat /\ [Next]_vars => [Ledger!Next]_(Ledger!ledgerVars)
  BY LedgerStep
<1> QED
  BY <1>1, <1>3, <1>4, <1>5, TypeInvariant, FillInvariant, PTL
  DEF Spec, LedgerSpec, Ledger!Spec

-----------------------------------------------------------------------------
(* The phase a cycle read stays with it, and a cycle still under paper     *)
(* after paper was left is one of those in progress when it was left.      *)
PastReadPhase(w) == InCycle(w) /\ pc[w] # "phase"

PhaseInv ==
    /\ \A w \in Workers: phase[w] # NoPhase => PastReadPhase(w)
    /\ \A w \in Workers: pc[w] = "store" => phase[w] = "paper"
    /\ EffectivePhase # "paper" =>
        \A w \in Workers: phase[w] = "paper" => w \in stale
    /\ mode = "down" => \A w \in Workers: pc[w] = "off"

(* At the start no cycle has read a phase.                                 *)
LEMMA PhaseInit == Init => PhaseInv
BY DEF Init, PhaseInv, NoPhase

(* A step of one worker that leaves the phase in effect alone.             *)
LEMMA PhaseWorker ==
    ASSUME PhaseInv, TypeInv, NEW w \in Workers, pc[w] # "off", EffectivePhase' = EffectivePhase,
           mode' = mode,
           \A v \in Workers \ {w}: pc'[v] = pc[v] /\ phase'[v] = phase[v]
                                   /\ (v \in stale => v \in stale'),
           \/ phase'[w] = NoPhase
           \/ /\ phase'[w] = phase[w] /\ PastReadPhase(w)'
              /\ w \in stale => w \in stale'
           \/ /\ phase'[w] = EffectivePhase /\ PastReadPhase(w)',
           pc'[w] = "store" => phase'[w] = "paper"
    PROVE  PhaseInv'
<1>1. mode' # "down"
  BY DEF PhaseInv
<1>2. ASSUME NEW v \in Workers
      PROVE  /\ phase'[v] # NoPhase => PastReadPhase(v)'
             /\ pc'[v] = "store" => phase'[v] = "paper"
             /\ EffectivePhase # "paper" => (phase'[v] = "paper" => v \in stale')
  <2>1. CASE v = w
    BY <2>1 DEF PhaseInv, NoPhase
  <2>2. CASE v # w
    BY <2>2 DEF PhaseInv, PastReadPhase, InCycle
  <2> QED BY <2>1, <2>2
<1> QED BY <1>1, <1>2 DEF PhaseInv

(* Every step of Next preserves what a cycle knows about the phase.        *)
LEMMA PhaseNext == TypeInv /\ PhaseInv /\ [Next]_vars => PhaseInv'
<1> SUFFICES ASSUME TypeInv, PhaseInv, [Next]_vars PROVE PhaseInv'
  OBVIOUS
<1>1. /\ pc \in [Workers -> PCs] /\ phase \in [Workers -> Phases \cup {NoPhase}]
      /\ Loop \in Workers /\ RunNowThreads \subseteq Workers /\ stale \subseteq Workers
  BY DEF TypeInv, TypeOK, Workers
<1>2. CASE UNCHANGED vars \/ Stop
  BY <1>2 DEF vars, Stop, phaseStoreVars, jobVars, PhaseInv, PastReadPhase, InCycle,
     EffectivePhase, GetPhase
<1>3. CASE Boot
  <2>1. \A w \in Workers: phase[w] = NoPhase
    BY <1>3 DEF Boot, PhaseInv, PastReadPhase, InCycle, CycleSteps
  <2>2. phase' = phase /\ mode' = "up" /\ \A w \in Workers: pc'[w] # "store"
    BY <1>1, <1>3 DEF Boot, PhaseInv, jobVars
  <2> QED BY <2>1, <2>2 DEF PhaseInv, NoPhase
<1>4. CASE Crash
  BY <1>4 DEF Crash, PhaseInv, NoPhase
<1>5. CASE LoopStep \/ \E w \in RunNowThreads: RunNow(w)
  <2>1. PICK w \in Workers: /\ pc[w] \in {"off", "top", "sleep"} /\ mode # "down"
                            /\ pc'[w] \in {"off", "top", "phase"}
                            /\ \A v \in Workers \ {w}: pc'[v] = pc[v]
    BY <1>1, <1>5 DEF LoopStep, LoopBegins, LoopExits, LoopWakes, LoopMoves, RunNow,
       BeginCycle, PhaseInv
  <2>2. phase' = phase /\ stale' = stale /\ mode' = mode /\ EffectivePhase' = EffectivePhase
    BY <1>5 DEF LoopStep, LoopBegins, LoopExits, LoopWakes, LoopMoves, RunNow, BeginCycle,
       jobVars, appVars, phaseStoreVars, EffectivePhase, GetPhase
  <2>3. phase[w] = NoPhase
    BY <2>1 DEF PhaseInv, PastReadPhase, InCycle, CycleSteps
  <2> QED
    BY <2>1, <2>2, <2>3 DEF PhaseInv, PastReadPhase, InCycle
<1>6. ASSUME NEW w \in Workers, WorkerStep(w) PROVE PhaseInv'
  <2>1. /\ EffectivePhase' = EffectivePhase /\ mode' = mode
    BY <1>6 DEF WorkerStep, ReadPhase, ReadPhaseFails, Fetch, FetchHangs, Decide, InsertRow,
       CommitRow, CommitRowFails, InstrumentFails, FinishCycle, AtTheGate,
       NothingToExecute, PendingConfirmation, LiveOrderRaises, BrokerRejects,
       EnterUnpriced, EnterChecked, EnterStores, Exit, NextInstrument, WorkerFrame,
       phaseStoreVars, appVars, EffectivePhase, GetPhase
  <2>2. CASE ReadPhase(w)
    <3>1. /\ pc[w] = "phase" /\ pc' = [pc EXCEPT ![w] = AtItem(1)]
          /\ phase' = [phase EXCEPT ![w] = EffectivePhase] /\ stale' = stale
      BY <2>2 DEF ReadPhase
    <3>2. PastReadPhase(w)' /\ pc'[w] # "store"
      BY <1>1, <3>1 DEF AtItem, PastReadPhase, InCycle, CycleSteps
    <3> QED BY <1>1, <2>1, <3>1, <3>2, PhaseWorker
  <2>3. CASE FinishCycle(w)
    <3>1. /\ pc[w] = "finish" /\ pc' = [pc EXCEPT ![w] = Resting(w)]
          /\ phase' = [phase EXCEPT ![w] = NoPhase] /\ stale' = stale \ {w}
      BY <2>3 DEF FinishCycle
    <3>2. pc'[w] # "store"
      BY <1>1, <3>1 DEF Resting
    <3> QED BY <1>1, <2>1, <3>1, <3>2, PhaseWorker
  <2>4. CASE ReadPhaseFails(w)
    <3>1. /\ pc[w] = "phase" /\ pc' = [pc EXCEPT ![w] = Resting(w)]
          /\ phase' = phase /\ stale' = stale
      BY <2>4 DEF ReadPhaseFails, jobVars
    <3>2. pc'[w] # "store" /\ phase'[w] = NoPhase
      BY <1>1, <3>1 DEF Resting, PhaseInv, PastReadPhase
    <3> QED BY <1>1, <2>1, <3>1, <3>2, PhaseWorker
  <2>5. CASE EnterChecked(w)
    <3>1. /\ pc[w] = "gate" /\ pc' = [pc EXCEPT ![w] = "store"] /\ phase[w] = "paper"
          /\ phase' = phase /\ stale' = stale
      BY <2>5 DEF EnterChecked, AtBroker, AtGate, IsPaper, jobVars
    <3>2. PastReadPhase(w)'
      BY <1>1, <3>1 DEF PastReadPhase, InCycle, CycleSteps
    <3> QED BY <1>1, <2>1, <3>1, <3>2, PhaseWorker
  <2>6. CASE Fetch(w) \/ FetchHangs(w) \/ Decide(w) \/ InsertRow(w) \/ CommitRow(w)
    <3>1. /\ pc[w] # "off" /\ phase' = phase /\ stale' = stale
          /\ \E to \in {"decide", "hung", "insert", "commit", "gate"}:
                pc' = [pc EXCEPT ![w] = to]
      BY <2>6 DEF Fetch, FetchHangs, Decide, InsertRow, CommitRow, jobVars
    <3>2. PastReadPhase(w)' /\ pc'[w] # "store"
      BY <1>1, <3>1 DEF PastReadPhase, InCycle, CycleSteps
    <3> QED BY <1>1, <2>1, <3>1, <3>2, PhaseWorker
  <2>7. ASSUME NEW isError, NextInstrument(w, isError), pc[w] # "off" PROVE PhaseInv'
    <3>1. /\ phase' = phase /\ stale' = stale
          /\ pc' = [pc EXCEPT ![w] = AtItem(item[w] + 1)]
      BY <2>7 DEF NextInstrument
    <3>2. PastReadPhase(w)' /\ pc'[w] # "store"
      BY <1>1, <3>1 DEF AtItem, PastReadPhase, InCycle, CycleSteps
    <3> QED BY <1>1, <2>1, <2>7, <3>1, <3>2, PhaseWorker
  <2> QED
    BY <1>6, <2>2, <2>3, <2>4, <2>5, <2>6, <2>7
    DEF WorkerStep, CommitRowFails, InstrumentFails, AtTheGate, NothingToExecute,
        PendingConfirmation, LiveOrderRaises, BrokerRejects, EnterUnpriced, EnterStores,
        Exit, AtBroker, AtGate
<1>7. ASSUME NEW t \in PhaseThreads, PhaseRequestStep(t) PROVE PhaseInv'
  <2>1. PhaseFrame
    BY <1>7 DEF PhaseRequestStep, SetPhaseWrites, SetPhaseCommits, SetPhaseCommitFails
  <2>2. pc' = pc /\ phase' = phase /\ mode' = mode
    BY <2>1 DEF PhaseFrame, jobVars, appVars
  <2>3. CASE MarkStale
    <3>1. CASE EffectivePhase' = "paper"
      BY <2>2, <3>1 DEF PhaseInv, PastReadPhase, InCycle
    <3>2. CASE EffectivePhase' # "paper" /\ EffectivePhase = "paper"
      <4>1. stale' = {w \in Workers: PastReadPhase(w)}
        BY <2>3, <3>2 DEF MarkStale, PastReadPhase
      <4> QED BY <2>2, <4>1 DEF PhaseInv, PastReadPhase, InCycle, NoPhase
    <3>3. CASE EffectivePhase' # "paper" /\ EffectivePhase # "paper"
      <4>1. stale' = stale
        BY <2>3, <3>3 DEF MarkStale
      <4> QED BY <2>2, <3>3, <4>1 DEF PhaseInv, PastReadPhase, InCycle
    <3> QED BY <3>1, <3>2, <3>3
  <2>4. CASE SetPhaseCommits(t)
    <3>1. stale' = stale /\ EffectivePhase' = EffectivePhase
      BY <2>1, <2>4 DEF SetPhaseCommits, CommitPhase, PhaseFrame, appVars, EffectivePhase,
         GetPhase
    <3> QED BY <2>2, <3>1 DEF PhaseInv, PastReadPhase, InCycle
  <2> QED
    BY <1>7, <2>3, <2>4 DEF PhaseRequestStep, SetPhaseWrites, SetPhaseCommitFails
<1> QED BY <1>2, <1>3, <1>4, <1>5, <1>6, <1>7 DEF Next

(* A cycle under paper either agrees with the phase in effect or is one of *)
(* those marked stale.                                                     *)
LEMMA PhaseInvariant == Spec => []PhaseInv
BY PhaseInit, PhaseNext, TypeInvariant, PTL DEF Spec

(* Positions move only in cycles that read paper as their phase, and once  *)
(* paper is left only in those that were already in progress.              *)
THEOREM LedgerMovesUnderPaperOnly == Spec => LedgerMovesUnderPaper
<1> DEFINE Moves ==
        \A i \in Instruments:
          positions'[i] # positions[i] /\ mode' # "down" =>
            \E w \in Workers:
                /\ pc[w] \in {"gate", "store"} /\ pc'[w] # pc[w]
                /\ decision[w].instrument = i
                /\ phase[w] = "paper"
                /\ EffectivePhase = "paper" \/ w \in stale
<1>1. ASSUME TypeInv, PhaseInv, [Next]_vars PROVE Moves
  <2> SUFFICES ASSUME NEW i \in Instruments, positions'[i] # positions[i], mode' # "down"
               PROVE  \E w \in Workers:
                        /\ pc[w] \in {"gate", "store"} /\ pc'[w] # pc[w]
                        /\ decision[w].instrument = i
                        /\ phase[w] = "paper"
                        /\ EffectivePhase = "paper" \/ w \in stale
    OBVIOUS
  <2>1. /\ positions \in [Instruments -> Nat] /\ pc \in [Workers -> PCs]
    BY <1>1 DEF TypeInv, TypeOK, BrokerTypeOK
  <2>2. PICK w \in Workers: EnterStores(w) \/ Exit(w)
    <3>1. ~Crash
      BY DEF Crash
    <3>2. ~UNCHANGED brokerVars
      BY DEF brokerVars
    <3> QED BY <1>1, <3>1, <3>2, BrokerSteps
  <2>3. pc[w] \in {"gate", "store"} /\ pc'[w] \in {"fetch", "finish"} /\ phase[w] = "paper"
    BY <1>1, <2>1, <2>2
    DEF EnterStores, Exit, AtBroker, AtGate, IsPaper, NextInstrument, AtItem, PhaseInv
  <2>4. decision[w].instrument = i
    BY <2>1, <2>2 DEF EnterStores, Exit, OpenPosition, ClosePosition
  <2> QED BY <1>1, <2>3, <2>4 DEF PhaseInv
<1>2. TypeInv /\ PhaseInv /\ [Next]_vars => [Moves]_vars
  BY <1>1
<1> QED
  BY <1>2, TypeInvariant, PhaseInvariant, PTL DEF Spec, LedgerMovesUnderPaper

-----------------------------------------------------------------------------
(* What POST /phase acknowledges.  The thread that wrote last is the one   *)
(* whose phase is pending, as long as no other request can roll it back.   *)
NoPhaseRollbackRace ==
    "rollback" \notin CommitErrors \/ \A t, u \in PhaseThreads: t = u

AckInv ==
    /\ AcknowledgedPhaseLasts
    /\ \A t \in newest: setting[t] # NoPhase /\ override = setting[t]
    /\ "rollback" \in CommitErrors =>
        \A t \in PhaseThreads: setting[t] # NoPhase => acknowledged = NoPhase

(* Every step of Next keeps the acknowledged phase in the table, if no     *)
(* commit can roll back another request's phase.                           *)
LEMMA AckNext == NoPhaseRollbackRace /\ TypeInv /\ AckInv /\ [Next]_vars => AckInv'
<1> SUFFICES ASSUME NoPhaseRollbackRace, TypeInv, AckInv, [Next]_vars PROVE AckInv'
  OBVIOUS
<1>1. setting \in [PhaseThreads -> Phases \cup {NoPhase}] /\ newest \subseteq PhaseThreads
  BY DEF TypeInv, TypeOK
<1>2. CASE UNCHANGED phaseStoreVars /\ UNCHANGED requestVars
  BY <1>2 DEF phaseStoreVars, requestVars, AckInv, AcknowledgedPhaseLasts
<1>3. CASE Crash
  <2>1. AcknowledgedPhaseLasts'
    BY <1>3 DEF Crash, PhaseStoreCrash, AckInv, AcknowledgedPhaseLasts
  <2> QED BY <1>3, <2>1 DEF Crash, AckInv
<1>4. ASSUME NEW t \in PhaseThreads, SetPhaseWrites(t) PROVE AckInv'
  <2>1. PICK p \in Phases: /\ override' = p /\ setting' = [setting EXCEPT ![t] = p]
                           /\ newest' = {t} /\ acknowledged' = NoPhase
    BY <1>4 DEF SetPhaseWrites, WritePhase
  <2> QED BY <1>1, <2>1 DEF AckInv, AcknowledgedPhaseLasts, Phases, NoPhase
<1>5. ASSUME NEW t \in PhaseThreads, SetPhaseCommits(t) PROVE AckInv'
  <2>1. /\ savedOverride' = override /\ override' = override
        /\ acknowledged' = IF t \in newest THEN setting[t] ELSE acknowledged
        /\ setting' = [setting EXCEPT ![t] = NoPhase]
        /\ newest' = newest \ {t}
    BY <1>5 DEF SetPhaseCommits, CommitPhase
  <2>2. AcknowledgedPhaseLasts'
    BY <2>1 DEF AckInv, AcknowledgedPhaseLasts
  <2>3. \A u \in newest': setting'[u] # NoPhase /\ override' = setting'[u]
    BY <1>1, <2>1 DEF AckInv
  <2>4. "rollback" \in CommitErrors =>
          \A u \in PhaseThreads: setting'[u] # NoPhase => acknowledged' = NoPhase
    BY <1>1, <2>1 DEF NoPhaseRollbackRace
  <2> QED BY <2>2, <2>3, <2>4 DEF AckInv
<1>6. ASSUME NEW t \in PhaseThreads, SetPhaseCommitFails(t) PROVE AckInv'
  <2>1. PICK error \in CommitErrors:
          /\ setting[t] # NoPhase
          /\ override' = IF error = "rollback" THEN savedOverride ELSE override
          /\ savedOverride' = savedOverride /\ acknowledged' = acknowledged
          /\ setting' = [setting EXCEPT ![t] = NoPhase]
          /\ newest' = newest \ {t}
    BY <1>6 DEF SetPhaseCommitFails, CommitPhaseFails
  <2>2. AcknowledgedPhaseLasts'
    BY <2>1 DEF AckInv, AcknowledgedPhaseLasts
  <2>3. ASSUME NEW u \in newest' PROVE setting'[u] # NoPhase /\ override' = setting'[u]
    <3>1. u # t /\ u \in newest /\ u \in PhaseThreads /\ setting'[u] = setting[u]
      BY <1>1, <2>1
    <3>2. error # "rollback"
      BY <3>1 DEF NoPhaseRollbackRace
    <3> QED BY <2>1, <3>1, <3>2 DEF AckInv
  <2>4. "rollback" \in CommitErrors =>
          \A u \in PhaseThreads: setting'[u] # NoPhase => acknowledged' = NoPhase
    BY <1>1, <2>1 DEF NoPhaseRollbackRace
  <2> QED BY <2>2, <2>3, <2>4 DEF AckInv
<1>7. \/ UNCHANGED phaseStoreVars /\ UNCHANGED requestVars
      \/ Crash
      \/ \E t \in PhaseThreads: PhaseRequestStep(t)
  BY SMTT(20) DEF Next, vars, Boot, Stop, LoopStep, LoopBegins, LoopExits, LoopWakes, BeginCycle,
     LoopMoves, RunNow, WorkerStep, ReadPhase, ReadPhaseFails, Fetch, FetchHangs, Decide,
     InsertRow, CommitRow, CommitRowFails, InstrumentFails, FinishCycle, AtTheGate,
     NothingToExecute, PendingConfirmation, LiveOrderRaises, BrokerRejects, EnterUnpriced,
     EnterChecked, EnterStores, Exit, NextInstrument, WorkerFrame, phaseStoreVars, requestVars
<1> QED BY <1>2, <1>3, <1>4, <1>5, <1>6, <1>7 DEF PhaseRequestStep

(* An acknowledged phase is in effect, and in the database file, until the *)
(* next POST /phase, through crashes and restarts of processes on that     *)
(* file: provided no other request's commit can roll it back.              *)
THEOREM AcknowledgedPhaseLastsAlways ==
    ASSUME NoPhaseRollbackRace PROVE Spec => []AcknowledgedPhaseLasts
<1>1. Init => AckInv
  BY DEF Init, AckInv, AcknowledgedPhaseLasts
<1>2. AckInv => AcknowledgedPhaseLasts
  BY DEF AckInv
<1> QED
  BY <1>1, <1>2, AckNext, TypeInvariant, PTL DEF Spec

-----------------------------------------------------------------------------
(* What the dashboard knows of the loop: it runs unless there was nothing  *)
(* to run it with, which scheduler_error remembers.                        *)
QuietInv ==
    mode = "up" => /\ env.credentials => pc[Loop] # "off"
                   /\ ~env.credentials => schedulerError

(* A worker's step ends no loop and clears no scheduler_error.             *)
LEMMA QuietWorker ==
    ASSUME TypeInv, NEW w \in Workers, WorkerStep(w)
    PROVE  /\ mode' = mode /\ env' = env
           /\ schedulerError => schedulerError'
           /\ pc[Loop] # "off" => pc'[Loop] # "off"
<1>1. pc \in [Workers -> PCs] /\ Loop \in Workers
  BY DEF TypeInv, TypeOK, Workers
<1>2. /\ mode' = mode /\ env' = env
      /\ schedulerError => schedulerError'
  <2>1. CASE ReadPhaseFails(w)
    BY <2>1, Zenon DEF ReadPhaseFails
  <2>2. CASE ~ReadPhaseFails(w)
    BY <2>2 DEF WorkerStep, ReadPhase, Fetch, FetchHangs, Decide, InsertRow, CommitRow,
       CommitRowFails, InstrumentFails, FinishCycle, AtTheGate, NothingToExecute,
       PendingConfirmation, LiveOrderRaises, BrokerRejects, EnterUnpriced, EnterChecked,
       EnterStores, Exit, NextInstrument, WorkerFrame, appVars
  <2> QED
    BY <2>1, <2>2
<1>3. ASSUME pc[Loop] # "off" PROVE pc'[Loop] # "off"
  <2>1. AtItem(item[w] + 1) # "off" /\ AtItem(1) # "off"
    BY DEF AtItem
  <2>2. CASE ReadPhase(w)
    BY <1>1, <1>3, <2>1, <2>2 DEF ReadPhase
  <2>3. CASE ReadPhaseFails(w)
    BY <1>1, <1>3, <2>3 DEF ReadPhaseFails, Resting
  <2>4. CASE FinishCycle(w)
    BY <1>1, <1>3, <2>4 DEF FinishCycle, Resting
  <2>5. CASE Fetch(w) \/ FetchHangs(w) \/ Decide(w) \/ InsertRow(w) \/ CommitRow(w)
             \/ EnterChecked(w)
    BY <1>1, <1>3, <2>5 DEF Fetch, FetchHangs, Decide, InsertRow, CommitRow, EnterChecked
  <2>6. ASSUME NEW isError \in BOOLEAN, NextInstrument(w, isError)
        PROVE  pc'[Loop] # "off"
    BY <1>1, <1>3, <2>1, <2>6 DEF NextInstrument
  <2>7. CASE \E isError \in BOOLEAN: NextInstrument(w, isError)
    BY <2>6, <2>7
  <2>8. \/ ReadPhase(w) \/ ReadPhaseFails(w) \/ FinishCycle(w)
        \/ Fetch(w) \/ FetchHangs(w) \/ Decide(w) \/ InsertRow(w) \/ CommitRow(w)
        \/ EnterChecked(w)
        \/ NextInstrument(w, TRUE) \/ NextInstrument(w, FALSE)
    BY DEF WorkerStep, CommitRowFails, InstrumentFails, AtTheGate, NothingToExecute,
        PendingConfirmation, LiveOrderRaises, BrokerRejects, EnterUnpriced, EnterStores, Exit
  <2> QED
    BY <2>2, <2>3, <2>4, <2>5, <2>7, <2>8
<1> QED
  BY <1>1, <1>2, <1>3

(* Every step keeps what the dashboard knows of the loop.                  *)
LEMMA QuietNext == TypeInv /\ QuietInv /\ [Next]_vars => QuietInv'
<1> SUFFICES ASSUME TypeInv, QuietInv, [Next]_vars PROVE QuietInv'
  OBVIOUS
<1>1. pc \in [Workers -> PCs] /\ Loop \in Workers /\ env.credentials \in BOOLEAN
  BY DEF TypeInv, TypeOK, Workers, Settings
<1>2. CASE UNCHANGED vars \/ Stop \/ Crash
  BY <1>2 DEF vars, Stop, Crash, QuietInv
<1>3. CASE Boot
  BY <1>1, <1>3 DEF Boot, QuietInv
<1>4. CASE LoopStep
  BY <1>1, <1>4 DEF LoopStep, LoopBegins, LoopExits, LoopWakes, LoopMoves, BeginCycle,
     appVars, QuietInv
<1>5. ASSUME NEW w \in RunNowThreads, RunNow(w) PROVE QuietInv'
  <2>1. w # Loop
    BY ConstantsAssumption
  <2> QED
    BY <1>1, <1>5, <2>1 DEF RunNow, BeginCycle, appVars, QuietInv
<1>6. ASSUME NEW w \in Workers, WorkerStep(w) PROVE QuietInv'
  BY <1>6, QuietWorker DEF QuietInv
<1>7. ASSUME NEW t \in PhaseThreads, PhaseRequestStep(t) PROVE QuietInv'
  BY <1>7 DEF PhaseRequestStep, SetPhaseWrites, SetPhaseCommits, SetPhaseCommitFails,
     PhaseFrame, appVars, QuietInv
<1> QED
  BY <1>2, <1>3, <1>4, <1>5, <1>6, <1>7 DEF Next

(* dashboard(): no error shown means that the loop thread is alive.        *)
THEOREM QuietDashboardIsHonest == Spec => []QuietDashboardMeansLoopRuns
<1>1. Init => QuietInv
  BY DEF Init, QuietInv
<1>2. QuietInv => QuietDashboardMeansLoopRuns
  BY DEF QuietInv, QuietDashboardMeansLoopRuns, BannerShown
<1> QED
  BY <1>1, <1>2, QuietNext, TypeInvariant, PTL DEF Spec
=============================================================================

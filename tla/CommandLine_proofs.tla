------------------------- MODULE CommandLine_proofs -------------------------
(***************************************************************************)
(* Theorems about the command line process and the parsing of replies, for *)
(* every watchlist, every environment and .env, every reply and every      *)
(* clock.                                                                  *)
(***************************************************************************)
EXTENDS CommandLineProperties, Clock_proofs, SequenceTheorems

(* The decisions the parsing accepts are those that keep the playbook's    *)
(* discipline: no other reply reaches the audit trail, and none of these   *)
(* is refused.                                                             *)
THEOREM AcceptedMeansDisciplined ==
    \A raw \in ToolInputs: ToolInputError(raw) = {} <=> Disciplined(raw)
  BY DEF ToolInputs, ToolInputError, PostInitError, Disciplined, Actions

(* A reply that keeps the tool's strict schema is parsed or raises the     *)
(* AgentError the module promises; KeyError, TypeError and AttributeError  *)
(* come from replies that break it.                                        *)
THEOREM SchemaKeepsErrorsInTheModule ==
    \A raw \in ToolInputs: KeepsSchema(raw) => ToolInputError(raw) \subseteq {"AgentError"}
  BY DEF ToolInputs, ToolInputError, PostInitError, KeepsSchema, Actions

-----------------------------------------------------------------------------
(* A step of the process, by what it does to the parts of the state.       *)

Endings == {"done", "message", "traceback", "stopped", "KeyboardInterrupt"}

(* An instrument whose turn raises before anything is written.             *)
TurnFails ==
    /\ pc \in TurnSteps
    /\ TurnEnds(0)
    /\ UNCHANGED <<logVars, brokerVars, liveReached>>

(* No exception of a turn gets past run_once.                              *)
LEMMA EveryTurnExceptionIsCaught ==
    ASSUME NEW e \in {"APIError", "ValueError", "AgentError",
                      "AgentRefusalError", "KeyError", "TypeError",
                      "AttributeError", "DatabaseError"},
           Raises(e), pc \in TurnSteps
    PROVE  TurnFails
  BY DEF Raises, IsCaught, TurnFails

(* What a malformed reply can raise.                                       *)
LEMMA ToolInputErrors ==
    ASSUME NEW raw \in ToolInputs
    PROVE  ToolInputError(raw) \subseteq {"AgentError", "KeyError", "TypeError", "AttributeError"}
  BY DEF ToolInputError, PostInitError

(* Every step ends the process or is one of these.                         *)
LEMMA StepCases ==
    ASSUME [Next]_vars
    PROVE  \/ UNCHANGED vars
           \/ Tick \/ Start
           \/ pc # "off" /\ \E how \in Endings: Ends(how)
           \/ LoadLine \/ LoadEnds \/ ClientCreated \/ RunnerCreated
           \/ PassBegins \/ Report \/ Wake
           \/ Fetch \/ FetchHangs \/ TakeContext \/ Decide \/ InsertRow
           \/ CommitRow \/ CommitFails
           \/ TurnFails \/ NothingToDo \/ LiveOrderRaises \/ Enter \/ Exit
<1>1. CASE Interrupt
  BY <1>1 DEF Interrupt, Endings
<1>2. CASE ClientRefused \/ ClientRaises \/ RunnerRefused \/ LoopDone \/ ReportRaises
  BY <1>2 DEF ClientRefused, ClientRaises, RunnerRefused, LoopDone, ReportRaises, Endings
<1>3. CASE FetchFails
  BY <1>3, EveryTurnExceptionIsCaught DEF FetchFails, TurnSteps
<1>4. CASE CallFails
  BY <1>4, EveryTurnExceptionIsCaught DEF CallFails, CallErrors, TurnSteps
<1>5. CASE BadReply
  BY <1>5, EveryTurnExceptionIsCaught, ToolInputErrors, CommandLineAssumption
  DEF BadReply, TurnSteps
<1>6. CASE InsertFails
  BY <1>6, EveryTurnExceptionIsCaught DEF InsertFails, TurnSteps
<1>7. CASE EnterUnpriced
  BY <1>7, EveryTurnExceptionIsCaught DEF EnterUnpriced, CanEnter, Asks, TurnSteps
<1> QED
  BY <1>1, <1>2, <1>3, <1>4, <1>5, <1>6, <1>7
  DEF Next, ProcessStep, SetupStep, LoopStep, TurnStep

-----------------------------------------------------------------------------
(* Facts the steps share.                                                  *)

(* A row is told from the decision not yet taken.                          *)
LEMMA RowsAreDecided == Undecided \notin Rows
  BY DEF Undecided, Rows

(* What a decision reads off an accepted reply.                            *)
LEMMA ParsedType ==
    ASSUME NEW raw \in ToolInputs, ToolInputError(raw) = {},
           NEW i \in Instruments
    PROVE  /\ ParsedDecision(raw, i) \in ParsedDecisions
           /\ ParsedDecision(raw, i).action = "enter" =>
                ParsedDecision(raw, i).direction # "none"
<1>1. Disciplined(raw)
  BY AcceptedMeansDisciplined
<1>2. /\ raw.action \in Actions /\ raw.priced \in BOOLEAN
      /\ raw.direction \in {"bullish", "bearish", "none"}
      /\ raw.confidence \in {"none", "in_range"}
      /\ raw.action = "enter" => raw.direction # "none"
  BY <1>1 DEF Disciplined, ToolInputs
<1>3. DecisionFromReply(raw, i).instrument \in Instruments
  <2>1. raw.instrument \in Instruments \cup {NoName} /\ raw = [raw EXCEPT !.instrument = @]
    BY DEF ToolInputs
  <2>2. DecisionFromReply(raw, i).instrument
          = IF raw.instrument = NoName THEN i ELSE raw.instrument
    BY DEF DecisionFromReply, ToolInputs
  <2> QED
    BY <2>1, <2>2
<1> QED
  BY <1>2, <1>3 DEF ParsedDecision, ParsedDecisions

(* The session context has its type.                                       *)
LEMMA ContextType ==
    ASSUME NEW m \in Moments
    PROVE  GetSessionContext(m, OffsetAt[m]) \in Contexts
<1>1. m \in Nat
  BY CommandLineAssumption
<1> QED
  BY <1>1 DEF GetSessionContext, Contexts, OpenSessions, ActiveKillZones, ActiveWindows

(* What is left of the table after a rollback or a crash.                  *)
LEMMA Truncated ==
    ASSUME NEW S, NEW s \in Seq(S), NEW n \in 0 .. Len(s)
    PROVE  /\ SubSeq(s, 1, n) \in Seq(S)
           /\ Len(SubSeq(s, 1, n)) = n
           /\ \A k \in 1 .. n: SubSeq(s, 1, n)[k] = s[k]
<1>1. Len(s) \in Nat
  BY LenProperties
<1>2. 1 \in 1 .. Len(s) + 1 /\ n \in Nat
  BY <1>1
<1>3. \A k \in 1 .. n: k \in 1 .. Len(s)
  BY <1>1
<1> QED
  BY <1>1, <1>2, <1>3, SubSeqProperties

(* Where a pass stands after each place of the watch list.                 *)
LEMMA AtPlaceType ==
    ASSUME NEW n \in Nat \ {0}
    PROVE  /\ AtPlace(n) \in {"fetch", "report"}
           /\ AtPlace(n) = "fetch" <=> n \in 1 .. Len(Watchlist)
<1>1. Len(Watchlist) \in Nat
  BY CommandLineAssumption, LenProperties
<1> QED
  BY <1>1 DEF AtPlace

-----------------------------------------------------------------------------
(* Type correctness.                                                       *)

(* The initial states have their types.                                    *)
LEMMA TypeInit == Init => TypeOK
<1> SUFFICES ASSUME Init PROVE TypeOK
  OBVIOUS
<1>1. rows \in Seq(Rows) /\ durable \in 0 .. Len(rows) /\ results \in Seq(Results)
  BY EmptySeq DEF Init, LogInit
<1>2. BrokerTypeOK
  BY DEF Init, BrokerInit, BrokerTypeOK, Flat
<1>3. environ \in [Keys -> Values \cup {Unset}]
  BY CommandLineAssumption DEF Init, LaunchType
<1>4. context \in Contexts
  BY DEF Init, NoContext, Contexts
<1> QED
  BY <1>1, <1>2, <1>3, <1>4
  DEF Init, TypeOK, PCs, LoopSteps, TurnSteps

(* Types are kept when the process ends,                                   *)
LEMMA TypeEnds ==
    ASSUME TypeOK, NEW how \in Endings, Ends(how)
    PROVE  TypeOK'
<1> USE DEF TypeOK
<1>1. rows' \in Seq(Rows) /\ durable' \in 0 .. Len(rows') /\ results' \in Seq(Results)
  BY Truncated, EmptySeq DEF Ends, LogCrash
<1>2. BrokerTypeOK'
  BY DEF Ends, BrokerCrash, BrokerTypeOK, Flat
<1>3. context' \in Contexts
  BY DEF Ends, NoContext, Contexts
<1>4. UNCHANGED <<now, launch, environ, starts, passes>>
  BY DEF Ends, processVars
<1> QED
  BY <1>1, <1>2, <1>3, <1>4 DEF Ends, PCs, LoopSteps, TurnSteps, Endings

(* The turn of an instrument ends with the result `id`.                    *)
LEMMA TypeTurnEnds ==
    ASSUME TypeOK, NEW id \in Nat, pc \in TurnSteps, TurnEnds(id),
           rows' \in Seq(Rows), durable' \in 0 .. Len(rows'),
           BrokerTypeOK', liveReached' \in BOOLEAN
    PROVE  TypeOK'
<1> USE DEF TypeOK
<1>1. place \in 1 .. Len(Watchlist) /\ Watchlist[place] \in Instruments
  BY CommandLineAssumption, ElementOfSeq
<1>2. results' \in Seq(Results)
  BY <1>1, AppendProperties DEF TurnEnds, Results
<1>3. /\ place' \in Nat \ {0} /\ pc' \in {"fetch", "report"}
      /\ pc' = "fetch" => place' \in 1 .. Len(Watchlist)
  BY <1>1, AtPlaceType DEF TurnEnds
<1>4. context' \in Contexts
  BY DEF TurnEnds, NoContext, Contexts
<1>5. UNCHANGED <<now, launch, environ, starts, reports, rests, passes, ended>>
  BY DEF TurnEnds, TurnFrame, processVars
<1> QED
  BY <1>2, <1>3, <1>4, <1>5 DEF TurnEnds, PCs, LoopSteps, TurnSteps

(* by the start of the process,                                            *)
LEMMA TypeSetup ==
    ASSUME TypeOK, LoadLine \/ LoadEnds \/ ClientCreated \/ RunnerCreated
    PROVE  TypeOK'
<1> USE DEF TypeOK
<1>1. /\ Setup /\ pc' \in {"load", "client", "runner", "top"} /\ place' \in Nat
      /\ pc' = "load" => place' # 0
  BY DEF LoadLine, LoadEnds, ClientCreated, RunnerCreated, Moves
<1>2. environ' \in [Keys -> Values \cup {Unset}]
  <2>1. CASE LoadLine
    <3>1. launch.file \in Seq(Lines)
      BY CommandLineAssumption DEF LaunchType
    <3>2. place \in 1 .. Len(launch.file) => launch.file[place] \in Lines
      BY <3>1, ElementOfSeq
    <3>3. place \in 1 .. Len(launch.file)
      BY <2>1, <3>1, LenProperties DEF LoadLine
    <3> QED
      BY <2>1, <3>2, <3>3 DEF LoadLine, Lines, Assigns
  <2>2. CASE LoadEnds \/ ClientCreated \/ RunnerCreated
    BY <2>2 DEF LoadEnds, ClientCreated, RunnerCreated, Moves
  <2> QED
    BY <2>1, <2>2
<1> QED
  BY <1>1, <1>2
  DEF LoadLine, Setup, logVars, brokerVars, loopVars, BrokerTypeOK, PCs, LoopSteps, TurnSteps

(* by the loop between turns,                                              *)
LEMMA TypeLoop ==
    ASSUME TypeOK, PassBegins \/ Report \/ Wake
    PROVE  TypeOK'
<1> USE DEF TypeOK
<1>1. LoopFrame
  BY DEF PassBegins, Report, Wake
<1>2. /\ pc' \in {"fetch", "report", "rest", "top"} /\ place' \in Nat
      /\ pc' = "fetch" => place' \in 1 .. Len(Watchlist)
      /\ results' \in Seq(Results)
      /\ reports' \in Nat /\ rests' \in Nat /\ passes' \in Nat
  <2>1. CASE PassBegins
    BY <2>1, AtPlaceType DEF PassBegins
  <2>2. CASE Report
    BY <2>2, EmptySeq DEF Report, AfterPass
  <2>3. CASE Wake
    BY <2>3 DEF Wake
  <2> QED
    BY <2>1, <2>2, <2>3
<1> QED
  BY <1>1, <1>2
  DEF LoopFrame, logVars, brokerVars, processVars, BrokerTypeOK, PCs, LoopSteps, TurnSteps

(* by the steps of a turn up to its row,                                   *)
LEMMA TypeTurn ==
    ASSUME TypeOK,
           \/ Fetch \/ FetchHangs \/ TakeContext \/ Decide \/ InsertRow
           \/ CommitRow
    PROVE  TypeOK'
<1> USE DEF TypeOK
<1>1. /\ TurnFrame
      /\ UNCHANGED <<brokerVars, place, results, liveReached>>
      /\ pc \in TurnSteps /\ pc' \in LoopSteps
  BY DEF Fetch, FetchHangs, TakeContext, Decide, InsertRow, CommitRow,
         TurnMoves, TurnSteps, LoopSteps
<1>2. Len(rows) \in Nat
  BY LenProperties
<1>3. rows' \in Seq(Rows) /\ durable' \in 0 .. Len(rows') /\ row' \in Nat
  <2>1. CASE InsertRow
    <3>1. decision \in Rows
      BY <2>1 DEF InsertRow, TurnMoves
    <3>2. rows' = Append(rows, decision) /\ durable' = durable /\ row' = Len(rows) + 1
      BY <2>1 DEF InsertRow, LogInsert
    <3> QED
      BY <3>1, <3>2, <1>2, AppendProperties
  <2>2. CASE CommitRow
    BY <1>2, <2>2 DEF CommitRow, LogCommit
  <2>3. CASE Fetch \/ FetchHangs \/ TakeContext \/ Decide
    BY <2>3 DEF Fetch, FetchHangs, TakeContext, Decide, logVars
  <2> QED
    BY <2>1, <2>2, <2>3
<1>4. context' \in Contexts
  BY ContextType
  DEF Fetch, FetchHangs, TakeContext, Decide, InsertRow, CommitRow
<1>5. /\ decision' \in Rows \cup {Undecided}
      /\ pc' \in {"insert", "commit", "gate"} => decision' # Undecided
  <2>1. CASE Decide
    <3>1. Watchlist[place] \in Instruments
      BY <1>1, CommandLineAssumption, ElementOfSeq
    <3>2. PICK raw \in RawReplies:
            /\ ToolInputError(raw) = {}
            /\ decision' = [decision |-> ParsedDecision(raw, Watchlist[place]),
                            at |-> now, context |-> context]
      BY <2>1 DEF Decide
    <3>3. ParsedDecision(raw, Watchlist[place]) \in ParsedDecisions
      BY <3>1, <3>2, ParsedType, CommandLineAssumption
    <3>4. decision' \in Rows
      BY <3>2, <3>3, CommandLineAssumption DEF Rows
    <3> QED
      BY <3>4, RowsAreDecided
  <2>2. CASE Fetch \/ FetchHangs \/ TakeContext \/ InsertRow \/ CommitRow
    BY <2>2
    DEF Fetch, FetchHangs, TakeContext, InsertRow, CommitRow, TurnMoves
  <2> QED
    BY <2>1, <2>2
<1> QED
  BY <1>1, <1>3, <1>4, <1>5
  DEF TurnFrame, brokerVars, processVars, BrokerTypeOK, PCs, LoopSteps, TurnSteps

(* by the gate and the end of a turn,                                      *)
LEMMA TypeGate ==
    ASSUME TypeOK,
           CommitFails \/ TurnFails \/ NothingToDo \/ LiveOrderRaises \/ Enter \/ Exit
    PROVE  TypeOK'
<1>1. pc \in TurnSteps
  BY DEF CommitFails, TurnFails, NothingToDo, LiveOrderRaises, Enter, Exit,
         Trades, CanEnter, Asks, TurnSteps
<1>2. CASE CommitFails
  <2>1. rows' \in Seq(Rows) /\ durable' \in 0 .. Len(rows')
    BY <1>2, Truncated DEF CommitFails, LogCommitFails, TypeOK
  <2> QED
    BY <1>1, <1>2, <2>1, TypeTurnEnds
    DEF CommitFails, brokerVars, BrokerTypeOK, TypeOK
<1>3. CASE TurnFails
  BY <1>1, <1>3, TypeTurnEnds
  DEF TurnFails, logVars, brokerVars, BrokerTypeOK, TypeOK
<1>4. CASE NothingToDo
  BY <1>1, <1>4, TypeTurnEnds
  DEF NothingToDo, logVars, brokerVars, BrokerTypeOK, TypeOK
<1>5. CASE LiveOrderRaises
  <2>1. liveReached' \in BOOLEAN
    BY <1>5 DEF LiveOrderRaises, LiveTradingEnabled, IsPaper, TypeOK
  <2> QED
    BY <1>1, <1>5, <2>1, TypeTurnEnds
    DEF LiveOrderRaises, logVars, brokerVars, BrokerTypeOK, TypeOK
<1>6. CASE Enter
  <2>1. BrokerTypeOK'
    BY <1>6 DEF Enter, OpenPosition, BrokerTypeOK, TypeOK
  <2> QED
    BY <1>1, <1>6, <2>1, TypeTurnEnds DEF Enter, logVars, TypeOK
<1>7. CASE Exit
  <2>1. Named \in Instruments
    <3>1. decision \in Rows
      BY <1>7 DEF Exit, Asks, TypeOK
    <3> QED
      BY <3>1 DEF Rows, ParsedDecisions, Named
  <2>2. BrokerTypeOK'
    BY <1>7, <2>1 DEF Exit, ClosePosition, BrokerTypeOK, TypeOK, Flat
  <2> QED
    BY <1>1, <1>7, <2>2, TypeTurnEnds DEF Exit, logVars, TypeOK
<1> QED
  BY <1>2, <1>3, <1>4, <1>5, <1>6, <1>7

(* and so by every step.                                                   *)
LEMMA TypeStep == TypeOK /\ [Next]_vars => TypeOK'
<1> SUFFICES ASSUME TypeOK, [Next]_vars PROVE TypeOK'
  OBVIOUS
<1>1. CASE UNCHANGED vars
  BY <1>1 DEF vars, TypeOK, BrokerTypeOK
<1>2. CASE Tick
  BY <1>2
  DEF Tick, TypeOK, BrokerTypeOK, logVars, brokerVars, processVars, turnVars, loopVars
<1>3. CASE Start
  <2>1. environ' \in [Keys -> Values \cup {Unset}]
    BY <1>3, CommandLineAssumption DEF Start, LaunchType
  <2>2. liveReached' \in BOOLEAN
    BY <1>3, Zenon DEF Start
  <2>3. /\ launch' \in Launches /\ starts' \in Nat
        /\ pc' = "load" /\ place' = 1
        /\ UNCHANGED <<rows, durable, positions, closed, now, context,
                       decision, row, results, reports, rests, passes, ended>>
    BY <1>3 DEF Start, TypeOK, logVars, brokerVars, loopVars
  <2> QED
    BY <2>1, <2>2, <2>3 DEF TypeOK, BrokerTypeOK, PCs, LoopSteps, TurnSteps
<1>4. CASE \E how \in Endings: Ends(how)
  BY <1>4, TypeEnds
<1> QED
  BY <1>1, <1>2, <1>3, <1>4, StepCases, TypeSetup, TypeLoop, TypeTurn, TypeGate

(* The type invariant: the process always stays within what its variables  *)
(* are declared to be, and a turn has its instrument and its decision.     *)
THEOREM CommandLineTypeCorrect == Spec => []TypeOK
  BY TypeInit, TypeStep, PTL DEF Spec

-----------------------------------------------------------------------------
(* Settings.                                                               *)

IsFirstLine(n, key) ==
    /\ launch.file[n].key = key
    /\ \A m \in 1 .. Len(launch.file): m < n => launch.file[m].key # key

(* The lines of .env before `end` have been read.                          *)
Loaded(key, end) ==
    /\ launch.environ[key] # Unset => environ[key] = launch.environ[key]
    /\ launch.environ[key] = Unset /\ environ[key] = Unset =>
        \A n \in 1 .. Len(launch.file): n < end => launch.file[n].key # key
    /\ launch.environ[key] = Unset /\ environ[key] # Unset =>
        \E n \in 1 .. Len(launch.file):
            n < end /\ IsFirstLine(n, key) /\ environ[key] = launch.file[n].value

LoadedAll == \A key \in Keys: Loaded(key, Len(launch.file) + 1)

SettingsInv ==
    /\ pc = "load" => \A key \in Keys: Loaded(key, place)
    /\ pc \in {"client", "runner"} \cup LoopSteps => LoadedAll
    /\ pc \in {"runner"} \cup LoopSteps => IsGiven(ClientKey)
    /\ pc \in LoopSteps => IsGiven("ANTHROPIC_API_KEY")
    /\ liveReached => /\ pc \in LoopSteps
                      /\ environ["ICTAGENT_PHASE"] = "autonomous"
                      /\ environ["ICTAGENT_LIVE_TRADING_CONFIRM"] = "confirm"

(* The invariant needs no least line: it carries the first one along.      *)
LEMMA LoadedIsFirstSource ==
    ASSUME TypeOK, LoadedAll
    PROVE  \A key \in Keys: environ[key] = FirstSource(key)
<1>1. launch.file \in Seq(Lines)
  BY CommandLineAssumption DEF TypeOK, LaunchType
<1>2. Len(launch.file) \in Nat
  BY <1>1, LenProperties
<1>3. TAKE key \in Keys
<1>4. Loaded(key, Len(launch.file) + 1)
  BY DEF LoadedAll
<1> DEFINE lines == {n \in 1 .. Len(launch.file): launch.file[n].key = key}
<1>5. CASE launch.environ[key] # Unset
  BY <1>4, <1>5 DEF Loaded, FirstSource
<1>6. CASE launch.environ[key] = Unset /\ environ[key] = Unset
  <2>1. lines = {}
    BY <1>2, <1>4, <1>6 DEF Loaded
  <2> QED
    BY <1>6, <2>1, Zenon DEF FirstSource
<1>7. CASE launch.environ[key] = Unset /\ environ[key] # Unset
  <2>1. PICK n \in lines: /\ \A m \in lines: n <= m
                          /\ environ[key] = launch.file[n].value
    <3>1. PICK n \in 1 .. Len(launch.file):
            IsFirstLine(n, key) /\ environ[key] = launch.file[n].value
      BY <1>4, <1>7 DEF Loaded
    <3>2. \A m \in lines: n <= m
      BY <1>2, <3>1 DEF IsFirstLine
    <3> QED
      BY <3>1, <3>2 DEF IsFirstLine
  <2>2. \A k \in lines: (\A m \in lines: k <= m) => k = n
    BY <1>2, <2>1
  <2>3. (CHOOSE k \in lines: \A m \in lines: k <= m) = n
    BY <2>1, <2>2
  <2>4. lines # {}
    BY <2>1
  <2> QED
    BY <1>7, <2>1, <2>3, <2>4, Zenon DEF FirstSource
<1> QED
  BY <1>5, <1>6, <1>7

(* What the settings invariant is for.                                     *)
LEMMA SettingsFollow == TypeOK /\ SettingsInv => SettingsHaveOneSource
<1> SUFFICES ASSUME TypeOK, SettingsInv PROVE SettingsHaveOneSource
  OBVIOUS
<1>1. /\ ClientKey \in Keys /\ "ANTHROPIC_API_KEY" \in Keys
      /\ "ICTAGENT_PHASE" \in Keys /\ "ICTAGENT_LIVE_TRADING_CONFIRM" \in Keys
  BY DEF ClientKey, Keys
<1>2. pc \in {"client", "runner"} \cup LoopSteps =>
        \A key \in Keys: environ[key] = FirstSource(key)
  BY LoadedIsFirstSource DEF SettingsInv
<1>3. pc \in LoopSteps => HasKey(ClientKey) /\ HasKey("ANTHROPIC_API_KEY")
  BY <1>1, <1>2 DEF SettingsInv, HasKey, IsGiven
<1>4. liveReached => /\ FirstSource("ICTAGENT_PHASE") = "autonomous"
                     /\ FirstSource("ICTAGENT_LIVE_TRADING_CONFIRM") = "confirm"
  BY <1>1, <1>2 DEF SettingsInv
<1> QED
  BY <1>2, <1>3, <1>4 DEF SettingsHaveOneSource

(* Once its runner exists a process keeps its settings.                    *)
LEMMA RunningKeepsSettings ==
    ASSUME TypeOK,
           \/ PassBegins \/ Report \/ Wake
           \/ Fetch \/ FetchHangs \/ TakeContext \/ Decide \/ InsertRow
           \/ CommitRow \/ CommitFails
           \/ TurnFails \/ NothingToDo \/ LiveOrderRaises \/ Enter \/ Exit
    PROVE  /\ pc \in LoopSteps /\ pc' \in LoopSteps
           /\ UNCHANGED <<launch, environ, starts, now>>
           /\ LiveOrderRaises \/ UNCHANGED liveReached
<1>1. CASE PassBegins \/ Report \/ Wake
  <2>1. LoopFrame
    BY <1>1 DEF PassBegins, Report, Wake
  <2>2. pc \in LoopSteps /\ pc' \in LoopSteps
    BY <1>1
    DEF PassBegins, Report, Wake, AtPlace, AfterPass, LoopSteps, TurnSteps
  <2> QED
    BY <2>1, <2>2 DEF LoopFrame, processVars
<1>2. CASE Fetch \/ FetchHangs \/ TakeContext \/ Decide \/ InsertRow \/ CommitRow
  BY <1>2
  DEF Fetch, FetchHangs, TakeContext, Decide, InsertRow, CommitRow, TurnMoves,
      TurnFrame, processVars, LoopSteps, TurnSteps
<1>3. CASE CommitFails \/ TurnFails \/ NothingToDo \/ LiveOrderRaises \/ Enter \/ Exit
  <2>1. pc \in LoopSteps
    BY <1>3
    DEF CommitFails, TurnFails, NothingToDo, LiveOrderRaises, Enter, Exit,
        Trades, CanEnter, Asks, LoopSteps, TurnSteps
  <2>2. \E id \in Nat \cup {row}: TurnEnds(id)
    BY <1>3 DEF CommitFails, TurnFails, NothingToDo, LiveOrderRaises, Enter, Exit
  <2>3. pc' \in LoopSteps /\ UNCHANGED <<launch, environ, starts, now>>
    BY <2>2 DEF TurnEnds, TurnFrame, processVars, AtPlace, LoopSteps, TurnSteps
  <2>4. LiveOrderRaises \/ UNCHANGED liveReached
    BY <1>3, Zenon DEF CommitFails, TurnFails, NothingToDo, Enter, Exit
  <2> QED
    BY <2>1, <2>3, <2>4
<1> QED
  BY <1>1, <1>2, <1>3

(* No setting is read at the start.                                        *)
LEMMA SettingsInit == Init => SettingsInv
  BY DEF Init, SettingsInv, LoopSteps, TurnSteps

(* Reading a line gives a key its value only if nothing has before.        *)
LEMMA SettingsLoadLine ==
    ASSUME TypeOK, SettingsInv, LoadLine
    PROVE  SettingsInv'
<1>1. launch.file \in Seq(Lines) /\ launch.environ \in [Keys -> Values \cup {Unset}]
  BY CommandLineAssumption DEF TypeOK, LaunchType
<1>2. Len(launch.file) \in Nat
  BY <1>1, LenProperties
<1> DEFINE line == launch.file[place]
<1>3. place \in 1 .. Len(launch.file)
  BY <1>2 DEF LoadLine, TypeOK
<1>4. line.key \in Keys \cup {NoKey} /\ line.value \in Values
  <2>1. line \in Lines
    BY <1>1, <1>3, ElementOfSeq
  <2> QED
    BY <2>1 DEF Lines
<1>5. line.value # Unset
  BY <1>4 DEF Values, Phases, Unset
<1>6. /\ pc' = "load" /\ place' = place + 1
      /\ UNCHANGED <<launch, liveReached>>
      /\ environ' = IF Assigns(line) THEN [environ EXCEPT ![line.key] = line.value]
                    ELSE environ
  BY DEF LoadLine, Setup
<1>7. ASSUME NEW key \in Keys PROVE Loaded(key, place)'
  <2>1. Loaded(key, place)
    BY DEF SettingsInv, LoadLine
  <2>2. environ \in [Keys -> Values \cup {Unset}]
    BY DEF TypeOK
  <2>3. CASE Assigns(line) /\ line.key = key
    <3>1. environ[key] = Unset /\ environ'[key] = line.value
      BY <1>6, <2>2, <2>3 DEF Assigns
    <3>2. launch.environ[key] = Unset
      BY <2>1, <3>1 DEF Loaded
    <3>3. \A n \in 1 .. Len(launch.file): n < place => launch.file[n].key # key
      BY <2>1, <3>1, <3>2 DEF Loaded
    <3>4. IsFirstLine(place, key)
      BY <2>3, <3>3 DEF IsFirstLine
    <3> QED
      BY <1>2, <1>3, <1>5, <1>6, <3>1, <3>2, <3>4 DEF Loaded, IsFirstLine
  <2>4. CASE ~(Assigns(line) /\ line.key = key)
    <3>1. environ'[key] = environ[key]
      BY <1>6, <2>2, <2>4 DEF Assigns
    <3>2. line.key = key => environ[key] # Unset
      BY <2>4 DEF Assigns
    <3> HIDE DEF line
    <3>3. CASE launch.environ[key] # Unset
      BY <1>6, <2>1, <3>1, <3>3 DEF Loaded
    <3>4. CASE launch.environ[key] = Unset /\ environ[key] = Unset
      <4>1. \A n \in 1 .. Len(launch.file): n < place + 1 => launch.file[n].key # key
        BY <1>2, <1>3, <2>1, <3>2, <3>4 DEF Loaded, line
      <4> QED
        BY <1>6, <3>1, <3>4, <4>1 DEF Loaded
    <3>5. CASE launch.environ[key] = Unset /\ environ[key] # Unset
      <4>1. \E n \in 1 .. Len(launch.file):
              n < place + 1 /\ IsFirstLine(n, key) /\ environ[key] = launch.file[n].value
        BY <1>2, <1>3, <2>1, <3>5 DEF Loaded
      <4> QED
        BY <1>6, <3>1, <3>5, <4>1 DEF Loaded, IsFirstLine
    <3> QED
      BY <3>3, <3>4, <3>5
  <2> QED
    BY <2>3, <2>4
<1>8. ~liveReached
  BY DEF SettingsInv, LoadLine, LoopSteps, TurnSteps
<1> QED
  BY <1>6, <1>7, <1>8 DEF SettingsInv, LoopSteps, TurnSteps

(* After .env is read the settings stay.                                   *)
LEMMA SettingsSetup ==
    ASSUME TypeOK, SettingsInv, LoadEnds \/ ClientCreated \/ RunnerCreated
    PROVE  SettingsInv'
<1>1. /\ UNCHANGED <<launch, environ, liveReached>>
      /\ pc \in {"load", "client", "runner"} /\ ~liveReached
  BY DEF LoadEnds, ClientCreated, RunnerCreated, Moves, Setup, SettingsInv,
         LoopSteps, TurnSteps
<1>2. /\ LoadEnds => pc = "load" /\ pc' = "client" /\ place > Len(launch.file)
      /\ ClientCreated => pc = "client" /\ pc' = "runner" /\ IsGiven(ClientKey)
      /\ RunnerCreated => pc = "runner" /\ pc' = "top" /\ IsGiven("ANTHROPIC_API_KEY")
  BY DEF LoadEnds, ClientCreated, RunnerCreated, Moves
<1>3. LoadedAll
  <2>1. Len(launch.file) \in Nat /\ place \in Nat
    BY CommandLineAssumption, LenProperties DEF TypeOK, LaunchType
  <2>2. ASSUME LoadEnds, NEW key \in Keys PROVE Loaded(key, Len(launch.file) + 1)
    <3>1. Loaded(key, place)
      BY <1>2, <2>2 DEF SettingsInv
    <3>2. \A n \in 1 .. Len(launch.file): n < place /\ n < Len(launch.file) + 1
      BY <1>2, <2>1, <2>2
    <3> QED
      BY <3>1, <3>2 DEF Loaded
  <2> QED
    BY <1>2, <2>2 DEF LoadedAll, SettingsInv
<1>4. LoadedAll'
  BY <1>1, <1>3 DEF LoadedAll, Loaded, IsFirstLine
<1>5. \A key: IsGiven(key) => IsGiven(key)'
  BY <1>1 DEF IsGiven
<1>6. ClientKey' = ClientKey
  BY <1>1 DEF ClientKey
<1> QED
  BY <1>1, <1>2, <1>4, <1>5, <1>6 DEF SettingsInv, LoopSteps, TurnSteps

(* Every step keeps the settings invariant.                                *)
LEMMA SettingsStep == TypeOK /\ SettingsInv /\ [Next]_vars => SettingsInv'
<1> SUFFICES ASSUME TypeOK, SettingsInv, [Next]_vars PROVE SettingsInv'
  OBVIOUS
<1>1. CASE UNCHANGED vars \/ Tick
  <2>1. UNCHANGED <<launch, environ, pc, place, liveReached>>
    BY <1>1 DEF vars, Tick, processVars, turnVars
  <2>2. \A key, end: Loaded(key, end) => Loaded(key, end)'
    BY <2>1 DEF Loaded, IsFirstLine
  <2>3. LoadedAll => LoadedAll'
    BY <2>1 DEF LoadedAll, Loaded, IsFirstLine
  <2> QED
    BY <2>1, <2>2, <2>3 DEF SettingsInv, IsGiven, ClientKey
<1>2. CASE Start
  <2>1. /\ environ' = launch'.environ /\ pc' = "load" /\ place' = 1
        /\ launch'.file \in Seq(Lines)
    BY <1>2, CommandLineAssumption DEF Start, LaunchType
  <2>2. ~liveReached'
    BY <1>2 DEF Start
  <2>3. \A n \in 1 .. Len(launch'.file): ~(n < 1)
    BY <2>1, LenProperties
  <2>4. \A key \in Keys: Loaded(key, place)'
    BY <2>1, <2>3 DEF Loaded
  <2> QED
    BY <2>1, <2>2, <2>4 DEF SettingsInv, LoopSteps, TurnSteps
<1>3. CASE \E how \in Endings: Ends(how)
  <2>1. pc' = "off" /\ ~liveReached'
    BY <1>3 DEF Ends
  <2> QED
    BY <2>1 DEF SettingsInv, LoopSteps, TurnSteps
<1>4. CASE \/ PassBegins \/ Report \/ Wake
           \/ Fetch \/ FetchHangs \/ TakeContext \/ Decide \/ InsertRow
           \/ CommitRow \/ CommitFails
           \/ TurnFails \/ NothingToDo \/ LiveOrderRaises \/ Enter \/ Exit
  <2>1. /\ pc \in LoopSteps /\ pc' \in LoopSteps
        /\ UNCHANGED <<launch, environ>>
    BY <1>4, RunningKeepsSettings
  <2>2. LoadedAll'
    BY <2>1 DEF SettingsInv, LoadedAll, Loaded, IsFirstLine
  <2>3. IsGiven(ClientKey)' /\ IsGiven("ANTHROPIC_API_KEY")'
    BY <2>1 DEF SettingsInv, IsGiven, ClientKey
  <2>4. liveReached' => /\ environ["ICTAGENT_PHASE"] = "autonomous"
                        /\ environ["ICTAGENT_LIVE_TRADING_CONFIRM"] = "confirm"
    <3>1. CASE LiveOrderRaises
      <4>1. SettingsPhase = "autonomous" => environ["ICTAGENT_PHASE"] = "autonomous"
        BY DEF SettingsPhase, Phases
      <4>2. SettingsPhase = "autonomous"
        BY <3>1 DEF LiveOrderRaises
      <4>3. liveReached' => liveReached \/ Confirmed
        BY <3>1, Zenon DEF LiveOrderRaises, LiveTradingEnabled
      <4> QED
        BY <4>1, <4>2, <4>3 DEF Confirmed, SettingsInv
    <3>2. CASE UNCHANGED liveReached
      BY <3>2 DEF SettingsInv
    <3> QED
      BY <1>4, <3>1, <3>2, RunningKeepsSettings
  <2>5. pc' \notin {"load", "client", "runner"}
    BY <2>1 DEF LoopSteps, TurnSteps
  <2> QED
    BY <2>1, <2>2, <2>3, <2>4, <2>5 DEF SettingsInv
<1> QED
  BY <1>1, <1>2, <1>3, <1>4, StepCases, SettingsLoadLine, SettingsSetup

(* Every setting of a running process is the one of its first source, its  *)
(* keys are there, and the live branch takes both switches: for any .env,  *)
(* however often it repeats a key.                                         *)
THEOREM SettingsAlwaysHaveOneSource == Spec => []SettingsHaveOneSource
<1>1. Init => TypeOK /\ SettingsInv
  BY TypeInit, SettingsInit
<1>2. TypeOK /\ SettingsInv /\ [Next]_vars => (TypeOK /\ SettingsInv)'
  BY TypeStep, SettingsStep
<1>3. TypeOK /\ SettingsInv => SettingsHaveOneSource
  BY SettingsFollow
<1> QED
  BY <1>1, <1>2, <1>3, PTL DEF Spec

-----------------------------------------------------------------------------
(* The session context.                                                    *)

ContextInv ==
    context = NoContext \/ \E m \in Moments: context = GetSessionContext(m, OffsetAt[m])

(* Every step keeps the context invariant.                                 *)
LEMMA ContextStep == TypeOK /\ ContextInv /\ [Next]_vars => ContextInv'
<1> SUFFICES ASSUME TypeOK, ContextInv, [Next]_vars PROVE ContextInv'
  OBVIOUS
<1>1. CASE TakeContext
  BY <1>1 DEF TakeContext, ContextInv, TypeOK
<1>2. CASE \/ UNCHANGED vars \/ Tick \/ Start
           \/ LoadLine \/ LoadEnds \/ ClientCreated \/ RunnerCreated
           \/ PassBegins \/ Report \/ Wake
           \/ Fetch \/ FetchHangs \/ Decide \/ InsertRow \/ CommitRow
  <2>1. context' = context
    BY <1>2
    DEF vars, Tick, Start, LoadLine, LoadEnds, ClientCreated, RunnerCreated,
        Moves, Setup, PassBegins, Report, Wake, LoopFrame, Fetch, FetchHangs,
        Decide, InsertRow, CommitRow, turnVars
  <2> QED
    BY <2>1 DEF ContextInv
<1>3. CASE \/ CommitFails \/ TurnFails \/ NothingToDo \/ LiveOrderRaises
           \/ Enter \/ Exit \/ \E how \in Endings: Ends(how)
  <2>1. context' = NoContext
    BY <1>3
    DEF CommitFails, TurnFails, NothingToDo, LiveOrderRaises, Enter, Exit,
        TurnEnds, Ends
  <2> QED
    BY <2>1 DEF ContextInv
<1> QED
  BY <1>1, <1>2, <1>3, StepCases

(* The context of a turn names at most one kill zone, and one only while a *)
(* market of the table is open: whatever the clock shows and whichever     *)
(* clocks have been changed.                                               *)
THEOREM KillZonesAlwaysFit == Spec => []KillZonesFit
<1>1. Init => TypeOK /\ ContextInv
  BY TypeInit DEF Init, ContextInv
<1>2. TypeOK /\ ContextInv /\ [Next]_vars => (TypeOK /\ ContextInv)'
  BY TypeStep, ContextStep
<1>3. TypeOK /\ ContextInv => KillZonesFit
  <2> SUFFICES ASSUME ContextInv, context # NoContext
               PROVE  /\ KillZonesAreExclusive(context)
                      /\ KillZonesAreWithinSessions(context)
    BY DEF KillZonesFit
  <2>1. PICK m \in Moments: context = GetSessionContext(m, OffsetAt[m])
    BY DEF ContextInv
  <2>2. m \in Int /\ OffsetAt[m] \in Offsets
    BY CommandLineAssumption
  <2> QED
    BY <2>1, <2>2, OneKillZoneAtATime, KillZonesHaveAMarket
<1> QED
  BY <1>1, <1>2, <1>3, PTL DEF Spec

-----------------------------------------------------------------------------
(* The audit trail.                                                        *)

IsDisciplined(d) == d.decision.action = "enter" => d.decision.direction # "none"

(* A decision whose context is later than the newest row's moment.         *)
FollowsTrail(d) ==
    /\ d.context.at <= d.at /\ d.at <= now
    /\ \A n \in 1 .. Len(rows): rows[n].at <= d.context.at

TrailInv ==
    /\ \A n \in 1 .. Len(rows): rows[n].context.at <= rows[n].at /\ rows[n].at <= now
    /\ \A m, n \in 1 .. Len(rows): m < n => rows[m].at <= rows[n].context.at
    /\ \A n \in 1 .. Len(rows): IsDisciplined(rows[n])

TurnInv ==
    /\ pc = "reply" =>
        context.at <= now /\ \A n \in 1 .. Len(rows): rows[n].at <= context.at
    /\ pc = "insert" => FollowsTrail(decision) /\ IsDisciplined(decision)
    /\ pc \in {"commit", "gate"} => row = Len(rows) /\ row > 0 /\ rows[row] = decision
    /\ pc = "commit" => durable < row
    /\ pc = "gate" => durable = row

ResultsInv ==
    /\ \A n \in 1 .. Len(results): results[n].id <= durable
    /\ pc = "gate" => \A n \in 1 .. Len(results): results[n].id < row
    /\ \A m, n \in 1 .. Len(results):
        m < n /\ results[m].id # 0 /\ results[n].id # 0 =>
            results[m].id < results[n].id

PositionsInv ==
    \A i \in Instruments: HasPosition(i) =>
        /\ positions[i] \in 1 .. durable
        /\ rows[positions[i]].decision.action = "enter"
        /\ rows[positions[i]].decision.instrument = i

StoryInv == TrailInv /\ TurnInv /\ ResultsInv /\ PositionsInv

(* What the story invariant is for.                                        *)
LEMMA StoryTold == TypeOK /\ StoryInv => TrailTellsTheStory
<1> SUFFICES ASSUME TypeOK, StoryInv PROVE TrailTellsTheStory
  OBVIOUS
<1>1. Len(rows) \in Nat
  BY LenProperties DEF TypeOK
<1>2. \A n \in 1 .. Len(rows) - 1:
        n \in 1 .. Len(rows) /\ n + 1 \in 1 .. Len(rows) /\ n < n + 1
  BY <1>1
<1>3. TrailFollowsTheClock
  BY <1>2 DEF StoryInv, TrailInv, TrailFollowsTheClock
<1>4. TrailIsDisciplined
  BY DEF StoryInv, TrailInv, IsDisciplined, TrailIsDisciplined
<1>5. ReportedIsCommitted
  BY DEF StoryInv, ResultsInv, PositionsInv, ReportedIsCommitted
<1> QED
  BY <1>3, <1>4, <1>5 DEF TrailTellsTheStory

(* The numbers of the trail, as numbers.                                   *)
LEMMA TrailNumbers ==
    ASSUME TypeOK
    PROVE  /\ Len(rows) \in Nat /\ durable \in Nat /\ durable <= Len(rows)
           /\ now \in Nat
           /\ \A n \in 1 .. Len(rows): rows[n].at \in Nat /\ rows[n].context.at \in Nat
           /\ Len(results) \in Nat
           /\ \A n \in 1 .. Len(results): results[n].id \in Nat
<1>1. rows \in Seq(Rows) /\ results \in Seq(Results)
  BY DEF TypeOK
<1>2. \A n \in 1 .. Len(rows): rows[n] \in Rows
  BY <1>1, ElementOfSeq
<1>3. \A n \in 1 .. Len(results): results[n] \in Results
  BY <1>1, ElementOfSeq
<1>4. Len(rows) \in Nat /\ Len(results) \in Nat
  BY <1>1, LenProperties
<1> QED
  BY <1>2, <1>3, <1>4, CommandLineAssumption, SMTT(20) DEF TypeOK, Rows, Contexts, Results

(* Rows may be lost from the end of the table, and the clock goes on.      *)
LEMMA TrailKept ==
    ASSUME TypeOK, TypeOK', TrailInv, Len(rows') <= Len(rows),
           \A k \in 1 .. Len(rows'): rows'[k] = rows[k], now <= now'
    PROVE  TrailInv'
<1>1. \A k \in 1 .. Len(rows'): k \in 1 .. Len(rows)
  BY TrailNumbers
<1>2. now' \in Nat /\ now \in Nat /\ \A n \in 1 .. Len(rows): rows[n].at \in Nat
  BY TrailNumbers, CommandLineAssumption DEF TypeOK
<1>3. \A n \in 1 .. Len(rows'): rows'[n].context.at <= rows'[n].at /\ rows'[n].at <= now'
  BY <1>1, <1>2 DEF TrailInv
<1>4. \A m, n \in 1 .. Len(rows'): m < n => rows'[m].at <= rows'[n].context.at
  BY <1>1 DEF TrailInv
<1>5. \A n \in 1 .. Len(rows'): IsDisciplined(rows'[n])
  BY <1>1 DEF TrailInv
<1> QED
  BY <1>3, <1>4, <1>5 DEF TrailInv, IsDisciplined

(* Positions stay in place when the rows they were opened by do.           *)
LEMMA PositionsKept ==
    ASSUME TypeOK, TypeOK', PositionsInv, UNCHANGED positions,
           durable <= durable', \A k \in 1 .. durable: rows'[k] = rows[k]
    PROVE  PositionsInv'
<1>1. durable \in Nat /\ durable' \in Nat
  BY TrailNumbers DEF TypeOK
<1>2. \A k \in 1 .. durable: k \in 1 .. durable'
  BY <1>1
<1> QED
  BY <1>2 DEF PositionsInv, HasPosition

(* The process ends: the committed rows are what is left.                  *)
LEMMA StoryEnds ==
    ASSUME TypeOK, TypeOK', StoryInv, NEW how \in Endings, Ends(how)
    PROVE  StoryInv'
<1>1. /\ Len(rows') = durable /\ durable' = durable
      /\ \A k \in 1 .. durable: rows'[k] = rows[k]
  BY Truncated DEF Ends, LogCrash, TypeOK
<1>2. /\ results' = <<>> /\ pc' = "off" /\ now' = now
      /\ \A i \in Instruments: ~HasPosition(i)'
  BY DEF Ends, BrokerCrash, HasPosition, Flat
<1>3. TrailInv'
  BY <1>1, <1>2, TrailKept, TrailNumbers DEF StoryInv
<1>4. ResultsInv'
  <2>1. Len(results') = 0
    BY <1>2, EmptySeq
  <2> QED
    BY <1>2, <2>1 DEF ResultsInv
<1> QED
  BY <1>2, <1>3, <1>4 DEF StoryInv, TurnInv, PositionsInv

(* The table, the results and the positions stay as they are.              *)
LEMMA StoryGoesOn ==
    ASSUME TypeOK, TypeOK', StoryInv, TurnInv',
           UNCHANGED <<rows, durable, positions>>, now <= now',
           results' = results \/ results' = <<>>, pc' # "gate" \/ UNCHANGED <<pc, row, results>>
    PROVE  StoryInv'
<1>1. TrailInv' /\ PositionsInv'
  BY TrailKept, PositionsKept, TrailNumbers DEF StoryInv
<1>2. ASSUME results' = results PROVE ResultsInv'
  <2>1. durable' = durable /\ ResultsInv
    BY DEF StoryInv
  <2>2. pc' = "gate" => pc = "gate" /\ row' = row
    OBVIOUS
  <2> QED
    BY <1>2, <2>1, <2>2 DEF ResultsInv
<1>3. ASSUME results' = <<>> PROVE ResultsInv'
  <2>1. 1 .. Len(results') = {}
    BY <1>3, EmptySeq
  <2> QED
    BY <2>1 DEF ResultsInv
<1> QED
  BY <1>1, <1>2, <1>3 DEF StoryInv

(* The steps that write no row and open no position.                       *)
LEMMA StoryQuietStep ==
    ASSUME TypeOK, TypeOK', StoryInv,
           \/ UNCHANGED vars \/ Tick \/ Start
           \/ LoadLine \/ LoadEnds \/ ClientCreated \/ RunnerCreated
           \/ PassBegins \/ Report \/ Wake
           \/ Fetch \/ FetchHangs \/ TakeContext \/ Decide
    PROVE  StoryInv'
<1>1. CASE UNCHANGED vars \/ Tick
  <2>1. /\ UNCHANGED <<rows, durable, positions, pc, context, decision, row, results>>
        /\ now \in Nat /\ now' \in Nat /\ now <= now'
    BY <1>1, TrailNumbers, CommandLineAssumption
    DEF vars, Tick, logVars, brokerVars, turnVars, loopVars
  <2>2. pc = "insert" => decision \in Rows
    BY DEF TypeOK
  <2>3. pc = "insert" => decision.at \in Nat
    BY <2>2 DEF Rows
  <2>4. pc = "reply" => context.at \in Nat
    BY DEF TypeOK, Contexts
  <2>5. TurnInv'
    BY <2>1, <2>3, <2>4 DEF StoryInv, TurnInv, FollowsTrail, IsDisciplined
  <2> QED
    BY <2>1, <2>5, StoryGoesOn
<1>2. CASE \/ Start \/ LoadLine \/ LoadEnds \/ ClientCreated \/ RunnerCreated
           \/ PassBegins \/ Report \/ Wake \/ Fetch \/ FetchHangs
  <2>1. /\ UNCHANGED <<rows, durable, positions, now>>
        /\ results' = results \/ results' = <<>>
        /\ pc' \notin {"reply", "insert", "commit", "gate"}
    BY <1>2
    DEF Start, LoadLine, LoadEnds, ClientCreated, RunnerCreated, Moves, Setup,
        PassBegins, Report, Wake, AtPlace, AfterPass, LoopFrame, Fetch,
        FetchHangs, TurnMoves, TurnFrame, logVars, brokerVars, loopVars
  <2>2. TurnInv'
    BY <2>1 DEF TurnInv
  <2>3. now <= now'
    BY <2>1, TrailNumbers
  <2> QED
    BY <2>1, <2>2, <2>3, StoryGoesOn
<1>3. CASE TakeContext
  <2>1. /\ UNCHANGED <<rows, durable, positions, now, results>>
        /\ pc' = "reply" /\ context'.at = now
    BY <1>3
    DEF TakeContext, TurnMoves, TurnFrame, logVars, brokerVars, GetSessionContext
  <2>2. TurnInv'
    BY <2>1, TrailNumbers DEF TurnInv, StoryInv, TrailInv
  <2> QED
    BY <2>1, <2>2, TrailNumbers, StoryGoesOn
<1>4. CASE Decide
  <2>1. /\ UNCHANGED <<rows, durable, positions, now, results>>
        /\ pc = "reply" /\ pc' = "insert"
    BY <1>4 DEF Decide, TurnMoves, TurnFrame, logVars, brokerVars
  <2>2. PICK raw \in RawReplies:
          /\ ToolInputError(raw) = {}
          /\ decision' = [decision |-> ParsedDecision(raw, Watchlist[place]),
                          at |-> now, context |-> context]
    BY <1>4 DEF Decide
  <2>3. Watchlist[place] \in Instruments
    BY <2>1, CommandLineAssumption, ElementOfSeq DEF TypeOK, TurnSteps
  <2>4. IsDisciplined(decision')
    BY <2>2, <2>3, ParsedType, CommandLineAssumption DEF IsDisciplined
  <2>5. decision'.at = now /\ decision'.context = context
    BY <2>2
  <2>6. FollowsTrail(decision)'
    BY <2>1, <2>5, TrailNumbers DEF StoryInv, TurnInv, FollowsTrail
  <2>7. TurnInv'
    BY <2>1, <2>4, <2>6 DEF TurnInv, IsDisciplined
  <2> QED
    BY <2>1, <2>7, TrailNumbers, StoryGoesOn
<1> QED
  BY <1>1, <1>2, <1>3, <1>4

(* The decision becomes the newest row, and then a committed one.          *)
LEMMA StoryInsert ==
    ASSUME TypeOK, TypeOK', StoryInv, InsertRow
    PROVE  StoryInv'
<1>1. decision \in Rows /\ rows \in Seq(Rows)
  BY DEF TypeOK, InsertRow, TurnMoves
<1>2. /\ pc = "insert" /\ pc' = "commit"
      /\ UNCHANGED <<durable, positions, now, results, decision>>
      /\ rows' = Append(rows, decision) /\ row' = Len(rows) + 1
  BY DEF InsertRow, LogInsert, TurnMoves, TurnFrame, brokerVars
<1>3. /\ Len(rows') = Len(rows) + 1
      /\ rows'[Len(rows) + 1] = decision
      /\ \A k \in 1 .. Len(rows): rows'[k] = rows[k]
  BY <1>1, <1>2, AppendProperties
<1>4. FollowsTrail(decision) /\ IsDisciplined(decision)
  BY <1>2 DEF StoryInv, TurnInv
<1>5. \A k \in 1 .. Len(rows'): k \in 1 .. Len(rows) \/ k = Len(rows) + 1
  BY <1>3, TrailNumbers
<1>6. TrailInv'
  <2>1. ASSUME NEW n \in 1 .. Len(rows')
        PROVE  /\ rows'[n].context.at <= rows'[n].at /\ rows'[n].at <= now'
               /\ IsDisciplined(rows'[n])
    BY <1>2, <1>3, <1>4, <1>5 DEF StoryInv, TrailInv, FollowsTrail
  <2>2. ASSUME NEW m \in 1 .. Len(rows'), NEW n \in 1 .. Len(rows'), m < n
        PROVE  rows'[m].at <= rows'[n].context.at
    <3>1. m \in 1 .. Len(rows)
      BY <1>3, <2>2, TrailNumbers
    <3> QED
      BY <1>3, <1>4, <1>5, <2>2, <3>1 DEF StoryInv, TrailInv, FollowsTrail
  <2> QED
    BY <2>1, <2>2 DEF TrailInv, IsDisciplined
<1>7. TurnInv'
  BY <1>2, <1>3, TrailNumbers DEF TurnInv
<1>8. PositionsInv'
  BY <1>2, <1>3, PositionsKept, TrailNumbers DEF StoryInv
<1>9. ResultsInv'
  BY <1>2 DEF StoryInv, ResultsInv
<1> QED
  BY <1>6, <1>7, <1>8, <1>9 DEF StoryInv

(* The row of a decision becomes durable.                                  *)
LEMMA StoryCommit ==
    ASSUME TypeOK, TypeOK', StoryInv, CommitRow
    PROVE  StoryInv'
<1>1. /\ pc = "commit" /\ pc' = "gate"
      /\ UNCHANGED <<rows, positions, now, results, decision, row>>
      /\ durable' = Len(rows)
  BY DEF CommitRow, LogCommit, TurnMoves, TurnFrame, brokerVars
<1>2. row = Len(rows) /\ row > 0 /\ rows[row] = decision /\ durable < row
  BY <1>1 DEF StoryInv, TurnInv
<1>3. TrailInv' /\ PositionsInv'
  BY <1>1, TrailKept, PositionsKept, TrailNumbers DEF StoryInv
<1>4. TurnInv'
  BY <1>1, <1>2 DEF TurnInv
<1>5. ResultsInv'
  BY <1>1, <1>2, TrailNumbers DEF StoryInv, ResultsInv
<1> QED
  BY <1>3, <1>4, <1>5 DEF StoryInv

(* The turn ends with its row's id, or with an error.                      *)
LEMMA ResultsGrow ==
    ASSUME TypeOK, TypeOK', ResultsInv, NEW id \in Nat, TurnEnds(id),
           pc \in TurnSteps, UNCHANGED durable,
           id = 0 \/ (pc = "gate" /\ id = row /\ row = durable)
    PROVE  ResultsInv'
<1>1. place \in 1 .. Len(Watchlist) /\ Watchlist[place] \in Instruments
  BY CommandLineAssumption, ElementOfSeq DEF TypeOK
<1> DEFINE result == [instrument |-> Watchlist[place], id |-> id]
<1>2. result \in Results /\ results \in Seq(Results)
  BY <1>1 DEF Results, TypeOK
<1>3. /\ Len(results') = Len(results) + 1
      /\ results'[Len(results) + 1] = result
      /\ \A k \in 1 .. Len(results): results'[k] = results[k]
  BY <1>2, AppendProperties DEF TurnEnds
<1>4. \A k \in 1 .. Len(results'): k \in 1 .. Len(results) \/ k = Len(results) + 1
  BY <1>3, TrailNumbers
<1>5. \A n \in 1 .. Len(results'): results'[n].id <= durable'
  <2>1. id <= durable /\ durable' = durable
    BY TrailNumbers
  <2>2. results'[Len(results) + 1].id = id
    BY <1>3
  <2> QED
    BY <1>3, <1>4, <2>1, <2>2 DEF ResultsInv
<1>6. ASSUME NEW m \in 1 .. Len(results'), NEW n \in 1 .. Len(results'),
             m < n, results'[m].id # 0, results'[n].id # 0
      PROVE  results'[m].id < results'[n].id
  <2>1. m \in 1 .. Len(results)
    BY <1>3, <1>6, TrailNumbers
  <2>2. CASE n \in 1 .. Len(results)
    BY <1>3, <1>6, <2>1, <2>2 DEF ResultsInv
  <2>3. CASE n = Len(results) + 1
    BY <1>3, <1>6, <2>1, <2>3 DEF ResultsInv
  <2> QED
    BY <1>4, <2>2, <2>3
<1>7. pc' # "gate"
  BY DEF TurnEnds, AtPlace
<1> HIDE DEF result
<1> QED
  BY <1>5, <1>6, <1>7 DEF ResultsInv

(* The end of a turn, with a position or without.                          *)
LEMMA StoryTurnEnds ==
    ASSUME TypeOK, TypeOK', StoryInv,
           CommitFails \/ TurnFails \/ NothingToDo \/ LiveOrderRaises \/ Enter \/ Exit
    PROVE  StoryInv'
<1>1. /\ pc \in TurnSteps
      /\ NothingToDo \/ Enter \/ Exit => pc = "gate"
  BY DEF CommitFails, TurnFails, NothingToDo, LiveOrderRaises, Enter, Exit,
         Trades, CanEnter, Asks, TurnSteps
<1>2. UNCHANGED <<durable, now>> /\ pc' \in {"fetch", "report"}
  <2>1. TurnFrame /\ pc' \in {"fetch", "report"}
    BY DEF CommitFails, TurnFails, NothingToDo, LiveOrderRaises, Enter, Exit,
           TurnEnds, AtPlace
  <2>2. UNCHANGED durable
    BY DEF CommitFails, LogCommitFails, TurnFails, NothingToDo, LiveOrderRaises,
           Enter, Exit, logVars
  <2> QED
    BY <2>1, <2>2 DEF TurnFrame
<1>3. /\ Len(rows') <= Len(rows)
      /\ \A k \in 1 .. Len(rows'): rows'[k] = rows[k]
      /\ \A k \in 1 .. durable: rows'[k] = rows[k]
  <2>1. CASE CommitFails
    BY <2>1, Truncated, TrailNumbers DEF CommitFails, LogCommitFails, TypeOK
  <2>2. CASE TurnFails \/ NothingToDo \/ LiveOrderRaises \/ Enter \/ Exit
    <3>1. rows' = rows
      BY <2>2
      DEF TurnFails, NothingToDo, LiveOrderRaises, Enter, Exit, logVars
    <3> QED
      BY <3>1, TrailNumbers
  <2> QED
    BY <2>1, <2>2
<1>4. TrailInv'
  BY <1>2, <1>3, TrailKept, TrailNumbers DEF StoryInv
<1>5. TurnInv'
  BY <1>2 DEF TurnInv
<1>6. ResultsInv'
  <2>1. CASE CommitFails \/ TurnFails \/ LiveOrderRaises
    <3>1. TurnEnds(0)
      BY <2>1 DEF CommitFails, TurnFails, LiveOrderRaises
    <3> QED
      BY <1>1, <1>2, <3>1, ResultsGrow DEF StoryInv
  <2>2. CASE NothingToDo \/ Enter \/ Exit
    <3>1. TurnEnds(row) /\ pc = "gate" /\ row \in Nat
      BY <1>1, <2>2 DEF NothingToDo, Enter, Exit, TypeOK
    <3>2. row = durable
      BY <3>1 DEF StoryInv, TurnInv
    <3> QED
      BY <1>1, <1>2, <3>1, <3>2, ResultsGrow DEF StoryInv
  <2> QED
    BY <2>1, <2>2
<1>7. PositionsInv'
  <2>1. CASE CommitFails \/ TurnFails \/ NothingToDo \/ LiveOrderRaises
    <3>1. UNCHANGED positions
      BY <2>1 DEF CommitFails, TurnFails, NothingToDo, LiveOrderRaises, brokerVars
    <3> QED
      BY <1>2, <1>3, <3>1, PositionsKept, TrailNumbers DEF StoryInv
  <2>2. CASE Enter
    <3>1. /\ pc = "gate" /\ decision.decision.action = "enter"
          /\ positions' = [positions EXCEPT ![Named] = row]
          /\ rows' = rows
      BY <2>2 DEF Enter, CanEnter, Asks, OpenPosition, logVars
    <3>2. /\ row = Len(rows) /\ row > 0 /\ rows[row] = decision /\ durable = row
      BY <3>1 DEF StoryInv, TurnInv
    <3>3. positions \in [Instruments -> Nat]
      BY DEF TypeOK, BrokerTypeOK
    <3>4. ASSUME NEW i \in Instruments, HasPosition(i)'
          PROVE  /\ positions'[i] \in 1 .. durable'
                 /\ rows'[positions'[i]].decision.action = "enter"
                 /\ rows'[positions'[i]].decision.instrument = i
      <4>1. CASE i = Named
        <5>1. positions'[i] = row
          BY <3>1, <3>3, <4>1
        <5> QED
          BY <1>2, <3>1, <3>2, <4>1, <5>1, TrailNumbers DEF Named
      <4>2. CASE i # Named
        <5>1. positions'[i] = positions[i]
          BY <3>1, <3>3, <4>2
        <5> QED
          BY <1>2, <3>1, <3>4, <5>1 DEF StoryInv, PositionsInv, HasPosition
      <4> QED
        BY <4>1, <4>2
    <3> QED
      BY <3>4 DEF PositionsInv
  <2>3. CASE Exit
    <3>1. positions' = [positions EXCEPT ![Named] = Flat] /\ rows' = rows
      BY <2>3 DEF Exit, ClosePosition, logVars
    <3>2. positions \in [Instruments -> Nat]
      BY DEF TypeOK, BrokerTypeOK
    <3>3. \A i \in Instruments: HasPosition(i)' => HasPosition(i) /\ positions'[i] = positions[i]
      BY <3>1, <3>2 DEF HasPosition
    <3> QED
      BY <1>2, <3>1, <3>3 DEF StoryInv, PositionsInv
  <2> QED
    BY <2>1, <2>2, <2>3
<1> QED
  BY <1>4, <1>5, <1>6, <1>7 DEF StoryInv

(* The audit trail follows the clock, holds disciplined decisions only,    *)
(* and what is reported and held is what it says: over every failure of a  *)
(* provider, the model and the database, and over restarts.                *)
THEOREM TrailAlwaysTellsTheStory == Spec => []TrailTellsTheStory
<1>1. Init => TypeOK /\ StoryInv
  <2> SUFFICES ASSUME Init PROVE StoryInv
    BY TypeInit
  <2>1. 1 .. Len(rows) = {} /\ 1 .. Len(results) = {} /\ pc = "off"
    BY EmptySeq DEF Init, LogInit
  <2>2. \A i \in Instruments: ~HasPosition(i)
    BY DEF Init, BrokerInit, HasPosition
  <2> QED
    BY <2>1, <2>2 DEF StoryInv, TrailInv, TurnInv, ResultsInv, PositionsInv
<1>2. TypeOK /\ StoryInv /\ [Next]_vars => (TypeOK /\ StoryInv)'
  BY TypeStep, StepCases, StoryEnds, StoryQuietStep, StoryInsert, StoryCommit,
     StoryTurnEnds
<1>3. TypeOK /\ StoryInv => TrailTellsTheStory
  BY StoryTold
<1> QED
  BY <1>1, <1>2, <1>3, PTL DEF Spec

-----------------------------------------------------------------------------
(* The passes over the watchlist.                                          *)

PassInv ==
    /\ \A n \in 1 .. Len(results): results[n].instrument = Watchlist[n]
    /\ pc \in TurnSteps => Len(results) = place - 1
    /\ pc = "report" => Len(results) = Len(Watchlist)
    /\ pc \in TurnSteps \cup {"report"} => reports = rests /\ MorePasses(reports)
    /\ pc \in {"off", "load", "client", "runner"} => reports = 0 /\ rests = 0
    /\ pc \in {"off", "load", "client", "runner", "top", "rest"} => results = <<>>
    /\ pc = "top" /\ MorePasses(reports) => reports = rests
    /\ pc = "rest" => reports = rests + 1 /\ MorePasses(reports)

Served == [n \in 1 .. Len(results) |-> results[n].instrument]

(* The next instrument of the pass is served.                              *)
LEMMA TurnServes ==
    ASSUME TypeOK, PassInv, NEW id \in Nat, pc \in TurnSteps, TurnEnds(id)
    PROVE  PassInv' /\ Pass!Serve
<1>1. place \in 1 .. Len(Watchlist) /\ Watchlist[place] \in Instruments
  BY CommandLineAssumption, ElementOfSeq DEF TypeOK
<1>2. Len(Watchlist) \in Nat /\ Len(results) \in Nat
  BY CommandLineAssumption, LenProperties DEF TypeOK
<1>3. Len(results) = place - 1 /\ reports = rests /\ MorePasses(reports)
  BY DEF PassInv
<1> DEFINE result == [instrument |-> Watchlist[place], id |-> id]
<1>4. result \in Results /\ results \in Seq(Results)
  BY <1>1 DEF Results, TypeOK
<1>5. /\ Len(results') = place
      /\ results'[place].instrument = Watchlist[place]
      /\ \A k \in 1 .. Len(results): results'[k] = results[k]
  BY <1>1, <1>2, <1>3, <1>4, AppendProperties DEF TurnEnds
<1> HIDE DEF result
<1>6. \A k \in 1 .. place: k \in 1 .. Len(results) \/ k = place
  BY <1>1, <1>2, <1>3
<1>7. UNCHANGED <<launch, reports, rests>>
  BY DEF TurnEnds, TurnFrame, processVars
<1>8. Limit' = Limit
  BY <1>7 DEF Limit
<1>9. PassInv'
  <2>1. \A n \in 1 .. Len(results'): results'[n].instrument = Watchlist[n]
    BY <1>5, <1>6 DEF PassInv
  <2>2. /\ pc' = "fetch" => Len(results') = place' - 1
        /\ pc' = "report" => Len(results') = Len(Watchlist)
        /\ pc' \in {"fetch", "report"}
    BY <1>1, <1>2, <1>5 DEF TurnEnds, AtPlace
  <2>3. reports' = rests' /\ MorePasses(reports)'
    BY <1>3, <1>7, <1>8 DEF MorePasses
  <2> QED
    BY <2>1, <2>2, <2>3 DEF PassInv, TurnSteps
<1>10. Served' = Append(Served, Watchlist[Len(Served) + 1])
  <2>1. Served \in Seq(Instruments) /\ Len(Served) = place - 1
    <3>1. \A n \in 1 .. Len(results): results[n] \in Results
      BY <1>4, ElementOfSeq
    <3>2. Served \in [1 .. Len(results) -> Instruments]
      BY <3>1 DEF Served, Results
    <3> QED
      BY <1>2, <1>3, <3>2, SeqDef
  <2>2. Served' = [n \in 1 .. place |-> results'[n].instrument]
    BY <1>5 DEF Served
  <2>3. ASSUME NEW n \in 1 .. place
        PROVE  results'[n].instrument = Append(Served, Watchlist[place])[n]
    <3>1. CASE n = place
      BY <1>1, <1>5, <2>1, <3>1, AppendProperties
    <3>2. CASE n \in 1 .. Len(results)
      <4>1. Append(Served, Watchlist[place])[n] = Served[n]
        BY <1>1, <1>3, <2>1, <3>2, AppendProperties
      <4> QED
        BY <1>5, <3>2, <4>1 DEF Served
    <3> QED
      BY <1>6, <3>1, <3>2
  <2>4. Append(Served, Watchlist[place]) \in Seq(Instruments)
        /\ Len(Append(Served, Watchlist[place])) = place
    BY <1>1, <2>1, AppendProperties
  <2>5. Served' \in Seq(Instruments) /\ Len(Served') = place
    <3>1. \A n \in 1 .. place: results'[n].instrument \in Instruments
      BY <2>3, <2>4, ElementOfSeq
    <3> QED
      BY <1>1, <2>2, <3>1
  <2>6. \A n \in 1 .. place: Served'[n] = Append(Served, Watchlist[place])[n]
    BY <2>2, <2>3
  <2>7. Served' = Append(Served, Watchlist[place])
    BY <2>4, <2>5, <2>6, SeqEqual
  <2> QED
    BY <1>1, <2>1, <2>7
<1>11. Len(Served) = place - 1
  BY <1>2, <1>3 DEF Served
<1> QED
  BY <1>1, <1>2, <1>3, <1>7, <1>8, <1>9, <1>10, <1>11 DEF Pass!Serve, Served

(* An empty pass has served no instrument.                                 *)
LEMMA NothingServed ==
    ASSUME NEW empty, empty = <<>>
    PROVE  [n \in 1 .. Len(empty) |-> empty[n].instrument] = <<>>
<1>1. 1 .. Len(empty) = {} /\ <<>> \in Seq(Instruments)
  BY EmptySeq
<1> DEFINE image == [n \in 1 .. Len(empty) |-> empty[n].instrument]
<1>2. image \in [1 .. 0 -> Instruments]
  BY <1>1
<1>3. image \in Seq(Instruments)
  BY <1>2, SeqDef
<1>4. Len(image) = 0
  BY <1>2, <1>3, LenProperties
<1> QED
  BY <1>3, <1>4, EmptySeq

(* A launch gives the abstract loop a limit.                               *)
LEMMA LimitType ==
    ASSUME NEW l \in Launches
    PROVE  (IF l.forever THEN l.limit ELSE 1) \in Nat \cup {Pass!NoLimit}
  BY CommandLineAssumption DEF LaunchType, NoLimit, Pass!NoLimit

(* The process ends, or starts: the abstract loop starts anew.             *)
LEMMA PassRestarts ==
    ASSUME TypeOK', PassInv, Start \/ \E how \in Endings: Ends(how)
    PROVE  PassInv' /\ Pass!Restart
<1>1. results' = <<>> /\ reports' = 0 /\ rests' = 0 /\ pc' \in {"off", "load"}
  BY DEF PassInv, Start, Ends, loopVars
<1>2. Served' = <<>>
  BY <1>1, NothingServed DEF Served
<1>3. Limit' \in Nat \cup {Pass!NoLimit}
  BY LimitType DEF TypeOK, Limit
<1>4. 1 .. Len(results') = {}
  BY <1>1, EmptySeq
<1> QED
  BY <1>1, <1>2, <1>3, <1>4 DEF PassInv, Pass!Restart, Served, TurnSteps

(* Steps between two instruments, which the abstract loop does not see.    *)
LEMMA PassUnseen ==
    ASSUME TypeOK, PassInv,
           \/ UNCHANGED vars \/ Tick
           \/ LoadLine \/ LoadEnds \/ ClientCreated \/ RunnerCreated
           \/ PassBegins
           \/ Fetch \/ FetchHangs \/ TakeContext \/ Decide \/ InsertRow
           \/ CommitRow
    PROVE  PassInv' /\ UNCHANGED <<Limit, Served, reports, rests>>
<1>1. UNCHANGED <<launch, results, reports, rests>>
  BY DEF vars, Tick, LoadLine, LoadEnds, ClientCreated, RunnerCreated, Moves,
         Setup, PassBegins, LoopFrame, Fetch, FetchHangs, TakeContext, Decide,
         InsertRow, CommitRow, TurnMoves, TurnFrame, processVars, loopVars
<1>2. UNCHANGED <<Limit, Served>>
  BY <1>1 DEF Limit, Served
<1>3. \A n: MorePasses(n)' = MorePasses(n)
  BY <1>2 DEF MorePasses
<1>4. CASE UNCHANGED vars \/ Tick
  <2>1. UNCHANGED <<pc, place>>
    BY <1>4 DEF vars, Tick, turnVars
  <2> QED
    BY <1>1, <1>2, <1>3, <2>1 DEF PassInv
<1>5. CASE LoadLine \/ LoadEnds \/ ClientCreated \/ RunnerCreated
  <2>1. /\ pc \in {"load", "client", "runner"}
        /\ pc' \in {"load", "client", "runner", "top"}
    BY <1>5 DEF LoadLine, LoadEnds, ClientCreated, RunnerCreated, Moves
  <2> QED
    BY <1>1, <1>2, <2>1 DEF PassInv, TurnSteps
<1>6. CASE PassBegins
  <2>1. /\ pc = "top" /\ MorePasses(reports) /\ place' = 1
        /\ pc' \in {"fetch", "report"}
        /\ pc' = "report" => ~(1 <= Len(Watchlist))
    BY <1>6 DEF PassBegins, AtPlace
  <2>2. Len(Watchlist) \in Nat /\ results = <<>> /\ reports = rests
    BY <2>1, CommandLineAssumption, LenProperties DEF PassInv
  <2>3. Len(results') = 0 /\ 1 .. Len(results') = {}
    BY <1>1, <2>2, EmptySeq
  <2> QED
    BY <1>1, <1>2, <1>3, <2>1, <2>2, <2>3 DEF PassInv, TurnSteps
<1>7. CASE \/ Fetch \/ FetchHangs \/ TakeContext \/ Decide \/ InsertRow \/ CommitRow
  <2>1. pc \in TurnSteps /\ pc' \in TurnSteps \cup {"hung"} /\ place' = place
    BY <1>7
    DEF Fetch, FetchHangs, TakeContext, Decide, InsertRow, CommitRow, TurnMoves, TurnSteps
  <2> QED
    BY <1>1, <1>2, <1>3, <2>1 DEF PassInv, TurnSteps
<1> QED
  BY <1>1, <1>2, <1>4, <1>5, <1>6, <1>7

(* A report is the abstract loop's report,                                 *)
LEMMA PassReports ==
    ASSUME TypeOK, PassInv, Report
    PROVE  PassInv' /\ Pass!Report
<1>1. /\ pc = "report" /\ results' = <<>> /\ reports' = reports + 1
      /\ pc' = AfterPass(reports + 1)
      /\ UNCHANGED <<launch, rests>>
  BY DEF Report, LoopFrame, processVars
<1>2. /\ Len(results) = Len(Watchlist) /\ reports = rests /\ MorePasses(reports)
      /\ \A n \in 1 .. Len(results): results[n].instrument = Watchlist[n]
  BY <1>1 DEF PassInv
<1>3. Served = Watchlist
  <2>1. Watchlist \in Seq(Instruments) /\ Len(Watchlist) \in Nat
    BY CommandLineAssumption, LenProperties
  <2>2. \A n \in 1 .. Len(Watchlist): Watchlist[n] \in Instruments
    BY <2>1, ElementOfSeq
  <2>3. Served \in [1 .. Len(Watchlist) -> Instruments]
    BY <1>2, <2>2 DEF Served
  <2>4. Served \in Seq(Instruments) /\ Len(Served) = Len(Watchlist)
    BY <2>1, <2>3, SeqDef
  <2>5. \A n \in 1 .. Len(Served): Served[n] = Watchlist[n]
    BY <1>2, <2>4 DEF Served
  <2> QED
    BY <2>1, <2>4, <2>5, SeqEqual
<1>4. Served' = <<>>
  BY <1>1, NothingServed DEF Served
<1>5. Limit' = Limit
  BY <1>1 DEF Limit
<1>6. PassInv'
  <2>1. 1 .. Len(results') = {}
    BY <1>1, EmptySeq
  <2>2. /\ pc' \in {"rest", "top"}
        /\ pc' = "rest" => MorePasses(reports)'
        /\ pc' = "top" => ~MorePasses(reports)'
    BY <1>1, <1>5 DEF AfterPass, MorePasses
  <2> QED
    BY <1>1, <1>2, <2>1, <2>2 DEF PassInv, TurnSteps
<1> QED
  BY <1>1, <1>2, <1>3, <1>4, <1>5, <1>6
  DEF Pass!Report, Pass!MorePasses, Pass!NoLimit, MorePasses, NoLimit, Served

(* the wait between passes its rest,                                       *)
LEMMA PassRests ==
    ASSUME TypeOK, PassInv, Wake
    PROVE  PassInv' /\ Pass!Rest
<1>1. /\ pc = "rest" /\ pc' = "top" /\ rests' = rests + 1
      /\ UNCHANGED <<launch, results, reports>>
  BY DEF Wake, LoopFrame, processVars
<1>2. reports = rests + 1 /\ MorePasses(reports) /\ results = <<>>
  BY <1>1 DEF PassInv
<1>3. Limit' = Limit /\ Served' = Served
  BY <1>1 DEF Limit, Served
<1>4. PassInv'
  <2>1. 1 .. Len(results') = {}
    BY <1>1, <1>2, EmptySeq
  <2> QED
    BY <1>1, <1>2, <2>1 DEF PassInv, TurnSteps
<1> QED
  BY <1>1, <1>2, <1>3, <1>4
  DEF Pass!Rest, Pass!MorePasses, Pass!NoLimit, MorePasses, NoLimit, Served

(* and every step one of its own or none.                                  *)
LEMMA PassStep ==
    ASSUME TypeOK, TypeOK', PassInv, [Next]_vars
    PROVE  PassInv' /\ [Pass!Next]_<<Limit, Served, reports, rests>>
<1>1. CASE CommitFails \/ TurnFails \/ NothingToDo \/ LiveOrderRaises \/ Enter \/ Exit
  <2>1. pc \in TurnSteps
    BY <1>1
    DEF CommitFails, TurnFails, NothingToDo, LiveOrderRaises, Enter, Exit,
        Trades, CanEnter, Asks, TurnSteps
  <2>2. TurnEnds(0) \/ TurnEnds(row)
    BY <1>1
    DEF CommitFails, TurnFails, NothingToDo, LiveOrderRaises, Enter, Exit
  <2>3. row \in Nat
    BY DEF TypeOK
  <2> QED
    BY <2>1, <2>2, <2>3, TurnServes DEF Pass!Next
<1> QED
  BY <1>1, StepCases, PassUnseen, PassReports, PassRests, PassRestarts DEF Pass!Next

(* run_once and run_forever implement the passes of WatchlistPass: every   *)
(* instrument once and in order, whatever fails, a report per pass, one    *)
(* sleep between two of them and none after the last.                      *)
THEOREM CommandLineImplementsPasses == Spec => PassSpec
<1>1. Init => TypeOK /\ PassInv /\ Pass!Init
  <2> SUFFICES ASSUME Init PROVE PassInv /\ Pass!Init
    BY TypeInit
  <2>1. /\ results = <<>> /\ 1 .. Len(results) = {} /\ pc = "off"
        /\ reports = 0 /\ rests = 0
    BY EmptySeq DEF Init
  <2>2. Served = <<>>
    BY <2>1, NothingServed DEF Served
  <2>3. Limit \in Nat \cup {Pass!NoLimit}
    BY LimitType DEF Init, Limit
  <2> QED
    BY <2>1, <2>2, <2>3 DEF PassInv, Pass!Init, Pass!NewLoop, Served, TurnSteps
<1>2. TypeOK /\ PassInv /\ [Next]_vars => (TypeOK /\ PassInv)'
  BY TypeStep, PassStep
<1>3. TypeOK /\ TypeOK' /\ PassInv /\ [Next]_vars => [Pass!Next]_(Pass!passVars)
  BY PassStep DEF Pass!passVars, Served
<1> QED
  BY <1>1, <1>2, <1>3, PTL DEF Spec, PassSpec, Pass!Spec
=============================================================================

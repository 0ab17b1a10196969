----------------------------- MODULE CommandLine -----------------------------
(***************************************************************************)
(* run.py over cycle.py: a process that loads .env, builds its clients and *)
(* runs DecisionCycleRunner once or for ever, until it is done, something  *)
(* is not caught, or Ctrl+C.  It is one thread; a clock goes on beside it. *)
(*                                                                         *)
(* A row of the decision log is a decision with its moment and the session *)
(* context that was recorded with it.                                      *)
(***************************************************************************)
EXTENDS Sequences, FiniteSets, ReplyParsing, DecisionLog, PaperBroker, Sessions

CONSTANTS
    Launches,    \* how a process may be started, see LaunchType
    Watchlist,   \* the instruments of a cycle, in order
    RawReplies,  \* the tool inputs the model may answer with
    Moments,     \* the moments the clock may show
    OffsetAt,    \* what zoneinfo says at each of them
    MaxPasses,   \* bound on the passes over the watchlist
    MaxStarts    \* bound on the processes started

Keys == {"ICTAGENT_PHASE", "ICTAGENT_LIVE_TRADING_CONFIRM",
         "TWELVEDATA_API_KEY", "OANDA_API_TOKEN", "OANDA_ENVIRONMENT",
         "ANTHROPIC_API_KEY"}

Unset == "unset"

(* "confirm" is LIVE_TRADING_CONFIRM_STRING, "key" a credential.           *)
Values == Phases \cup {"", "confirm", "key", "practice", "live", "other"}

(* A line of .env, its blanks and quotes taken off; one that is skipped (a *)
(* comment, a blank one, one with no "=") has no key.                      *)
NoKey == "no_key"
Lines == [key: Keys \cup {NoKey}, value: Values]

(* `limit` is run_forever's max_cycles; run.py leaves it None, NoLimit.    *)
NoLimit == -1

LaunchType ==
    [environ: [Keys -> Values \cup {Unset}], file: Seq(Lines),
     provider: {"twelvedata", "oanda"}, forever: BOOLEAN,
     limit: Nat \cup {NoLimit}]

ASSUME CommandLineAssumption ==
    /\ Launches \subseteq LaunchType
    /\ Watchlist \in Seq(Instruments)
    /\ RawReplies \subseteq ToolInputs
    /\ Moments \subseteq Nat /\ OffsetAt \in [Moments -> Offsets]
    /\ MaxPasses \in Nat /\ MaxStarts \in Nat

VARIABLES
    now,         \* the clock
    launch,      \* the command line, environment and .env of the process
    environ,     \* os.environ
    pc,          \* where the process is
    place,       \* the line of .env, or the instrument, at hand
    context,     \* the context snapshot of the instrument at hand
    decision,    \* its decision
    row,         \* its audit row
    results,     \* run_once's results so far
    reports,     \* its passes that on_cycle has been told of
    rests,       \* how often run_forever has slept
    ended,       \* how the last process ended
    starts, passes,  \* the counters the bounds apply to
    liveReached  \* ghost: the live branch of the gate has been passed

processVars == <<launch, environ, starts>>
turnVars == <<place, context, decision, row>>
loopVars == <<results, reports, rests, passes>>
vars == <<rows, durable, positions, closed, now, launch, environ, pc, place,
          context, decision, row, results, reports, rests, ended, starts,
          passes, liveReached>>

NoContext == [at |-> 0, open_sessions |-> {}, active_kill_zones |-> {}]
Contexts == [at: Nat, open_sessions: SUBSET DOMAIN TradingSessions,
             active_kill_zones: SUBSET DOMAIN KillZones]
Rows == [decision: ParsedDecisions, at: Nat, context: Contexts]
Undecided == [at |-> 0]

(* A CycleResult, or a CycleError whose id is 0.                           *)
Results == [instrument: Instruments, id: Nat]

TurnSteps == {"fetch", "context", "reply", "insert", "commit", "gate"}
LoopSteps == TurnSteps \cup {"top", "report", "rest", "hung"}
PCs == LoopSteps \cup {"off", "load", "client", "runner"}

TypeOK ==
    /\ rows \in Seq(Rows) /\ durable \in 0 .. Len(rows)
    /\ BrokerTypeOK
    /\ now \in Moments
    /\ launch \in Launches
    /\ environ \in [Keys -> Values \cup {Unset}]
    /\ pc \in PCs
    /\ place \in Nat
    /\ pc = "load" => place # 0
    /\ pc \in TurnSteps => place \in 1 .. Len(Watchlist)
    /\ context \in Contexts
    /\ decision \in Rows \cup {Undecided}
    /\ pc \in {"insert", "commit", "gate"} => decision # Undecided
    /\ row \in Nat
    /\ results \in Seq(Results)
    /\ reports \in Nat /\ rests \in Nat
    /\ ended \in {"never", "done", "message", "traceback", "stopped",
                  "KeyboardInterrupt"}
    /\ starts \in Nat /\ passes \in Nat
    /\ liveReached \in BOOLEAN

-----------------------------------------------------------------------------
(* Settings, as load_settings reads them.                                  *)

IsGiven(key) == environ[key] \notin {Unset, ""}

(* The variable's value stands for what strip and lower make of it.        *)
SettingsPhase ==
    IF environ["ICTAGENT_PHASE"] \in Phases
    THEN environ["ICTAGENT_PHASE"] ELSE "paper"

Confirmed == environ["ICTAGENT_LIVE_TRADING_CONFIRM"] = "confirm"

ClientKey == IF launch.provider = "oanda"
             THEN "OANDA_API_TOKEN" ELSE "TWELVEDATA_API_KEY"

(* OandaClient's constructor; OANDA_ENVIRONMENT defaults to practice.      *)
KnownEnvironment ==
    launch.provider = "oanda" =>
        environ["OANDA_ENVIRONMENT"] \in {Unset, "practice", "live"}

-----------------------------------------------------------------------------
Init ==
    /\ LogInit /\ BrokerInit
    /\ now \in Moments /\ \A m \in Moments: now <= m
    /\ launch \in Launches
    /\ environ = launch.environ
    /\ pc = "off" /\ place = 0
    /\ context = NoContext /\ decision = Undecided /\ row = 0
    /\ results = <<>> /\ reports = 0 /\ rests = 0
    /\ ended = "never" /\ starts = 0 /\ passes = 0
    /\ liveReached = FALSE

(* The clock never goes back.                                              *)
Tick ==
    /\ \E m \in Moments: m > now /\ now' = m
    /\ UNCHANGED <<logVars, brokerVars, processVars, pc, turnVars, loopVars,
                   ended, liveReached>>

Start ==
    /\ pc = "off" /\ starts < MaxStarts /\ passes < MaxPasses
    /\ starts' = starts + 1
    /\ launch' \in Launches
    /\ environ' = launch'.environ
    /\ pc' = "load" /\ place' = 1
    /\ liveReached' = FALSE
    /\ UNCHANGED <<logVars, brokerVars, now, context, decision, row, loopVars,
                   ended>>

(* The process is gone, with its transaction, its positions and locals.    *)
Ends(how) ==
    /\ LogCrash /\ BrokerCrash
    /\ ended' = how
    /\ pc' = "off" /\ place' = 0
    /\ context' = NoContext /\ decision' = Undecided /\ row' = 0
    /\ results' = <<>> /\ reports' = 0 /\ rests' = 0
    /\ liveReached' = FALSE
    /\ UNCHANGED <<now, processVars, passes>>

-----------------------------------------------------------------------------
(* main() up to the runner.                                                *)

Setup == UNCHANGED <<logVars, brokerVars, now, launch, starts, context,
                     decision, row, loopVars, ended, liveReached>>

(* Mutant: a later line of .env overrides an earlier one.                  *)
MutantAssigns(line) ==
    line.key \in Keys /\ launch.environ[line.key] = Unset

(* `key not in os.environ`: the real environment and earlier lines win.    *)
Assigns(line) == line.key \in Keys /\ environ[line.key] = Unset

LoadLine ==
    /\ pc = "load" /\ place <= Len(launch.file)
    /\ LET line == launch.file[place]
       IN  environ' = IF Assigns(line)
                      THEN [environ EXCEPT ![line.key] = line.value]
                      ELSE environ
    /\ place' = place + 1
    /\ UNCHANGED pc
    /\ Setup

Moves(from, to) ==
    /\ pc = from /\ pc' = to
    /\ place' = 0
    /\ UNCHANGED environ
    /\ Setup

LoadEnds == place > Len(launch.file) /\ Moves("load", "client")

ClientCreated == IsGiven(ClientKey) /\ KnownEnvironment /\ Moves("client", "runner")

(* The clients' auth errors and the reasoner's are caught: _fail().        *)
ClientRefused == pc = "client" /\ ~IsGiven(ClientKey) /\ Ends("message")

(* OandaClient raises a ValueError, which main() does not catch.           *)
ClientRaises ==
    /\ pc = "client" /\ IsGiven(ClientKey) /\ ~KnownEnvironment
    /\ Ends("traceback")

RunnerCreated == IsGiven("ANTHROPIC_API_KEY") /\ Moves("runner", "top")

RunnerRefused == pc = "runner" /\ ~IsGiven("ANTHROPIC_API_KEY") /\ Ends("message")

SetupStep ==
    \/ LoadLine \/ LoadEnds \/ ClientCreated \/ ClientRefused \/ ClientRaises
    \/ RunnerCreated \/ RunnerRefused

-----------------------------------------------------------------------------
(* run_forever, and the one pass of a process without --forever.           *)

Limit == IF launch.forever THEN launch.limit ELSE 1

MorePasses(n) == Limit = NoLimit \/ n < Limit

LoopFrame == UNCHANGED <<logVars, brokerVars, now, processVars, context,
                         decision, row, ended, liveReached>>

(* Mutant: one step past the end of the watchlist.                         *)
MutantAtPlace(n) == IF n <= Len(Watchlist) + 1 THEN "fetch" ELSE "report"

AtPlace(n) == IF n <= Len(Watchlist) THEN "fetch" ELSE "report"

PassBegins ==
    /\ pc = "top" /\ MorePasses(reports) /\ passes < MaxPasses
    /\ passes' = passes + 1
    /\ place' = 1 /\ pc' = AtPlace(1)
    /\ UNCHANGED <<results, reports, rests>>
    /\ LoopFrame

LoopDone == pc = "top" /\ ~MorePasses(reports) /\ Ends("done")

(* Mutant: the loop sleeps after its last cycle, too.                      *)
MutantAfterPass(n) == IF launch.forever THEN "rest" ELSE "top"

(* Sleep only if another cycle follows.                                    *)
AfterPass(n) == IF MorePasses(n) THEN "rest" ELSE "top"

(* on_cycle(results) returns.                                              *)
Report ==
    /\ pc = "report"
    /\ results' = <<>>
    /\ reports' = reports + 1
    /\ pc' = AfterPass(reports + 1) /\ place' = 0
    /\ UNCHANGED <<rests, passes>>
    /\ LoopFrame

(* on_cycle raises, outside the try of run_once: nothing catches it.       *)
ReportRaises == pc = "report" /\ Ends("traceback")

Wake ==
    /\ pc = "rest"
    /\ pc' = "top"
    /\ rests' = rests + 1
    /\ UNCHANGED <<place, results, reports, passes>>
    /\ LoopFrame

-----------------------------------------------------------------------------
(* run_once, and _run_one_instrument within its try.                       *)

TurnFrame == UNCHANGED <<now, processVars, reports, rests, passes, ended>>

(* The instrument is done with: a CycleResult, or a CycleError for id 0.   *)
TurnEnds(id) ==
    /\ results' = Append(results, [instrument |-> Watchlist[place], id |-> id])
    /\ place' = place + 1 /\ pc' = AtPlace(place + 1)
    /\ context' = NoContext /\ decision' = Undecided /\ row' = 0
    /\ TurnFrame

(* Mutant: run_once expects the errors the modules document.               *)
MutantIsCaught(error) == error \in CallErrors \cup {"APIError"}

(* `except Exception`                                                      *)
IsCaught(error) == error # "KeyboardInterrupt"

Raises(error) ==
    \/ IsCaught(error) /\ TurnEnds(0) /\ UNCHANGED <<logVars, brokerVars, liveReached>>
    \/ ~IsCaught(error) /\ Ends("traceback")

TurnMoves(from, to) ==
    /\ pc = from /\ pc' = to
    /\ UNCHANGED <<brokerVars, place, results, liveReached>>
    /\ TurnFrame

(* fetch_candles and compute_structure.                                    *)
Fetch == TurnMoves("fetch", "context") /\ UNCHANGED <<logVars, context, decision, row>>

FetchFails == pc = "fetch" /\ \E e \in {"APIError", "ValueError"}: Raises(e)

(* Neither client gives its request a timeout.                             *)
FetchHangs == TurnMoves("fetch", "hung") /\ UNCHANGED <<logVars, context, decision, row>>

TakeContext ==
    /\ TurnMoves("context", "reply")
    /\ context' = GetSessionContext(now, OffsetAt[now])
    /\ UNCHANGED <<logVars, decision, row>>

CallFails == pc = "reply" /\ \E e \in CallErrors: Raises(e)

(* The decision gets the moment at which the reply is there.               *)
Decide ==
    /\ TurnMoves("reply", "insert")
    /\ \E raw \in RawReplies:
        /\ ToolInputError(raw) = {}
        /\ decision' = [decision |-> ParsedDecision(raw, Watchlist[place]),
                        at |-> now, context |-> context]
    /\ UNCHANGED <<logVars, context, row>>

BadReply ==
    /\ pc = "reply"
    /\ \E raw \in RawReplies: \E e \in ToolInputError(raw): Raises(e)

InsertRow ==
    /\ TurnMoves("insert", "commit")
    /\ LogInsert(decision)
    /\ row' = Len(rows) + 1
    /\ UNCHANGED <<context, decision>>

InsertFails == pc = "insert" /\ Raises("DatabaseError")

CommitRow ==
    /\ TurnMoves("commit", "gate")
    /\ LogCommit
    /\ UNCHANGED <<context, decision, row>>

CommitFails ==
    /\ pc = "commit"
    /\ \E error \in CommitErrors: LogCommitFails(error)
    /\ TurnEnds(0)
    /\ UNCHANGED <<brokerVars, liveReached>>

-----------------------------------------------------------------------------
(* ExecutionGate.handle under the phase of the environment.                *)

Asks(action) == pc = "gate" /\ decision.decision.action = action

Trades == Asks("enter") \/ Asks("exit")

Named == decision.decision.instrument

NothingToDo ==
    /\ \/ Asks("hold") \/ Asks("no_trade")
       \/ Trades /\ SettingsPhase = "semi_auto"
       \/ Asks("enter") /\ IsPaper(SettingsPhase) /\ HasPosition(Named)
       \/ Asks("exit") /\ IsPaper(SettingsPhase) /\ ~HasPosition(Named)
    /\ TurnEnds(row)
    /\ UNCHANGED <<logVars, brokerVars, liveReached>>

(* PermissionError, or NotImplementedError past the check.                 *)
LiveOrderRaises ==
    /\ Trades /\ SettingsPhase = "autonomous"
    /\ liveReached' = (liveReached
                         \/ LiveTradingEnabled(SettingsPhase, Confirmed))
    /\ TurnEnds(0)
    /\ UNCHANGED <<logVars, brokerVars>>

CanEnter == Asks("enter") /\ IsPaper(SettingsPhase) /\ ~HasPosition(Named)

EnterUnpriced == CanEnter /\ ~decision.decision.priced /\ Raises("ValueError")

Enter ==
    /\ CanEnter /\ decision.decision.priced
    /\ OpenPosition(Named, row)
    /\ TurnEnds(row)
    /\ UNCHANGED <<logVars, liveReached>>

Exit ==
    /\ Asks("exit") /\ IsPaper(SettingsPhase) /\ HasPosition(Named)
    /\ ClosePosition(Named)
    /\ TurnEnds(row)
    /\ UNCHANGED <<logVars, liveReached>>

(* Ctrl+C, at any point.                                                   *)
Interrupt ==
    /\ pc # "off"
    /\ Ends(IF launch.forever /\ pc \in LoopSteps
            THEN "stopped" ELSE "KeyboardInterrupt")

-----------------------------------------------------------------------------
TurnStep ==
    \/ Fetch \/ FetchFails \/ FetchHangs \/ TakeContext \/ CallFails \/ Decide
    \/ BadReply \/ InsertRow \/ InsertFails \/ CommitRow \/ CommitFails
    \/ NothingToDo \/ LiveOrderRaises \/ EnterUnpriced \/ Enter \/ Exit

LoopStep == PassBegins \/ LoopDone \/ Report \/ ReportRaises \/ Wake

ProcessStep == SetupStep \/ LoopStep \/ TurnStep

Next == Tick \/ Start \/ Interrupt \/ ProcessStep

Spec == Init /\ [][Next]_vars

(* The process runs when it can.                                           *)
FairSpec == Spec /\ WF_vars(ProcessStep)
=============================================================================

# ICTAgent in TLA+

ICTAgent is a trading agent: every few minutes it fetches candles, derives the
market structure of them, asks a language model for a decision, records the
decision, and hands it to a gate that trades on paper, waits for a human, or
(some day) trades live. A web process runs this on a background thread and lets
its operator change the phase and start a cycle by hand.

Two things in it are hard to get right and hard to test. One is the **process**:
a loop thread and request threads that share two sqlite connections and a dict
of positions with no lock, a phase that changes under a running cycle, and a
host that may kill all of it at any point. The other is the **structure code**:
a walk over candles with a confirmation lag, whose output is recomputed from a
sliding window each cycle and should not say something else about the past.
Around them are a command line that runs the same cycles in a process of its own,
and a dashboard that shows the audit trail to whoever has a session. The modules
here model all of this from the source under `src/`, TLC checks them on small
instances, and TLAPS proves the main safety properties for every size.

## 1. Inventory

| Component | Source (`ictagent/`) | State | Operations | Talks to |
|---|---|---|---|---|
| Scheduler, web process | `web/scheduler.py`, `web/app.py` | the loop thread, its stop event, `last_error`, `scheduler_error` | lifespan start and stop, the loop, `run_once`, GET `/`, POST `/phase`, POST `/run-now` | everything below |
| Decision cycle | `cycle.py` | results of the cycle at hand | `run_once`, `run_forever`, one instrument | data client, structure, reasoner, log, gate |
| Execution gate | `execution/gate.py`, `execution/types.py` | the settings of its cycle | `handle` | paper broker |
| Paper broker | `execution/simulator.py` | dict of open positions, in memory | `execute`: enter, exit | - |
| Decision log | `logging/store.py` | sqlite table, one shared connection | `record` | every thread |
| Log queries | `logging/query.py` | none | `list_decisions`, `get_decision` | decision log |
| Phase store | `web/phase_store.py` | one-row table, one shared connection | `get_phase`, `set_phase` | every thread |
| Settings | `config/settings.py` | frozen after start | `load_settings`, `live_trading_enabled` | environment |
| Reasoner | `agent/reasoner.py`, `agent/types.py` | none | `decide`, parsing of the reply | the model's API |
| Prompt, playbook | `agent/prompts.py`, `playbook/` | none | text | reasoner |
| Swings, structure breaks | `structure/swings.py`, `structure_breaks.py` | pending swings, trend, events of a walk | `find_swing_points`, `detect_structure_breaks` | pipeline |
| Price zones | `structure/fvg.py`, `order_blocks.py`, `ote.py`, `liquidity.py` | none | gaps, blocks, zones, pools | pipeline |
| Pipeline, types | `structure/pipeline.py`, `types.py` | none | `compute_structure` | cycle |
| OANDA, Twelve Data | `data/oanda.py`, `twelvedata.py`, `base.py` | an HTTP session | `fetch_candles`; for OANDA also quotes and a stream | cycle |
| Kite | `data/kite.py` | access token, cached instruments | session, candles | no caller yet |
| Session clock | `context/sessions.py` | none | `get_session_context` | cycle |
| News and calendar | `context/finnhub.py` | none | fetch and parse | no caller yet |
| Web authentication | `web/auth.py` | none (a signed cookie in the browser) | login, logout, check of a session | web process |
| Command line | `run.py` | the process environment | `load_dotenv`, `main` | settings, cycle, OANDA or Twelve Data |

How they interact. The loop thread and each POST `/run-now` request call the
same `CycleScheduler.run_once`, at the same time if need be. A cycle reads the
phase once, builds a gate for it, and takes its instruments in order; whatever
one instrument raises becomes a `CycleError` and the next one follows. The
decision log, the phase store and the broker are objects that all threads share.
The two stores each hold ONE sqlite connection opened with
`check_same_thread=False`, so a transaction belongs to the connection and not to
the thread that began it.

What is hard, by component, with the properties that make it correct:

- **Scheduler and cycle.** Interleaving of cycles; failure of any step of an
  instrument; a stop while a cycle runs; a kill anywhere. Correct: every cycle
  ends, the loop survives failing cycles, a stop ends the loop thread
  (`CyclesFinish`, `LoopGoesOn`, `StopIsHonoured`).
- **Log and gate.** A decision is recorded and then executed. Correct: no fill
  without its committed row, no row filled twice, no committed row lost or
  changed (`EveryFillIsAudited`, `FilledOnce`, `AuditTrailIsAppendOnly`).
- **Broker.** A test and an assignment with no lock. Correct: it is a ledger in
  which positions are never overwritten (`PaperLedger`); this holds for the loop
  alone and fails with a Run now request beside it (`DuplicateEnterIsIgnored`).
- **Phase store and gate.** The phase may change while a cycle works with the old
  one; a restart on the same database file keeps the override and changes the
  environment. Correct: an acknowledged phase lasts as long as the file; positions
  move under paper only (`AcknowledgedPhaseLasts`, `LedgerMovesUnderPaper`,
  `LeavingPaperDrains`). That the live branch takes both variables of the
  environment, as the README of the repository says, fails with an override
  (`LiveTakesBothVariables`).
- **Swings and breaks.** Swings are known `lookback` bars late, a pending swing is
  replaced or consumed. Correct: the events are exactly the first closes beyond
  the latest swing confirmed by then, at most one per bar, labelled by the trend
  (`EventsAreTheBreaks`, `OneBreakPerBar`, `LabelsFollowTrend`).
- **Zones.** Each is searched anew over a growing series. Correct, of a series that
  grows by finished bars: an old zone is not rewritten by new ones, except for
  being mitigated once; pools are tight and equal swings share one (`ZonesAreNotRewritten`, `OteZonesSettle`,
  `LegIsAnImpulse`, `PoolsAreTight`, `EqualSwingsShareAPool`).
- **Data clients.** The last bar may still be forming, and the window slides.
  Twelve Data promises no order of its bars. Correct: two cycles agree on the
  places of the breaks, and on the gaps and order blocks, that both cover with
  finished bars (`ReportedBreaksLast`, `ReportedZonesLast`).
- **Kite client.** Its callers share one access token, which dies at Kite's daily
  reset, and one cache of instrument tokens. Correct: nobody gets another
  contract's candles, nothing that was always listed is unknown, and only the
  reset ends a session (`CandlesAreOfTheContract`, `ListedContractsAreKnown`,
  `SessionEndsWithItsDay`).
- **Dashboard.** It knows of the loop through two sticky errors. Correct: a loop
  that never started cannot look healthy (`QuietDashboardMeansLoopRuns`).
- **Web authentication.** Sessions end by age, by logout, or with the key of the
  process. Correct: a protected route serves exactly who has one, and nothing
  else changes the phase or starts a cycle (`SessionsDecideAccess`).
- **Log queries.** The interval and the order of a list are those of the text of
  timestamps; the dashboard reads uncommitted rows. Correct: a list holds the
  newest decisions between the wall clocks of its bounds, newest first (which is
  the interval asked for when the bounds are in UTC, and only then), and what was
  committed and listed does not vanish from later lists (`AnswersAreTheLatest`, `ShownDecisionsStay`).
- **Reasoner.** A reply is checked field by field, by code that raises five classes
  of exception. Correct: what reaches the trail keeps the playbook's discipline
  (`TrailTellsTheStory`), and no class of exception ends a pass
  (`PassesAreReported`).
- **Session clock.** Windows in four time zones, two of which change their clocks
  on different days. Correct: at most one kill zone at a time, each within an open
  market (`KillZonesFit`).
- **Command line.** A setting has several sources; a loop may end at any point, by
  Ctrl+C or by an exception of `on_cycle`. Correct: the first source wins
  (`SettingsHaveOneSource`), and the loop is a sequence of complete passes, each
  reported once, with a rest between two (`PassSpec`).

`PROJECT.json` lists the hazards one by one, each at its line.

## 2. Modules

```
TradingTypes                                     Candles
   |-- DecisionLog                                  |-- StructureBreaks
   |-- PhaseStore                                   |      +-- PriceZones -- StructureProperties
   |-- PaperBroker                                  |             |               |-- MCStructure
   |-- ReplyParsing                                 |             |               +-- Structure_proofs
   |                                                |             |                      |
   |-- CycleScheduler                               |             | INSTANCE         Zones_proofs
   |     (DecisionLog, PhaseStore, PaperBroker)     |             | (Walk)               |
   |     +-- SchedulerProperties                    +-- MarketFeed -- MCFeed             | INSTANCE
   |            |                                          |                             | (Proved)
   |            |    INSTANCE PaperLedger                  +------ Feed_proofs ----------+
   |            |-- MCScheduler
   |            +-- Scheduler_proofs             KiteSession -- MCKite, Kite_proofs
   |                                             Sessions -- Clock_proofs
   |-- CommandLine
   |     (ReplyParsing, DecisionLog, PaperBroker, Sessions)
   |     +-- CommandLineProperties
   |            |    INSTANCE WatchlistPass
   |            |-- MCCommandLine
   |            +-- CommandLine_proofs (and Clock_proofs)
   |
   +-- Dashboard
         (DecisionLog, PhaseStore, DecisionQuery)
         +-- DashboardProperties -- MCDashboard, Dashboard_proofs
```

### The process

`TradingTypes` holds the vocabulary: phases, actions, decisions, replies of the
model, settings. A price is reduced to whether it is there, which is all the
control flow asks; a reply is an action, an instrument or none, and `priced`.
`DecisionFromReply` is line 223 of `reasoner.py`: the model's instrument wins.

`DecisionLog` and `PhaseStore` each model one shared connection as two variables:
what the process sees (`rows`, `override`) and what is on disk (`durable`, the
number of committed rows, and `savedOverride`). The execute and the commit of a
call are separate operations, since another thread may run between them. A
commit makes every pending row durable, whoever inserted it. It may fail in two
ways: `"busy"` (another process holds the file; the transaction stays open and a
later commit takes it along) and `"rollback"` (an I/O or disk-full error, after
which sqlite has rolled back the whole transaction of the connection).

`PaperBroker` is the dict of positions. A position is named by the audit row of
the decision that opened it, which is how the properties relate the two.
`_enter` is two steps, the test and the assignment; `_exit` is one `dict.pop`.
`closed` remembers exited positions for the properties; the code returns each
`ClosedPosition` and keeps none.

`CycleScheduler` composes them. A worker (the loop thread or a Run now thread)
has a program counter and the locals of its cycle: `item` (the place in the
watchlist), `phase` (the gate's settings), `decision`, `row`, `failed`.

| Action | Code |
|---|---|
| `Boot`, `Stop`, `Crash` | `_lifespan`; the process ends at any point and takes memory and pending rows with it |
| `LoopBegins`, `LoopExits`, `LoopWakes` | `_run_forever` between cycles |
| `RunNow` | POST `/run-now` |
| `ReadPhase`, `ReadPhaseFails` | the phase lookup of `CycleScheduler.run_once`; if it raises, the loop sets `last_error` and a request sets `scheduler_error` |
| `Fetch`, `FetchHangs`, `Decide`, `InsertRow`, `CommitRow`, `CommitRowFails` | `_run_one_instrument`, in its order |
| `InstrumentFails` | anything raised before the commit |
| `NothingToExecute`, `PendingConfirmation`, `LiveOrderRaises` | branches of `ExecutionGate.handle` |
| `BrokerRejects`, `EnterUnpriced`, `EnterChecked`, `EnterStores`, `Exit` | `PaperBroker` |
| `FinishCycle` | the assignment to `last_error` and the return |
| `SetPhaseWrites`, `SetPhaseCommits`, `SetPhaseCommitFails` | POST `/phase` |

Three variables are ghosts that no action reads: `stale` (workers whose cycle
read the phase before paper was left), `newest` and `acknowledged` (which POST
`/phase` wrote last and which the browser was told is in force).

`PassesLiveGate` is what `require_live_trading_enabled` decides in a cycle, of the
override's phase, and `LiveIsShown` what the dashboard says of the same attribute,
of the environment's. The row id of `InsertRow` is the cursor's `lastrowid`, which
`record` reads after the commit.

`PaperLedger` is the abstract specification of a paper account. `Ledger ==
INSTANCE PaperLedger WITH Names <- Instruments, open <- positions, done <-
closed` is the refinement mapping; `LedgerSpec` is checked and proved for the
loop alone.

### The structure code

`Candles` defines bars and swing points. Prices are integers: the code only
compares prices, apart from percentages, which are multiplied out. Indices start
at 1. `IsSwingLow` carries the `elif` of `find_swing_points`.

`StructureBreaks` is the loop of `detect_structure_breaks`, one `ReadBar` per
candle. The code finds all swings first, and the walk uses a swing only when its
confirmation index is reached; as that depends on no later bar, the model
evaluates the swing when the walk gets there. A behaviour is then both one call,
bar by bar, and the calls of successive cycles over a series that grows.

`PriceZones` has the gaps, order blocks, OTE zones and liquidity pools as
operators on the candles and events (sets where the code builds lists). For the
pools, the code sorts the swings of a kind by price (stably, so at one price by
time: `SortsBefore`) and walks over them, one `ClusterWith` per point. `Clusters`
is that walk, as a recursive function on the sets of swings: the clusters of a set
are those of all its swings but the one sorted last (`LastSorted`), and then that
one. `Near` is the test against the cluster's mean, with `Total` its sum; the mean
is exact here, where that of the code is rounded.

`MarketFeed` adds what surrounds them: a market whose last bar is still forming,
one of two providers (`provider`), and cycles that walk over the fetched bars
while the market goes on (`Walk == INSTANCE PriceZones WITH MaxBars <- Count,
...`). A report has the breaks, gaps and order blocks of the window, each at its
place in the market's history (`PlaceOf`). `Payloads` are the bodies an answer may have: OANDA's is chronological,
Twelve Data's comes either way round. `ParseCandles` is what the client makes of
one: Twelve Data's sorts it (`InOrder`) and keeps the forming bar, OANDA's drops
what is not complete (`Keeps`, and `Kept` for the whole answer). `Nth` is the n-th
place of a set of places, in order.

### The Kite client

`KiteSession` is one `KiteClient` with the callers that share it and Kite behind
it. Kite is external: it issues access tokens (numbered), forgets all of them in
`Reset`, lists other contracts on the next day, and refuses a request whose
token is not valid. `FetchBegins` is `_require_session` with the test of the
cache; `InstrumentsArrive` and `InstrumentsStored` are the request and the
assignment of `_resolve_instrument_token`, between which another caller or the
reset may come; `UnknownInstrument` and `InstrumentFound` are its lookup;
`CandlesArrive` is the answer of `historical_data`, and `RequestFails` what
`_call` makes of anything a request raises. `generate_session` is `LoginIssues`,
then `LoginActivates` (the token and the flag in one step: between the two a client
that was not ready still refuses) or `LoginFails`; the client asks for a human at each login,
so one login is under way at a time. `everListed` is a ghost.

### The command line

`CommandLine` is `run.py` over `cycle.py`: the same log and broker as the
scheduler's, in a process of one thread. A row of the log is here the decision
with its moment and its session context, which a clock (`Tick`) makes matter.

| Action | Code |
|---|---|
| `Start`, `Interrupt` | the process; Ctrl+C at any point |
| `LoadLine`, `LoadEnds` | `load_dotenv`, a line at a time |
| `ClientCreated`, `ClientRefused`, `ClientRaises` | the provider's constructor: its key, and OANDA's unknown environment, whose `ValueError` nothing catches |
| `RunnerCreated`, `RunnerRefused` | `DecisionCycleRunner`, which needs the model's key |
| `PassBegins`, `Report`, `ReportRaises`, `Wake`, `LoopDone` | `run_forever`, or the one `run_once`; `on_cycle`; the sleep |
| `Fetch` ... `CommitFails` | `_run_one_instrument` up to `record` |
| `NothingToDo`, `LiveOrderRaises`, `EnterUnpriced`, `Enter`, `Exit` | the gate and the broker |

`Ends` is every way out: it loses the transaction, the positions and the locals.
`Raises(error)` is `except Exception`: a `CycleError` for the instrument, and the
next one. `BadReply` takes the class of its exception from `ReplyParsing`, where
`ToolInputError` is `_decision_from_tool_input` with `Decision.__post_init__`;
`AcceptedMeansDisciplined` proves that what it accepts is what the playbook asks
for. `Sessions` has both tables of windows and `Window.contains`; the offsets of
the zones are an input (zoneinfo is external), any of the winter and summer ones.

`WatchlistPass` is the abstract specification of the loop: serve the list in
order, report, rest, again. `Pass == INSTANCE WatchlistPass WITH List <-
Watchlist, limit <- Limit, served <- <<the results' instruments>>` is the
refinement mapping and `PassSpec` its specification.

### The dashboard

`Dashboard` is `app.py` and `auth.py` over the trail. Of a cycle it has what the
trail sees (`Decide`, `InsertRow`, `CommitRow`, `CommitRowFails`, `CycleFails`);
of a request one action per route and outcome: `LogsIn`, `LoginRefused`,
`Logout`, `SentToLogin`, `ShowsDashboard`, `ChangesPhase`, `ChangeFails`,
`IgnoresPhase`, `RunsNow`, `RunsNothing`. `Redeploy` starts a process with another
environment while the browsers keep their cookies. A cookie is the second it was
signed in and the key it was signed with; `Loads` is what the library makes of
it. `Review` is `list_decisions` through another connection, with filters.

`DecisionQuery` has `list_decisions`. A timestamp is the microsecond its wall clock
shows with the offset of its zone, or without one; the rows' are in UTC, a bound
may be any. `IsoFormat` gives the parts of its text that can differ (the second,
the sign or full stop after it, the microseconds, the offset's sign and digits),
`TextBefore` compares them as sqlite does. SQL leaves the order of equal timestamps open, so
`ListDecisions` is the set of the answers it allows. `entered` is a ghost (where
the right password was last entered), as is `committed` of a page.

The modules named `...Properties` hold the properties, those named `MC...` the
values for TLC. Operators named
`Mutant...` are faulty forms of the definition below them: each is a plausible
bug, and shows that the property it is listed with in `PROJECT.json` would
notice it. No specification uses them.

## 3. Runs

Start a run with `tlc -workers 2 -config <name>.cfg <module>`.

| Run | Instance | Shows |
|---|---|---|
| `MCLoopOnly` | the loop alone, 2 instruments, 4 replies (every branch of the gate), 2 environments, one of them without credentials, fetches that hang, both commit errors, 1 phase request, 2 cycles, 2 boots | `TypeOK`, `EveryFillIsAudited`, `FilledOnce`, `QuietDashboardMeansLoopRuns`, `AuditTrailIsAppendOnly`, and that the broker implements `PaperLedger` |
| `MCThreads` | loop and one Run now thread, 2 phase threads, 1 instrument, enter and exit, 2 environments, commits that fail busy, 2 cycles, 2 phase requests, 2 boots | `EveryFillIsAudited` and `FilledOnce` under races, `AcknowledgedPhaseLasts`, `LedgerMovesUnderPaper` |
| `MCLiveness` | loop, one Run now thread, one phase thread, fetches that hang, 2 cycles, 1 boot, `FairSpec` | `CyclesFinish`, `LoopGoesOn`, `StopIsHonoured`, `LeavingPaperDrains` |
| `MCBreaks` | all series of up to 7 bars of 6 shapes, lookback 1, tolerance 3 % | `EventsAreTheBreaks`, `OneBreakPerBar`, `LabelsFollowTrend`, `EqualSwingsShareAPool`, `PoolsAreTight` |
| `MCZones` | all series of up to 8 bars of 5 shapes, lookback 2 (the code's default), OTE 62-79 % | `LegIsAnImpulse`, `ZonesAreNotRewritten`, `OteZonesSettle` |
| `MCFeed` | both providers, windows of 5 bars over a market of up to 6 finished bars and a forming one | `ReportedBreaksLast`, `ReportedZonesLast` |
| `MCKite` | 2 callers, 2 exchanges that list one name both and another name on some days only, 2 days, 2 logins | `CandlesAreOfTheContract`, `ListedContractsAreKnown`, `SessionEndsWithItsDay` |
| `MCDashboard` | 1 browser, the loop and one Run now thread, 3 environments (two keys and none, a password outside ASCII, no credentials), a clock of 4 moments of half a second, sessions that end with their second, 2 decisions, a dashboard of 1 row, 2 reviews with filters (one from UTC to UTC, one from a zone ahead of it to a naive moment), commits that roll back, 3 requests, 2 processes | `SessionsDecideAccess`, `AnswersAreTheLatest`, `ShownDecisionsStay` |
| `MCCommandLine` | 6 launches (see the module), 2 instruments, 6 replies, 2 moments on either side of New York's change of clocks, both commit errors, 2 passes, 2 processes, `FairSpec` | `SettingsHaveOneSource`, `TrailTellsTheStory`, `KillZonesFit`, `PassSpec`, `PassesAreReported` |
| `MCDuplicateEnter`, `MCRollback`, `MCLiveGate` | the smallest instance that can show it | the disagreements of section 6: TLC refutes the sentence |

Each passing run but `MCThreads`, `MCLiveness` and `MCZones`, whose modules another
run covers, also checks its module's `TypeOK`.

Why the bounds are enough. Two cycles are the least that can overlap, and the
most that two workers can have at once; with two boots, each of them may also
follow a crash with a saved override and a committed log. Two instruments let a
failure of the first be followed by a success of the second. Two phase
requests are the least in which one may commit, or lose, what the other wrote.
`MaxCycles`, `MaxPhaseChanges`, `MaxBoots`, `MaxPasses` and `MaxStarts` only guard
the actions that start a cycle, a request or a process: nothing that has begun is
cut off. With lookback
1, seven bars hold three swings with their confirmations, a break and a break
against it (a CHoCH); with lookback 2, eight bars hold two swings, a break and
the bars that confirm a swing before it. The bar shapes include equal highs,
gaps, a bar that is outside both neighbours, and one that gaps up and closes
down. In `MCFeed` the market outgrows the window, so bars, swings, gaps and blocks
do leave it; its bars make gaps and blocks that a bar still forming touches first. In `MCKite` two days hold one reset, which may come at any point of a fetch or
of a login, and two logins one on each side of it. In `MCDashboard` the four
moments hold whole seconds and parts of them, so texts with and without
microseconds meet; a session can end by age, logout, or key between a login and
a request; two rows and a page of one let a row be crowded out; the third
request can compare a list with one before it, though a session that is served
twice leaves none for a third. In `MCCommandLine` two passes have a rest between
them and a second process may follow the first; the launches between them take
every branch of `main`. `MCThreads` treats its two
phase threads as interchangeable (`SYMMETRY`): nothing names one of them, and
the run checks no liveness. The shapes of bars are few, and two levels of price
are all that a break needs; that no other shapes behave differently is what the
proofs add, for the properties they cover.

Deadlock is not checked in runs that end when their bound is used up
(`CHECK_DEADLOCK FALSE`): a process may be stopped for good, and a series has a
last bar. In `MCFeed` cycles, and in `MCKite` fetches, repeat for ever and deadlock
is checked.

Every property of a passing run is broken by a mutant of the code, listed in
`PROJECT.json`: a dropped check, a missing commit, a forgotten reset, a
segment one bar too long.

### Fairness

`FairSpec` assumes weak fairness of `LoopStep` and of each worker's
`WorkerStep`: the operating system keeps running threads that can run, and no
lock in this code can keep one waiting. `_run_forever` sleeps at most
`interval_seconds`. Nothing is assumed of requests, of `Stop`, of `Boot`, of
`Crash`, or of which way a step goes: commits may fail every time. `twelvedata.py`
line 137 sets no timeout, so a request may never return (`FetchHangs`, in every
liveness run): a thread it holds is excepted from the properties, and only that
one. `LoopGoesOn` thus says that a request that hangs in a Run now thread does
not stop the loop, and `StopIsHonoured` that `stop()` is honoured by any loop
thread a provider lets go of.

`FairSpec` of `CommandLine` is weak fairness of `ProcessStep`, the one thread of
the process, whose sleep and calls end unless they hang. Nothing is assumed of
`Tick`, `Start` and `Interrupt`. `PassesAreReported` excepts a hung request and
Ctrl+C.

## 4. Proofs

`tlapm` checks all of them, in eight modules: `Scheduler_proofs`,
`Structure_proofs`, `Zones_proofs`, `Feed_proofs`, `Kite_proofs`, `Clock_proofs`,
`Dashboard_proofs` and `CommandLine_proofs`. Every safety property that a passing
run checks, and the one that `MCRollback` refutes, is stated by a theorem.

| Theorem | States |
|---|---|
| `TypeCorrect` | `Spec => []TypeOK` |
| `AuditTrailCorrect` | `Spec => AuditTrailIsAppendOnly` |
| `FillsAreAudited` | `NoRollbackRace /\ Spec => []EveryFillIsAudited` |
| `FillsHappenOnce` | `NoRollbackRace /\ Spec => []FilledOnce` |
| `LoopImplementsLedger` | `OnlyLoop /\ Spec => LedgerSpec` |
| `LedgerMovesUnderPaperOnly` | `Spec => LedgerMovesUnderPaper` |
| `AcknowledgedPhaseLastsAlways` | `NoPhaseRollbackRace /\ Spec => []AcknowledgedPhaseLasts` |
| `RecordReturnsItsRowUnraced` | `NoRollbackRace => (Spec => []RecordReturnsItsRow)` |
| `QuietDashboardIsHonest` | `Spec => []QuietDashboardMeansLoopRuns` |
| `WalkTypeCorrect` | `Spec => []TypeOK` of `StructureBreaks` |
| `OneBreakPerBarAlways` | `Spec => []OneBreakPerBar` |
| `LabelsFollowTrendAlways` | `Spec => []LabelsFollowTrend` |
| `EventsAreAlwaysTheBreaks` | `Spec => []EventsAreTheBreaks` |
| `ZonesAreNeverRewritten` | `Spec => ZonesAreNotRewritten` |
| `LegsAreAlwaysImpulses` | `Spec => []LegIsAnImpulse` |
| `OteZonesAlwaysSettle` | `Spec => OteZonesSettle` |
| `EqualSwingsAlwaysShareAPool` | `PricesAreNotNegative => (Spec => []EqualSwingsShareAPool)` |
| `PoolsAreAlwaysTight` | `Spec => []PoolsAreTight` |
| `FeedTypeCorrect` | `Spec => []TypeOK` of `MarketFeed` |
| `ReportedBreaksAlwaysLast` | `Spec => ReportedBreaksLast` |
| `ReportedZonesAlwaysLast` | `Spec => ReportedZonesLast` |
| `KiteTypeCorrect` | `Spec => []TypeOK` of `KiteSession` |
| `ContractsAreNotMixedUp` | `Spec => []CandlesAreOfTheContract` |
| `ListedContractsAreAlwaysKnown` | `Spec => ListedContractsAreKnown` |
| `SessionsEndWithTheirDay` | `Spec => SessionEndsWithItsDay` |
| `OneKillZoneAtATime` | the context of any moment, under any offsets, has at most one kill zone |
| `KillZonesHaveAMarket` | and none while no market of the table is open |
| `ListedByMoment` | two rows are listed in the order of their moments |
| `MatchedByWallClock` | what `Matches(d, query)` selects, exactly, whatever the zones of the bounds |
| `OnlyUtcBoundsAreMoments` | an aware bound selects by its moment if and only if it is in UTC |
| `DashboardTypeCorrect` | `Spec => []TypeOK` of `Dashboard` |
| `SessionsAlwaysDecide` | `Spec => SessionsDecideAccess` |
| `AnswersAreAlwaysTheLatest` | `Spec => AnswersAreTheLatest` |
| `ShownDecisionsAlwaysStay` | `Spec => ShownDecisionsStay` |
| `AcceptedMeansDisciplined` | `ToolInputError(raw) = {} <=> Disciplined(raw)` |
| `SchemaKeepsErrorsInTheModule` | a reply within the tool's schema raises at most `AgentError` |
| `CommandLineTypeCorrect` | `Spec => []TypeOK` of `CommandLine` |
| `SettingsAlwaysHaveOneSource` | `Spec => []SettingsHaveOneSource` |
| `KillZonesAlwaysFit` | `Spec => []KillZonesFit` |
| `TrailAlwaysTellsTheStory` | `Spec => []TrailTellsTheStory` |
| `CommandLineImplementsPasses` | `Spec => PassSpec` |

They hold for every watchlist, set of threads, set of replies and bound, under
the assumptions the modules declare: `NoNameAssumption` (the empty name is no
instrument), `CommitErrorsAssumption`, `ConstantsAssumption` (the watchlist is a
sequence of instruments, the loop is not a request thread, and the types of the
bounds), `CandlesAssumption` (`low <= open, close <= high`, lookback at least 1,
which `find_swing_points` enforces), `MaxBarsAssumption`, `KiteAssumption` (exchanges
list sets of contracts), `MicrosAssumption` (a second has at least two microseconds),
`DashboardAssumption` and `CommandLineAssumption` (the types of their constants;
the loop is no request thread), `ZonesAssumption` (the tolerance is no less than
0) and `FeedAssumption` (the two providers, and at least one bar is asked for).

Four conditions are in the theorems because the code needs them:

- `NoRollbackRace`: a failing commit keeps the transaction, or there is no Run
  now thread. Otherwise `MCRollback` is a counterexample: one thread's failing
  commit removes another's row, whose `record()` then returns its id.
- `OnlyLoop`: there is no Run now thread. Otherwise `MCDuplicateEnter` is one.
- `NoPhaseRollbackRace`: the same as the first, for two POST `/phase` requests.
- `PricesAreNotNegative`: no bar has a low under 0. The tolerance of a pool is a
  percentage of the mean of its points, so below zero it is negative and not even
  equal swings are near (`liquidity.py`). No market this agent is for trades below
  zero, and the runs' bars do not.

The arguments:

- **Types.** `TypeInv` is `TypeOK` with `DurableIsPrefix`: without `durable <=
  Len(rows)` a rollback or a crash would not keep `rows` a sequence. `LocalsOK`
  in `TypeOK` relates a worker's program counter to its locals, so that
  `Watchlist[item]` and `decision` are there when a step uses them.
- **Fills.** `EveryFillIsAudited` is not inductive: it says nothing of the
  row a worker is about to fill. `FillInv` adds that a worker holds its row from
  the INSERT on, that held rows are rows of the table with the worker's decision,
  different from each other, from every open position and from every closed
  one (`HeldRowOK`), and committed from the commit on. An INSERT makes a row
  nobody has; only a rollback could take it back from another thread.
- **Refinement.** `EnterStillFlat`: with the loop as the only worker no one opens
  a position between `_enter`'s test and its assignment. With `FillInv`, each step
  is then a step of `PaperLedger` or a stutter (`LedgerStep`).
- **Phases.** `PhaseInv`: the phase a cycle read stays its phase; a thread about
  to store read paper; a cycle under paper when paper is not in force is one of
  the `stale` ones. `AckInv`: the thread that wrote last has its phase in
  `override`, so its commit saves that very phase.
- **Breaks.** `BreakInv` says of a pending high that it is a swing high with no
  close above it since, and the mirror of a pending low. The key lemma is
  `NotBothBroken`: of the two, the later bar's close is on the inner side of the
  earlier one's level, so the pending low is not above the pending high and one
  close cannot be beyond both. It needs `low <= close <= high` and that no bar is
  both pivots, which is the `elif`. So the second `if` of the loop never sees a
  trend the first has just set.
- **First closes.** `BreakInv` says what is pending is sound, not that no break is
  missed. `FirstClosesInv` adds that: what is pending is the latest confirmed swing
  with no close beyond it yet (`AwaitedHigh`, `AwaitedLow`), and the events so far
  are the first closes of the series so far (`AboveIn`, `BelowIn`). Both are
  defined from the candles alone, so the step compares them for a series and for
  the same with one bar more: only the swing that bar confirms, and the close
  it has, can make a difference. At the end this is `EventsAreTheBreaks`.
- **Zones.** A bar more leaves the candidates of old gaps and blocks as they were;
  `FirstTouchGrows` says that it moves no first touch, and adds one at most at
  itself. A leg begins at the latest swing before the break, and `Terminus` is the
  extreme of its bars, so the close of the break lies within the leg. A swing before
  a break is known for good `Lookback` bars later, and nothing else of an OTE zone
  looks beyond the break.
- **Pools.** `Clustered` is what the walk has made of a set of swings: clusters in
  the order of prices that leave none out, each point near the mean of those sorted
  before it in its cluster, and no price parted. `ClusterWithKeeps` is its step. A
  swing at the price of the one before it joins that one's cluster: `p` is not below
  the mean of the cluster (`TotalBound`), and with `p` in the cluster the mean can
  only come nearer (`EqualIsNear`).
- **Feed.** A window is a stretch of the market: `ParsedBars` proves it of both
  clients and of either order of the answer. A swing is one in the window when it
  and its neighbours are in it, and so is a break of it (`SwingsInWindow`,
  `BreaksInWindow`); neither is undone by later bars (`HistoryKeepsBreaks`). The
  walk of a cycle is an instance of the proved one (`Proved`), so its events are
  the breaks of the window (`FirstClosesAreBreaks`). `ReportInv` then holds the
  last report against the history of the market, which the next report is held
  against too. `ZonesInv` does the same for gaps and blocks: a report has exactly
  those the market has there (`GapAt`, `BlockAt`: `ReportsTheGaps`,
  `ReportsTheBlocks`), and what it says of a first touch stays true
  (`TouchHolds`), that of a bar still forming too, since the finished bar covers
  what was seen of it. Two reports then name the same zones, and the same touch
  unless there was none among the bars finished by the first (`TouchAgrees`).
- **Returned ids.** `FillInv` has what `RecordReturnsItsRow` asks: a held row is in
  the table, committed from the commit on, with the worker's decision.
- **Dashboard.** `QuietInv`: an up process has a loop thread that is not off, or
  no credentials and `schedulerError`, which no step but a boot or the end of
  the process clears.
- **Kite.** `CacheInv`: the rows an exchange has in the cache, and those a caller
  has received and not stored, are of that exchange, one for each symbol, and
  hold every contract in `everListed` (`RowsOK`); a caller that has found a token
  has that of the contract it wants; a login under way while a valid session is
  in use holds a token that is valid too, since a reset would have ended both.
- **Clock.** Three kill zones are disjoint intervals of the time of day in New
  York and the fourth begins after them. Each has a market that is open whatever
  of the four pairs of offsets New York and London have: Tokyo, India, London and
  New York for the Asian zone, London's, New York's morning and London's close.
- **Lists.** `TextOrder`: a text comes before another if its wall clock does (the
  signs come before a full stop, so a whole second comes before its fractions);
  at one wall clock the end of a naive text comes first, then a plus, then a minus,
  and the digits of the offset decide last. Against a row, which is in UTC, this is
  `UtcTextOrder`, and `MatchedByWallClock` the interval it makes of any two bounds.
  `OnlyUtcBoundsAreMoments` compares it with the moments: a bound of another zone
  is wrong about some decision. `ListIsLatest` follows for any table and any answer
  SQL may choose.
- **Sessions.** `CookieInv`: a browser's cookie is from the last entry of the right
  password since its logout, and no cookie is from the future; the first is what
  a refused login must not disturb, the second what `Loads` asks for.
- **Lists over time.** `PageInv`: what the last page says of its committed rows is
  what the table has there. No step takes a committed row away, so an answer that
  asks for one holds it or is full of others as new.
- **Settings.** `Loaded(key, place)`: the environment has the key's value at the
  start; or none yet, if no line before `place` has the key; or that of the first
  such line. At the end of the file that is `FirstSource`.
- **Trail.** `StoryInv` follows a decision through its turn: the context is taken
  after every recorded decision, the decision after its context, and the row of a
  turn is the last one, uncommitted before the commit and `durable` after it. An
  id in the results is thus committed and smaller than the next.
- **Passes.** `PassInv` ties the place in the watchlist to the results, and the
  program counter to how many passes and rests there were; each step is then a
  `Serve`, `Report`, `Rest` or `Restart` of `WatchlistPass` or a stutter.

Recursion and induction. `tlapm`'s provers cannot use a library theorem that takes
an operator, such as natural induction. Where these proofs need induction they
take it over a set: `LeastNat` gives the least counterexample, `SetInduction` and
`SubsetInduction` follow from it and from the finiteness of intervals. That a
recursive function exists is a lemma of its own where one is used (`TotalIsASum`,
`ClustersFollow`), by induction on how far it is defined.

Only model-checked: the liveness properties `CyclesFinish`, `LoopGoesOn`,
`StopIsHonoured`, `LeavingPaperDrains` and `PassesAreReported`, since TLAPS does not
treat fairness and ENABLED here. `DuplicateEnterIsIgnored` and
`LiveTakesBothVariables` are false of the code (section 6); `LoopImplementsLedger` is
what holds in place of the first.

## 5. Left out, and why

- `context/finnhub.py`: stateless requests and parsing, and nothing calls it.
- `agent/prompts.py`, `playbook/`: text for the model, with no state.
- Profit figures, `to_dict`, templates, formatting, error texts.
- Quotes and streaming of `data/oanda.py`, which no cycle uses; `get_quote` and the
  login URL of `data/kite.py`, which change no state.
- In `CycleScheduler`, the single fields of a reply and the context snapshot, which
  its callers do not tell apart; `CommandLine` has both. `extra_context`: nothing
  sets it.
- `get_decision` of `logging/query.py`, a lookup by primary key.
- Of `run.py`, `--interval` and `--candle-interval`, the parsing of the watchlist
  and what is printed.
- In `Dashboard`, GET `/login` and what is rendered; the browser that drops a cookie
  of its own accord at `max_age` (the server's check is the one modelled, and the
  stricter case); `set_phase` is one step there, its interleavings are in
  `CycleScheduler`.
- How a value of the environment is spelled: `strip` and `lower` of the phase
  (`settings.py` 99) and the exact confirmation string are done with before a model
  sees a setting. A clock that is set back: `TrailTellsTheStory` is about one that
  is not.
- A database file that goes with its disk: the processes of `CycleScheduler` that
  follow one another open the same file (see section 6 on `render.yaml`).
- In `MarketFeed`, OTE zones and pools; a provider that corrects a bar it has called
  finished, or a forming bar whose range shrinks.
- The signature of a session: the library makes a token nobody else can make.
- Two processes over one database file, except that one may make the other's
  commit fail with `"busy"`.

## 6. Where the code and its words differ

Three runs are expected to fail; each refutes a sentence of the repository.

- `MCDuplicateEnter`: `simulator.py` 50-51 ignores a "duplicate enter"; two
  cycles at once both find no position (line 44) and the second overwrites the
  first (line 66).
- `MCRollback`: `store.py` 60-62 argues that calls are "effectively atomic"
  without a lock; the transaction spans two calls and all threads.
- `MCLiveGate`: the repository's README 100-101 says that "two independent
  environment variables, not one" control whether an order can be live, and 341-343
  that `autonomous` takes both `ICTAGENT_PHASE` and `ICTAGENT_LIVE_TRADING_CONFIRM`.
  `scheduler.py` 85-86 puts the dashboard's phase in place of the first, so with
  `ICTAGENT_PHASE=paper` the second alone lets an order pass
  `require_live_trading_enabled` (where `NotImplementedError` stops it). The
  dashboard then shows "Live trading enabled: no": its line (`app.py` 154) asks the
  environment's settings, though `settings.py` 71-73 calls the attribute "the single
  source of truth".

Read in the code, modelled as it is, and not given a run: `dashboard.html` 12 says
the loop "isn't running" whenever there is an error to show, also when the loop
goes on (`app.py` 157); a bar that is both
pivots is a swing high only (`swings.py` 48); the bar that breaks a level can
be its own order block (`order_blocks.py` 35); a break is relabelled from CHoCH
to BOS when the breaks before it leave the window (`structure_breaks.py` 42, so
`ReportedBreaksLast` compares places and not labels); Twelve Data's client keeps
the forming bar (`twelvedata.py` 95) where `base.py` 30 promises completed ones
and `oanda.py` 118-119 drops it (so a gap whose third bar still forms, and the zones
of a break at such a bar, may change or be gone in the next cycle, which
`ReportedZonesLast` leaves out, as it does zones whose bars have left the window,
`scheduler.py` 109); the origin of an OTE zone need not be confirmed at the break
(`ote.py` 123), so the zone may change until it is, `Lookback` bars after the break
(`OteZonesSettle`); the scheduler passes `interval=` to any data
client (`scheduler.py` 109), which `OandaClient` does not accept though
lines 21-22 suggest it; `render.yaml` 31-33 calls `ICTAGENT_PHASE` "only the
*starting* phase at boot", but it starts a process only while the database file has
no override: one saved by POST `/phase` is read back at every later boot on that
file (`phase_store.py` 23 and 48-55), whatever `ICTAGENT_PHASE` then says, which is
what `AcknowledgedPhaseLasts` holds the code to; and since the plan of `render.yaml`
20 declares no disk, a redeploy that starts without the file has neither the
override nor the audit trail; a reply that names another instrument is recorded and filled
for that one (`reasoner.py` 223), where `prompts.py` 27-29 speaks of "one
instrument"; a missing key, a confidence that is no number or a rationale that is
no text leaves `_decision_from_tool_input` as `KeyError`, `TypeError` or
`AttributeError` (`reasoner.py` 209-236), and not as the `AgentError` of its other
refusals; `list_decisions`, which `query.py` 4-6 offers "by date range", takes any
datetime as `since` and `until` (87-88) but compares the text of their
`isoformat()` (102-107): a bound in another zone than UTC selects by its wall clock
and so another interval than its own (`OnlyUtcBoundsAreMoments`), and a naive
`until` excludes its own moment (`MatchedByWallClock`); the
comment on a window's end says that one at its start wraps (`sessions.py` 37),
line 41 makes such a window empty (no table has one); a password outside ASCII
makes `compare_digest` raise (`auth.py` 57), so that nobody can log in with it,
where line 49 asks for "whatever password you want".

## 7. Plan

Done, in this order: the process (`CycleScheduler` and what it extends), its
abstract ledger, the walk and the zones, the feed with both providers, the Kite
client, the session clock, the command line with the parsing of replies and its
abstract loop, the log queries and the dashboard, the proofs of section 4.

Next, by the weight of the behaviour:

1. `MarketFeed` further: `base.py`'s promise of completed bars, OTE zones and pools
   over the sliding window, lookback 2.
2. The scheduler's loop as another implementation of `WatchlistPass`.
3. Two processes over one database file.

Theorems to come: that the scheduler's loop implements `WatchlistPass`; that
every break in a window is in the history of the market (what `ReportedBreaksLast`
says of two reports, of each on its own; `ZonesInv` has it for the gaps and
blocks); that no cluster could have been larger
(the first point of the next one is not near its mean).

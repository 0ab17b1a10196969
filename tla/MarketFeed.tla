------------------------------ MODULE MarketFeed ------------------------------
(***************************************************************************)
(* Where the candles come from: a market that goes on, a data client that  *)
(* returns its latest bars (data/oanda.py, data/twelvedata.py), and cycles *)
(* that compute the structure of these anew each time                      *)
(* (structure/pipeline.py).  The last bar of the market is still forming   *)
(* and may look different when it is finished.                             *)
(***************************************************************************)
EXTENDS Candles, FiniteSets, SequencesExt

CONSTANTS
    Providers,   \* the data clients a process may have
    Count,       \* the number of bars asked for
    MaxHistory   \* bound on the finished bars of the market

ASSUME FeedAssumption ==
    /\ Providers \subseteq {"twelvedata", "oanda"}
    /\ Count \in Nat \ {0} /\ MaxHistory \in Nat

VARIABLES
    provider,    \* the data client of this process
    history,     \* the finished bars of the market
    forming,     \* at most one bar, the one being formed, as it stands now
    fetched,     \* the candles of the cycle at hand
    candles, pendingHigh, pendingLow, trend, events,   \* its walk over them
    report       \* what the last cycle told the agent

marketVars == <<provider, history, forming>>
walkVars == <<candles, pendingHigh, pendingLow, trend, events>>
vars == <<marketVars, fetched, walkVars, report>>

(* The walk of a cycle and what it finds.  No OTE zones and pools are      *)
(* reported here: their parameters play no part.                           *)
Walk == INSTANCE PriceZones
          WITH MaxBars <- Count, OteMin <- 0, OteMax <- 0, Tolerance <- 0

(* first is where the market's history holds the first of the bars,        *)
(* finished how much of the history there was.                             *)
Nothing == [first |-> 0, finished |-> 0, bars |-> <<>>]
NoReport == [first |-> 0, last |-> 0, finished |-> 0, events |-> {},
             gaps |-> {}, blocks |-> {}]

Working == fetched.first # 0

Breaks == [bar: Nat, level: Nat, direction: Walk!Directions,
           kind: Walk!BreakKinds]

Gaps == [index: Nat, direction: Walk!Directions, top: Int, bottom: Int,
         mitigated: Nat]

Blocks == [index: Nat, direction: Walk!Directions, high: Int, low: Int,
           breaksAt: Nat, mitigated: Nat]

TypeOK ==
    /\ provider \in Providers
    /\ history \in Seq(Bars)
    /\ forming \subseteq Bars /\ Cardinality(forming) <= 1
    /\ fetched \in [first: Nat, finished: Nat, bars: Seq(Bars)]
    /\ Len(fetched.bars) <= Count
    /\ Walk!TypeOK
    /\ report.first \in Nat /\ report.last \in Nat /\ report.finished \in Nat
    /\ report.events \subseteq Breaks
    /\ report.gaps \subseteq Gaps /\ report.blocks \subseteq Blocks

WalkStarts ==
    /\ candles' = <<>> /\ events' = <<>>
    /\ pendingHigh' = Walk!NoSwing /\ pendingLow' = Walk!NoSwing
    /\ trend' = Walk!NoTrend

Init ==
    /\ provider \in Providers
    /\ history = <<>> /\ forming = {}
    /\ fetched = Nothing /\ report = NoReport
    /\ Walk!Init

-----------------------------------------------------------------------------
(* The market.  What it does while a cycle walks over its candles, which   *)
(* are a copy, it may as well do after.                                    *)

BarOpens ==
    /\ ~Working
    /\ forming = {} /\ Len(history) < MaxHistory
    /\ \E b \in Bars: forming' = {b}
    /\ UNCHANGED <<provider, history, fetched, walkVars, report>>

(* The finished bar covers what it has been while it formed.               *)
BarCloses ==
    /\ ~Working
    /\ \E f \in forming, b \in Bars:
        /\ b.open = f.open /\ b.low <= f.low /\ f.high <= b.high
        /\ history' = Append(history, b)
    /\ forming' = {}
    /\ UNCHANGED <<provider, fetched, walkVars, report>>

-----------------------------------------------------------------------------
(* One call of fetch_candles.                                              *)

(* Mutant: one bar more than was asked for.                                *)
MutantOldest(total) == IF total > Count THEN total - Count ELSE 1

(* Where the latest Count of the market's bars begin.                      *)
Oldest(total) == IF total > Count THEN total - Count + 1 ELSE 1

(* The market as the provider has it: the last bar may be incomplete.      *)
Market == history \o SetToSeq(forming)

Value(n) == [time |-> n, bar |-> Market[n], complete |-> n <= Len(history)]

(* The bodies of the answers: OANDA's is chronological, Twelve Data's      *)
(* "ordering isn't documented as a stable guarantee".                      *)
Payloads ==
    LET first == Oldest(Len(Market))
        values == [n \in 1 .. Len(Market) - first + 1 |-> Value(first + n - 1)]
    IN  IF provider = "twelvedata" THEN {values, Reverse(values)} ELSE {values}

(* The n-th smallest of a set of numbers.                                  *)
Nth(numbers, n) ==
    CHOOSE i \in numbers: Cardinality({k \in numbers: k <= i}) = n

(* Mutant: twelvedata.py relies on the order of the payload.               *)
MutantInOrder(values) == values

(* candles.sort(key=lambda c: c.timestamp), in twelvedata.py alone: the    *)
(* n-th candle is that of the n-th timestamp.                              *)
InOrder(values) ==
    IF provider = "twelvedata"
    THEN LET times == {v.time: v \in ToSet(values)}
         IN  [n \in 1 .. Len(values) |->
                CHOOSE v \in ToSet(values): v.time = Nth(times, n)]
    ELSE values

(* twelvedata.py's _parse_candles keeps all bars, oanda.py's drops the one *)
(* that is not complete.                                                   *)
Keeps(value) == provider = "twelvedata" \/ value.complete

Kept(values) ==
    LET places == {n \in 1 .. Len(values): Keeps(values[n])}
    IN  [n \in 1 .. Cardinality(places) |-> values[Nth(places, n)]]

ParseCandles(payload) ==
    LET kept == InOrder(Kept(payload))
    IN  [n \in 1 .. Len(kept) |-> kept[n].bar]

Fetch ==
    /\ ~Working
    /\ \E payload \in Payloads:
        fetched' = [first |-> Oldest(Len(Market)), finished |-> Len(history),
                    bars |-> ParseCandles(payload)]
    /\ UNCHANGED <<marketVars, walkVars, report>>

-----------------------------------------------------------------------------
(* compute_structure over the fetched candles, and its result.             *)

ReadNext ==
    /\ Working /\ Len(candles) < Len(fetched.bars)
    /\ Walk!ReadBar(fetched.bars[Len(candles) + 1])
    /\ UNCHANGED <<marketVars, fetched, report>>

(* The place in the market's history of a bar of the window.               *)
PlaceOf(n) == fetched.first + n - 1

Located(e) ==
    [bar |-> PlaceOf(e.index), level |-> PlaceOf(e.level),
     direction |-> e.direction, kind |-> e.kind]

TouchPlace(n) == IF n = Walk!NotMitigated THEN n ELSE PlaceOf(n)

LocatedGap(g) ==
    [index |-> PlaceOf(g.index), direction |-> g.direction,
     top |-> g.top, bottom |-> g.bottom, mitigated |-> TouchPlace(g.mitigated)]

LocatedBlock(b) ==
    [index |-> PlaceOf(b.index), direction |-> b.direction,
     high |-> b.high, low |-> b.low,
     breaksAt |-> PlaceOf(b.breaksAt), mitigated |-> TouchPlace(b.mitigated)]

Report ==
    /\ Working /\ Len(candles) = Len(fetched.bars)
    /\ report' = [first |-> fetched.first,
                  last |-> fetched.first + Len(fetched.bars) - 1,
                  finished |-> fetched.finished,
                  events |-> {Located(events[n]): n \in 1 .. Len(events)},
                  gaps |-> {LocatedGap(g): g \in Walk!FairValueGaps(candles)},
                  blocks |-> {LocatedBlock(b):
                                b \in Walk!OrderBlocks(candles, events)}]
    /\ fetched' = Nothing
    /\ WalkStarts
    /\ UNCHANGED marketVars

Next == BarOpens \/ BarCloses \/ Fetch \/ ReadNext \/ Report

Spec == Init /\ [][Next]_vars

-----------------------------------------------------------------------------
(* A break at a finished bar, once reported, is reported again for as long *)
(* as the swing it broke is in the window with its neighbours, and a later *)
(* report adds no break at a bar an earlier one had seen finished: what a  *)
(* forming bar looks like changes nothing before it.  That is its place:   *)
(* whether it is a BOS or a CHoCH depends on the break before it, which    *)
(* may have left the window.                                               *)
Place(e) == [bar |-> e.bar, level |-> e.level, direction |-> e.direction]

Covers(r, e) == r.first <= e.level - Lookback

ReportedBreaksLast ==
    [][report # NoReport =>
        LET known == {Place(e): e \in report.events}
            told == {Place(e): e \in report'.events}
            settled(e) == e.bar <= report.last /\ e.bar <= report.finished
        IN  /\ \A e \in known: settled(e) /\ Covers(report', e) => e \in told
            /\ \A e \in told: settled(e) => e \in known]_report

(* A zone as it was told, g, and as it is told now, h: the same, but for   *)
(* being mitigated for the first time at a bar not finished before.        *)
Remains(g, h) ==
    /\ h = [g EXCEPT !.mitigated = h.mitigated]
    /\ \/ h.mitigated = g.mitigated
       \/ g.mitigated = Walk!NotMitigated /\ h.mitigated > report.finished

(* A gap between finished bars, and the order block of a break at one,     *)
(* once told, are told again unchanged for as long as their bars are in    *)
(* the window (and a block's break is told), and a later report adds none  *)
(* an earlier one could have told: mitigation, even at a bar that was      *)
(* still forming, is never taken back or moved.                            *)
ReportedZonesLast ==
    [][report # NoReport =>
        LET told == {e.bar: e \in report'.events}
            gapLasts(g) == g.index + 1 <= report.finished /\ report'.first < g.index
            blockLasts(b) == /\ b.breaksAt <= report.finished
                             /\ report'.first <= b.index /\ b.breaksAt \in told
        IN  /\ \A g \in report.gaps:
                 gapLasts(g) => \E h \in report'.gaps: Remains(g, h)
            /\ \A h \in report'.gaps:
                 gapLasts(h) => \E g \in report.gaps: Remains(g, h)
            /\ \A b \in report.blocks:
                 blockLasts(b) => \E h \in report'.blocks: Remains(b, h)
            /\ \A h \in report'.blocks:
                 blockLasts(h) => \E b \in report.blocks: Remains(b, h)]_report
=============================================================================

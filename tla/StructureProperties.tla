------------------------- MODULE StructureProperties -------------------------
(***************************************************************************)
(* What the structure state must guarantee to the reasoner that reads it.  *)
(* The step from one state to the next is a series that grows by a         *)
(* finished bar.  What the cycles of the program are told, whose window    *)
(* slides and may end in a forming bar, is MarketFeed's.                   *)
(***************************************************************************)
EXTENDS PriceZones

(* The latest of the swings confirmed as of bar j, or NoSwing.             *)
LatestConfirmed(swings, j) ==
    Max({NoSwing} \cup {i \in swings: i + Lookback <= j})

(* The bars that are the first to close beyond the latest confirmed swing. *)
BreaksAbove ==
    LET swings == SwingHighs(candles)
        level == [j \in 1 .. Len(candles) |-> LatestConfirmed(swings, j)]
    IN  {<<j, level[j], "bullish">>: j \in
          {j \in 1 .. Len(candles):
            /\ ClosesAbove(candles, j, level[j])
            /\ \A k \in level[j] + 1 .. j - 1: ~ClosesAbove(candles, k, level[j])}}

BreaksBelow ==
    LET swings == SwingLows(candles)
        level == [j \in 1 .. Len(candles) |-> LatestConfirmed(swings, j)]
    IN  {<<j, level[j], "bearish">>: j \in
          {j \in 1 .. Len(candles):
            /\ ClosesBelow(candles, j, level[j])
            /\ \A k \in level[j] + 1 .. j - 1: ~ClosesBelow(candles, k, level[j])}}

(* The events are exactly the first closes beyond the swing confirmed last *)
(* at the time: the walk, with its two pointers and pending swings, misses *)
(* none, invents none, and uses no swing before it is confirmed.           *)
EventsAreTheBreaks ==
    {<<e.index, e.level, e.direction>>: e \in ToSet(events)}
        = BreaksAbove \cup BreaksBelow

(* No bar breaks structure both ways, and the events come in the order of  *)
(* their bars, so "the most recent structure event" is unambiguous.        *)
OneBreakPerBar ==
    \A m, n \in 1 .. Len(events): m < n => events[m].index < events[n].index

(* A CHoCH is an event against the one before it, everything else, and the *)
(* very first event, is a BOS; the trend of the state is the last event's. *)
LabelsFollowTrend ==
    /\ \A n \in 1 .. Len(events):
        events[n].kind = "CHoCH" <=>
            n > 1 /\ events[n].direction # events[n - 1].direction
    /\ trend = IF events = <<>> THEN NoTrend ELSE Last(events).direction

-----------------------------------------------------------------------------
(* As finished bars are added, a zone z (a gap or an order block) stays    *)
(* what it is, but for being mitigated by the new bar.                     *)
Survives(z, zones) ==
    \/ z \in zones
    \/ /\ z.mitigated = NotMitigated
       /\ [z EXCEPT !.mitigated = Len(candles)'] \in zones

(* In a series that grows by finished bars and loses none, a gap or order  *)
(* block once there is there for good, and is mitigated once, at the first *)
(* touch.                                                                  *)
ZonesAreNotRewritten ==
    [][ /\ \A g \in FairValueGaps(candles): Survives(g, FairValueGaps(candles)')
        /\ \A b \in OrderBlocks(candles, events):
             Survives(b, OrderBlocks(candles, events)') ]_vars

(* Every leg of an OTE zone runs in the direction of its break and reaches *)
(* the close that broke the level: the zone is a discount of a rise, or a  *)
(* premium of a fall.                                                      *)
LegIsAnImpulse ==
    \A z \in OteZones(candles, events):
        /\ z.terminus \in z.origin .. z.breaksAt
        /\ IF z.direction = "bullish"
           THEN z.start < z.end /\ candles[z.breaksAt].close <= z.end
           ELSE z.start > z.end /\ candles[z.breaksAt].close >= z.end

(* In a series that grows by finished bars an OTE zone changes, appears or *)
(* disappears only until every swing before its break is confirmed:        *)
(* Lookback bars after it, it is settled.                                  *)
OteZonesSettle ==
    [][ \A e \in ToSet(events):
          e.index + Lookback <= Len(candles) + 1 =>
            {z \in OteZones(candles, events): z.breaksAt = e.index} =
            {z \in OteZones(candles, events)': z.breaksAt = e.index} ]_vars

(* Swings at one price are one pool, however many swings at other prices   *)
(* lie between them (prices being exact).                                  *)
EqualSwingsShareAPool ==
    \A kind \in {"high", "low"}: \A i, j \in SwingsOf(candles, kind):
        i # j /\ SwingPrice(candles, kind, i) = SwingPrice(candles, kind, j) =>
            \E pool \in LiquidityPools(candles, kind): {i, j} \subseteq pool

(* A pool is tight: each of its points is within the tolerance of the mean *)
(* of those before it in price order, so that a chain of points, each near *)
(* the last, does not make a pool of a wide range.                         *)
PoolsAreTight ==
    \A kind \in {"high", "low"}: \A pool \in LiquidityPools(candles, kind):
        \A i \in pool:
            LET price == SwingPrice(candles, kind, i)
                before == {k \in pool: SortsBefore(candles, kind, k, i)}
                total == Total(candles, kind, before)
            IN  (Cardinality(before) * price - total) * 10000 <= total * Tolerance

=============================================================================

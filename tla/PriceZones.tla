------------------------------ MODULE PriceZones ------------------------------
(***************************************************************************)
(* What compute_structure derives from the candles, the swing points and   *)
(* the structure events: fair value gaps (fvg.py), order blocks            *)
(* (order_blocks.py), OTE zones (ote.py) and liquidity pools               *)
(* (liquidity.py).  The code returns lists; here they are sets, and a      *)
(* missing mitigated_index is NotMitigated.                                *)
(***************************************************************************)
EXTENDS StructureBreaks, FiniteSetsExt, SequencesExt

CONSTANTS
    OteMin, OteMax,   \* StructureConfig.ote_min and ote_max, in percent
    Tolerance         \* liquidity_tolerance_pct, in hundredths of a percent

ASSUME ZonesAssumption == OteMin \in Int /\ OteMax \in Int /\ Tolerance \in Nat

NotMitigated == 0

(* Mutant: the latest touch instead of the first.                          *)
MutantFirstTouch(cs, top, bottom, start) ==
    LET touches == {k \in start .. Len(cs):
                      cs[k].low <= top /\ cs[k].high >= bottom}
    IN  IF touches = {} THEN NotMitigated ELSE Max(touches)

FirstTouch(cs, top, bottom, start) ==
    LET touches == {k \in start .. Len(cs):
                      cs[k].low <= top /\ cs[k].high >= bottom}
    IN  IF touches = {} THEN NotMitigated ELSE Min(touches)

-----------------------------------------------------------------------------
(* fvg.py: three bars whose outer two leave a gap.                         *)

Gap(cs, i, direction, top, bottom) ==
    [index |-> i, direction |-> direction, top |-> top, bottom |-> bottom,
     mitigated |-> FirstTouch(cs, top, bottom, i + 2)]

FairValueGaps(cs) ==
    LET middle == 2 .. Len(cs) - 1
        up == {i \in middle: cs[i + 1].low > cs[i - 1].high}
        down == {i \in middle: cs[i + 1].high < cs[i - 1].low}
    IN  {Gap(cs, i, "bullish", cs[i + 1].low, cs[i - 1].high): i \in up}
          \cup {Gap(cs, i, "bearish", cs[i - 1].low, cs[i + 1].high):
                  i \in down \ up}

-----------------------------------------------------------------------------
(* order_blocks.py: back from the breaking bar to an opposing one.         *)

Opposing(cs, event) ==
    {k \in 1 .. event.index:
        IF event.direction = "bullish" THEN IsBearish(cs[k])
                                       ELSE IsBullish(cs[k])}

OrderBlock(cs, event) ==
    LET k == Max(Opposing(cs, event))
    IN  [index |-> k, direction |-> event.direction,
         high |-> cs[k].high, low |-> cs[k].low,
         breaksAt |-> event.index,
         mitigated |-> FirstTouch(cs, cs[k].high, cs[k].low, event.index + 1)]

OrderBlocks(cs, es) ==
    {OrderBlock(cs, e): e \in {x \in ToSet(es): Opposing(cs, x) # {}}}

-----------------------------------------------------------------------------
(* ote.py: a retracement band of the leg that ended in the break.          *)

(* The opposite swings before the break, the last of them the origin.      *)
Origins(cs, event) ==
    {i \in IF event.direction = "bullish" THEN SwingLows(cs)
                                          ELSE SwingHighs(cs): i < event.index}

(* Mutant: the segment runs on to the last bar.                            *)
MutantTerminus(cs, origin, event) ==
    LET leg == origin .. Len(cs)
    IN  Min(IF event.direction = "bullish"
            THEN {k \in leg: \A m \in leg: cs[m].high <= cs[k].high}
            ELSE {k \in leg: \A m \in leg: cs[m].low >= cs[k].low})

(* _extreme: the first of the extreme bars from the origin to the break.   *)
Terminus(cs, origin, event) ==
    LET leg == origin .. event.index
    IN  Min(IF event.direction = "bullish"
            THEN {k \in leg: \A m \in leg: cs[m].high <= cs[k].high}
            ELSE {k \in leg: \A m \in leg: cs[m].low >= cs[k].low})

(* fibonacci_retracement, a hundred times the price.                       *)
Retracement(start, end, percent) == 100 * end + (start - end) * percent

OteZone(cs, event) ==
    LET bullish == event.direction = "bullish"
        origin == Max(Origins(cs, event))
        terminus == Terminus(cs, origin, event)
        start == IF bullish THEN cs[origin].low ELSE cs[origin].high
        end == IF bullish THEN cs[terminus].high ELSE cs[terminus].low
        levels == {Retracement(start, end, r): r \in {OteMin, OteMax}}
    IN  [direction |-> event.direction, breaksAt |-> event.index,
         start |-> start, end |-> end, origin |-> origin, terminus |-> terminus,
         high |-> Max(levels), low |-> Min(levels)]

OteZones(cs, es) ==
    {OteZone(cs, e): e \in {x \in ToSet(es): Origins(cs, x) # {}}}

-----------------------------------------------------------------------------
(* liquidity.py: greedy clusters of swings of one kind, by price.          *)

SwingPrice(cs, kind, i) == IF kind = "high" THEN cs[i].high ELSE cs[i].low

SwingsOf(cs, kind) == IF kind = "high" THEN SwingHighs(cs) ELSE SwingLows(cs)

(* The order of sorted(): by price, and at one price by time.              *)
SortsBefore(cs, kind, i, j) ==
    \/ SwingPrice(cs, kind, i) < SwingPrice(cs, kind, j)
    \/ SwingPrice(cs, kind, i) = SwingPrice(cs, kind, j) /\ i < j

(* Mutant: the points stay in the order of their bars.                     *)
MutantLastSorted(cs, kind, swings) == Max(swings)

(* The point of a set that is sorted last.                                 *)
LastSorted(cs, kind, swings) ==
    CHOOSE i \in swings: \A k \in swings: k = i \/ SortsBefore(cs, kind, k, i)

(* sum(p.price for p in cluster)                                           *)
Total(cs, kind, cluster) ==
    LET upTo[n \in 0 .. Len(cs)] ==
          IF n = 0 THEN 0
          ELSE upTo[n - 1] + IF n \in cluster THEN SwingPrice(cs, kind, n) ELSE 0
    IN  upTo[Len(cs)]

Distance(a, b) == IF a < b THEN b - a ELSE a - b

(* Mutant: any point of the cluster may be the reference.                  *)
MutantNear(cs, kind, cluster, i) ==
    \E k \in cluster:
        Distance(SwingPrice(cs, kind, i), SwingPrice(cs, kind, k)) * 10000
            <= SwingPrice(cs, kind, k) * Tolerance

(* abs(price - ref) <= ref * tolerance_pct / 100, multiplied out: ref is   *)
(* the cluster's mean, here exact.  (In floats the mean of equal prices    *)
(* may be rounded away from them, which only tolerance_pct = 0 can tell.)  *)
Near(cs, kind, cluster, i) ==
    LET total == Total(cs, kind, cluster)
        scaled == Cardinality(cluster) * SwingPrice(cs, kind, i)
    IN  Distance(scaled, total) * 10000 <= total * Tolerance

(* One point: it joins the cluster at hand, or starts the next one.        *)
ClusterWith(cs, kind, clusters, i) ==
    IF clusters # <<>> /\ Near(cs, kind, Last(clusters), i)
    THEN Append(Front(clusters), Last(clusters) \cup {i})
    ELSE Append(clusters, {i})

(* The clusters of some swings: those of all but the one sorted last, and  *)
(* then that one.                                                          *)
Clusters(cs, kind) ==
    LET clusters[swings \in SUBSET SwingsOf(cs, kind)] ==
          IF swings = {} THEN <<>>
          ELSE LET i == LastSorted(cs, kind, swings)
               IN  ClusterWith(cs, kind, clusters[swings \ {i}], i)
    IN  clusters[SwingsOf(cs, kind)]

LiquidityPools(cs, kind) ==
    {c \in ToSet(Clusters(cs, kind)): Cardinality(c) >= 2}
=============================================================================

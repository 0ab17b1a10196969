------------------------------ MODULE Zones_proofs ------------------------------
(***************************************************************************)
(* Theorems about what compute_structure derives from the walk: gaps,      *)
(* order blocks, OTE zones and liquidity pools, for all bars, every        *)
(* lookback, every tolerance and every length of the series.               *)
(***************************************************************************)
EXTENDS Structure_proofs, FiniteSetTheorems

(* Induction over the naturals, of a set in place of a predicate.          *)
LEMMA SetInduction ==
    ASSUME NEW S, 0 \in S, \A n \in Nat: n \in S => n + 1 \in S
    PROVE  \A n \in Nat: n \in S
<1> DEFINE T == {n \in Nat: n \notin S}
<1> SUFFICES ASSUME T # {} PROVE FALSE
  OBVIOUS
<1>1. PICK n \in T: \A m \in T: n <= m
  BY LeastNat
<1>2. n \in Nat /\ n # 0 /\ n \notin S
  BY <1>1
<1>3. n - 1 \in Nat /\ n - 1 \notin T
  BY <1>1, <1>2
<1>4. (n - 1) + 1 \in S
  BY <1>3
<1>5. (n - 1) + 1 = n
  BY <1>2
<1> QED
  BY <1>2, <1>4, <1>5

(* A function of the bars of an interval is greatest at one of them.       *)
LEMMA Greatest ==
    ASSUME NEW a \in Int, NEW b \in Int, a <= b,
           NEW f, \A k \in a .. b: f[k] \in Int
    PROVE  \E k \in a .. b: \A m \in a .. b: f[m] <= f[k]
<1> DEFINE Has(n) == \E k \in a .. a + n: \A m \in a .. a + n: f[m] <= f[k]
           S == {n \in Nat: a + n <= b => Has(n)}
<1>1. 0 \in S
  <2>1. a + 0 = a /\ a .. a = {a} /\ f[a] \in Int
    OBVIOUS
  <2>2. Has(0)
    BY <2>1
  <2> QED
    BY <2>2
<1>2. ASSUME NEW n \in Nat, n \in S PROVE n + 1 \in S
  <2>1. SUFFICES ASSUME a + (n + 1) <= b PROVE Has(n + 1)
    OBVIOUS
  <2> DEFINE z == a + (n + 1)
  <2>2. z \in a .. b /\ z \in a .. z /\ a + n <= b
    BY <2>1
  <2>3. \A m \in a .. z: m \in a .. b /\ (m \in a .. a + n \/ m = z)
    BY <2>1
  <2>4. PICK k \in a .. a + n: \A m \in a .. a + n: f[m] <= f[k]
    BY <1>2, <2>2
  <2>5. k \in a .. z /\ k \in a .. b
    BY <2>1
  <2> HIDE DEF z
  <2>6. f[k] \in Int /\ f[z] \in Int /\ \A m \in a .. z: f[m] \in Int
    BY <2>2, <2>3, <2>5
  <2>7. CASE f[z] <= f[k]
    <3>1. \A m \in a .. z: f[m] <= f[k]
      BY <2>3, <2>4, <2>7
    <3> QED
      BY <2>5, <3>1 DEF z
  <2>8. CASE f[k] < f[z]
    <3>1. \A m \in a .. z: f[m] <= f[z]
      BY <2>3, <2>4, <2>6, <2>8
    <3> QED
      BY <2>2, <3>1 DEF z
  <2> QED
    BY <2>6, <2>7, <2>8
<1> HIDE DEF S
<1>3. b - a \in S
  <2>1. \A n \in Nat: n \in S
    BY <1>1, <1>2, SetInduction
  <2> QED
    BY <2>1
<1>4. a + (b - a) = b
  OBVIOUS
<1> QED
  BY <1>3, <1>4 DEF S

-----------------------------------------------------------------------------
(* A round of the loop, as the zones see it: a bar is added, and at most   *)
(* one event, at that bar.                                                 *)
LEMMA RoundAddsABar ==
    ASSUME TypeOK, BreakInv, Next
    PROVE  \E bar \in Bars:
             /\ candles' = Append(candles, bar)
             /\ ToSet(events) \subseteq ToSet(events')
             /\ \A e \in ToSet(events'): e \in ToSet(events) \/ e.index = Len(candles) + 1
<1>1. PICK bar \in Bars: ReadBar(bar)
  BY DEF Next
<1>2. candles \in Seq(Bars) /\ events \in Seq(Events)
  BY DEF TypeOK
<1> DEFINE cs == Append(candles, bar)
           h == LatestHigh(cs, pendingHigh)
           l == LatestLow(cs, pendingLow)
           j == Len(cs)
           up == ClosesAbove(cs, j, h)
           down == ClosesBelow(cs, j, l)
<1>3. /\ candles' = cs /\ j = Len(candles) + 1 /\ h \in Nat /\ l \in Nat
      /\ events' = IF up THEN Append(events, BreakOf("bullish", j, h, trend))
                   ELSE IF down
                   THEN Append(events, BreakOf("bearish", j, l, trend))
                   ELSE events
  BY <1>1, ReadBarRound
<1> HIDE DEF cs, h, l
<1>4. j \in Nat /\ trend \in Directions \cup {NoTrend}
  BY <1>2, <1>3, LenProperties DEF TypeOK
<1>5. /\ BreakOf("bullish", j, h, trend) \in Events
      /\ BreakOf("bearish", j, l, trend) \in Events
  BY <1>3, <1>4 DEF BreakOf, KindOf, Events, BreakKinds, Directions
<1>6. \/ events' = events
      \/ \E e \in Events: e.index = j /\ events' = Append(events, e)
  BY <1>3, <1>5 DEF BreakOf
<1>7. ASSUME NEW e \in Events PROVE ToSet(Append(events, e)) = ToSet(events) \cup {e}
  BY <1>2, ToSetGrows
<1> QED
  BY <1>3, <1>6, <1>7 DEF cs

(* An event is at a bar of the series, and of one of two directions.       *)
LEMMA EventBars ==
    ASSUME TypeOK, BreakInv, NEW e \in ToSet(events)
    PROVE  e.index \in 0 .. Len(candles) /\ e.direction \in {"bullish", "bearish"}
<1>1. events \in Seq(Events) /\ candles \in Seq(Bars)
  BY DEF TypeOK
<1>2. PICK n \in 1 .. Len(events): e = events[n]
  BY <1>1, LenProperties DEF ToSet
<1>3. e \in Events /\ Len(candles) \in Nat
  BY <1>1, <1>2, ElementOfSeq, LenProperties
<1>4. e.index <= Len(candles)
  BY <1>2 DEF BreakInv
<1> QED
  BY <1>3, <1>4 DEF Events, Directions

-----------------------------------------------------------------------------
(* A zone that was touched keeps its first touch; one that was not is      *)
(* touched first by the new bar, or not at all.                            *)
LEMMA FirstTouchGrows ==
    ASSUME NEW cs \in Seq(Bars), NEW bar \in Bars, NEW top, NEW bottom,
           NEW start \in 1 .. Len(cs) + 1
    PROVE  LET ds == Append(cs, bar) IN
           \/ FirstTouch(ds, top, bottom, start) = FirstTouch(cs, top, bottom, start)
           \/ /\ FirstTouch(cs, top, bottom, start) = NotMitigated
              /\ FirstTouch(ds, top, bottom, start) = Len(ds)
<1> DEFINE ds == Append(cs, bar)
           Touched(k) == ds[k].low <= top /\ ds[k].high >= bottom
           S == {k \in start .. Len(cs): cs[k].low <= top /\ cs[k].high >= bottom}
           T == {k \in start .. Len(ds): Touched(k)}
<1>1. /\ Len(cs) \in Nat /\ Len(ds) = Len(cs) + 1
      /\ \A k \in 1 .. Len(cs): ds[k] = cs[k]
  BY AppendBar
<1>2. \A k: k \in start .. Len(ds) <=> k \in start .. Len(cs) \/ k = Len(ds)
  BY <1>1
<1>3. \A k \in start .. Len(cs): k \in 1 .. Len(cs)
  BY <1>1
<1> HIDE DEF ds
<1>4. S = {k \in start .. Len(cs): Touched(k)}
  BY <1>1, <1>3
<1> HIDE DEF Touched
<1>5. \A k: k \in T <=> k \in S \/ (k = Len(ds) /\ Touched(k))
  BY <1>2, <1>4
<1>6. /\ FirstTouch(cs, top, bottom, start) = IF S = {} THEN NotMitigated ELSE Min(S)
      /\ FirstTouch(ds, top, bottom, start) = IF T = {} THEN NotMitigated ELSE Min(T)
  BY DEF FirstTouch, Touched
<1>7. \A k \in S: k \in Nat /\ k < Len(ds)
  BY <1>1
<1> HIDE DEF S, T
<1>8. CASE S = {}
  <2>1. T = {} \/ T = {Len(ds)}
    BY <1>5, <1>8
  <2>2. T = {Len(ds)} => Min(T) = Len(ds)
    <3>1. Len(ds) \in Nat
      BY <1>1
    <3>2. T = {Len(ds)} => T \subseteq Nat /\ T # {}
      BY <3>1
    <3> QED
      BY <3>2, MinOfNats
  <2> QED
    BY <1>6, <1>8, <2>1, <2>2 DEF ds
<1>9. CASE S # {}
  <2>1. Min(S) \in S /\ \A k \in S: Min(S) <= k
    BY <1>7, <1>9, MinOfNats
  <2>2. \A k \in T: k \in Nat
    BY <1>1, <1>5, <1>7
  <2>3. T # {}
    BY <1>5, <1>9
  <2>4. Min(T) \in T /\ \A k \in T: Min(T) <= k
    BY <2>2, <2>3, MinOfNats
  <2>5. Min(T) <= Min(S) /\ Min(S) < Len(ds) /\ Min(S) \in Nat /\ Min(T) \in Nat
    BY <1>5, <1>7, <2>1, <2>2, <2>4
  <2>6. Min(T) # Len(ds)
    BY <1>1, <2>5
  <2>7. Min(T) \in S
    BY <1>5, <2>4, <2>6
  <2>8. Min(S) <= Min(T)
    BY <2>1, <2>7
  <2>9. Min(S) = Min(T)
    BY <2>5, <2>8
  <2> QED
    BY <1>6, <1>9, <2>3, <2>9 DEF ds
<1> QED
  BY <1>8, <1>9

(* A gap of the series is one of the longer series.                        *)
LEMMA GapsSurvive ==
    ASSUME NEW cs \in Seq(Bars), NEW bar \in Bars, NEW g \in FairValueGaps(cs)
    PROVE  LET ds == Append(cs, bar) IN
           \/ g \in FairValueGaps(ds)
           \/ /\ g.mitigated = NotMitigated
              /\ [g EXCEPT !.mitigated = Len(ds)] \in FairValueGaps(ds)
<1> DEFINE ds == Append(cs, bar)
           Up(s, i) == s[i + 1].low > s[i - 1].high
           Down(s, i) == s[i + 1].high < s[i - 1].low
<1>1. /\ Len(cs) \in Nat /\ Len(ds) = Len(cs) + 1
      /\ \A k \in 1 .. Len(cs): ds[k] = cs[k]
  BY AppendBar
<1>2. PICK i, direction, top, bottom:
           /\ i \in 2 .. Len(cs) - 1
           /\ g = Gap(cs, i, direction, top, bottom)
           /\ \/ /\ Up(cs, i)
                 /\ direction = "bullish" /\ top = cs[i + 1].low /\ bottom = cs[i - 1].high
              \/ /\ Down(cs, i) /\ ~Up(cs, i)
                 /\ direction = "bearish" /\ top = cs[i - 1].low /\ bottom = cs[i + 1].high
  BY DEF FairValueGaps
<1>3. /\ i \in 2 .. Len(ds) - 1 /\ ds[i + 1] = cs[i + 1] /\ ds[i - 1] = cs[i - 1]
      /\ i + 2 \in 1 .. Len(cs) + 1
  BY <1>1, <1>2
<1> HIDE DEF ds
<1>4. Gap(ds, i, direction, top, bottom) \in FairValueGaps(ds)
  BY <1>2, <1>3 DEF FairValueGaps
<1>5. \/ FirstTouch(ds, top, bottom, i + 2) = FirstTouch(cs, top, bottom, i + 2)
      \/ /\ FirstTouch(cs, top, bottom, i + 2) = NotMitigated
         /\ FirstTouch(ds, top, bottom, i + 2) = Len(ds)
  BY <1>3, FirstTouchGrows DEF ds
<1>6. \/ Gap(ds, i, direction, top, bottom) = g
      \/ /\ g.mitigated = NotMitigated
         /\ Gap(ds, i, direction, top, bottom) = [g EXCEPT !.mitigated = Len(ds)]
  BY <1>2, <1>5, SMTT(20) DEF Gap
<1> QED
  BY <1>4, <1>6 DEF ds

(* So is an order block, of an event that stays.                           *)
LEMMA BlocksSurvive ==
    ASSUME NEW cs \in Seq(Bars), NEW bar \in Bars, NEW e, e.index \in 0 .. Len(cs),
           Opposing(cs, e) # {}
    PROVE  LET ds == Append(cs, bar)
               b == OrderBlock(cs, e)
           IN  /\ Opposing(ds, e) # {}
               /\ \/ OrderBlock(ds, e) = b
                  \/ /\ b.mitigated = NotMitigated
                     /\ OrderBlock(ds, e) = [b EXCEPT !.mitigated = Len(ds)]
<1> DEFINE ds == Append(cs, bar)
           k == Max(Opposing(cs, e))
<1>1. /\ Len(cs) \in Nat /\ Len(ds) = Len(cs) + 1
      /\ \A n \in 1 .. Len(cs): ds[n] = cs[n]
  BY AppendBar
<1>2. \A n \in 1 .. e.index: n \in 1 .. Len(cs)
  BY <1>1
<1> HIDE DEF ds
<1>3. Opposing(ds, e) = Opposing(cs, e)
  BY <1>1, <1>2 DEF Opposing
<1>4. k \in 1 .. Len(cs) /\ ds[k] = cs[k]
  <2>1. \A n \in Opposing(cs, e): n \in 0 .. Len(cs)
    BY <1>2 DEF Opposing
  <2>2. k \in Opposing(cs, e)
    BY <1>1, <2>1, MaxOfNats
  <2> QED
    BY <1>1, <1>2, <2>2 DEF Opposing
<1>5. \/ FirstTouch(ds, cs[k].high, cs[k].low, e.index + 1)
           = FirstTouch(cs, cs[k].high, cs[k].low, e.index + 1)
      \/ /\ FirstTouch(cs, cs[k].high, cs[k].low, e.index + 1) = NotMitigated
         /\ FirstTouch(ds, cs[k].high, cs[k].low, e.index + 1) = Len(ds)
  <2>1. e.index + 1 \in 1 .. Len(cs) + 1
    BY <1>1
  <2> QED
    BY <2>1, FirstTouchGrows DEF ds
<1> QED
  BY <1>3, <1>4, <1>5 DEF OrderBlock, ds

(* While a series grows by finished bars its gaps and order blocks stay,   *)
(* but for being mitigated once, for all bars, every lookback and every    *)
(* length.  (The feed's windows, which slide and end in a bar still        *)
(* forming, are in Feed_proofs.)                                           *)
THEOREM ZonesAreNeverRewritten == Spec => ZonesAreNotRewritten
<1> DEFINE Kept == /\ \A g \in FairValueGaps(candles): Survives(g, FairValueGaps(candles)')
                   /\ \A b \in OrderBlocks(candles, events):
                        Survives(b, OrderBlocks(candles, events)')
<1>1. TypeOK /\ BreakInv /\ [Next]_vars => [Kept]_vars
  <2> SUFFICES ASSUME TypeOK, BreakInv, Next PROVE Kept
    OBVIOUS
  <2>1. candles \in Seq(Bars)
    BY DEF TypeOK
  <2>2. PICK bar \in Bars:
             /\ candles' = Append(candles, bar)
             /\ ToSet(events) \subseteq ToSet(events')
    BY RoundAddsABar
  <2>3. ASSUME NEW g \in FairValueGaps(candles)
        PROVE  Survives(g, FairValueGaps(candles)')
    BY <2>1, <2>2, GapsSurvive DEF Survives
  <2>4. ASSUME NEW b \in OrderBlocks(candles, events)
        PROVE  Survives(b, OrderBlocks(candles, events)')
    <3>1. PICK e \in ToSet(events): Opposing(candles, e) # {} /\ b = OrderBlock(candles, e)
      BY DEF OrderBlocks
    <3>2. e.index \in 0 .. Len(candles)
      BY EventBars
    <3>3. /\ Opposing(candles', e) # {}
          /\ \/ OrderBlock(candles', e) = b
             \/ /\ b.mitigated = NotMitigated
                /\ OrderBlock(candles', e) = [b EXCEPT !.mitigated = Len(candles')]
      BY <2>1, <2>2, <3>1, <3>2, BlocksSurvive
    <3>4. OrderBlock(candles', e) \in OrderBlocks(candles', events')
      BY <2>2, <3>3 DEF OrderBlocks
    <3> QED
      BY <3>3, <3>4 DEF Survives
  <2> QED
    BY <2>3, <2>4
<1> QED
  BY <1>1, BreakInvariant, PTL DEF Spec, ZonesAreNotRewritten

-----------------------------------------------------------------------------
(* Where the leg of a break begins and ends: at an opposite swing before   *)
(* the break, and at an extreme bar from there to the break.               *)
LEMMA OriginIsASwing ==
    ASSUME NEW cs \in Seq(Bars), NEW e, e.index \in 0 .. Len(cs), Origins(cs, e) # {}
    PROVE  LET origin == Max(Origins(cs, e)) IN
           /\ origin \in 1 .. Len(cs) /\ origin < e.index
           /\ e.direction = "bullish" => IsSwingLow(cs, origin)
           /\ e.direction # "bullish" => IsSwingHigh(cs, origin)
<1>1. Len(cs) \in Nat
  BY LenProperties
<1>2. \A i \in Origins(cs, e): i \in 0 .. Len(cs)
  BY <1>1 DEF Origins, SwingLows, SwingHighs
<1>3. Max(Origins(cs, e)) \in Origins(cs, e)
  BY <1>1, <1>2, MaxOfNats
<1> QED
  BY <1>3 DEF Origins, SwingLows, SwingHighs

(* The terminus of a leg is the extreme of the bars of the leg.            *)
LEMMA TerminusIsExtreme ==
    ASSUME NEW cs \in Seq(Bars), NEW e, e.index \in 0 .. Len(cs),
           NEW a \in 1 .. Len(cs), a < e.index
    PROVE  LET t == Terminus(cs, a, e) IN
           /\ t \in a .. e.index
           /\ \A m \in a .. e.index:
                IF e.direction = "bullish" THEN cs[m].high <= cs[t].high
                                           ELSE cs[m].low >= cs[t].low
<1> DEFINE leg == a .. e.index
           highest == {k \in leg: \A m \in leg: cs[m].high <= cs[k].high}
           lowest == {k \in leg: \A m \in leg: cs[m].low >= cs[k].low}
<1>1. /\ Len(cs) \in Nat /\ a \in Int /\ e.index \in Int /\ a <= e.index
      /\ \A k \in leg: k \in 1 .. Len(cs) /\ k \in Nat
  BY LenProperties
<1>2. \A k \in leg: cs[k].high \in Int /\ cs[k].low \in Int
  BY <1>1, BarType
<1>3. highest # {}
  <2> DEFINE f == [k \in leg |-> cs[k].high]
  <2>1. \A k \in leg: f[k] = cs[k].high /\ f[k] \in Int
    BY <1>2
  <2>2. PICK k \in leg: \A m \in leg: f[m] <= f[k]
    <3> HIDE DEF f
    <3> QED
      BY <1>1, <2>1, Greatest
  <2> HIDE DEF f
  <2> QED
    BY <2>1, <2>2
<1>4. lowest # {}
  <2> DEFINE f == [k \in leg |-> -cs[k].low]
  <2>1. \A k \in leg: f[k] = -cs[k].low /\ f[k] \in Int
    BY <1>2
  <2>2. PICK k \in leg: \A m \in leg: f[m] <= f[k]
    <3> HIDE DEF f
    <3> QED
      BY <1>1, <2>1, Greatest
  <2>3. \A m \in leg: cs[m].low >= cs[k].low
    <3> HIDE DEF f, leg
    <3> QED
      BY <1>2, <2>1, <2>2
  <2> QED
    BY <2>2, <2>3
<1>5. highest \subseteq Nat /\ lowest \subseteq Nat
  BY <1>1
<1>6. Min(highest) \in highest /\ Min(lowest) \in lowest
  <2> HIDE DEF highest, lowest
  <2> QED
    BY <1>3, <1>4, <1>5, MinOfNats
<1>7. Terminus(cs, a, e) = IF e.direction = "bullish" THEN Min(highest) ELSE Min(lowest)
  BY DEF Terminus
<1> QED
  BY <1>6, <1>7

(* The leg of every OTE zone is an impulse in the direction of its break:  *)
(* no zone is upside down, or stops short of the close that made it.       *)
THEOREM LegsAreAlwaysImpulses == Spec => []LegIsAnImpulse
<1>1. ASSUME TypeOK, BreakInv PROVE LegIsAnImpulse
  <2> SUFFICES ASSUME NEW z \in OteZones(candles, events)
               PROVE  /\ z.terminus \in z.origin .. z.breaksAt
                      /\ IF z.direction = "bullish"
                         THEN z.start < z.end /\ candles[z.breaksAt].close <= z.end
                         ELSE z.start > z.end /\ candles[z.breaksAt].close >= z.end
    BY DEF LegIsAnImpulse
  <2>1. PICK e \in ToSet(events): Origins(candles, e) # {} /\ z = OteZone(candles, e)
    BY DEF OteZones
  <2> DEFINE a == Max(Origins(candles, e))
             t == Terminus(candles, a, e)
             j == e.index
             bullish == e.direction = "bullish"
  <2>2. candles \in Seq(Bars) /\ Len(candles) \in Nat /\ j \in 0 .. Len(candles)
    BY <1>1, EventBars, LenProperties DEF TypeOK
  <2>3. /\ a \in 1 .. Len(candles) /\ a < j
        /\ bullish => IsSwingLow(candles, a)
        /\ ~bullish => IsSwingHigh(candles, a)
    BY <2>1, <2>2, OriginIsASwing
  <2>4. /\ z.terminus = t /\ z.origin = a /\ z.breaksAt = j /\ z.direction = e.direction
        /\ z.start = IF bullish THEN candles[a].low ELSE candles[a].high
        /\ z.end = IF bullish THEN candles[t].high ELSE candles[t].low
    BY <2>1 DEF OteZone
  <2> HIDE DEF a
  <2>5. /\ t \in a .. j
        /\ \A m \in a .. j: IF bullish THEN candles[m].high <= candles[t].high
                                       ELSE candles[m].low >= candles[t].low
    BY <2>2, <2>3, TerminusIsExtreme
  <2> HIDE DEF t, j
  <2>6. /\ j \in a .. j /\ a + 1 \in a .. j
        /\ \A m \in a .. j: m \in 1 .. Len(candles)
    BY <2>2, <2>3
  <2>7. /\ \A m \in a .. j: candles[m].high \in Int /\ candles[m].low \in Int
                            /\ candles[m].low <= candles[m].high
                            /\ candles[m].close \in Int
                            /\ candles[m].low <= candles[m].close
                            /\ candles[m].close <= candles[m].high
    <3>1. ASSUME NEW m \in a .. j
          PROVE  /\ candles[m].high \in Int /\ candles[m].low \in Int
                 /\ candles[m].close \in Int
                 /\ candles[m].low <= candles[m].close
                 /\ candles[m].close <= candles[m].high
      BY <2>2, <2>6, BarType
    <3> QED
      BY <3>1
  <2>8. a + 1 \in Neighbours(a)
    BY <2>3, CandlesAssumption DEF Neighbours
  <2>9. a \in a .. j /\ t \in a .. j
    BY <2>3, <2>5, <2>2 DEF j
  <2>10. /\ candles[a].low \in Int /\ candles[a].high \in Int
         /\ candles[a + 1].low \in Int /\ candles[a + 1].high \in Int
         /\ candles[a + 1].low <= candles[a + 1].high
         /\ candles[j].low \in Int /\ candles[j].high \in Int /\ candles[j].close \in Int
         /\ candles[j].low <= candles[j].close /\ candles[j].close <= candles[j].high
         /\ candles[t].low \in Int /\ candles[t].high \in Int
    BY <2>6, <2>7, <2>9
  <2>11. CASE bullish
    <3>1. candles[a].low < candles[a + 1].low
      BY <2>3, <2>8, <2>11 DEF IsSwingLow
    <3>2. candles[a + 1].high <= candles[t].high /\ candles[j].high <= candles[t].high
      BY <2>5, <2>6, <2>11
    <3>3. candles[a].low < candles[t].high /\ candles[j].close <= candles[t].high
      BY <2>10, <3>1, <3>2
    <3> QED
      BY <2>4, <2>5, <2>11, <3>3
  <2>12. CASE ~bullish
    <3>1. candles[a].high > candles[a + 1].high
      BY <2>3, <2>8, <2>12 DEF IsSwingHigh
    <3>2. candles[a + 1].low >= candles[t].low /\ candles[j].low >= candles[t].low
      BY <2>5, <2>6, <2>12
    <3>3. candles[a].high > candles[t].low /\ candles[j].close >= candles[t].low
      BY <2>10, <3>1, <3>2
    <3> QED
      BY <2>4, <2>5, <2>12, <3>3
  <2> QED
    BY <2>11, <2>12
<1> QED
  BY <1>1, BreakInvariant, PTL

-----------------------------------------------------------------------------
(* The OTE zone of a break depends on no bar more than Lookback - 1 after  *)
(* the break: by then every swing before the break is confirmed.           *)
LEMMA OteZoneStays ==
    ASSUME NEW cs \in Seq(Bars), NEW bar \in Bars,
           NEW e, e.index \in 0 .. Len(cs), e.index + Lookback <= Len(cs) + 1
    PROVE  LET ds == Append(cs, bar) IN
           /\ Origins(ds, e) = Origins(cs, e)
           /\ Origins(cs, e) # {} => OteZone(ds, e) = OteZone(cs, e)
<1> DEFINE ds == Append(cs, bar)
           a == Max(Origins(cs, e))
           j == e.index
<1>1. /\ Lookback \in Nat \ {0} /\ Len(cs) \in Nat /\ Len(ds) = Len(cs) + 1
      /\ \A n \in 1 .. Len(cs): ds[n] = cs[n]
  BY AppendBar, CandlesAssumption
<1>2. Origins(ds, e) = Origins(cs, e)
  <2>1. ASSUME NEW i \in Nat, i < j
        PROVE  /\ i \in SwingHighs(ds) <=> i \in SwingHighs(cs)
               /\ i \in SwingLows(ds) <=> i \in SwingLows(cs)
    <3>1. i + Lookback <= Len(cs)
      BY <1>1, <2>1
    <3> QED
      BY <3>1, SwingsGrow
  <2>2. \A i: i \in SwingHighs(ds) \/ i \in SwingLows(ds) \/ i \in SwingHighs(cs)
                \/ i \in SwingLows(cs) => i \in Nat
    BY <1>1 DEF SwingHighs, SwingLows
  <2> HIDE DEF ds, j
  <2> QED
    BY <2>1, <2>2 DEF Origins, j
<1>3. ASSUME Origins(cs, e) # {} PROVE OteZone(ds, e) = OteZone(cs, e)
  <2>1. a \in 1 .. Len(cs) /\ a < j
    BY <1>3, OriginIsASwing
  <2> HIDE DEF ds, a
  <2>2. \A n \in a .. j: n \in 1 .. Len(cs)
    BY <1>1, <2>1
  <2>3. Terminus(ds, a, e) = Terminus(cs, a, e)
    <3>1. \A n \in a .. j: ds[n] = cs[n]
      BY <1>1, <2>2
    <3>2. /\ {k \in a .. j: \A m \in a .. j: ds[m].high <= ds[k].high}
              = {k \in a .. j: \A m \in a .. j: cs[m].high <= cs[k].high}
          /\ {k \in a .. j: \A m \in a .. j: ds[m].low >= ds[k].low}
              = {k \in a .. j: \A m \in a .. j: cs[m].low >= cs[k].low}
      BY <3>1
    <3> QED
      BY <3>2 DEF Terminus
  <2>4. Terminus(cs, a, e) \in 1 .. Len(cs)
    <3>1. Terminus(cs, a, e) \in a .. j
      BY <2>1, TerminusIsExtreme
    <3> QED
      BY <2>2, <3>1
  <2>5. ds[a] = cs[a] /\ ds[Terminus(cs, a, e)] = cs[Terminus(cs, a, e)]
    BY <1>1, <2>1, <2>4
  <2> QED
    BY <1>2, <2>3, <2>5 DEF OteZone, a
<1> QED
  BY <1>2, <1>3 DEF ds

(* An OTE zone is settled Lookback bars after its break, in a series that  *)
(* grows by finished bars, for all bars, every lookback and every length:  *)
(* its origin, chosen among the swings, is then confirmed.                 *)
THEOREM OteZonesAlwaysSettle == Spec => OteZonesSettle
<1> DEFINE Zones(cs, es, e) == {z \in OteZones(cs, es): z.breaksAt = e.index}
           Settled == \A e \in ToSet(events):
                        e.index + Lookback <= Len(candles) + 1 =>
                          {z \in OteZones(candles, events): z.breaksAt = e.index} =
                          {z \in OteZones(candles, events)': z.breaksAt = e.index}
<1>1. TypeOK /\ BreakInv /\ [Next]_vars => [Settled]_vars
  <2> SUFFICES ASSUME TypeOK, BreakInv, Next,
                      NEW e \in ToSet(events), e.index + Lookback <= Len(candles) + 1
               PROVE  Zones(candles, events, e) = Zones(candles', events', e)
    OBVIOUS
  <2>1. candles \in Seq(Bars) /\ Len(candles) \in Nat
    BY LenProperties DEF TypeOK
  <2>2. PICK bar \in Bars:
             /\ candles' = Append(candles, bar)
             /\ ToSet(events) \subseteq ToSet(events')
             /\ \A x \in ToSet(events'): x \in ToSet(events) \/ x.index = Len(candles) + 1
    BY RoundAddsABar
  <2>3. e.index \in 0 .. Len(candles)
    BY EventBars
  <2>4. ASSUME NEW x, x.index = e.index
        PROVE  /\ x \in ToSet(events) <=> x \in ToSet(events')
               /\ Origins(candles', x) = Origins(candles, x)
               /\ Origins(candles, x) # {} => OteZone(candles', x) = OteZone(candles, x)
    <3>1. x.index \in 0 .. Len(candles) /\ x.index + Lookback <= Len(candles) + 1
      BY <2>3, <2>4
    <3>2. x.index # Len(candles) + 1
      BY <2>1, <3>1
    <3> QED
      BY <2>1, <2>2, <3>1, <3>2, OteZoneStays
  <2>5. \A cs, x: OteZone(cs, x).breaksAt = x.index
    BY DEF OteZone
  <2>6. ASSUME NEW cs, NEW es, NEW z
        PROVE  z \in Zones(cs, es, e) <=>
                 \E x \in ToSet(es): /\ x.index = e.index /\ Origins(cs, x) # {}
                                     /\ z = OteZone(cs, x)
    BY <2>5 DEF OteZones
  <2> HIDE DEF Zones
  <2>7. ASSUME NEW z PROVE z \in Zones(candles, events, e) <=> z \in Zones(candles', events', e)
    <3>1. z \in Zones(candles, events, e) <=>
            \E x \in ToSet(events): /\ x.index = e.index /\ Origins(candles, x) # {}
                                    /\ z = OteZone(candles, x)
      BY <2>6
    <3>2. z \in Zones(candles', events', e) <=>
            \E x \in ToSet(events'): /\ x.index = e.index /\ Origins(candles', x) # {}
                                     /\ z = OteZone(candles', x)
      BY <2>6
    <3> QED
      BY <2>4, <3>1, <3>2
  <2> QED
    BY <2>7 DEF Zones
<1> QED
  BY <1>1, BreakInvariant, PTL DEF Spec, OteZonesSettle

-----------------------------------------------------------------------------
(* Liquidity pools.  First the sets of swings they are made of.            *)
Kinds == {"high", "low"}

(* The price of a swing is a number,                                       *)
LEMMA SwingPriceType ==
    ASSUME NEW cs \in Seq(Bars), NEW kind \in Kinds, NEW i \in 1 .. Len(cs)
    PROVE  SwingPrice(cs, kind, i) \in Int
<1>1. cs[i] \in Bars
  BY ElementOfSeq
<1> QED
  BY <1>1, CandlesAssumption DEF SwingPrice

(* and swings are at bars of the series.                                   *)
LEMMA SwingsOfType ==
    ASSUME NEW cs \in Seq(Bars), NEW kind \in Kinds
    PROVE  SwingsOf(cs, kind) \subseteq 1 .. Len(cs)
BY DEF SwingsOf, SwingHighs, SwingLows

(* A set of bars is finite.                                                *)
LEMMA SubsetsAreFinite ==
    ASSUME NEW N \in Nat, NEW S \in SUBSET (1 .. N)
    PROVE  IsFiniteSet(S) /\ Cardinality(S) \in Nat
<1>1. IsFiniteSet(1 .. N)
  BY FS_Interval
<1> QED
  BY <1>1, FS_Subset, FS_CardinalityType

(* Induction over the subsets of an interval: a family of sets has them    *)
(* all when it has the empty one, and every other as soon as it has it     *)
(* with some element less.                                                 *)
LEMMA SubsetInduction ==
    ASSUME NEW N \in Nat, NEW F, {} \in F,
           \A S \in SUBSET (1 .. N):
             S # {} => \E i \in S: S \ {i} \in F => S \in F
    PROVE  SUBSET (1 .. N) \subseteq F
<1>1. \A S \in SUBSET (1 .. N): IsFiniteSet(S) /\ Cardinality(S) \in Nat
  BY SubsetsAreFinite
<1> DEFINE T == {n \in Nat: \A S \in SUBSET (1 .. N): Cardinality(S) = n => S \in F}
<1>2. 0 \in T
  BY <1>1, FS_EmptySet
<1>3. ASSUME NEW n \in Nat, n \in T PROVE n + 1 \in T
  <2> SUFFICES ASSUME NEW S \in SUBSET (1 .. N), Cardinality(S) = n + 1 PROVE S \in F
    OBVIOUS
  <2>1. S # {}
    <3>1. Cardinality({}) = 0 /\ n + 1 # 0
      BY FS_EmptySet
    <3> QED
      BY <3>1
  <2>2. PICK i \in S: S \ {i} \in F => S \in F
    BY <2>1
  <2>3. Cardinality(S \ {i}) = n
    <3>1. Cardinality(S \ {i}) = Cardinality(S) - 1
      BY <1>1, FS_RemoveElement
    <3> QED
      BY <3>1
  <2>4. S \ {i} \in F
    BY <1>3, <2>3
  <2> QED
    BY <2>2, <2>4
<1> HIDE DEF T
<1>4. \A n \in Nat: n \in T
  BY <1>2, <1>3, SetInduction
<1> QED
  BY <1>1, <1>4 DEF T

(* The order of sorted() is a strict one, and total.                       *)
LEMMA SortsBeforeOrder ==
    ASSUME NEW cs \in Seq(Bars), NEW kind \in Kinds,
           NEW i \in 1 .. Len(cs), NEW j \in 1 .. Len(cs)
    PROVE  /\ ~SortsBefore(cs, kind, i, i)
           /\ ~(SortsBefore(cs, kind, i, j) /\ SortsBefore(cs, kind, j, i))
           /\ i = j \/ SortsBefore(cs, kind, i, j) \/ SortsBefore(cs, kind, j, i)
           /\ \A k \in 1 .. Len(cs):
                SortsBefore(cs, kind, i, j) /\ SortsBefore(cs, kind, j, k)
                  => SortsBefore(cs, kind, i, k)
<1>1. \A k \in 1 .. Len(cs): SwingPrice(cs, kind, k) \in Int /\ k \in Int
  BY SwingPriceType
<1> QED
  BY <1>1 DEF SortsBefore

(* One of the points sorts last.                                           *)
LEMMA LastSortedIs ==
    ASSUME NEW cs \in Seq(Bars), NEW kind \in Kinds,
           NEW S \in SUBSET (1 .. Len(cs)), S # {}
    PROVE  /\ LastSorted(cs, kind, S) \in S
           /\ \A k \in S: \/ k = LastSorted(cs, kind, S)
                          \/ SortsBefore(cs, kind, k, LastSorted(cs, kind, S))
<1> DEFINE IsLast(R, i) == i \in R /\ \A k \in R: k = i \/ SortsBefore(cs, kind, k, i)
           F == {R \in SUBSET (1 .. Len(cs)): R # {} => \E i \in R: IsLast(R, i)}
<1>1. Len(cs) \in Nat
  BY LenProperties
<1>2. {} \in F
  OBVIOUS
<1>3. ASSUME NEW R \in SUBSET (1 .. Len(cs)), NEW j \in R, R \ {j} \in F PROVE R \in F
  <2>1. CASE R \ {j} = {}
    BY <2>1
  <2>2. CASE R \ {j} # {}
    <3>1. PICK i \in R \ {j}: IsLast(R \ {j}, i)
      BY <1>3, <2>2
    <3>2. CASE SortsBefore(cs, kind, i, j)
      <4>1. ASSUME NEW k \in R, k # j PROVE SortsBefore(cs, kind, k, j)
        BY <3>1, <3>2, <4>1, SortsBeforeOrder
      <4> QED
        BY <4>1
    <3>3. CASE SortsBefore(cs, kind, j, i)
      BY <3>1, <3>3
    <3> QED
      BY <3>2, <3>3, SortsBeforeOrder
  <2> QED
    BY <2>1, <2>2
<1>4. \A R \in SUBSET (1 .. Len(cs)): R # {} => \E j \in R: R \ {j} \in F => R \in F
  BY <1>3
<1> HIDE DEF F
<1>5. S \in F
  BY <1>1, <1>2, <1>4, SubsetInduction
<1> QED
  BY <1>5 DEF F, LastSorted

(* The running sum, as a function that satisfies its recursive definition. *)
SumStep(cs, kind, C, n, f) ==
    IF n = 0 THEN 0 ELSE f[n - 1] + IF n \in C THEN SwingPrice(cs, kind, n) ELSE 0

(* The running sum satisfies its definition.                               *)
LEMMA TotalIsASum ==
    ASSUME NEW cs \in Seq(Bars), NEW kind \in Kinds, NEW C
    PROVE  \E f: /\ f = [n \in 0 .. Len(cs) |-> SumStep(cs, kind, C, n, f)]
                 /\ Total(cs, kind, C) = f[Len(cs)]
<1> DEFINE Sums(f, N) == f = [n \in 0 .. N |-> SumStep(cs, kind, C, n, f)]
           T == {N \in Nat: \E f: Sums(f, N)}
<1>1. 0 \in T
  <2>1. Sums([n \in 0 .. 0 |-> 0], 0)
    BY DEF SumStep
  <2> QED
    BY <2>1
<1>2. ASSUME NEW N \in Nat, N \in T PROVE N + 1 \in T
  <2>1. PICK f: Sums(f, N)
    BY <1>2
  <2> DEFINE g == [n \in 0 .. N + 1 |-> IF n = N + 1 THEN SumStep(cs, kind, C, N + 1, f)
                                        ELSE f[n]]
  <2>2. \A n \in 0 .. N: g[n] = f[n]
    OBVIOUS
  <2>3. ASSUME NEW n \in 0 .. N + 1 PROVE g[n] = SumStep(cs, kind, C, n, g)
    <3>1. n = 0 \/ n - 1 \in 0 .. N
      OBVIOUS
    <3>2. SumStep(cs, kind, C, n, g) = SumStep(cs, kind, C, n, f)
      BY <2>2, <3>1 DEF SumStep
    <3>3. n \in 0 .. N => f[n] = SumStep(cs, kind, C, n, f)
      BY <2>1
    <3> QED
      BY <3>2, <3>3
  <2>4. g = [n \in 0 .. N + 1 |-> g[n]]
    OBVIOUS
  <2> HIDE DEF g
  <2>5. Sums(g, N + 1)
    BY <2>3, <2>4
  <2> QED
    BY <2>5
<1> HIDE DEF T
<1>3. \A N \in Nat: N \in T
  BY <1>1, <1>2, SetInduction
<1>4. \E f: Sums(f, Len(cs))
  BY <1>3, LenProperties DEF T
<1> DEFINE sum == CHOOSE f: Sums(f, Len(cs))
<1>5. Sums(sum, Len(cs))
  BY <1>4
<1>6. Total(cs, kind, C) = sum[Len(cs)]
  BY DEF Total, SumStep
<1> QED
  BY <1>5, <1>6

(* No points have no price in sum, and one more point adds its own.        *)
LEMMA TotalAdds ==
    ASSUME NEW cs \in Seq(Bars), NEW kind \in Kinds
    PROVE  /\ Total(cs, kind, {}) = 0
           /\ \A C \in SUBSET (1 .. Len(cs)):
                /\ Total(cs, kind, C) \in Int
                /\ \A i \in (1 .. Len(cs)) \ C:
                     Total(cs, kind, C \cup {i}) = Total(cs, kind, C) + SwingPrice(cs, kind, i)
<1>1. Len(cs) \in Nat /\ \A n \in 1 .. Len(cs): SwingPrice(cs, kind, n) \in Int
  BY LenProperties, SwingPriceType
<1>2. Total(cs, kind, {}) = 0
  <2>1. PICK f: /\ f = [n \in 0 .. Len(cs) |-> SumStep(cs, kind, {}, n, f)]
                /\ Total(cs, kind, {}) = f[Len(cs)]
    BY TotalIsASum
  <2>2. \A n \in 0 .. Len(cs): f[n] = IF n = 0 THEN 0 ELSE f[n - 1] + 0
    BY <2>1 DEF SumStep
  <2> DEFINE T == {n \in Nat: n <= Len(cs) => f[n] = 0}
  <2>3. 0 \in T
    BY <1>1, <2>2
  <2>4. ASSUME NEW n \in Nat, n \in T PROVE n + 1 \in T
    <3> SUFFICES ASSUME n + 1 <= Len(cs) PROVE f[n + 1] = 0
      OBVIOUS
    <3>1. n + 1 \in 0 .. Len(cs) /\ n + 1 # 0 /\ (n + 1) - 1 = n /\ n <= Len(cs)
      BY <1>1
    <3>2. f[n + 1] = f[n] + 0
      BY <2>2, <3>1
    <3> QED
      BY <2>4, <3>1, <3>2
  <2> HIDE DEF T
  <2>5. Len(cs) \in T
    BY <1>1, <2>3, <2>4, SetInduction
  <2> QED
    BY <1>1, <2>1, <2>5 DEF T
<1>3. ASSUME NEW C \in SUBSET (1 .. Len(cs))
      PROVE  /\ Total(cs, kind, C) \in Int
             /\ \A i \in (1 .. Len(cs)) \ C:
                  Total(cs, kind, C \cup {i}) = Total(cs, kind, C) + SwingPrice(cs, kind, i)
  <2>1. PICK f: /\ f = [n \in 0 .. Len(cs) |-> SumStep(cs, kind, C, n, f)]
                /\ Total(cs, kind, C) = f[Len(cs)]
    BY TotalIsASum
  <2>2. \A n \in 0 .. Len(cs): f[n] = SumStep(cs, kind, C, n, f)
    BY <2>1
  <2>3. Len(cs) \in {n \in Nat: n <= Len(cs) => f[n] \in Int}
    <3> DEFINE T == {n \in Nat: n <= Len(cs) => f[n] \in Int}
    <3>1. 0 \in T
      BY <1>1, <2>2 DEF SumStep
    <3>2. ASSUME NEW n \in Nat, n \in T PROVE n + 1 \in T
      <4> SUFFICES ASSUME n + 1 <= Len(cs) PROVE f[n + 1] \in Int
        OBVIOUS
      <4>1. n + 1 \in 1 .. Len(cs) /\ n + 1 # 0 /\ (n + 1) - 1 = n /\ n <= Len(cs)
        BY <1>1
      <4>2. f[n + 1] = f[n] + IF n + 1 \in C THEN SwingPrice(cs, kind, n + 1) ELSE 0
        BY <2>2, <4>1 DEF SumStep
      <4> QED
        BY <1>1, <3>2, <4>1, <4>2
    <3> HIDE DEF T
    <3> QED
      BY <1>1, <3>1, <3>2, SetInduction DEF T
  <2>4. ASSUME NEW i \in (1 .. Len(cs)) \ C
        PROVE  Total(cs, kind, C \cup {i}) = Total(cs, kind, C) + SwingPrice(cs, kind, i)
    <3>1. PICK g: /\ g = [n \in 0 .. Len(cs) |-> SumStep(cs, kind, C \cup {i}, n, g)]
                  /\ Total(cs, kind, C \cup {i}) = g[Len(cs)]
      BY TotalIsASum
    <3>2. \A n \in 0 .. Len(cs): g[n] = SumStep(cs, kind, C \cup {i}, n, g)
      BY <3>1
    <3> DEFINE Plus(n) == IF n < i THEN 0 ELSE SwingPrice(cs, kind, i)
               T == {n \in Nat: n <= Len(cs) => f[n] \in Int /\ g[n] = f[n] + Plus(n)}
    <3>3. 0 \in T
      BY <1>1, <2>2, <3>2 DEF SumStep
    <3>4. ASSUME NEW n \in Nat, n \in T PROVE n + 1 \in T
      <4> SUFFICES ASSUME n + 1 <= Len(cs)
                   PROVE  f[n + 1] \in Int /\ g[n + 1] = f[n + 1] + Plus(n + 1)
        OBVIOUS
      <4>1. n + 1 \in 1 .. Len(cs) /\ n + 1 # 0 /\ (n + 1) - 1 = n /\ n <= Len(cs)
        BY <1>1
      <4>2. f[n + 1] = f[n] + IF n + 1 \in C THEN SwingPrice(cs, kind, n + 1) ELSE 0
        BY <2>2, <4>1 DEF SumStep
      <4>3. g[n + 1] = g[n] + IF n + 1 \in C \cup {i} THEN SwingPrice(cs, kind, n + 1) ELSE 0
        BY <3>2, <4>1 DEF SumStep
      <4>4. f[n] \in Int /\ g[n] = f[n] + Plus(n) /\ SwingPrice(cs, kind, n + 1) \in Int
            /\ SwingPrice(cs, kind, i) \in Int
        BY <1>1, <3>4, <4>1
      <4>5. CASE n + 1 = i
        <5>1. n + 1 \notin C /\ n < i /\ ~(n + 1 < i)
          BY <4>5
        <5> QED
          BY <4>2, <4>3, <4>4, <4>5, <5>1
      <4>6. CASE n + 1 # i
        <5>1. n + 1 \in C \cup {i} <=> n + 1 \in C
          BY <4>6
        <5>2. Plus(n + 1) = Plus(n)
          BY <4>6
        <5> HIDE DEF Plus
        <5>3. Plus(n) \in Int
          BY <4>4 DEF Plus
        <5> QED
          BY <4>2, <4>3, <4>4, <5>1, <5>2, <5>3
      <4> QED
        BY <4>5, <4>6
    <3> HIDE DEF T
    <3>5. Len(cs) \in T
      BY <1>1, <3>3, <3>4, SetInduction
    <3> QED
      BY <1>1, <2>1, <3>1, <3>5 DEF T
  <2> QED
    BY <2>1, <2>3, <2>4
<1> QED
  BY <1>2, <1>3

(* Prices of at most p have a sum of at most p times their number.         *)
LEMMA TotalBound ==
    ASSUME NEW cs \in Seq(Bars), NEW kind \in Kinds, NEW p \in Int,
           NEW S \in SUBSET (1 .. Len(cs)), \A k \in S: SwingPrice(cs, kind, k) <= p
    PROVE  Total(cs, kind, S) <= Cardinality(S) * p
<1>1. Len(cs) \in Nat /\ \A n \in 1 .. Len(cs): SwingPrice(cs, kind, n) \in Int
  BY LenProperties, SwingPriceType
<1> DEFINE F == {C \in SUBSET (1 .. Len(cs)):
                   (\A k \in C: SwingPrice(cs, kind, k) <= p)
                     => Total(cs, kind, C) <= Cardinality(C) * p}
<1>2. {} \in F
  <2>1. Total(cs, kind, {}) = 0 /\ Cardinality({}) = 0
    BY TotalAdds, FS_EmptySet
  <2> QED
    BY <2>1
<1>3. ASSUME NEW C \in SUBSET (1 .. Len(cs)), NEW i \in C, C \ {i} \in F PROVE C \in F
  <2> SUFFICES ASSUME \A k \in C: SwingPrice(cs, kind, k) <= p
               PROVE  Total(cs, kind, C) <= Cardinality(C) * p
    OBVIOUS
  <2> DEFINE B == C \ {i}
             t == Total(cs, kind, B)
             c == Cardinality(B)
             x == SwingPrice(cs, kind, i)
  <2>1. C = B \cup {i} /\ B \in SUBSET (1 .. Len(cs)) /\ i \in (1 .. Len(cs)) \ B
    OBVIOUS
  <2>2. IsFiniteSet(B) /\ c \in Nat
    BY <1>1, SubsetsAreFinite
  <2>3. t <= c * p
    BY <1>3
  <2> HIDE DEF B
  <2>4. Cardinality(C) = c + 1
    BY <2>1, <2>2, FS_AddElement
  <2>5. t \in Int /\ Total(cs, kind, C) = t + x
    BY <2>1, TotalAdds
  <2>6. x \in Int /\ x <= p
    BY <1>1
  <2> HIDE DEF t, c, x
  <2> QED
    BY <2>2, <2>3, <2>4, <2>5, <2>6
<1>4. \A C \in SUBSET (1 .. Len(cs)): C # {} => \E i \in C: C \ {i} \in F => C \in F
  BY <1>3
<1> HIDE DEF F
<1>5. S \in F
  BY <1>1, <1>2, <1>4, SubsetInduction
<1> QED
  BY <1>5 DEF F

(* The clusters, as a function that satisfies its recursive definition.    *)
ClusterStep(cs, kind, S, f) ==
    IF S = {} THEN <<>>
    ELSE LET i == LastSorted(cs, kind, S)
         IN  ClusterWith(cs, kind, f[S \ {i}], i)

(* There is such a function, so that CHOOSE picks one.                     *)
LEMMA ClustersFollow ==
    ASSUME NEW cs \in Seq(Bars), NEW kind \in Kinds
    PROVE  \E f: /\ f = [S \in SUBSET SwingsOf(cs, kind) |-> ClusterStep(cs, kind, S, f)]
                 /\ Clusters(cs, kind) = f[SwingsOf(cs, kind)]
<1> DEFINE X == SwingsOf(cs, kind)
           Some(n) == {S \in SUBSET X: Cardinality(S) <= n}
           Follows(f, n) == f = [S \in Some(n) |-> ClusterStep(cs, kind, S, f)]
           T == {n \in Nat: \E f: Follows(f, n)}
<1>1. Len(cs) \in Nat /\ X \in SUBSET (1 .. Len(cs))
  BY LenProperties, SwingsOfType
<1> HIDE DEF X
<1>2. /\ IsFiniteSet(X) /\ Cardinality(X) \in Nat
      /\ \A S \in SUBSET X: /\ S \in SUBSET (1 .. Len(cs)) /\ IsFiniteSet(S)
                            /\ Cardinality(S) \in Nat /\ Cardinality(S) <= Cardinality(X)
  <2>1. IsFiniteSet(X) /\ Cardinality(X) \in Nat
    BY <1>1, SubsetsAreFinite
  <2>2. \A S \in SUBSET X: S \in SUBSET (1 .. Len(cs))
    BY <1>1
  <2> QED
    BY <1>1, <2>1, <2>2, SubsetsAreFinite, FS_Subset
<1>3. ASSUME NEW S \in SUBSET X, S # {}
      PROVE  LET i == LastSorted(cs, kind, S)
             IN  S \ {i} \in SUBSET X /\ Cardinality(S \ {i}) = Cardinality(S) - 1
  <2>1. LastSorted(cs, kind, S) \in S
    BY <1>2, <1>3, LastSortedIs
  <2> QED
    BY <1>2, <2>1, FS_RemoveElement
<1>4. 0 \in T
  <2>1. Some(0) = {{}}
    <3>1. ASSUME NEW S \in SUBSET X PROVE Cardinality(S) <= 0 <=> S = {}
      <4>1. Cardinality(S) = 0 <=> S = {}
        BY <1>2, FS_EmptySet
      <4> QED
        BY <1>2, <4>1
    <3> QED
      BY <3>1
  <2>2. Follows([S \in {{}} |-> <<>>], 0)
    BY <2>1 DEF ClusterStep
  <2> QED
    BY <2>2
<1>5. ASSUME NEW n \in Nat, n \in T PROVE n + 1 \in T
  <2>1. PICK f: Follows(f, n)
    BY <1>5
  <2> DEFINE g == [S \in Some(n + 1) |-> IF Cardinality(S) = n + 1
                                         THEN ClusterStep(cs, kind, S, f) ELSE f[S]]
  <2>2. ASSUME NEW S \in Some(n) PROVE S \in Some(n + 1) /\ g[S] = f[S]
    <3>1. Cardinality(S) \in Nat /\ Cardinality(S) <= n
      BY <1>2
    <3>2. Cardinality(S) <= n + 1 /\ Cardinality(S) # n + 1
      BY <3>1
    <3>3. S \in Some(n + 1)
      BY <3>2
    <3> QED
      BY <3>2, <3>3
  <2>3. ASSUME NEW S \in Some(n + 1)
        PROVE  ClusterStep(cs, kind, S, g) = ClusterStep(cs, kind, S, f)
    <3>1. CASE S = {}
      BY <3>1 DEF ClusterStep
    <3>2. CASE S # {}
      <4>1. S \ {LastSorted(cs, kind, S)} \in SUBSET X
            /\ Cardinality(S \ {LastSorted(cs, kind, S)}) = Cardinality(S) - 1
        BY <1>3, <3>2
      <4>2. Cardinality(S) \in Nat /\ Cardinality(S) <= n + 1
        BY <1>2
      <4>3. S \ {LastSorted(cs, kind, S)} \in Some(n)
        BY <4>1, <4>2
      <4> HIDE DEF g
      <4> QED
        BY <2>2, <4>3 DEF ClusterStep
    <3> QED
      BY <3>1, <3>2
  <2>4. ASSUME NEW S \in Some(n + 1) PROVE g[S] = ClusterStep(cs, kind, S, g)
    <3>1. CASE Cardinality(S) = n + 1
      BY <2>3, <3>1
    <3>2. CASE Cardinality(S) # n + 1
      <4>1. Cardinality(S) \in Nat /\ Cardinality(S) <= n + 1
        BY <1>2
      <4>2. Cardinality(S) <= n
        BY <3>2, <4>1
      <4>3. S \in Some(n)
        BY <4>2
      <4>4. f[S] = ClusterStep(cs, kind, S, f)
        BY <2>1, <4>3
      <4> QED
        BY <2>3, <3>2, <4>4
    <3> QED
      BY <3>1, <3>2
  <2>5. g = [S \in Some(n + 1) |-> g[S]]
    OBVIOUS
  <2> HIDE DEF g
  <2>6. Follows(g, n + 1)
    BY <2>4, <2>5
  <2> HIDE DEF Follows
  <2> QED
    BY <2>6
<1> HIDE DEF T
<1>6. Cardinality(X) \in T
  BY <1>2, <1>4, <1>5, SetInduction
<1>7. Some(Cardinality(X)) = SUBSET X
  BY <1>2
<1> DEFINE All(f) == f = [S \in SUBSET X |-> ClusterStep(cs, kind, S, f)]
           clusters == CHOOSE f: All(f)
<1>8. \E f: All(f)
  BY <1>6, <1>7 DEF T
<1>9. All(clusters)
  BY <1>8
<1>10. Clusters(cs, kind) = clusters[X]
  BY DEF Clusters, ClusterStep, X
<1> QED
  BY <1>9, <1>10 DEF X

(* Each point of a cluster is near the mean of those sorted before it.     *)
TightAfter(cs, kind, before, i) ==
    (Cardinality(before) * SwingPrice(cs, kind, i) - Total(cs, kind, before)) * 10000
        <= Total(cs, kind, before) * Tolerance

TightAt(cs, kind, C, i) ==
    TightAfter(cs, kind, {k \in C: SortsBefore(cs, kind, k, i)}, i)

(* A point sorted after those of a cluster does not matter to them, and is *)
(* itself near their mean when it joins them.                              *)
LEMMA JoiningStaysTight ==
    ASSUME NEW cs \in Seq(Bars), NEW kind \in Kinds, NEW C \in SUBSET (1 .. Len(cs)),
           NEW x \in 1 .. Len(cs), \A k \in C: SortsBefore(cs, kind, k, x)
    PROVE  /\ Near(cs, kind, C, x) => TightAt(cs, kind, C \cup {x}, x)
           /\ \A i \in C: TightAt(cs, kind, C, i) => TightAt(cs, kind, C \cup {x}, i)
<1>1. {k \in C \cup {x}: SortsBefore(cs, kind, k, x)} = C
  BY SortsBeforeOrder
<1>2. ASSUME NEW i \in C
      PROVE  {k \in C \cup {x}: SortsBefore(cs, kind, k, i)}
               = {k \in C: SortsBefore(cs, kind, k, i)}
  BY SortsBeforeOrder
<1>3. ASSUME Near(cs, kind, C, x) PROVE TightAt(cs, kind, C \cup {x}, x)
  <2> DEFINE t == Total(cs, kind, C)
             s == Cardinality(C) * SwingPrice(cs, kind, x)
  <2>1. t \in Int /\ s \in Int /\ Tolerance \in Nat
    <3>1. Cardinality(C) \in Nat /\ SwingPrice(cs, kind, x) \in Int /\ t \in Int
      BY LenProperties, SubsetsAreFinite, SwingPriceType, TotalAdds
    <3> QED
      BY <3>1, ZonesAssumption
  <2>2. Distance(s, t) * 10000 <= t * Tolerance
    BY <1>3 DEF Near
  <2> HIDE DEF t, s
  <2>3. (s - t) * 10000 <= Distance(s, t) * 10000 /\ Distance(s, t) \in Int
    BY <2>1 DEF Distance
  <2>4. t * Tolerance \in Int
    BY <2>1
  <2>5. (s - t) * 10000 <= t * Tolerance
    BY <2>1, <2>2, <2>3, <2>4
  <2>6. TightAfter(cs, kind, C, x)
    BY <2>5 DEF TightAfter, t, s
  <2> QED
    BY <1>1, <2>6 DEF TightAt
<1> QED
  BY <1>2, <1>3 DEF TightAt

(* A cluster of one is tight.                                              *)
LEMMA AloneIsTight ==
    ASSUME NEW cs \in Seq(Bars), NEW kind \in Kinds, NEW x \in 1 .. Len(cs)
    PROVE  TightAt(cs, kind, {x}, x)
<1>1. {k \in {x}: SortsBefore(cs, kind, k, x)} = {}
  BY SortsBeforeOrder
<1>2. Total(cs, kind, {}) = 0 /\ Cardinality({}) = 0
  BY TotalAdds, FS_EmptySet
<1>3. SwingPrice(cs, kind, x) \in Int /\ Tolerance \in Int
  BY SwingPriceType, ZonesAssumption
<1>4. TightAfter(cs, kind, {}, x)
  BY <1>2, <1>3 DEF TightAfter
<1> QED
  BY <1>1, <1>4 DEF TightAt

(* No market of the watch list trades below nothing.                       *)
PricesAreNotNegative == \A b \in Bars: 0 <= b.low

(* A point at the price of the cluster's last one joins it.                *)
LEMMA EqualIsNear ==
    ASSUME PricesAreNotNegative, NEW cs \in Seq(Bars), NEW kind \in Kinds,
           NEW C \in SUBSET (1 .. Len(cs)), NEW y \in C, NEW x \in 1 .. Len(cs),
           \A k \in C: k = y \/ SortsBefore(cs, kind, k, y),
           TightAt(cs, kind, C, y), SwingPrice(cs, kind, x) = SwingPrice(cs, kind, y)
    PROVE  Near(cs, kind, C, x)
<1> DEFINE B == C \ {y}
           c == Cardinality(B)
           t == Total(cs, kind, B)
           p == SwingPrice(cs, kind, y)
<1>1. {k \in C: SortsBefore(cs, kind, k, y)} = B
  BY SortsBeforeOrder, ZenonT(30)
<1>2. C = B \cup {y} /\ B \in SUBSET (1 .. Len(cs)) /\ y \in (1 .. Len(cs)) \ B
  OBVIOUS
<1>3. p \in Nat
  <2>1. cs[y] \in Bars
    BY ElementOfSeq
  <2>2. /\ cs[y].low \in Int /\ cs[y].high \in Int
        /\ cs[y].low <= cs[y].high /\ 0 <= cs[y].low
    <3>1. /\ cs[y].low \in Int /\ cs[y].high \in Int
          /\ cs[y].low <= cs[y].close /\ cs[y].close <= cs[y].high /\ cs[y].close \in Int
      BY <2>1, CandlesAssumption
    <3>2. 0 <= cs[y].low
      BY <2>1 DEF PricesAreNotNegative
    <3> QED
      BY <3>1, <3>2
  <2> QED
    BY <2>2 DEF SwingPrice
<1>4. \A k \in B: SwingPrice(cs, kind, k) <= p
  <2>1. \A k \in B: SortsBefore(cs, kind, k, y) /\ SwingPrice(cs, kind, k) \in Int
    BY SwingPriceType
  <2> QED
    BY <1>3, <2>1 DEF SortsBefore
<1> HIDE DEF B
<1>5. (c * p - t) * 10000 <= t * Tolerance
  <2>1. TightAfter(cs, kind, B, y)
    BY <1>1 DEF TightAt
  <2> QED
    BY <2>1 DEF TightAfter
<1>6. c \in Nat /\ IsFiniteSet(B) /\ Cardinality(C) = c + 1
  <2>1. Len(cs) \in Nat
    BY LenProperties
  <2>2. c \in Nat /\ IsFiniteSet(B)
    BY <1>2, <2>1, SubsetsAreFinite
  <2> QED
    BY <1>2, <2>2, FS_AddElement
<1>7. t \in Int /\ Total(cs, kind, C) = t + p
  BY <1>2, TotalAdds
<1> HIDE DEF p
<1>8. t <= c * p
  BY <1>2, <1>3, <1>4, TotalBound
<1>9. Tolerance \in Nat
  BY ZonesAssumption
<1> HIDE DEF c, t
<1>10. Distance((c + 1) * p, t + p) * 10000 <= (t + p) * Tolerance
  <2>1. (c + 1) * p = c * p + p /\ (t + p) * Tolerance = t * Tolerance + p * Tolerance
    BY <1>3, <1>6, <1>7, <1>9
  <2>2. p * Tolerance \in Nat /\ c * p \in Int /\ t * Tolerance \in Int
    BY <1>3, <1>6, <1>7, <1>9
  <2>3. Distance(c * p + p, t + p) = c * p - t
    BY <1>3, <1>7, <1>8, <2>2 DEF Distance
  <2> QED
    BY <1>5, <1>7, <2>1, <2>2, <2>3
<1> QED
  BY <1>6, <1>7, <1>10 DEF Near, p

(* A sequence with its last element replaced.                              *)
LEMMA ReplacedLast ==
    ASSUME NEW S, NEW s \in Seq(S), s # <<>>, NEW e \in S
    PROVE  /\ Append(Front(s), e) \in Seq(S) /\ Len(Append(Front(s), e)) = Len(s)
           /\ Append(Front(s), e)[Len(s)] = e
           /\ \A n \in 1 .. Len(s) - 1: Append(Front(s), e)[n] = s[n]
<1>1. Len(s) \in Nat \ {0}
  BY EmptySeq
<1>2. /\ Front(s) \in Seq(S) /\ Len(Front(s)) = Len(s) - 1
      /\ \A n \in 1 .. Len(s) - 1: Front(s)[n] = s[n]
  <2>1. \A i \in 1 .. Len(s) - 1: s[i] \in S
    BY <1>1, ElementOfSeq
  <2>2. 1 \in Int /\ Len(s) - 1 \in Int
    BY <1>1
  <2> DEFINE r == SubSeq(s, 1, Len(s) - 1)
             l == Len(s) - 1
  <2>3. /\ r \in Seq(S) /\ Len(r) = IF 1 <= l THEN l - 1 + 1 ELSE 0
        /\ \A i \in 1 .. l - 1 + 1: r[i] = s[1 + i - 1]
    BY <2>1, <2>2, SubSeqProperties
  <2>4. Front(s) = r
    BY DEF Front
  <2> HIDE DEF r
  <2>5. r \in Seq(S) /\ Len(r) = Len(s) - 1
    <3>1. l \in Nat
      BY <1>1
    <3> HIDE DEF l
    <3>2. Len(r) = l
      BY <2>3, <3>1
    <3> QED
      BY <2>3, <3>2 DEF l
  <2>6. ASSUME NEW n \in 1 .. Len(s) - 1 PROVE r[n] = s[n]
    <3>1. n \in 1 .. (Len(s) - 1) - 1 + 1 /\ 1 + n - 1 = n
      BY <1>1
    <3>2. r[n] = s[1 + n - 1]
      BY <2>3, <3>1
    <3> QED
      BY <3>1, <3>2
  <2> QED
    BY <2>4, <2>5, <2>6
<1> HIDE DEF Front
<1> QED
  BY <1>1, <1>2, AppendProperties

(* What the walk over the sorted swings has made of a set S of them: the   *)
(* clusters come in the order of prices and leave none out, each is tight, *)
(* and none parts swings at one price.                                     *)
Clustered(cs, kind, S, clusters) ==
    /\ clusters \in Seq(SUBSET S)
    /\ \A n \in 1 .. Len(clusters): clusters[n] # {}
    /\ \A i \in S: \E n \in 1 .. Len(clusters): i \in clusters[n]
    /\ \A m, n \in 1 .. Len(clusters): m < n =>
         \A i \in clusters[m], k \in clusters[n]: SortsBefore(cs, kind, i, k)
    /\ \A n \in 1 .. Len(clusters): \A i \in clusters[n]: TightAt(cs, kind, clusters[n], i)
    /\ PricesAreNotNegative =>
         \A i, k \in S: SwingPrice(cs, kind, i) = SwingPrice(cs, kind, k) =>
           \A n \in 1 .. Len(clusters): i \in clusters[n] => k \in clusters[n]

(* One more swing, sorted after all the others, leaves it so.              *)
LEMMA ClusterWithKeeps ==
    ASSUME NEW cs \in Seq(Bars), NEW kind \in Kinds, NEW S \in SUBSET (1 .. Len(cs)),
           NEW x \in (1 .. Len(cs)) \ S, \A k \in S: SortsBefore(cs, kind, k, x),
           NEW clusters, Clustered(cs, kind, S, clusters)
    PROVE  Clustered(cs, kind, S \cup {x}, ClusterWith(cs, kind, clusters, x))
<1> DEFINE new == ClusterWith(cs, kind, clusters, x)
           z == Len(clusters)
           joins == clusters # <<>> /\ Near(cs, kind, Last(clusters), x)
           T == S \cup {x}
<1>1. /\ clusters \in Seq(SUBSET S) /\ clusters \in Seq(SUBSET T) /\ z \in Nat
      /\ \A n \in 1 .. z: clusters[n] \in SUBSET S
      /\ \A n \in 1 .. z: clusters[n] # {}
      /\ \A i \in S: \E n \in 1 .. z: i \in clusters[n]
      /\ \A m, n \in 1 .. z: m < n =>
           \A i \in clusters[m], k \in clusters[n]: SortsBefore(cs, kind, i, k)
      /\ \A n \in 1 .. z: \A i \in clusters[n]: TightAt(cs, kind, clusters[n], i)
      /\ PricesAreNotNegative =>
           \A i, k \in S: SwingPrice(cs, kind, i) = SwingPrice(cs, kind, k) =>
             \A n \in 1 .. z: i \in clusters[n] => k \in clusters[n]
  <2>1. clusters \in Seq(SUBSET S) /\ SUBSET S \subseteq SUBSET T
    BY DEF Clustered
  <2>2. clusters \in Seq(SUBSET T)
    BY <2>1, SeqMonotonic
  <2>3. z \in Nat /\ \A n \in 1 .. z: clusters[n] \in SUBSET S
    BY <2>1, LenProperties, ElementOfSeq
  <2> QED
    BY <2>1, <2>2, <2>3 DEF Clustered
(* With prices of at least zero a swing at the price of x is in the last   *)
(* cluster, and x joins that.                                              *)
<1>2. ASSUME PricesAreNotNegative, NEW i \in S,
             SwingPrice(cs, kind, i) = SwingPrice(cs, kind, x)
      PROVE  joins /\ i \in clusters[z]
  <2>1. PICK y \in S: \A k \in S: k = y \/ SortsBefore(cs, kind, k, y)
    BY LastSortedIs
  <2>2. SwingPrice(cs, kind, y) = SwingPrice(cs, kind, x)
    <3>1. /\ SwingPrice(cs, kind, y) \in Int /\ SwingPrice(cs, kind, x) \in Int
          /\ SwingPrice(cs, kind, i) \in Int
      BY SwingPriceType
    <3>2. SortsBefore(cs, kind, y, x) /\ (i = y \/ SortsBefore(cs, kind, i, y))
      BY <2>1
    <3> QED
      BY <1>2, <3>1, <3>2 DEF SortsBefore
  <2>3. PICK m \in 1 .. z: y \in clusters[m]
    BY <1>1
  <2>4. m = z
    <3> SUFFICES ASSUME m # z PROVE FALSE
      OBVIOUS
    <3>1. m < z /\ z \in 1 .. z
      BY <1>1
    <3>2. PICK k \in clusters[z]: SortsBefore(cs, kind, y, k)
      BY <1>1, <2>3, <3>1
    <3>3. k \in S
      BY <1>1, <3>1
    <3> QED
      BY <2>1, <3>2, <3>3, SortsBeforeOrder
  <2>5. i \in clusters[z]
    BY <1>1, <1>2, <2>2, <2>3, <2>4
  <2>6. clusters[z] \in SUBSET (1 .. Len(cs)) /\ z \in 1 .. z /\ y \in clusters[z]
    BY <1>1, <2>3, <2>4
  <2>7. \A k \in clusters[z]: k = y \/ SortsBefore(cs, kind, k, y)
    BY <1>1, <2>1, <2>6
  <2>8. TightAt(cs, kind, clusters[z], y)
    BY <1>1, <2>6
  <2>9. Near(cs, kind, clusters[z], x)
    BY <1>2, <2>2, <2>6, <2>7, <2>8, EqualIsNear
  <2>10. clusters # <<>> /\ Last(clusters) = clusters[z]
    BY <2>6, EmptySeq DEF Last
  <2> QED
    BY <2>5, <2>9, <2>10
<1>3. CASE joins
  <2> DEFINE D == clusters[z] \cup {x}
  <2>1. z \in 1 .. z /\ Last(clusters) = clusters[z] /\ clusters[z] \in SUBSET S
    <3>1. z \in Nat \ {0}
      BY <1>1, <1>3, EmptySeq
    <3> QED
      BY <1>1, <3>1 DEF Last
  <2>2. D \in SUBSET T
    BY <2>1
  <2>3. new = Append(Front(clusters), D)
    BY <1>3, <2>1 DEF ClusterWith
  <2>4. /\ new \in Seq(SUBSET T) /\ Len(new) = z /\ new[z] = D
        /\ \A n \in 1 .. z - 1: new[n] = clusters[n]
    BY <1>1, <1>3, <2>2, <2>3, ReplacedLast
  <2> HIDE DEF new
  <2>5. \A n \in 1 .. z: n = z \/ (n \in 1 .. z - 1 /\ n \in 1 .. z)
    BY <1>1
  <2>6. \A n \in 1 .. z: clusters[n] \subseteq new[n] /\ new[n] \subseteq clusters[n] \cup {x}
    BY <2>4, <2>5
  <2>7. \A n \in 1 .. z: new[n] # {}
    BY <1>1, <2>6
  <2>8. \A i \in T: \E n \in 1 .. z: i \in new[n]
    BY <1>1, <2>1, <2>4, <2>6
  <2>9. ASSUME NEW m \in 1 .. z, NEW n \in 1 .. z, m < n, NEW i \in new[m], NEW k \in new[n]
        PROVE  SortsBefore(cs, kind, i, k)
    <3>1. m \in 1 .. z - 1
      BY <2>9
    <3>2. i \in clusters[m] /\ i \in S
      BY <1>1, <2>4, <2>9, <3>1
    <3>3. k \in clusters[n] \/ k = x
      BY <2>6
    <3> QED
      BY <1>1, <2>9, <3>2, <3>3
  <2>10. ASSUME NEW n \in 1 .. z, NEW i \in new[n] PROVE TightAt(cs, kind, new[n], i)
    <3>1. CASE n # z
      BY <1>1, <2>4, <2>5, <3>1
    <3>2. CASE n = z
      <4>1. clusters[z] \in SUBSET (1 .. Len(cs)) /\ x \in 1 .. Len(cs)
        BY <2>1
      <4>2. \A k \in clusters[z]: SortsBefore(cs, kind, k, x)
        BY <2>1
      <4>3. \A k \in clusters[z]: TightAt(cs, kind, clusters[z], k)
        BY <1>1, <2>1
      <4>4. Near(cs, kind, clusters[z], x)
        BY <1>3, <2>1
      <4>5. \A k \in D: TightAt(cs, kind, D, k)
        BY <4>1, <4>2, <4>3, <4>4, JoiningStaysTight
      <4> QED
        BY <2>4, <3>2, <4>5
    <3> QED
      BY <3>1, <3>2
  <2>11. ASSUME PricesAreNotNegative, NEW i \in T, NEW k \in T,
                SwingPrice(cs, kind, i) = SwingPrice(cs, kind, k),
                NEW n \in 1 .. z, i \in new[n]
         PROVE  k \in new[n]
    <3>1. CASE i \in S /\ k \in S
      <4>1. i \in clusters[n]
        BY <2>6, <2>11, <3>1
      <4> QED
        BY <1>1, <2>6, <2>11, <3>1, <4>1
    <3>2. CASE i = x /\ k \in S
      <4>1. k \in clusters[z]
        BY <1>2, <2>11, <3>2
      <4>2. n = z
        BY <1>1, <2>4, <2>5, <2>11, <3>2
      <4> QED
        BY <2>6, <4>1, <4>2
    <3>3. CASE i \in S /\ k = x
      <4>1. i \in clusters[z] /\ i \in clusters[n]
        BY <1>2, <2>6, <2>11, <3>3
      <4>2. n = z
        <5> SUFFICES ASSUME n # z PROVE FALSE
          OBVIOUS
        <5>1. n < z
          BY <1>1
        <5> QED
          BY <1>1, <2>1, <4>1, <5>1, SortsBeforeOrder
      <4> QED
        BY <2>4, <3>3, <4>2
    <3>4. CASE i = x /\ k = x
      BY <2>11, <3>4
    <3> QED
      BY <3>1, <3>2, <3>3, <3>4
  <2> QED
    BY <2>4, <2>7, <2>8, <2>9, <2>10, <2>11 DEF Clustered, new
<1>4. CASE ~joins
  <2>1. new = Append(clusters, {x}) /\ {x} \in SUBSET T
    BY <1>4 DEF ClusterWith
  <2>2. /\ new \in Seq(SUBSET T) /\ Len(new) = z + 1 /\ new[z + 1] = {x}
        /\ \A n \in 1 .. z: new[n] = clusters[n]
    BY <1>1, <2>1, AppendProperties
  <2> HIDE DEF new, joins
  <2>3. /\ \A n \in 1 .. z + 1: n = z + 1 \/ n \in 1 .. z
        /\ z + 1 \in 1 .. z + 1 /\ 1 .. z \subseteq 1 .. z + 1 /\ z + 1 \notin 1 .. z
    BY <1>1
  <2>4. \A n \in 1 .. z + 1: new[n] # {}
    BY <1>1, <2>2, <2>3
  <2>5. \A i \in T: \E n \in 1 .. z + 1: i \in new[n]
    BY <1>1, <2>2, <2>3
  <2>6. ASSUME NEW m \in 1 .. z + 1, NEW n \in 1 .. z + 1, m < n,
               NEW i \in new[m], NEW k \in new[n]
        PROVE  SortsBefore(cs, kind, i, k)
    <3>1. m \in 1 .. z
      BY <1>1, <2>6
    <3>2. i \in clusters[m] /\ i \in S
      BY <1>1, <2>2, <3>1
    <3>3. CASE n = z + 1
      BY <2>2, <3>2, <3>3
    <3>4. CASE n \in 1 .. z
      BY <1>1, <2>2, <2>6, <3>1, <3>2, <3>4
    <3> QED
      BY <2>3, <3>3, <3>4
  <2>7. ASSUME NEW n \in 1 .. z + 1, NEW i \in new[n] PROVE TightAt(cs, kind, new[n], i)
    BY <1>1, <2>2, <2>3, AloneIsTight
  <2>8. ASSUME PricesAreNotNegative, NEW i \in T, NEW k \in T,
               SwingPrice(cs, kind, i) = SwingPrice(cs, kind, k),
               NEW n \in 1 .. z + 1, i \in new[n]
        PROVE  k \in new[n]
    <3>1. CASE i \in S /\ k \in S
      <4>1. n \in 1 .. z
        BY <2>2, <2>3, <2>8, <3>1
      <4> QED
        BY <1>1, <2>2, <2>8, <3>1, <4>1
    <3>2. CASE i = x /\ k \in S
      BY <1>2, <1>4, <2>8, <3>2
    <3>3. CASE i \in S /\ k = x
      BY <1>2, <1>4, <2>8, <3>3
    <3>4. CASE i = x /\ k = x
      BY <2>8, <3>4
    <3> QED
      BY <3>1, <3>2, <3>3, <3>4
  <2> QED
    BY <2>2, <2>4, <2>5, <2>6, <2>7, <2>8 DEF Clustered, new
<1> QED
  BY <1>3, <1>4

(* What the recursive walk over the sorted swings comes to.                *)
LEMMA AlwaysClustered ==
    ASSUME NEW cs \in Seq(Bars), NEW kind \in Kinds
    PROVE  Clustered(cs, kind, SwingsOf(cs, kind), Clusters(cs, kind))
<1> DEFINE X == SwingsOf(cs, kind)
<1>1. Len(cs) \in Nat /\ X \in SUBSET (1 .. Len(cs))
  BY LenProperties, SwingsOfType
<1>2. PICK f: /\ f = [S \in SUBSET X |-> ClusterStep(cs, kind, S, f)]
              /\ Clusters(cs, kind) = f[X]
  BY ClustersFollow
<1> HIDE DEF X
<1>3. \A S \in SUBSET X: f[S] = ClusterStep(cs, kind, S, f)
  BY <1>2
<1> DEFINE F == {S \in SUBSET (1 .. Len(cs)): S \subseteq X => Clustered(cs, kind, S, f[S])}
<1>4. {} \in F
  <2>1. f[{}] = <<>>
    BY <1>3 DEF ClusterStep
  <2>2. <<>> \in Seq(SUBSET {}) /\ Len(<<>>) = 0
    BY EmptySeq
  <2>3. Clustered(cs, kind, {}, <<>>)
    BY <2>2 DEF Clustered
  <2> QED
    BY <2>1, <2>3
<1>5. ASSUME NEW S \in SUBSET (1 .. Len(cs)), S # {}
      PROVE  \E i \in S: S \ {i} \in F => S \in F
  <2> DEFINE i == LastSorted(cs, kind, S)
             R == S \ {i}
  <2>1. i \in S /\ \A k \in S: k = i \/ SortsBefore(cs, kind, k, i)
    BY <1>5, LastSortedIs
  <2> HIDE DEF i
  <2> SUFFICES ASSUME R \in F, S \subseteq X PROVE Clustered(cs, kind, S, f[S])
    BY <2>1
  <2>2. f[S] = ClusterWith(cs, kind, f[R], i)
    BY <1>3, <1>5 DEF ClusterStep, i
  <2>3. /\ R \in SUBSET (1 .. Len(cs)) /\ i \in (1 .. Len(cs)) \ R
        /\ \A k \in R: SortsBefore(cs, kind, k, i)
        /\ Clustered(cs, kind, R, f[R]) /\ S = R \cup {i}
    BY <2>1
  <2> HIDE DEF R
  <2> QED
    BY <2>2, <2>3, ClusterWithKeeps
<1> HIDE DEF F
<1>6. X \in F
  BY <1>1, <1>4, <1>5, SubsetInduction
<1> QED
  BY <1>2, <1>6 DEF F, X

(* Swings at one price are one pool.  The code's tolerance is a share of   *)
(* the mean itself, find_liquidity_pools: with a mean below zero it is     *)
(* below zero too and no two swings are near, so the prices must not be.   *)
THEOREM EqualSwingsAlwaysShareAPool ==
    ASSUME PricesAreNotNegative
    PROVE  Spec => []EqualSwingsShareAPool
<1>1. TypeOK => EqualSwingsShareAPool
  <2> SUFFICES ASSUME TypeOK, NEW kind \in Kinds, NEW i \in SwingsOf(candles, kind),
                      NEW j \in SwingsOf(candles, kind), i # j,
                      SwingPrice(candles, kind, i) = SwingPrice(candles, kind, j)
               PROVE  \E pool \in LiquidityPools(candles, kind): {i, j} \subseteq pool
    BY DEF EqualSwingsShareAPool, Kinds
  <2> DEFINE clusters == Clusters(candles, kind)
             X == SwingsOf(candles, kind)
  <2>1. candles \in Seq(Bars)
    BY DEF TypeOK
  <2>2. Clustered(candles, kind, X, clusters)
    BY <2>1, AlwaysClustered
  <2>3. Len(candles) \in Nat /\ X \in SUBSET (1 .. Len(candles))
    BY <2>1, LenProperties, SwingsOfType
  <2> HIDE DEF clusters
  <2>4. PICK n \in 1 .. Len(clusters): i \in clusters[n]
    BY <2>2 DEF Clustered
  <2> DEFINE pool == clusters[n]
  <2>5. pool \in SUBSET X /\ {i, j} \subseteq pool
    <3>1. clusters \in Seq(SUBSET X)
      BY <2>2 DEF Clustered
    <3>2. clusters[n] \in SUBSET X
      BY <3>1, ElementOfSeq
    <3>3. j \in clusters[n]
      BY <2>2, <2>4 DEF Clustered
    <3> QED
      BY <2>4, <3>2, <3>3
  <2>6. Cardinality(pool) >= 2
    <3>1. Cardinality({i, j}) = 2
      <4>1. /\ IsFiniteSet({j}) /\ Cardinality({j}) = 1
            /\ {i, j} = {j} \cup {i} /\ i \notin {j}
        BY FS_Singleton
      <4>2. Cardinality({j} \cup {i}) = IF i \in {j} THEN Cardinality({j})
                                        ELSE Cardinality({j}) + 1
        BY <4>1, FS_AddElement
      <4>3. Cardinality({j} \cup {i}) = 1 + 1
        BY <4>1, <4>2
      <4>4. {i, j} = {j} \cup {i}
        OBVIOUS
      <4> QED
        BY <4>3, <4>4, SMTT(20)
    <3>2. IsFiniteSet(pool) /\ Cardinality(pool) \in Nat
      BY <2>3, <2>5, SubsetsAreFinite
    <3>3. Cardinality({i, j}) <= Cardinality(pool)
      BY <2>5, <3>2, FS_Subset
    <3> QED
      BY <3>1, <3>2, <3>3
  <2>7. pool \in ToSet(clusters)
    BY DEF ToSet
  <2> HIDE DEF pool
  <2>8. pool \in LiquidityPools(candles, kind)
    BY <2>6, <2>7 DEF LiquidityPools, clusters
  <2> QED
    BY <2>5, <2>8
<1> QED
  BY <1>1, WalkTypeCorrect, PTL

(* Every point of a pool is within the tolerance of the mean of the points *)
(* sorted before it, whatever the prices.                                  *)
THEOREM PoolsAreAlwaysTight == Spec => []PoolsAreTight
<1>1. TypeOK => PoolsAreTight
  <2> SUFFICES ASSUME TypeOK, NEW kind \in Kinds,
                      NEW pool \in LiquidityPools(candles, kind), NEW i \in pool
               PROVE  TightAt(candles, kind, pool, i)
    BY DEF PoolsAreTight, Kinds, TightAt, TightAfter
  <2> DEFINE clusters == Clusters(candles, kind)
             X == SwingsOf(candles, kind)
  <2>1. candles \in Seq(Bars)
    BY DEF TypeOK
  <2>2. Clustered(candles, kind, X, clusters)
    BY <2>1, AlwaysClustered
  <2>3. pool \in ToSet(clusters)
    BY DEF LiquidityPools
  <2> HIDE DEF clusters
  <2>4. PICK n \in 1 .. Len(clusters): pool = clusters[n]
    BY <2>3 DEF ToSet
  <2> QED
    BY <2>2, <2>4 DEF Clustered
<1> QED
  BY <1>1, WalkTypeCorrect, PTL
=============================================================================

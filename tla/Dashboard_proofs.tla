--------------------------- MODULE Dashboard_proofs ---------------------------
(***************************************************************************)
(* Proofs about the readers of the audit trail and the dashboard.          *)
(***************************************************************************)
EXTENDS DashboardProperties, TLAPS

-----------------------------------------------------------------------------
(* The text of timestamps.                                                 *)

(* A moment is its second and its microsecond.                             *)
LEMMA DivMod ==
    ASSUME NEW m \in Nat
    PROVE  /\ Second(m) \in Nat /\ Micro(m) \in Nat
           /\ Micro(m) < MicrosPerSecond
           /\ m = MicrosPerSecond * Second(m) + Micro(m)
BY MicrosAssumption DEF Second, Micro

(* The greater second outweighs any microseconds.                          *)
LEMMA SecondsDecide ==
    ASSUME NEW a \in Nat, NEW b \in Nat, NEW d \in Nat, NEW e \in Nat,
           NEW k \in Nat, d < k, e < k, a < b
    PROVE  k * a + d < k * b + e
<1>1. b \in Int /\ a + 1 <= b
  OBVIOUS
<1>2. k * (a + 1) <= k * b
  BY <1>1
<1>3. k * (a + 1) = k * a + k
  OBVIOUS
<1> QED
  BY <1>2, <1>3

(* Moments compare by second, then by microsecond.                         *)
LEMMA MomentsBySeconds ==
    ASSUME NEW m \in Nat, NEW n \in Nat
    PROVE  m < n <=> \/ Second(m) < Second(n)
                     \/ Second(m) = Second(n) /\ Micro(m) < Micro(n)
<1>1. ASSUME NEW i \in Nat, NEW j \in Nat, Second(i) < Second(j)  PROVE  i < j
  <2>1. MicrosPerSecond \in Nat
    BY MicrosAssumption
  <2>2. /\ Second(i) \in Nat /\ Micro(i) \in Nat /\ Micro(i) < MicrosPerSecond
        /\ Second(j) \in Nat /\ Micro(j) \in Nat /\ Micro(j) < MicrosPerSecond
    BY DivMod
  <2>3. MicrosPerSecond * Second(i) + Micro(i)
          < MicrosPerSecond * Second(j) + Micro(j)
    BY <1>1, <2>1, <2>2, SecondsDecide
  <2> QED
    BY <2>3, DivMod
<1>2. Second(m) = Second(n) => (m < n <=> Micro(m) < Micro(n))
  <2>1. MicrosPerSecond \in Nat /\ Second(m) \in Nat
    BY MicrosAssumption, DivMod
  <2>2. MicrosPerSecond * Second(m) \in Nat
    BY <2>1
  <2> QED
    BY <2>2, DivMod
<1>3. Second(m) \in Nat /\ Second(n) \in Nat
  BY DivMod
<1>4. CASE Second(m) < Second(n)
  BY <1>1, <1>4
<1>5. CASE Second(m) = Second(n)
  BY <1>2, <1>3, <1>5
<1>6. CASE Second(n) < Second(m)
  <2>1. n < m
    BY <1>1, <1>6
  <2> QED
    BY <1>3, <1>6, <2>1
<1> QED
  BY <1>3, <1>4, <1>5, <1>6

(* The parts of a text are numbers.                                        *)
LEMMA TextParts ==
    ASSUME NEW t \in Timestamps
    PROVE  /\ t.wall \in Nat /\ t.offset \in Int /\ t.naive \in BOOLEAN
           /\ t.naive => t.offset = 0
           /\ Second(t.wall) \in Nat /\ Micro(t.wall) \in Nat
           /\ Size(t.offset) \in Nat /\ (Size(t.offset) = 0 <=> t.offset = 0)
           /\ Sign(t) = IF t.naive THEN 0 ELSE IF t.offset < 0 THEN 45 ELSE 43
<1>1. t.wall \in Nat /\ t.offset \in Int /\ t.naive \in BOOLEAN
  BY DEF Timestamps
<1>2. t.naive => t.offset = 0
  BY DEF Timestamps
<1>3. Second(t.wall) \in Nat /\ Micro(t.wall) \in Nat
  BY <1>1, DivMod
<1>4. Size(t.offset) \in Nat /\ (Size(t.offset) = 0 <=> t.offset = 0)
  BY <1>1 DEF Size
<1> QED
  BY <1>1, <1>2, <1>3, <1>4 DEF Sign, EndOfText, PlusSign, MinusSign

(* One text is before another when it is at their first difference.        *)
LEMMA FirstDifference ==
    ASSUME NEW a, NEW b
    PROVE  TextBefore(a, b) <=>
              \/ a[1] < b[1]
              \/ a[1] = b[1] /\ a[2] < b[2]
              \/ a[1] = b[1] /\ a[2] = b[2] /\ a[3] < b[3]
              \/ a[1] = b[1] /\ a[2] = b[2] /\ a[3] = b[3] /\ a[4] < b[4]
              \/ /\ a[1] = b[1] /\ a[2] = b[2] /\ a[3] = b[3] /\ a[4] = b[4]
                 /\ a[5] < b[5]
<1>1. 1 .. 5 = {1, 2, 3, 4, 5}
  OBVIOUS
<1>2. /\ 1 .. 1 - 1 = {} /\ 1 .. 2 - 1 = {1} /\ 1 .. 3 - 1 = {1, 2}
      /\ 1 .. 4 - 1 = {1, 2, 3} /\ 1 .. 5 - 1 = {1, 2, 3, 4}
  OBVIOUS
<1> QED
  BY <1>1, <1>2 DEF TextBefore

(* The text of one timestamp is before that of another when its wall clock *)
(* shows less, or the same and its end is before the other's.              *)
LEMMA TextOrder ==
    ASSUME NEW t \in Timestamps, NEW u \in Timestamps
    PROVE  Before(t, u) <=>
              \/ t.wall < u.wall
              \/ t.wall = u.wall /\ Sign(t) < Sign(u)
              \/ /\ t.wall = u.wall /\ Sign(t) = Sign(u)
                 /\ Size(t.offset) < Size(u.offset)
<1> DEFINE a == Second(t.wall)
           b == Second(u.wall)
           c == Micro(t.wall)
           d == Micro(u.wall)
           x == Sign(t)
           y == Sign(u)
           p == Size(t.offset)
           q == Size(u.offset)
<1>1. /\ a \in Nat /\ b \in Nat /\ c \in Nat /\ d \in Nat
      /\ x \in {0, 43, 45} /\ y \in {0, 43, 45} /\ p \in Nat /\ q \in Nat
      /\ t.wall \in Nat /\ u.wall \in Nat
  BY TextParts
<1>2. /\ t.wall < u.wall <=> (a < b \/ (a = b /\ c < d))
      /\ u.wall < t.wall <=> (b < a \/ (a = b /\ d < c))
  BY <1>1, MomentsBySeconds
<1>3. t.wall = u.wall <=> (a = b /\ c = d)
  <2>1. t.wall = u.wall <=> ~(t.wall < u.wall) /\ ~(u.wall < t.wall)
    BY <1>1
  <2> QED
    BY <1>1, <1>2, <2>1
<1>4. /\ IsoFormat(t) = <<a, IF c = 0 THEN x ELSE 46, c, x, p>>
      /\ IsoFormat(u) = <<b, IF d = 0 THEN y ELSE 46, d, y, q>>
  BY DEF IsoFormat, FullStop
<1> HIDE DEF a, b, c, d, x, y, p, q
<1>5. Before(t, u) <=>
        LET e == IF c = 0 THEN x ELSE 46
            f == IF d = 0 THEN y ELSE 46
        IN  \/ a < b
            \/ a = b /\ e < f
            \/ a = b /\ e = f /\ c < d
            \/ a = b /\ e = f /\ c = d /\ x < y
            \/ a = b /\ e = f /\ c = d /\ x = y /\ p < q
  BY <1>4, FirstDifference DEF Before
<1>6. Before(t, u) <=>
        \/ a < b
        \/ a = b /\ c < d
        \/ a = b /\ c = d /\ x < y
        \/ a = b /\ c = d /\ x = y /\ p < q
  <2>1. CASE c = 0 /\ d = 0
    BY <1>1, <1>5, <2>1
  <2>2. CASE c = 0 /\ d # 0
    BY <1>1, <1>5, <2>2
  <2>3. CASE c # 0 /\ d = 0
    BY <1>1, <1>5, <2>3
  <2>4. CASE c # 0 /\ d # 0
    BY <1>1, <1>5, <2>4
  <2> QED
    BY <2>1, <2>2, <2>3, <2>4
<1>7. Before(t, u) <=>
        \/ t.wall < u.wall
        \/ t.wall = u.wall /\ x < y
        \/ t.wall = u.wall /\ x = y /\ p < q
  BY <1>2, <1>3, <1>6
<1> QED
  BY <1>7 DEF x, y, p, q

(* A timestamp in UTC is one.                                              *)
LEMMA UtcIsTimestamp ==
    ASSUME NEW t \in UtcTimestamps
    PROVE  t \in Timestamps /\ t.wall \in Nat /\ t.offset = 0 /\ ~t.naive
<1>1. t.wall \in Nat /\ t.offset = 0 /\ ~t.naive
  BY DEF UtcTimestamps
<1>2. t \in [wall: Nat, offset: Int, naive: BOOLEAN]
  <2>1. \A x \in {0}: x \in Int
    OBVIOUS
  <2>2. \A x \in {FALSE}: x \in BOOLEAN
    BY Zenon
  <2> QED
    BY <2>1, <2>2, Zenon DEF UtcTimestamps
<1> QED
  BY <1>1, <1>2 DEF Timestamps

(* How a timestamp in UTC compares with any other as text.                 *)
LEMMA UtcTextOrder ==
    ASSUME NEW t \in UtcTimestamps, NEW u \in Timestamps
    PROVE  /\ t \in Timestamps /\ t.wall \in Nat /\ u.wall \in Nat
           /\ Before(t, u) <=> \/ t.wall < u.wall
                               \/ t.wall = u.wall /\ u.offset # 0
           /\ Before(u, t) <=> \/ u.wall < t.wall
                               \/ u.wall = t.wall /\ u.naive
<1>1. t \in Timestamps /\ t.wall \in Nat /\ t.offset = 0 /\ ~t.naive
  BY UtcIsTimestamp
<1>2. /\ u.wall \in Nat /\ u.offset \in Int /\ u.naive \in BOOLEAN
      /\ u.naive => u.offset = 0
      /\ Size(u.offset) \in Nat /\ (Size(u.offset) = 0 <=> u.offset = 0)
      /\ Sign(u) = IF u.naive THEN 0 ELSE IF u.offset < 0 THEN 45 ELSE 43
  BY TextParts
<1>3. Size(t.offset) = 0 /\ Sign(t) = 43
  BY <1>1, TextParts
<1>4. Before(t, u) <=> \/ t.wall < u.wall
                       \/ t.wall = u.wall /\ u.offset # 0
  <2>1. (43 < Sign(u) \/ (43 = Sign(u) /\ 0 < Size(u.offset))) <=> u.offset # 0
    BY <1>2
  <2> QED
    BY <1>1, <1>2, <1>3, <2>1, TextOrder
<1>5. Before(u, t) <=> \/ u.wall < t.wall
                       \/ u.wall = t.wall /\ u.naive
  <2>1. (Sign(u) < 43 \/ (Sign(u) = 43 /\ Size(u.offset) < 0)) <=> u.naive
    BY <1>2
  <2> QED
    BY <1>1, <1>2, <1>3, <2>1, TextOrder
<1> QED
  BY <1>1, <1>2, <1>4, <1>5

(* The order of a list is that of the moments.                             *)
THEOREM ListedByMoment ==
    ASSUME NEW d \in DecisionRows, NEW e \in DecisionRows
    PROVE  ListedBefore(d, e) <=> Moment(d) > Moment(e)
<1>1. d.timestamp \in UtcTimestamps /\ e.timestamp \in UtcTimestamps
  BY DEF DecisionRows
<1>2. /\ d.timestamp \in Timestamps /\ d.timestamp.offset = 0
      /\ d.timestamp.wall \in Nat /\ e.timestamp.wall \in Nat
  BY <1>1, UtcIsTimestamp
<1> QED
  BY <1>1, <1>2, UtcTextOrder DEF ListedBefore, Moment

(* What the interval of a query selects, exactly: the wall clock of its    *)
(* bounds is read as UTC, and one that is not in UTC may not belong to its *)
(* own interval: no `since` of another zone does, and no naive `until`.    *)
THEOREM MatchedByWallClock ==
    ASSUME NEW d \in DecisionRows, NEW query \in QueryType
    PROVE  Matches(d, query) <=>
             /\ MayBeWanted(d, query)
             /\ query.since # None /\ Moment(d) = query.since.wall
                  => query.since.offset = 0
             /\ query.until # None /\ Moment(d) = query.until.wall
                  => ~query.until.naive
<1>1. d.timestamp \in UtcTimestamps /\ Moment(d) \in Nat
  BY DEF DecisionRows, UtcTimestamps, Moment
<1>2. query.since # None =>
        (~Before(d.timestamp, query.since)
           <=> /\ Moment(d) >= query.since.wall
               /\ Moment(d) = query.since.wall => query.since.offset = 0)
  <2>1. SUFFICES ASSUME query.since # None
                 PROVE  ~Before(d.timestamp, query.since)
                          <=> /\ Moment(d) >= query.since.wall
                              /\ Moment(d) = query.since.wall
                                    => query.since.offset = 0
    OBVIOUS
  <2>2. query.since \in Timestamps
    BY <2>1 DEF QueryType
  <2> QED
    BY <1>1, <2>2, UtcTextOrder DEF Moment
<1>3. query.until # None =>
        (~Before(query.until, d.timestamp)
           <=> /\ Moment(d) <= query.until.wall
               /\ Moment(d) = query.until.wall => ~query.until.naive)
  <2>1. SUFFICES ASSUME query.until # None
                 PROVE  ~Before(query.until, d.timestamp)
                          <=> /\ Moment(d) <= query.until.wall
                              /\ Moment(d) = query.until.wall
                                    => ~query.until.naive
    OBVIOUS
  <2>2. query.until \in Timestamps
    BY <2>1 DEF QueryType
  <2> QED
    BY <1>1, <2>2, UtcTextOrder DEF Moment
<1>4. (query.instrument # None => d.instrument = query.instrument)
        <=> query.instrument \in {None, d.instrument}
  OBVIOUS
<1>5. (query.action # None => d.action = query.action)
        <=> query.action \in {None, d.action}
  OBVIOUS
<1> QED
  BY <1>2, <1>3, <1>4, <1>5 DEF Matches, MayBeWanted, AtLeast

(* An aware bound selects the decisions on its side of the moment it       *)
(* stands for if it is in UTC, and only then: the reader who asks in       *)
(* another zone is answered about another interval.                        *)
THEOREM OnlyUtcBoundsAreMoments ==
    ASSUME NEW bound \in Timestamps, ~bound.naive
    PROVE  /\ (\A m \in Nat: ~Before(Utc(m), bound) <=> m >= MomentOf(bound))
                 <=> bound.offset = 0
           /\ (\A m \in Nat: ~Before(bound, Utc(m)) <=> m <= MomentOf(bound))
                 <=> bound.offset = 0
<1> DEFINE wall == bound.wall
           shift == bound.offset * MicrosPerSecond
<1>1. /\ wall \in Nat /\ bound.offset \in Int /\ bound.naive \in BOOLEAN
      /\ MicrosPerSecond \in Nat /\ MicrosPerSecond > 1
  BY MicrosAssumption DEF Timestamps
<1>2. MomentOf(bound) = wall - shift /\ shift \in Int
  BY <1>1 DEF MomentOf
<1>3. /\ bound.offset > 0 => shift > 0
      /\ bound.offset < 0 => shift < -1
      /\ bound.offset = 0 => shift = 0
  <2>1. bound.offset > 0 => shift > 0
    BY <1>1
  <2>2. bound.offset < 0 => shift < -1
    <3>1. SUFFICES ASSUME bound.offset < 0 PROVE shift < -1
      OBVIOUS
    <3>2. PICK n \in Nat: n > 0 /\ bound.offset = -n
      <4>1. -bound.offset \in Nat /\ -bound.offset > 0
        BY <1>1, <3>1
      <4> QED
        BY <1>1, <4>1
    <3>3. n * MicrosPerSecond > 1
      BY <1>1, <3>2
    <3> QED
      BY <1>1, <3>2, <3>3
  <2> QED
    BY <1>1, <2>1, <2>2
<1>4. ASSUME NEW m \in Nat
      PROVE  /\ ~Before(Utc(m), bound)
                  <=> m >= wall /\ (m = wall => bound.offset = 0)
             /\ ~Before(bound, Utc(m)) <=> m <= wall
  <2>1. Utc(m) \in UtcTimestamps /\ Utc(m).wall = m
    BY DEF Utc, UtcTimestamps
  <2> QED
    BY <1>1, <2>1, UtcTextOrder
<1> HIDE DEF wall, shift
<1>5. CASE bound.offset = 0
  BY <1>1, <1>2, <1>3, <1>4, <1>5
<1>6. CASE bound.offset > 0
  <2>1. /\ Before(Utc(wall), bound) /\ wall >= MomentOf(bound)
        /\ ~Before(bound, Utc(wall)) /\ ~(wall <= MomentOf(bound))
    BY <1>1, <1>2, <1>3, <1>4, <1>6
  <2> QED
    BY <1>1, <1>6, <2>1
<1>7. CASE bound.offset < 0
  <2>1. /\ ~Before(Utc(wall + 1), bound) /\ ~(wall + 1 >= MomentOf(bound))
        /\ Before(bound, Utc(wall + 1)) /\ wall + 1 <= MomentOf(bound)
    BY <1>1, <1>2, <1>3, <1>4, <1>7
  <2> QED
    BY <1>1, <1>7, <2>1
<1> QED
  BY <1>1, <1>5, <1>6, <1>7

-----------------------------------------------------------------------------
(* Every list is what IsLatest says.                                       *)
LEMMA ListFacts ==
    ASSUME NEW table \in Seq(DecisionRows), NEW query \in QueryType,
           NEW ids \in ListDecisions(table, query)
    PROVE  /\ ids \in Seq(1 .. Len(table)) /\ Len(ids) <= query.limit
           /\ Range(ids) \subseteq 1 .. Len(table)
           /\ \A id \in Range(ids): Matches(table[id], query)
           /\ \A m, n \in DOMAIN ids:
                m < n => ids[m] # ids[n] /\ ~ListedBefore(table[ids[n]], table[ids[m]])
           /\ \A id \in 1 .. Len(table):
                Matches(table[id], query) /\ id \notin Range(ids) =>
                    /\ Len(ids) = query.limit
                    /\ \A n \in DOMAIN ids: ~ListedBefore(table[id], table[ids[n]])
<1> DEFINE matching == {id \in DOMAIN table: Matches(table[id], query)}
<1>1. PICK n \in 0 .. query.limit: ids \in Injection(1 .. n, matching)
  BY DEF ListDecisions
<1>2. /\ n \in Nat /\ n <= query.limit /\ query.limit \in Nat
      /\ DOMAIN table = 1 .. Len(table)
  BY DEF QueryType
<1>3. /\ ids \in [1 .. n -> matching]
      /\ \A a, b \in 1 .. n: ids[a] = ids[b] => a = b
  BY <1>1 DEF Injection, IsInjective
<1>4. ids \in Seq(1 .. Len(table)) /\ Len(ids) = n /\ DOMAIN ids = 1 .. n
  <2>1. ids \in [1 .. n -> 1 .. Len(table)]
    BY <1>2, <1>3
  <2> QED
    BY <1>2, <2>1
<1>5. \A id \in Range(ids): id \in 1 .. Len(table) /\ Matches(table[id], query)
  BY <1>2, <1>3, <1>4 DEF Range
<1>6. \A a, b \in DOMAIN ids: a < b => ids[a] # ids[b]
  BY <1>2, <1>3, <1>4
<1>7. /\ \A a, b \in DOMAIN ids: a < b => ~ListedBefore(table[ids[b]], table[ids[a]])
      /\ \A id \in matching \ Range(ids):
            /\ Len(ids) = query.limit
            /\ \A a \in DOMAIN ids: ~ListedBefore(table[id], table[ids[a]])
  BY DEF ListDecisions
<1> QED
  BY <1>2, <1>4, <1>5, <1>6, <1>7

(* A list that was answered is the latest of its kind.                     *)
LEMMA ListIsLatest ==
    ASSUME NEW table \in Seq(DecisionRows), NEW query \in QueryType,
           NEW ids \in ListDecisions(table, query)
    PROVE  IsLatest(table, query, ids)
<1>1. /\ Range(ids) \subseteq 1 .. Len(table)
      /\ ids \in Seq(1 .. Len(table)) /\ query.limit \in Nat
      /\ DOMAIN table = 1 .. Len(table) /\ \A id \in DOMAIN table: table[id] \in DecisionRows
      /\ \A n \in DOMAIN ids: ids[n] \in 1 .. Len(table)
  BY ListFacts DEF QueryType
<1>2. \A d \in DecisionRows: Moment(d) \in Nat
  BY DEF Moment, DecisionRows, UtcTimestamps
<1>3. \A d, e \in DecisionRows: ~ListedBefore(d, e) => Moment(e) >= Moment(d)
  <2>1. SUFFICES ASSUME NEW d \in DecisionRows, NEW e \in DecisionRows,
                        ~ListedBefore(d, e)
                 PROVE  Moment(e) >= Moment(d)
    OBVIOUS
  <2> QED
    BY <1>2, <2>1, ListedByMoment
<1>4. ASSUME NEW id \in 1 .. Len(table)
      PROVE  /\ Matches(table[id], query) => MayBeWanted(table[id], query)
             /\ Wanted(table[id], query) => Matches(table[id], query)
  BY <1>1, <1>4, MatchedByWallClock DEF Wanted, IsUtc
<1> DEFINE wanted == {id \in DOMAIN table: Wanted(table[id], query)}
<1>5. \A n \in DOMAIN ids:
        ids[n] \in DOMAIN table /\ MayBeWanted(table[ids[n]], query)
  <2>1. \A n \in DOMAIN ids: ids[n] \in Range(ids)
    BY DEF Range
  <2> QED
    BY <1>1, <1>4, <2>1, ListFacts
<1>6. ASSUME NEW m \in DOMAIN ids, NEW n \in DOMAIN ids, m < n
      PROVE  ids[m] # ids[n] /\ Moment(table[ids[m]]) >= Moment(table[ids[n]])
  <2>1. ids[m] # ids[n] /\ ~ListedBefore(table[ids[n]], table[ids[m]])
    BY <1>6, ListFacts
  <2> QED
    BY <1>1, <1>3, <2>1
<1>7. ASSUME NEW id \in wanted \ Range(ids)
      PROVE  /\ Len(ids) >= query.limit
             /\ \A n \in DOMAIN ids: Moment(table[ids[n]]) >= Moment(table[id])
  <2>1. /\ Len(ids) = query.limit
        /\ \A n \in DOMAIN ids: ~ListedBefore(table[id], table[ids[n]])
    BY <1>1, <1>4, ListFacts
  <2> QED
    BY <1>1, <1>3, <2>1
<1> QED
  BY <1>5, <1>6, <1>7 DEF IsLatest

-----------------------------------------------------------------------------
(* The type invariant.                                                     *)

(* A page of a list has its type.                                          *)
LEMMA PageType ==
    ASSUME NEW table \in Seq(DecisionRows), NEW query \in QueryType,
           NEW ids \in ListDecisions(table, query)
    PROVE  PageOf(table, query, ids) \in Pages
<1>1. ids \in Seq(1 .. Len(table)) /\ ids \in Seq(Nat)
  BY ListFacts
<1>2. \A n \in DOMAIN ids: ids[n] \in 1 .. Len(table)
  BY <1>1
<1>3. [n \in DOMAIN ids |-> table[ids[n]]] \in [1 .. Len(ids) -> DecisionRows]
  BY <1>1, <1>2
<1>4. [n \in DOMAIN ids |-> table[ids[n]]] \in Seq(DecisionRows)
  BY <1>1, <1>3
<1>5. Range(ids) \cap (1 .. durable) \in SUBSET Nat
  BY <1>1 DEF Range
<1> QED
  BY <1>1, <1>4, <1>5 DEF PageOf, Pages

(* The newest-first query is a query.                                      *)
LEMMA LatestType == Latest \in QueryType
BY DashboardAssumption DEF Latest, QueryType

(* The durable rows, as a table.                                           *)
LEMMA PrefixType ==
    ASSUME rows \in Seq(DecisionRows), durable \in 0 .. Len(rows)
    PROVE  /\ SubSeq(rows, 1, durable) \in Seq(DecisionRows)
           /\ Len(SubSeq(rows, 1, durable)) = durable
           /\ \A id \in 1 .. durable: SubSeq(rows, 1, durable)[id] = rows[id]
OBVIOUS

(* The initial states have their types.                                    *)
LEMMA DashboardInit == Init => TypeOK
<1> SUFFICES ASSUME Init PROVE TypeOK
  OBVIOUS
<1>1. rows \in Seq(DecisionRows) /\ durable \in 0 .. Len(rows)
  BY DEF Init, LogInit
<1>2. PhaseStoreTypeOK
  BY DEF Init, PhaseStoreInit, PhaseStoreTypeOK
<1>3. page \in Pages
  BY LatestType DEF Init, NoPage, Pages
<1>4. answer \in Answers
  BY DEF Init, NoAnswer, Answers
<1>5. /\ pc \in [Workers -> {"idle", "decide", "insert", "commit"}]
      /\ \A w \in Workers: pc[w] \notin {"insert", "commit"}
  BY DEF Init, AtRest
<1> QED
  BY <1>1, <1>2, <1>3, <1>4, <1>5 DEF Init, TypeOK, NoCookie

(* A request sets its answer and its count, no more.                       *)
LEMMA RequestType ==
    ASSUME TypeOK, NEW b \in Browsers,
           NEW kind \in {"login", "logout", "redirected", "done", "dashboard"},
           Request(b, kind)
    PROVE  answer' \in Answers /\ requests' \in Nat
BY DEF TypeOK, Request, logVars, Answers

(* Every step keeps the types.                                             *)
LEMMA DashboardTypeStep == TypeOK /\ [Next]_vars => TypeOK'
<1> SUFFICES ASSUME TypeOK, [Next]_vars PROVE TypeOK'
  OBVIOUS
<1>1. CASE UNCHANGED vars
  BY <1>1 DEF vars, TypeOK, PhaseStoreTypeOK
<1>2. CASE Tick
  BY <1>2 DEF Tick, TypeOK, logVars, phaseStoreVars, workVars, webVars,
              PhaseStoreTypeOK
<1>3. CASE Redeploy
  <2>1. rows' \in Seq(DecisionRows) /\ durable' \in 0 .. Len(rows')
    BY <1>3, PrefixType DEF Redeploy, LogCrash, TypeOK
  <2>2. PhaseStoreTypeOK'
    BY <1>3 DEF Redeploy, PhaseStoreCrash, PhaseStoreTypeOK, TypeOK
  <2>3. /\ pc' \in [Workers -> {"idle", "decide", "insert", "commit"}]
        /\ \A w \in Workers: pc'[w] \notin {"insert", "commit"}
    BY <1>3 DEF Redeploy, AtRest
  <2> QED
    BY <1>3, <2>1, <2>2, <2>3 DEF Redeploy, TypeOK, webVars
<1>4. ASSUME NEW w \in Workers, WorkerStep(w)
      PROVE  TypeOK'
  <2>1. CASE CycleFails(w)
    BY <1>4, <2>1 DEF CycleFails, WorkerRests, WorkerMoves, AtRest, TypeOK, logVars,
                phaseStoreVars, webVars, PhaseStoreTypeOK
  <2>2. CASE Decide(w)
    <3>1. PICK f \in Findings:
            decision' = [decision EXCEPT ![w] =
                [timestamp |-> Utc(now), instrument |-> f.instrument,
                 action |-> f.action, confidence |-> f.confidence]]
      BY <2>2 DEF Decide
    <3>2. f \in FindingType /\ Utc(now) \in UtcTimestamps
      BY DashboardAssumption DEF Utc, UtcTimestamps, TypeOK
    <3>3. /\ decision' \in [Workers -> DecisionRows \cup {NoDecisionYet}]
          /\ decision'[w] \in DecisionRows
          /\ \A v \in Workers \ {w}: decision'[v] = decision[v]
      BY <3>1, <3>2 DEF TypeOK, FindingType, DecisionRows
    <3> QED
      BY <1>4, <2>2, <3>3 DEF Decide, WorkerMoves, TypeOK, logVars, phaseStoreVars,
                        webVars, PhaseStoreTypeOK
  <2>3. CASE InsertRow(w)
    <3>1. rows' \in Seq(DecisionRows) /\ durable' \in 0 .. Len(rows')
      BY <1>4, <2>3 DEF InsertRow, WorkerMoves, LogInsert, TypeOK
    <3> QED
      BY <1>4, <2>3, <3>1 DEF InsertRow, WorkerMoves, TypeOK, phaseStoreVars, webVars,
                        PhaseStoreTypeOK
  <2>4. CASE CommitRow(w)
    <3>1. rows' \in Seq(DecisionRows) /\ durable' \in 0 .. Len(rows')
      BY <2>4 DEF CommitRow, LogCommit, TypeOK
    <3> QED
      BY <1>4, <2>4, <3>1 DEF CommitRow, WorkerRests, WorkerMoves, AtRest, TypeOK,
                        phaseStoreVars, webVars, PhaseStoreTypeOK
  <2>5. CASE CommitRowFails(w)
    <3>1. rows' \in Seq(DecisionRows) /\ durable' \in 0 .. Len(rows')
      BY <2>5, PrefixType DEF CommitRowFails, LogCommitFails, TypeOK
    <3> QED
      BY <1>4, <2>5, <3>1 DEF CommitRowFails, WorkerRests, WorkerMoves, AtRest, TypeOK,
                        phaseStoreVars, webVars, PhaseStoreTypeOK
  <2> QED
    BY <1>4, <2>1, <2>2, <2>3, <2>4, <2>5 DEF WorkerStep
<1>5. ASSUME NEW b \in Browsers, LoginStep(b)
      PROVE  TypeOK'
  <2>1. Second(now) \in Nat
    BY DivMod DEF TypeOK
  <2>2. ASSUME NEW candidate \in Words,
               LogsIn(b, candidate) \/ LoginRefused(b, candidate)
        PROVE  TypeOK'
    <3>1. answer' \in Answers /\ requests' \in Nat
      BY <2>2, RequestType DEF LogsIn, LoginRefused
    <3>2. Configured => Session \in Tokens
      BY <2>1, DashboardAssumption DEF Configured, Session, Tokens, TypeOK, ConfigType
    <3>3. entered' \in [Browsers -> Tokens \cup {NoCookie}]
      BY <2>2, <3>2 DEF LogsIn, LoginRefused, Enters, Session, TypeOK
    <3>4. cookies' \in [Browsers -> Tokens \cup {NoCookie}]
      BY <2>2, <3>2 DEF LogsIn, LoginRefused, TypeOK
    <3> QED
      BY <2>2, <3>1, <3>3, <3>4 DEF LogsIn, LoginRefused, Request, TypeOK, logVars,
            workVars, phaseStoreVars, PhaseStoreTypeOK
  <2>3. CASE Logout(b)
    <3>1. answer' \in Answers /\ requests' \in Nat
      BY <2>3, RequestType DEF Logout
    <3> QED
      BY <2>3, <3>1 DEF Logout, Request, TypeOK, logVars, workVars, phaseStoreVars,
            PhaseStoreTypeOK
  <2> QED
    BY <1>5, <2>2, <2>3 DEF LoginStep
<1>6. ASSUME NEW b \in Browsers, RouteStep(b)
      PROVE  TypeOK'
  <2>1. /\ answer' \in Answers /\ requests' \in Nat
        /\ UNCHANGED <<rows, durable, now, config, boots, cookies, entered>>
    <3>1. \E kind \in {"redirected", "done", "dashboard"}: Request(b, kind)
      BY <1>6 DEF RouteStep, SentToLogin, ShowsDashboard, RunsNothing, PhaseForm,
                  ChangesPhase, IgnoresPhase, ChangeFails, RunsNow, Serves
    <3>2. UNCHANGED <<cookies, entered>>
      BY <1>6 DEF RouteStep, SentToLogin, ShowsDashboard, RunsNothing, PhaseForm,
                  ChangesPhase, IgnoresPhase, ChangeFails, RunsNow, Serves
    <3> QED
      BY <3>1, <3>2, RequestType DEF Request, logVars
  <2>2. CASE SentToLogin(b) \/ RunsNothing(b)
    BY <2>1, <2>2 DEF SentToLogin, RunsNothing, TypeOK, workVars, phaseStoreVars,
            PhaseStoreTypeOK
  <2>3. CASE ShowsDashboard(b)
    <3>1. page' \in Pages
      BY <2>3, PageType, LatestType DEF ShowsDashboard, TypeOK
    <3> QED
      BY <2>1, <2>3, <3>1 DEF ShowsDashboard, TypeOK, workVars, phaseStoreVars,
            PhaseStoreTypeOK
  <2>4. ASSUME NEW phase \in FormPhases, PhaseForm(b, phase)
        PROVE  TypeOK'
    <3>1. PhaseStoreTypeOK' /\ UNCHANGED <<pc, decision, page>>
      BY <2>4 DEF PhaseForm, ChangesPhase, IgnoresPhase, ChangeFails, TypeOK,
            PhaseStoreTypeOK, phaseStoreVars, workVars
    <3> QED
      BY <2>1, <3>1 DEF TypeOK
  <2>5. ASSUME NEW w \in RunNowThreads, RunsNow(b, w)
        PROVE  TypeOK'
    BY <2>1, <2>5 DEF RunsNow, TypeOK, Workers, phaseStoreVars, PhaseStoreTypeOK
  <2> QED
    BY <1>6, <2>2, <2>3, <2>4, <2>5 DEF RouteStep
<1>7. ASSUME NEW query \in Queries, Review(query)
      PROVE  TypeOK'
  <2>1. page' \in Pages
    <3>1. PICK ids \in ListDecisions(Committed, query):
            page' = PageOf(rows, query, ids)
      BY <1>7 DEF Review
    <3>2. query \in QueryType
      BY DashboardAssumption
    <3>3. /\ Committed \in Seq(DecisionRows) /\ Len(Committed) = durable
          /\ \A id \in 1 .. durable: Committed[id] = rows[id]
      BY PrefixType DEF Committed, TypeOK
    <3>4. ids \in Seq(1 .. durable)
      BY <3>2, <3>3, ListFacts
    <3>5. PageOf(rows, query, ids) = PageOf(Committed, query, ids)
      <4>1. \A n \in DOMAIN ids: Committed[ids[n]] = rows[ids[n]]
        BY <3>3, <3>4
      <4>2. [n \in DOMAIN ids |-> Committed[ids[n]]] = [n \in DOMAIN ids |-> rows[ids[n]]]
        BY <4>1
      <4> QED
        BY <4>2 DEF PageOf
    <3> QED
      BY <3>1, <3>2, <3>3, <3>5, PageType
  <2>2. answer' \in Answers /\ requests' \in Nat
    BY <1>7 DEF Review, Answers, TypeOK
  <2> QED
    BY <1>7, <2>1, <2>2 DEF Review, TypeOK, logVars, phaseStoreVars, workVars,
          PhaseStoreTypeOK
<1> QED
  BY <1>1, <1>2, <1>3, <1>4, <1>5, <1>6, <1>7 DEF Next

(* Everything is of its type; in particular no row is ever counted as      *)
(* committed that is not there.                                            *)
THEOREM DashboardTypeCorrect == Spec => []TypeOK
BY DashboardInit, DashboardTypeStep, PTL DEF Spec

-----------------------------------------------------------------------------
(* Who is served.                                                          *)

(* A cookie is that of the last login with the right password, and it is   *)
(* not from the future.                                                    *)
CookieInv ==
    /\ cookies = entered
    /\ \A b \in Browsers: cookies[b].at <= Second(now)

(* Seconds do not go back.                                                 *)
LEMMA SecondsGoOn ==
    ASSUME NEW m \in Nat
    PROVE  Second(m) <= Second(m + 1)
<1>1. m + 1 \in Nat /\ m < m + 1
  OBVIOUS
<1>2. Second(m) \in Nat /\ Second(m + 1) \in Nat
  BY <1>1, DivMod
<1> QED
  BY <1>1, <1>2, MomentsBySeconds

(* No browser has a cookie at the start.                                   *)
LEMMA CookieInit == Init => CookieInv
<1> SUFFICES ASSUME Init PROVE CookieInv
  OBVIOUS
<1>1. now \in Nat
  BY DEF Init
<1>2. Second(now) \in Nat
  BY <1>1, DivMod
<1> QED
  BY <1>2 DEF Init, CookieInv, NoCookie

(* Every step keeps the cookie invariant.                                  *)
LEMMA CookieStep == TypeOK /\ CookieInv /\ [Next]_vars => CookieInv'
<1> SUFFICES ASSUME TypeOK, CookieInv, [Next]_vars PROVE CookieInv'
  OBVIOUS
<1>1. Second(now) \in Nat
  BY DivMod DEF TypeOK
<1>2. CASE Tick
  <2>1. /\ now \in Nat /\ now' = now + 1 /\ UNCHANGED <<cookies, entered>>
        /\ \A b \in Browsers: cookies[b].at \in Nat
    BY <1>2 DEF Tick, TypeOK, webVars, Tokens, NoCookie
  <2>2. Second(now) <= Second(now') /\ Second(now') \in Nat
    BY <2>1, SecondsGoOn, DivMod
  <2> QED
    BY <1>1, <2>1, <2>2 DEF CookieInv
<1>3. CASE UNCHANGED <<now, cookies, entered>>
  BY <1>3 DEF CookieInv, Second
<1>4. ASSUME NEW b \in Browsers, LoginStep(b)
      PROVE  CookieInv'
  <2>1. ASSUME NEW candidate \in Words, LogsIn(b, candidate)
        PROVE  CookieInv'
    <3>1. /\ cookies' = [cookies EXCEPT ![b] = Session]
          /\ entered' = [entered EXCEPT ![b] = Session]
          /\ now' = now
      BY <2>1 DEF LogsIn, Enters, CheckPassword, Session, Request
    <3> QED
      BY <1>1, <3>1 DEF CookieInv, Session, Second, TypeOK
  <2>2. ASSUME NEW candidate \in Words, LoginRefused(b, candidate)
        PROVE  CookieInv'
    <3>1. UNCHANGED <<now, cookies, entered>>
      BY <2>2 DEF LoginRefused, Enters, CheckPassword, Request
    <3> QED
      BY <1>3, <3>1
  <2>3. CASE Logout(b)
    <3>1. /\ cookies' = [cookies EXCEPT ![b] = NoCookie]
          /\ entered' = [entered EXCEPT ![b] = NoCookie]
          /\ now' = now
      BY <2>3 DEF Logout, Request
    <3> QED
      BY <1>1, <3>1 DEF CookieInv, NoCookie, Second, TypeOK
  <2> QED
    BY <1>4, <2>1, <2>2, <2>3 DEF LoginStep
<1>5. CASE Redeploy \/ UNCHANGED vars
  BY <1>3, <1>5 DEF Redeploy, webVars, vars
<1>6. ASSUME NEW w \in Workers, WorkerStep(w)
      PROVE  CookieInv'
  BY <1>3, <1>6 DEF WorkerStep, CycleFails, Decide, InsertRow, CommitRow, CommitRowFails,
        WorkerRests, WorkerMoves, webVars
<1>7. ASSUME NEW b \in Browsers, RouteStep(b)
      PROVE  CookieInv'
  BY <1>3, <1>7 DEF RouteStep, SentToLogin, ShowsDashboard, RunsNothing, PhaseForm,
        ChangesPhase, IgnoresPhase, ChangeFails, RunsNow, Serves, Request
<1>8. ASSUME NEW query \in Queries, Review(query)
      PROVE  CookieInv'
  BY <1>3, <1>8 DEF Review
<1> QED
  BY <1>2, <1>4, <1>5, <1>6, <1>7, <1>8 DEF Next

(* A valid cookie and an open session are the same thing.                  *)
LEMMA AuthenticatedIsEntered ==
    ASSUME TypeOK, CookieInv, NEW b \in Browsers
    PROVE  IsAuthenticated(b) <=> HasSession(b)
<1>1. /\ cookies[b] \in Tokens \cup {NoCookie} /\ cookies[b] = entered[b]
      /\ cookies[b].at <= Second(now)
  BY DEF TypeOK, CookieInv
<1>2. cookies[b] # NoCookie => cookies[b].key # None
  BY <1>1, DashboardAssumption DEF Tokens
<1> QED
  BY <1>1, <1>2 DEF IsAuthenticated, HasSession, Loads

(* Every step obeys the rule of access.                                    *)
LEMMA AccessNext ==
    ASSUME TypeOK, CookieInv, [Next]_vars
    PROVE  AccessStep
<1>1. requests \in Nat /\ requests + 1 # requests
  BY DEF TypeOK
<1>2. pc \in [Workers -> {"idle", "decide", "insert", "commit"}]
  BY DEF TypeOK
<1>3. ASSUME ~Requested, savedOverride' = savedOverride,
             \A w \in RunNowThreads: ~RunNowBegins(w)
      PROVE  AccessStep
  BY <1>3 DEF AccessStep
<1>4. CASE Tick \/ UNCHANGED vars
  <2>1. UNCHANGED <<requests, savedOverride, pc>>
    BY <1>4 DEF Tick, webVars, phaseStoreVars, workVars, vars
  <2> QED
    BY <1>3, <2>1 DEF Requested, RunNowBegins
<1>5. CASE Redeploy
  <2>1. UNCHANGED <<requests, savedOverride>>
    BY <1>5 DEF Redeploy, PhaseStoreCrash, webVars
  <2>2. \A w \in RunNowThreads: pc'[w] = "idle"
    BY <1>5, DashboardAssumption DEF Redeploy, AtRest, Workers
  <2> QED
    BY <1>3, <2>1, <2>2 DEF Requested, RunNowBegins
<1>6. ASSUME NEW w \in Workers, WorkerStep(w)
      PROVE  AccessStep
  <2>1. UNCHANGED <<requests, savedOverride>>
    BY <1>6 DEF WorkerStep, CycleFails, Decide, InsertRow, CommitRow,
          CommitRowFails, WorkerRests, WorkerMoves, webVars, phaseStoreVars
  <2>2. \A v \in RunNowThreads: ~RunNowBegins(v)
    BY <1>2, <1>6, DashboardAssumption DEF WorkerStep, CycleFails, Decide, InsertRow,
          CommitRow, CommitRowFails, WorkerRests, WorkerMoves, AtRest, RunNowBegins,
          Workers
  <2> QED
    BY <1>3, <2>1, <2>2 DEF Requested
<1>7. ASSUME NEW b \in Browsers, LoginStep(b)
      PROVE  AccessStep
  <2>1. /\ answer'.is \in {"login", "logout"}
        /\ UNCHANGED <<savedOverride, pc>>
    BY <1>7 DEF LoginStep, LogsIn, LoginRefused, Logout, Request, phaseStoreVars, workVars
  <2> QED
    BY <2>1 DEF AccessStep, Served, RunNowBegins
<1>8. ASSUME NEW b \in Browsers, RouteStep(b)
      PROVE  AccessStep
  <2>1. IsAuthenticated(b) <=> HasSession(b)
    BY AuthenticatedIsEntered
  <2>2. CASE SentToLogin(b)
    <3>1. /\ answer' = [is |-> "redirected", to |-> b] /\ ~IsAuthenticated(b)
          /\ UNCHANGED <<savedOverride, pc>>
      BY <2>2 DEF SentToLogin, Request, phaseStoreVars, workVars
    <3> QED
      BY <2>1, <3>1 DEF AccessStep, Served, RunNowBegins
  <2>3. CASE ~SentToLogin(b)
    <3>1. PICK kind \in Served: Serves(b, kind)
      BY <1>8, <2>3 DEF RouteStep, ShowsDashboard, RunsNothing, PhaseForm,
            ChangesPhase, IgnoresPhase, ChangeFails, RunsNow, Served
    <3>2. /\ answer'.is = kind /\ answer'.to = b /\ requests' = requests + 1
          /\ IsAuthenticated(b)
      BY <3>1 DEF Serves, Request
    <3>3. kind # "redirected"
      BY <3>1 DEF Served
    <3> QED
      BY <1>1, <2>1, <3>1, <3>2, <3>3 DEF AccessStep, Requested
  <2> QED
    BY <2>2, <2>3
<1>9. ASSUME NEW query \in Queries, Review(query)
      PROVE  AccessStep
  <2>1. /\ answer'.is = "review" /\ UNCHANGED <<savedOverride, pc>>
    BY <1>9 DEF Review, phaseStoreVars, workVars
  <2> QED
    BY <2>1 DEF AccessStep, Served, RunNowBegins
<1> QED
  BY <1>4, <1>5, <1>6, <1>7, <1>8, <1>9 DEF Next

(* The dashboard, /phase and /run-now serve exactly those who have entered *)
(* the right password within the life of a session under the key of this   *)
(* process, whatever was entered, redeployed and logged out in between,    *)
(* and only what they serve changes the phase or starts a cycle.           *)
THEOREM SessionsAlwaysDecide == Spec => SessionsDecideAccess
<1>1. Spec => [](TypeOK /\ CookieInv)
  BY DashboardInit, DashboardTypeStep, CookieInit, CookieStep, PTL DEF Spec
<1>2. TypeOK /\ CookieInv /\ [Next]_vars => [AccessStep]_vars
  BY AccessNext
<1> QED
  BY <1>1, <1>2, PTL DEF Spec, SessionsDecideAccess

-----------------------------------------------------------------------------
(* What is listed.                                                         *)

(* The rows a request sees.                                                *)
LEMMA SeenType ==
    ASSUME TypeOK
    PROVE  /\ Seen \in Seq(DecisionRows) /\ durable \in 0 .. Len(Seen)
           /\ Len(Seen) <= Len(rows)
           /\ \A id \in 1 .. Len(Seen): Seen[id] = rows[id]
<1>1. /\ Committed \in Seq(DecisionRows) /\ Len(Committed) = durable
      /\ \A id \in 1 .. durable: Committed[id] = rows[id]
  BY PrefixType DEF Committed, TypeOK
<1>2. rows \in Seq(DecisionRows) /\ durable \in 0 .. Len(rows)
  BY DEF TypeOK
<1> QED
  BY <1>1, <1>2 DEF Seen

(* A page with a list shows what a query found.                            *)
LEMMA OnlyListsAreListed ==
    ASSUME TypeOK, [Next]_vars, Listed
    PROVE  \E query \in QueryType: \E ids \in ListDecisions(Seen, query):
                page' = PageOf(rows, query, ids)
<1>1. requests \in Nat /\ requests + 1 # requests
  BY DEF TypeOK
<1>2. requests' # requests /\ answer'.is \in {"dashboard", "review"}
  BY DEF Listed, Requested
<1>3. CASE \E query \in Queries: Review(query)
  <2>1. PICK query \in Queries: Review(query)
    BY <1>3
  <2>2. /\ query \in QueryType /\ answer'.is = "review"
        /\ \E ids \in ListDecisions(Committed, query): page' = PageOf(rows, query, ids)
    BY <2>1, DashboardAssumption DEF Review
  <2> QED
    BY <2>2 DEF Seen
<1>4. CASE \E b \in Browsers: ShowsDashboard(b)
  <2>1. PICK b \in Browsers: ShowsDashboard(b)
    BY <1>4
  <2>2. /\ answer'.is = "dashboard"
        /\ \E ids \in ListDecisions(rows, Latest): page' = PageOf(rows, Latest, ids)
    BY <2>1 DEF ShowsDashboard, Serves, Request
  <2> QED
    BY <2>2, LatestType DEF Seen
<1>5. ASSUME NEW b \in Browsers, LoginStep(b) \/ RouteStep(b), ~ShowsDashboard(b)
      PROVE  FALSE
  <2>1. \E kind \in {"login", "logout", "redirected", "done"}: Request(b, kind)
    BY <1>5 DEF LoginStep, LogsIn, LoginRefused, Logout, RouteStep, SentToLogin,
          RunsNothing, PhaseForm, ChangesPhase, IgnoresPhase, ChangeFails, RunsNow, Serves
  <2> QED
    BY <1>2, <2>1 DEF Request
<1>6. ~(Tick \/ Redeploy \/ UNCHANGED vars)
  BY <1>2 DEF Tick, Redeploy, vars, webVars
<1>7. ~\E w \in Workers: WorkerStep(w)
  BY <1>2 DEF WorkerStep, CycleFails, Decide, InsertRow, CommitRow,
        CommitRowFails, WorkerRests, WorkerMoves, webVars
<1> QED
  BY <1>3, <1>4, <1>5, <1>6, <1>7 DEF Next

(* Every list anybody is given holds the newest matching decisions that    *)
(* its reader's connection sees, the newest first by their moments, though *)
(* sqlite compares the text of timestamps and decisions are not recorded   *)
(* in the order they were made.  The interval is that of the bounds' wall  *)
(* clocks: for bounds in UTC, and no others, that of their moments.        *)
THEOREM AnswersAreAlwaysTheLatest == Spec => AnswersAreTheLatest
<1>1. ASSUME TypeOK, [Next]_vars, Listed
      PROVE  IsLatest(Seen, page'.query, page'.ids)
  <2>0. PICK query \in QueryType: \E ids \in ListDecisions(Seen, query):
            page' = PageOf(rows, query, ids)
    BY <1>1, OnlyListsAreListed
  <2>1. PICK ids \in ListDecisions(Seen, query): page' = PageOf(rows, query, ids)
    BY <2>0
  <2>2. IsLatest(Seen, query, ids)
    BY <1>1, SeenType, ListIsLatest
  <2> QED
    BY <2>1, <2>2 DEF PageOf
<1>2. TypeOK /\ [Next]_vars => [Listed => IsLatest(Seen, page'.query, page'.ids)]_vars
  BY <1>1
<1> QED
  BY <1>2, DashboardTypeCorrect, PTL DEF Spec, AnswersAreTheLatest

-----------------------------------------------------------------------------
(* What has been listed.                                                   *)

(* The committed decisions of the last list are still in the table.        *)
PageInv ==
    /\ Len(page.rows) = Len(page.ids)
    /\ page.committed \subseteq 1 .. durable
    /\ \A n \in DOMAIN page.ids:
        page.ids[n] \in page.committed => page.rows[n] = rows[page.ids[n]]

(* The first page shows nothing.                                           *)
LEMMA PageInit == Init => PageInv
BY DEF Init, NoPage, PageInv, LogInit

(* No step takes a committed row away or changes it.                       *)
LEMMA CommittedRowsStay ==
    ASSUME TypeOK, [Next]_vars
    PROVE  /\ durable \in Nat /\ durable' \in Nat /\ durable' >= durable
           /\ \A id \in 1 .. durable: rows'[id] = rows[id]
<1>1. rows \in Seq(DecisionRows) /\ durable \in 0 .. Len(rows)
  BY DEF TypeOK
<1>2. CASE UNCHANGED <<rows, durable>>
  BY <1>1, <1>2
<1>3. CASE Redeploy
  BY <1>1, <1>3, PrefixType DEF Redeploy, LogCrash
<1>4. ASSUME NEW w \in Workers, WorkerStep(w)
      PROVE  /\ durable \in Nat /\ durable' \in Nat /\ durable' >= durable
             /\ \A id \in 1 .. durable: rows'[id] = rows[id]
  <2>1. CASE CycleFails(w) \/ Decide(w)
    BY <1>2, <2>1 DEF CycleFails, Decide, logVars
  <2>2. CASE InsertRow(w)
    BY <1>1, <2>2 DEF InsertRow, LogInsert
  <2>3. CASE CommitRow(w)
    BY <1>1, <2>3 DEF CommitRow, LogCommit
  <2>4. CASE CommitRowFails(w)
    BY <1>1, <2>4, PrefixType DEF CommitRowFails, LogCommitFails
  <2> QED
    BY <1>4, <2>1, <2>2, <2>3, <2>4 DEF WorkerStep
<1>5. ASSUME NEW b \in Browsers, LoginStep(b) \/ RouteStep(b)
      PROVE  UNCHANGED <<rows, durable>>
  BY <1>5 DEF LoginStep, LogsIn, LoginRefused, Logout, RouteStep, SentToLogin,
        ShowsDashboard, RunsNothing, PhaseForm, ChangesPhase, IgnoresPhase,
        ChangeFails, RunsNow, Serves, Request, logVars
<1>6. ASSUME NEW query \in Queries, Review(query)
      PROVE  UNCHANGED <<rows, durable>>
  BY <1>6 DEF Review, logVars
<1>7. Tick \/ UNCHANGED vars => UNCHANGED <<rows, durable>>
  BY DEF Tick, vars, logVars
<1> QED
  BY <1>2, <1>3, <1>4, <1>5, <1>6, <1>7 DEF Next

(* A step that changes the page is a list request.                         *)
LEMMA PageOrListed ==
    ASSUME TypeOK, [Next]_vars
    PROVE  UNCHANGED page \/ (Listed /\ UNCHANGED <<rows, durable>>)
<1>1. requests \in Nat /\ requests + 1 # requests
  BY DEF TypeOK
<1>2. CASE Tick \/ Redeploy \/ UNCHANGED vars
  BY <1>2 DEF Tick, Redeploy, vars
<1>3. ASSUME NEW w \in Workers, WorkerStep(w)
      PROVE  UNCHANGED page
  BY <1>3 DEF WorkerStep, CycleFails, Decide, InsertRow, CommitRow,
        CommitRowFails, WorkerRests, WorkerMoves
<1>4. ASSUME NEW b \in Browsers, ShowsDashboard(b)
      PROVE  Listed /\ UNCHANGED <<rows, durable>>
  BY <1>1, <1>4 DEF ShowsDashboard, Serves, Request, Listed, Requested, logVars
<1>5. ASSUME NEW b \in Browsers, LoginStep(b) \/ RouteStep(b), ~ShowsDashboard(b)
      PROVE  UNCHANGED page
  BY <1>5 DEF LoginStep, LogsIn, LoginRefused, Logout, RouteStep, SentToLogin,
        RunsNothing, PhaseForm, ChangesPhase, IgnoresPhase, ChangeFails, RunsNow
<1>6. ASSUME NEW query \in Queries, Review(query)
      PROVE  Listed /\ UNCHANGED <<rows, durable>>
  BY <1>1, <1>6 DEF Review, Listed, Requested, logVars
<1> QED
  BY <1>2, <1>3, <1>4, <1>5, <1>6 DEF Next

(* Every step keeps the page invariant.                                    *)
LEMMA PageNext == TypeOK /\ PageInv /\ [Next]_vars => PageInv'
<1> SUFFICES ASSUME TypeOK, PageInv, [Next]_vars PROVE PageInv'
  OBVIOUS
<1>1. CASE UNCHANGED page
  BY <1>1, CommittedRowsStay DEF PageInv
<1>2. CASE Listed /\ UNCHANGED <<rows, durable>>
  <2>1. PICK query \in QueryType: \E ids \in ListDecisions(Seen, query):
            page' = PageOf(rows, query, ids)
    BY <1>2, OnlyListsAreListed
  <2>2. PICK ids \in ListDecisions(Seen, query): page' = PageOf(rows, query, ids)
    BY <2>1
  <2>3. ids \in Seq(1 .. Len(Seen))
    BY <2>2, SeenType, ListFacts
  <2>4. Len([n \in DOMAIN ids |-> rows[ids[n]]]) = Len(ids)
    BY <2>3
  <2>5. /\ page'.ids = ids /\ page'.rows = [n \in DOMAIN ids |-> rows[ids[n]]]
        /\ page'.committed \subseteq 1 .. durable
    BY <2>2 DEF PageOf
  <2> QED
    BY <1>2, <2>4, <2>5 DEF PageInv
<1> QED
  BY <1>1, <1>2, PageOrListed

(* A committed decision that anybody has been shown is in the next list    *)
(* that asks for it, unchanged, or as many as were asked for are as new:   *)
(* no failing commit, crash or new process takes it back.                  *)
THEOREM ShownDecisionsAlwaysStay == Spec => ShownDecisionsStay
<1>1. ASSUME TypeOK, PageInv, [Next]_vars, Listed, NEW n \in DOMAIN page.ids,
             page.ids[n] \in page.committed, Wanted(page.rows[n], page'.query)
      PROVE  IsStillThere(n) \/ IsCrowdedOut(n)
  <2> DEFINE id == page.ids[n]
  <2>1. PICK query \in QueryType: \E ids \in ListDecisions(Seen, query):
            page' = PageOf(rows, query, ids)
    BY <1>1, OnlyListsAreListed
  <2>2. PICK ids \in ListDecisions(Seen, query): page' = PageOf(rows, query, ids)
    BY <2>1
  <2>3. /\ page'.query = query /\ page'.ids = ids
        /\ page'.rows = [m \in DOMAIN ids |-> rows[ids[m]]]
    BY <2>2 DEF PageOf
  <2>4. /\ Seen \in Seq(DecisionRows) /\ durable \in 0 .. Len(Seen)
        /\ \A k \in 1 .. Len(Seen): Seen[k] = rows[k]
    BY <1>1, SeenType
  <2>5. /\ ids \in Seq(1 .. Len(Seen)) /\ Len(ids) <= query.limit
        /\ query.limit \in Nat
    BY <2>4, ListFacts DEF QueryType
  <2>6. id \in 1 .. Len(Seen) /\ page.rows[n] = Seen[id]
    <3>1. id \in 1 .. durable /\ page.rows[n] = rows[id]
      BY <1>1 DEF PageInv
    <3> QED
      BY <2>4, <3>1
  <2>7. CASE id \in Range(ids)
    <3>1. PICK m \in DOMAIN ids: ids[m] = id
      BY <2>7 DEF Range
    <3> QED
      BY <2>3, <2>4, <2>6, <3>1 DEF IsStillThere
  <2>8. CASE id \notin Range(ids)
    <3>1. IsLatest(Seen, query, ids)
      BY <2>4, ListIsLatest
    <3>2. /\ Len(ids) >= query.limit
          /\ \A m \in DOMAIN ids: Moment(Seen[ids[m]]) >= Moment(Seen[id])
      BY <1>1, <2>3, <2>4, <2>6, <2>8, <3>1 DEF IsLatest
    <3>3. \A m \in DOMAIN ids: page'.rows[m] = Seen[ids[m]]
      BY <2>3, <2>4, <2>5
    <3> QED
      BY <2>3, <2>5, <2>6, <3>2, <3>3 DEF IsCrowdedOut
  <2> QED
    BY <2>7, <2>8
<1>2. TypeOK /\ PageInv /\ [Next]_vars
        => [ Listed =>
              \A n \in DOMAIN page.ids:
                page.ids[n] \in page.committed /\ Wanted(page.rows[n], page'.query) =>
                  IsStillThere(n) \/ IsCrowdedOut(n) ]_vars
  BY <1>1
<1>3. Spec => []PageInv
  BY PageInit, PageNext, DashboardTypeCorrect, PTL DEF Spec
<1> QED
  BY <1>2, <1>3, DashboardTypeCorrect, PTL DEF Spec, ShownDecisionsStay
=============================================================================

---------------------------- MODULE DecisionQuery ----------------------------
(***************************************************************************)
(* logging/query.py: what a reader of the audit trail is given.  Both the  *)
(* interval and the order of list_decisions are those of the TEXT of the   *)
(* timestamps, datetime.isoformat(), which shows the wall clock, leaves    *)
(* the microseconds out when they are zero, and ends in the UTC offset, or *)
(* in nothing when the datetime is naive.                                  *)
(***************************************************************************)
EXTENDS Integers, Sequences, Functions

CONSTANTS
    MicrosPerSecond,  \* a million; two leave the comparisons as they are
    None              \* Python's None, and SQL's NULL

ASSUME MicrosAssumption == MicrosPerSecond \in Nat \ {0, 1}

(* A datetime is the microsecond its wall clock shows and the UTC offset   *)
(* of that clock, in seconds; a naive one has none, and is given zero.     *)
Timestamps == {t \in [wall: Nat, offset: Int, naive: BOOLEAN]:
                  t.naive => t.offset = 0}

(* datetime.now(timezone.utc), which is what a decision is stamped with.   *)
UtcTimestamps == [wall: Nat, offset: {0}, naive: {FALSE}]

(* Mutant: datetime.now() without its timezone.                            *)
MutantUtc(moment) == [wall |-> moment, offset |-> 0, naive |-> TRUE]

Utc(moment) == [wall |-> moment, offset |-> 0, naive |-> FALSE]

Second(wall) == wall \div MicrosPerSecond
Micro(wall) == wall % MicrosPerSecond

(* The codes of the characters that tell two texts apart after the second. *)
EndOfText == 0
PlusSign == 43
MinusSign == 45
FullStop == 46

Sign(t) == IF t.naive THEN EndOfText
           ELSE IF t.offset < 0 THEN MinusSign ELSE PlusSign

(* The digits of an offset, whose order is that of its size.               *)
Size(offset) == IF offset < 0 THEN -offset ELSE offset

(* t.isoformat(), as the parts in the order in which they are compared.    *)
IsoFormat(t) ==
    <<Second(t.wall),
      IF Micro(t.wall) = 0 THEN Sign(t) ELSE FullStop,
      Micro(t.wall), Sign(t), Size(t.offset)>>

(* sqlite's text order: the first difference decides.                      *)
TextBefore(a, b) ==
    \E n \in 1 .. 5: a[n] < b[n] /\ \A m \in 1 .. n - 1: a[m] = b[m]

Before(s, t) == TextBefore(IsoFormat(s), IsoFormat(t))

-----------------------------------------------------------------------------
(* A comparison with a NULL confidence is not true.                        *)
AtLeast(confidence, bound) == confidence # None /\ confidence >= bound

Matches(d, query) ==
    /\ query.instrument # None => d.instrument = query.instrument
    /\ query.action # None => d.action = query.action
    /\ query.since # None => ~Before(d.timestamp, query.since)
    /\ query.until # None => ~Before(query.until, d.timestamp)
    /\ query.min_confidence # None => AtLeast(d.confidence, query.min_confidence)

(* Mutant: the oldest first.                                               *)
MutantListedBefore(d, e) == Before(d.timestamp, e.timestamp)

(* ORDER BY timestamp DESC                                                 *)
ListedBefore(d, e) == Before(e.timestamp, d.timestamp)

(* The lists of row ids a query may be answered with: SQL leaves the order *)
(* of equal timestamps, and with it the choice of those LIMIT cuts, open.  *)
ListDecisions(table, query) ==
    LET matching == {id \in DOMAIN table: Matches(table[id], query)}
    IN  {ids \in UNION {Injection(1 .. n, matching): n \in 0 .. query.limit}:
            /\ \A m, n \in DOMAIN ids:
                m < n => ~ListedBefore(table[ids[n]], table[ids[m]])
            /\ \A id \in matching \ Range(ids):
                /\ Len(ids) = query.limit
                /\ \A n \in DOMAIN ids: ~ListedBefore(table[id], table[ids[n]])}
=============================================================================

----------------------------- MODULE MCDashboard -----------------------------
(***************************************************************************)
(* A small instance of Dashboard for TLC.                                  *)
(***************************************************************************)
EXTENDS DashboardProperties, TLC

CONSTANTS eur, noname, loop, now1, b1, none, right, wrong, unicode, k1, k2

Environment(password, key, credentials) ==
    [password |-> password, key |-> key, credentials |-> credentials]

(* Two deployments that work, one of them without a scheduler, and one     *)
(* without a key and with a password compare_digest does not take.         *)
MCConfigs == {Environment(right, k1, TRUE), Environment(right, k2, FALSE),
              Environment(unicode, none, TRUE)}

(* Only an enter has a confidence.                                         *)
MCFindings == {[instrument |-> eur, action |-> "enter", confidence |-> 1],
               [instrument |-> eur, action |-> "hold", confidence |-> none]}

Query(action, since, until, bound) ==
    [instrument |-> eur, action |-> action, since |-> since, until |-> until,
     min_confidence |-> bound, limit |-> 2]

Naive(wall) == [wall |-> wall, offset |-> 0, naive |-> TRUE]

(* A clock that is a second, two microseconds, ahead of UTC.               *)
Ahead(wall) == [wall |-> wall, offset |-> 1, naive |-> FALSE]

(* An interval in UTC, and one that begins in another zone and whose end   *)
(* has none.                                                               *)
MCQueries ==
    {Query(none, Utc(1), Utc(2), none), Query("enter", Ahead(1), Naive(3), 1)}
=============================================================================

------------------------- MODULE DashboardProperties -------------------------
(***************************************************************************)
(* What the dashboard must guarantee to who may see it, and to who reads   *)
(* the audit trail.                                                        *)
(***************************************************************************)
EXTENDS Dashboard

Served == {"dashboard", "done"}

(* Whoever sits at b has entered the right password, not longer ago than a *)
(* session lasts, in a process that signed with the key of this one, and   *)
(* has not logged out since.                                               *)
HasSession(b) ==
    /\ entered[b] # NoCookie
    /\ entered[b].key = config.key
    /\ Second(now) - entered[b].at <= SessionMaxAge

Requested == requests' # requests

RunNowBegins(w) == pc[w] = "idle" /\ pc'[w] = "decide"

AccessStep ==
    /\ Requested /\ answer'.is \in Served => HasSession(answer'.to)
    /\ Requested /\ answer'.is = "redirected" => ~HasSession(answer'.to)
    /\ \/ savedOverride' # savedOverride
       \/ \E w \in RunNowThreads: RunNowBegins(w)
       => Requested /\ answer'.is \in Served

(* A protected route serves exactly those who have a session, over wrong   *)
(* passwords, logins of other browsers and processes with other keys; and  *)
(* only a served request changes the phase or starts a cycle.              *)
SessionsDecideAccess == [][AccessStep]_vars

-----------------------------------------------------------------------------
Listed == Requested /\ answer'.is \in {"dashboard", "review"}

(* The rows the reader's connection sees.                                  *)
Seen == IF answer'.is = "dashboard" THEN rows ELSE Committed

(* The rows carry UTC: their wall clock is their moment.                   *)
Moment(d) == d.timestamp.wall

IsUtc(bound) == bound.offset = 0 /\ ~bound.naive

(* The moment an aware bound stands for.                                   *)
MomentOf(bound) == bound.wall - bound.offset * MicrosPerSecond

(* What a query may be answered with, the wall clock of its bounds read as *)
(* UTC whatever their zone; and what it is answered with for certain, for  *)
(* which only a bound in UTC belongs to the interval itself.               *)
MayBeWanted(d, query) ==
    /\ query.since # None => Moment(d) >= query.since.wall
    /\ query.until # None => Moment(d) <= query.until.wall
    /\ query.instrument \in {None, d.instrument}
    /\ query.action \in {None, d.action}
    /\ query.min_confidence # None =>
        d.confidence # None /\ d.confidence >= query.min_confidence

Wanted(d, query) ==
    /\ MayBeWanted(d, query)
    /\ \A bound \in {query.since, query.until} \ {None}:
        Moment(d) = bound.wall => IsUtc(bound)

(* A list holds the newest decisions that were asked for, the newest       *)
(* first, by the moments they were made at: whatever order they were       *)
(* recorded in, and although the interval and the order are those of the   *)
(* timestamps' text.  The interval is that of the wall clocks of its       *)
(* bounds: of the moments they stand for only if they are in UTC.          *)
IsLatest(table, query, ids) ==
    LET wanted == {id \in DOMAIN table: Wanted(table[id], query)}
    IN  /\ \A n \in DOMAIN ids:
            ids[n] \in DOMAIN table /\ MayBeWanted(table[ids[n]], query)
        /\ \A m, n \in DOMAIN ids:
            m < n => /\ ids[m] # ids[n]
                     /\ Moment(table[ids[m]]) >= Moment(table[ids[n]])
        /\ \A id \in wanted \ Range(ids):
            /\ Len(ids) >= query.limit
            /\ \A n \in DOMAIN ids: Moment(table[ids[n]]) >= Moment(table[id])

AnswersAreTheLatest ==
    [][ Listed => IsLatest(Seen, page'.query, page'.ids) ]_vars

(* The n-th decision of the last list.                                     *)
IsStillThere(n) ==
    \E m \in DOMAIN page'.ids:
        page'.ids[m] = page.ids[n] /\ page'.rows[m] = page.rows[n]

IsCrowdedOut(n) ==
    /\ Len(page'.ids) = page'.query.limit
    /\ \A m \in DOMAIN page'.ids: Moment(page'.rows[m]) >= Moment(page.rows[n])

(* A committed decision that has been listed is in the next list, the same *)
(* in every field, unless that asks for others or is full of others as     *)
(* new: over the rollbacks of other threads, crashes and new processes.    *)
ShownDecisionsStay ==
    [][ Listed =>
          \A n \in DOMAIN page.ids:
            page.ids[n] \in page.committed /\ Wanted(page.rows[n], page'.query) =>
              IsStillThere(n) \/ IsCrowdedOut(n) ]_vars
=============================================================================

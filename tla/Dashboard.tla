------------------------------ MODULE Dashboard ------------------------------
(***************************************************************************)
(* web/app.py and web/auth.py over the audit trail: browsers that log in   *)
(* and out and ask for pages, a process that is deployed anew with other   *)
(* environment variables, the threads that record decisions meanwhile, and *)
(* somebody who reviews the trail through a connection of their own.       *)
(*                                                                         *)
(* Of a cycle only what the trail sees is here: the moment of a decision,  *)
(* its INSERT and the commit (CycleScheduler has the rest).                *)
(***************************************************************************)
EXTENDS Naturals, Sequences, FiniteSets, DecisionLog, PhaseStore, DecisionQuery

CONSTANTS
    Browsers,
    Loop,            \* the scheduler's thread
    RunNowThreads,   \* the threads that run POST /run-now
    Words,           \* the passwords somebody may set or type
    AsciiWords,      \* those hmac.compare_digest takes
    SigningKeys,
    Configs,         \* the environments a process may have, see ConfigType
    FormPhases,      \* what the phase form may be sent with
    Findings,        \* what a cycle may decide, see FindingType
    Queries,         \* what a reviewer may ask for, see QueryType
    SessionMaxAge,   \* SESSION_MAX_AGE_SECONDS, 12 hours
    PageLimit,       \* the `limit` of the dashboard's list, 50
    MaxMoment,       \* bound on the clock
    MaxDecisions,    \* bound on the rows
    MaxRequests,     \* bound on the requests and reviews
    MaxBoots         \* bound on the processes started

Workers == {Loop} \cup RunNowThreads

ConfigType == [password: Words \cup {None}, key: SigningKeys \cup {None},
               credentials: BOOLEAN]

FindingType == [instrument: Instruments, action: Actions,
                confidence: Nat \cup {None}]

QueryType == [instrument: Instruments \cup {None}, action: Actions \cup {None},
              since: Timestamps \cup {None}, until: Timestamps \cup {None},
              min_confidence: Nat \cup {None}, limit: Nat]

ASSUME DashboardAssumption ==
    /\ Loop \notin RunNowThreads
    /\ AsciiWords \subseteq Words /\ None \notin Words
    /\ None \notin SigningKeys
    /\ Configs \subseteq ConfigType
    /\ FormPhases \subseteq Phases \cup {"unknown"}
    /\ Findings \subseteq FindingType
    /\ Queries \subseteq QueryType
    /\ SessionMaxAge \in Nat /\ PageLimit \in Nat
    /\ MaxMoment \in Nat /\ MaxDecisions \in Nat
    /\ MaxRequests \in Nat /\ MaxBoots \in Nat

VARIABLES
    now,        \* the clock, in microseconds
    config,     \* the environment of the process
    cookies,    \* the session cookie each browser holds
    pc,         \* where each worker is
    decision,   \* the decision it is about to record
    answer,     \* the last answer, and who got it
    page,       \* the last list of decisions given to anybody
    requests, boots,  \* the counters the bounds apply to
    entered     \* ghost: where and when the right password was last entered

workVars == <<pc, decision>>
webVars == <<cookies, answer, requests, entered>>
vars == <<rows, durable, override, savedOverride, now, config, cookies, pc,
          decision, answer, page, requests, boots, entered>>

(* What URLSafeTimedSerializer signs: the second, with the key.            *)
Tokens == [at: Nat, key: SigningKeys]

NoCookie == [at |-> 0, key |-> None]

DecisionRows == [timestamp: UtcTimestamps, instrument: Instruments,
                 action: Actions, confidence: Nat \cup {None}]
NoDecisionYet == [timestamp |-> None]

(* `committed` is a ghost: the listed ids that were durable rows.          *)
Pages == [query: QueryType, ids: Seq(Nat), rows: Seq(DecisionRows),
          committed: SUBSET Nat]

(* What dashboard() asks for.                                              *)
Latest == [instrument |-> None, action |-> None, since |-> None,
           until |-> None, min_confidence |-> None, limit |-> PageLimit]

NoPage == [query |-> Latest, ids |-> <<>>, rows |-> <<>>, committed |-> {}]

(* "redirected" is a protected route's redirect, "done" what the others of *)
(* them answer, "dashboard" and "review" come with a list.                 *)
Answers == [is: {"none", "login", "logout", "redirected", "done",
                 "dashboard", "review"},
            to: Browsers \cup {None}]
NoAnswer == [is |-> "none", to |-> None]

TypeOK ==
    /\ rows \in Seq(DecisionRows) /\ durable \in 0 .. Len(rows)
    /\ PhaseStoreTypeOK
    /\ now \in Nat
    /\ config \in Configs
    /\ cookies \in [Browsers -> Tokens \cup {NoCookie}]
    /\ pc \in [Workers -> {"idle", "decide", "insert", "commit"}]
    /\ decision \in [Workers -> DecisionRows \cup {NoDecisionYet}]
    /\ \A w \in Workers: pc[w] \in {"insert", "commit"} => decision[w] \in DecisionRows
    /\ answer \in Answers
    /\ page \in Pages
    /\ requests \in Nat /\ boots \in Nat
    /\ entered \in [Browsers -> Tokens \cup {NoCookie}]

(* The loop decides again and again, the others when they are asked to;    *)
(* without its credentials a process has no scheduler.                     *)
AtRest(w, c) == IF w = Loop /\ c.credentials THEN "decide" ELSE "idle"

Init ==
    /\ LogInit /\ PhaseStoreInit
    /\ now = 0
    /\ config \in Configs
    /\ cookies = [b \in Browsers |-> NoCookie]
    /\ entered = [b \in Browsers |-> NoCookie]
    /\ pc = [w \in Workers |-> AtRest(w, config)]
    /\ decision = [w \in Workers |-> NoDecisionYet]
    /\ answer = NoAnswer /\ page = NoPage
    /\ requests = 0 /\ boots = 1

Tick ==
    /\ now < MaxMoment
    /\ now' = now + 1
    /\ UNCHANGED <<logVars, phaseStoreVars, config, workVars, webVars, page, boots>>

(* The process dies or is deployed anew, its environment may have changed; *)
(* the browsers keep their cookies.                                        *)
Redeploy ==
    /\ boots < MaxBoots
    /\ boots' = boots + 1
    /\ config' \in Configs
    /\ LogCrash /\ PhaseStoreCrash
    /\ pc' = [w \in Workers |-> AtRest(w, config')]
    /\ decision' = [w \in Workers |-> NoDecisionYet]
    /\ UNCHANGED <<now, webVars, page>>

-----------------------------------------------------------------------------
(* The threads that decide.                                                *)

WorkerMoves(w, from, to) ==
    /\ pc[w] = from
    /\ pc' = [pc EXCEPT ![w] = to]
    /\ UNCHANGED <<phaseStoreVars, now, config, webVars, page, boots>>

(* It is done with its decision.                                           *)
WorkerRests(w, from) ==
    /\ WorkerMoves(w, from, AtRest(w, config))
    /\ decision' = [decision EXCEPT ![w] = NoDecisionYet]

(* Nothing to record: a request failed, or the model's reply was no use.   *)
CycleFails(w) == WorkerRests(w, "decide") /\ UNCHANGED logVars

(* The decision gets its timestamp when the model's reply is there.        *)
Decide(w) ==
    /\ Len(rows) < MaxDecisions
    /\ WorkerMoves(w, "decide", "insert")
    /\ \E f \in Findings:
        decision' = [decision EXCEPT ![w] =
            [timestamp |-> Utc(now), instrument |-> f.instrument,
             action |-> f.action, confidence |-> f.confidence]]
    /\ UNCHANGED logVars

InsertRow(w) ==
    /\ WorkerMoves(w, "insert", "commit")
    /\ LogInsert(decision[w])
    /\ UNCHANGED decision

CommitRow(w) == WorkerRests(w, "commit") /\ LogCommit

CommitRowFails(w) ==
    /\ WorkerRests(w, "commit")
    /\ \E error \in CommitErrors: LogCommitFails(error)

-----------------------------------------------------------------------------
(* auth.py.                                                                *)

Configured == config.password # None /\ config.key # None

(* hmac.compare_digest raises a TypeError for a str that is not ASCII.     *)
Comparable(candidate) == {candidate, config.password} \subseteq AsciiWords

CheckPassword(candidate) == candidate = config.password

(* URLSafeTimedSerializer.loads: a token of this key, not from the future, *)
(* not older than max_age.                                                 *)
Loads(token) ==
    /\ token.key = config.key
    /\ token.at <= Second(now)
    /\ Second(now) - token.at <= SessionMaxAge

(* Mutant: the token's age is not looked at.                               *)
MutantIsAuthenticated(b) ==
    config.key # None /\ cookies[b] # NoCookie /\ cookies[b].key = config.key

(* _is_authenticated: without a cookie, and without a key, nobody is.      *)
IsAuthenticated(b) ==
    config.key # None /\ cookies[b] # NoCookie /\ Loads(cookies[b])

-----------------------------------------------------------------------------
(* app.py: one action per route.                                           *)

Request(b, kind) ==
    /\ requests < MaxRequests
    /\ requests' = requests + 1
    /\ answer' = [is |-> kind, to |-> b]
    /\ UNCHANGED <<logVars, now, config, boots>>

(* POST /login, what is entered being right or not.                        *)
Enters(b, candidate) ==
    entered' = IF candidate = config.password /\ Configured /\ Comparable(candidate)
               THEN [entered EXCEPT ![b] = [at |-> Second(now), key |-> config.key]]
               ELSE entered

Session == [at |-> Second(now), key |-> config.key]

LogsIn(b, candidate) ==
    /\ Configured /\ Comparable(candidate) /\ CheckPassword(candidate)
    /\ Request(b, "login")
    /\ Enters(b, candidate)
    /\ cookies' = [cookies EXCEPT ![b] = Session]
    /\ UNCHANGED <<phaseStoreVars, workVars, page>>

(* "Wrong password.", "isn't fully configured yet", or the TypeError: the  *)
(* browser keeps the cookie it has.                                        *)
LoginRefused(b, candidate) ==
    /\ ~(Configured /\ Comparable(candidate) /\ CheckPassword(candidate))
    /\ Request(b, "login")
    /\ Enters(b, candidate)
    /\ UNCHANGED <<phaseStoreVars, workVars, page, cookies>>

(* delete_cookie: the token itself stays valid, this browser has it no     *)
(* more.                                                                   *)
Logout(b) ==
    /\ Request(b, "logout")
    /\ cookies' = [cookies EXCEPT ![b] = NoCookie]
    /\ entered' = [entered EXCEPT ![b] = NoCookie]
    /\ UNCHANGED <<phaseStoreVars, workVars, page>>

(* Every other route sends who is not authenticated to /login.             *)
SentToLogin(b) ==
    /\ ~IsAuthenticated(b)
    /\ Request(b, "redirected")
    /\ UNCHANGED <<phaseStoreVars, workVars, page, cookies, entered>>

Serves(b, kind) ==
    /\ IsAuthenticated(b)
    /\ Request(b, kind)
    /\ UNCHANGED <<cookies, entered>>

(* The list as it is given out of a table.                                 *)
PageOf(table, query, ids) ==
    [query |-> query, ids |-> ids,
     rows |-> [n \in DOMAIN ids |-> table[ids[n]]],
     committed |-> Range(ids) \cap (1 .. durable)]

(* GET /: through the connection the workers write with, which shows the   *)
(* rows they have not committed.                                           *)
ShowsDashboard(b) ==
    /\ Serves(b, "dashboard")
    /\ \E ids \in ListDecisions(rows, Latest): page' = PageOf(rows, Latest, ids)
    /\ UNCHANGED <<phaseStoreVars, workVars>>

(* POST /phase with a phase: set_phase's upsert and its commit.            *)
ChangesPhase(b, phase) ==
    /\ phase \in Phases
    /\ Serves(b, "done")
    /\ override' = phase /\ savedOverride' = phase
    /\ UNCHANGED <<workVars, page>>

(* The commit raises, and so does the route.                               *)
ChangeFails(b, phase, error) ==
    /\ phase \in Phases
    /\ Serves(b, "done")
    /\ override' = IF error = "rollback" THEN savedOverride ELSE phase
    /\ UNCHANGED <<savedOverride, workVars, page>>

(* A phase there is not is ignored.                                        *)
IgnoresPhase(b, phase) ==
    /\ phase \notin Phases
    /\ Serves(b, "done")
    /\ UNCHANGED <<phaseStoreVars, workVars, page>>

(* POST /run-now: a cycle in the thread of the request.                    *)
RunsNow(b, w) ==
    /\ Serves(b, "done")
    /\ config.credentials /\ pc[w] = "idle"
    /\ pc' = [pc EXCEPT ![w] = "decide"]
    /\ UNCHANGED <<phaseStoreVars, decision, page>>

(* There is no scheduler to ask.                                           *)
RunsNothing(b) ==
    /\ ~config.credentials
    /\ Serves(b, "done")
    /\ UNCHANGED <<phaseStoreVars, workVars, page>>

-----------------------------------------------------------------------------
(* The review, through another connection: what is committed.              *)

Committed == SubSeq(rows, 1, durable)

Review(query) ==
    /\ requests < MaxRequests
    /\ requests' = requests + 1
    /\ answer' = [is |-> "review", to |-> None]
    /\ \E ids \in ListDecisions(Committed, query): page' = PageOf(rows, query, ids)
    /\ UNCHANGED <<logVars, phaseStoreVars, now, config, cookies, workVars,
                   boots, entered>>

-----------------------------------------------------------------------------
WorkerStep(w) ==
    CycleFails(w) \/ Decide(w) \/ InsertRow(w) \/ CommitRow(w) \/ CommitRowFails(w)

LoginStep(b) ==
    \/ \E candidate \in Words: LogsIn(b, candidate) \/ LoginRefused(b, candidate)
    \/ Logout(b)

PhaseForm(b, phase) ==
    \/ ChangesPhase(b, phase) \/ IgnoresPhase(b, phase)
    \/ \E error \in CommitErrors: ChangeFails(b, phase, error)

RouteStep(b) ==
    \/ SentToLogin(b) \/ ShowsDashboard(b) \/ RunsNothing(b)
    \/ \E phase \in FormPhases: PhaseForm(b, phase)
    \/ \E w \in RunNowThreads: RunsNow(b, w)

Next ==
    \/ Tick \/ Redeploy
    \/ \E w \in Workers: WorkerStep(w)
    \/ \E b \in Browsers: LoginStep(b) \/ RouteStep(b)
    \/ \E query \in Queries: Review(query)

Spec == Init /\ [][Next]_vars
=============================================================================

----------------------------- MODULE KiteSession -----------------------------
(***************************************************************************)
(* data/kite.py: one KiteClient whose callers share its access token and   *)
(* its cache of instrument tokens, over several trading days.  Kite itself *)
(* is external: it issues access tokens, forgets all of them at its daily  *)
(* reset, and lists other contracts the next day.                          *)
(*                                                                         *)
(* A fetch is the session check, the load of the exchange's instruments    *)
(* unless they are cached, the lookup and the request for candles, with a  *)
(* step wherever another caller, or the reset, can come between.           *)
(***************************************************************************)
EXTENDS Naturals

CONSTANTS
    Callers,     \* the threads that fetch through the client
    Exchanges, Symbols,
    Listings,    \* what the exchanges may list on a day
    MaxDays,     \* bound on the days
    MaxLogins    \* bound on the access tokens issued

ASSUME KiteAssumption ==
    /\ Listings \subseteq [Exchanges -> SUBSET Symbols]
    /\ MaxDays \in Nat /\ MaxLogins \in Nat

(* The instrument token of a contract: no two contracts have the same.     *)
Token(x, s) == <<x, s>>

Tokens == Exchanges \X Symbols

(* A row of instruments(exchange) that the client keeps.                   *)
Rows == [symbol: Symbols, token: Tokens]

VARIABLES
    listed,      \* what each exchange lists today
    day,
    valid,       \* the access tokens Kite accepts
    issued,      \* how many it has issued
    access,      \* the token set on the kite object, 0 for none
    ready,       \* KiteClient._session_ready
    cache,       \* KiteClient._instrument_cache
    login,       \* a token generate_session holds and has not set yet, or 0
    pc,          \* where each caller is in its fetch
    wanted,      \* the contract it fetches
    loaded,      \* the rows it has received and not stored yet
    found,       \* the token its lookup has found
    answer,      \* how its last fetch ended
    everListed   \* ghost: the contracts listed on every day so far

kiteVars == <<listed, day, valid, issued, everListed>>
sessionVars == <<access, ready, login>>
fetchVars == <<pc, wanted, loaded, found, answer>>
vars == <<kiteVars, sessionVars, cache, fetchVars>>

NoAnswer == [kind |-> "none", tokens |-> {}]
AuthError == [kind |-> "auth", tokens |-> {}]
ApiError == [kind |-> "api", tokens |-> {}]
Unknown == [kind |-> "unknown", tokens |-> {}]
CandlesOf(ts) == [kind |-> "candles", tokens |-> ts]

Answers == [kind: {"none", "auth", "api", "unknown", "candles"},
            tokens: SUBSET Tokens]

Caches == UNION {[keys -> SUBSET Rows]: keys \in SUBSET Exchanges}

TypeOK ==
    /\ listed \in Listings
    /\ day \in Nat /\ issued \in Nat /\ valid \subseteq 1 .. issued
    /\ access \in 0 .. issued /\ login \in 0 .. issued
    /\ ready = (access # 0)
    /\ cache \in Caches
    /\ pc \in [Callers -> {"idle", "instruments", "store", "lookup", "history"}]
    /\ wanted \in [Callers -> Tokens]
    /\ loaded \in [Callers -> SUBSET Rows]
    /\ found \in [Callers -> SUBSET Tokens]
    /\ answer \in [Callers -> Answers]
    /\ \A c \in Callers: /\ pc[c] # "idle" => ready
                         /\ pc[c] = "history" => found[c] # {}
                         /\ pc[c] = "lookup" => wanted[c][1] \in DOMAIN cache
    /\ everListed \subseteq Tokens

(* KITE_ACCESS_TOKEN may hold no token, today's, or an expired one.        *)
Init ==
    /\ listed \in Listings /\ day = 1
    /\ issued \in {0, 1} /\ valid \in SUBSET (1 .. issued)
    /\ access = issued /\ ready = (access # 0)
    /\ cache = [x \in {} |-> {}] /\ login = 0
    /\ pc = [c \in Callers |-> "idle"]
    /\ wanted \in [Callers -> Tokens]
    /\ loaded = [c \in Callers |-> {}]
    /\ found = [c \in Callers |-> {}]
    /\ answer = [c \in Callers |-> NoAnswer]
    /\ everListed = {t \in Tokens: t[2] \in listed[t[1]]}

-----------------------------------------------------------------------------
(* Kite's daily reset, at any point of a fetch or of a login.              *)
Reset ==
    /\ day < MaxDays
    /\ day' = day + 1
    /\ valid' = {}
    /\ listed' \in Listings
    /\ everListed' = {t \in everListed: t[2] \in listed'[t[1]]}
    /\ UNCHANGED <<issued, sessionVars, cache, fetchVars>>

(* generate_session: Kite's part of it, one login at a time.               *)
LoginIssues ==
    /\ login = 0 /\ issued < MaxLogins
    /\ issued' = issued + 1
    /\ valid' = valid \cup {issued'}
    /\ login' = issued'
    /\ UNCHANGED <<listed, day, everListed, access, ready, cache, fetchVars>>

(* Mutant: the session counts as ready only if there was one.              *)
MutantLoginActivates ==
    /\ login # 0
    /\ access' = login /\ login' = 0
    /\ UNCHANGED <<kiteVars, ready, cache, fetchVars>>

(* The exchange has succeeded: set_access_token and _session_ready = True, *)
(* in one step.  Between the two a client not yet ready still refuses.     *)
LoginActivates ==
    /\ login # 0
    /\ access' = login /\ ready' = TRUE /\ login' = 0
    /\ UNCHANGED <<kiteVars, cache, fetchVars>>

(* Mutant: the session is given up before the exchange.                    *)
MutantLoginFails ==
    /\ login # 0
    /\ access' = 0 /\ ready' = FALSE /\ login' = 0
    /\ UNCHANGED <<kiteVars, cache, fetchVars>>

(* The exchange raises, perhaps with the token issued and the answer lost. *)
LoginFails ==
    /\ login # 0
    /\ login' = 0
    /\ UNCHANGED <<kiteVars, access, ready, cache, fetchVars>>

-----------------------------------------------------------------------------
(* fetch_candles.                                                          *)

Ends(c, result) ==
    /\ pc' = [pc EXCEPT ![c] = "idle"]
    /\ answer' = [answer EXCEPT ![c] = result]
    /\ found' = [found EXCEPT ![c] = {}]
    /\ UNCHANGED <<kiteVars, sessionVars>>

Moves(c, to) ==
    /\ pc' = [pc EXCEPT ![c] = to]
    /\ UNCHANGED <<kiteVars, sessionVars>>

(* _require_session, and whether the exchange is in the cache.             *)
FetchBegins(c, x, s) ==
    /\ pc[c] = "idle" /\ ready
    /\ wanted' = [wanted EXCEPT ![c] = Token(x, s)]
    /\ answer' = [answer EXCEPT ![c] = NoAnswer]
    /\ Moves(c, IF x \in DOMAIN cache THEN "lookup" ELSE "instruments")
    /\ UNCHANGED <<cache, loaded, found>>

FetchRefused(c) ==
    /\ pc[c] = "idle" /\ ~ready
    /\ Ends(c, AuthError)
    /\ UNCHANGED <<cache, wanted, loaded>>

(* kite.instruments(exchange).                                             *)
InstrumentsArrive(c) ==
    LET x == wanted[c][1]
    IN  /\ pc[c] = "instruments" /\ access \in valid
        /\ loaded' = [loaded EXCEPT
             ![c] = {[symbol |-> s, token |-> Token(x, s)]: s \in listed[x]}]
        /\ Moves(c, "store")
        /\ UNCHANGED <<cache, wanted, found, answer>>

(* The dictionary with one exchange's rows put in.                         *)
CacheWith(x, rows) ==
    [y \in DOMAIN cache \cup {x} |-> IF y = x THEN rows ELSE cache[y]]

(* Mutant: the failure leaves an empty entry behind.                       *)
MutantRequestFails(c) ==
    /\ pc[c] \in {"instruments", "history"}
    /\ cache' = IF pc[c] = "instruments" THEN CacheWith(wanted[c][1], {})
                                         ELSE cache
    /\ Ends(c, ApiError)
    /\ UNCHANGED <<wanted, loaded>>

(* _call turns what either request raises into a KiteAPIError; a request   *)
(* with an expired token always raises.                                    *)
RequestFails(c) ==
    /\ pc[c] \in {"instruments", "history"}
    /\ Ends(c, ApiError)
    /\ UNCHANGED <<cache, wanted, loaded>>

InstrumentsStored(c) ==
    /\ pc[c] = "store"
    /\ cache' = CacheWith(wanted[c][1], loaded[c])
    /\ loaded' = [loaded EXCEPT ![c] = {}]
    /\ Moves(c, "lookup")
    /\ UNCHANGED <<wanted, found, answer>>

(* Mutant: one dictionary for all exchanges.                               *)
MutantLookup(x, s) ==
    {r.token: r \in {q \in UNION {cache[y]: y \in DOMAIN cache}: q.symbol = s}}

Lookup(x, s) == {r.token: r \in {q \in cache[x]: q.symbol = s}}

UnknownInstrument(c) ==
    /\ pc[c] = "lookup"
    /\ Lookup(wanted[c][1], wanted[c][2]) = {}
    /\ Ends(c, Unknown)
    /\ UNCHANGED <<cache, wanted, loaded>>

InstrumentFound(c) ==
    /\ pc[c] = "lookup"
    /\ found' = [found EXCEPT ![c] = Lookup(wanted[c][1], wanted[c][2])]
    /\ found'[c] # {}
    /\ Moves(c, "history")
    /\ UNCHANGED <<cache, wanted, loaded, answer>>

(* kite.historical_data(token, ...).                                       *)
CandlesArrive(c) ==
    /\ pc[c] = "history" /\ access \in valid
    /\ Ends(c, CandlesOf(found[c]))
    /\ UNCHANGED <<cache, wanted, loaded>>

-----------------------------------------------------------------------------
FetchStep(c) ==
    \/ \E x \in Exchanges, s \in Symbols: FetchBegins(c, x, s)
    \/ FetchRefused(c) \/ InstrumentsArrive(c) \/ InstrumentsStored(c)
    \/ RequestFails(c) \/ UnknownInstrument(c) \/ InstrumentFound(c)
    \/ CandlesArrive(c)

Next ==
    \/ Reset \/ LoginIssues \/ LoginActivates \/ LoginFails
    \/ \E c \in Callers: FetchStep(c)

Spec == Init /\ [][Next]_vars

-----------------------------------------------------------------------------
(* Whatever the callers have put into the cache together, the candles a    *)
(* caller gets are those of the contract it asked for on that exchange.    *)
CandlesAreOfTheContract ==
    \A c \in Callers:
        answer[c].kind = "candles" => answer[c].tokens = {wanted[c]}

(* A contract that its exchange has listed on every day is never unknown:  *)
(* failing requests, expired sessions and the race for the cache leave no  *)
(* listing that misses what all of them had.                               *)
ListedContractsAreKnown ==
    [][ \A c \in Callers:
          answer'[c].kind = "unknown" /\ answer[c].kind # "unknown" =>
            wanted[c] \notin everListed ]_vars

(* A session that works goes on working until Kite's reset: neither a      *)
(* login that fails nor a fetch that raises takes it away.                 *)
SessionEndsWithItsDay ==
    [][ ready /\ access \in valid /\ day' = day =>
          ready' /\ access' \in valid' ]_vars
=============================================================================

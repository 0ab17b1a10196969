----------------------------- MODULE Kite_proofs -----------------------------
(***************************************************************************)
(* Theorems about KiteSession, for every set of callers and of listings    *)
(* and every number of days and logins.                                    *)
(***************************************************************************)
EXTENDS KiteSession, TLAPS

(* Rows that may stand in the cache for exchange x: each has the token of  *)
(* its contract, and no contract that was always listed is missing.        *)
RowsOK(x, rows) ==
    /\ \A r \in rows: r.token = Token(x, r.symbol)
    /\ \A s \in Symbols: Token(x, s) \in everListed =>
        [symbol |-> s, token |-> Token(x, s)] \in rows

(* The inductive invariant.  A caller's lookup is of its own contract from *)
(* the moment it has found it, and only then has it found any.             *)
CacheInv ==
    /\ \A t \in everListed: t[2] \in listed[t[1]]
    /\ \A x \in DOMAIN cache: RowsOK(x, cache[x])
    /\ \A c \in Callers:
        /\ pc[c] = "store" => RowsOK(wanted[c][1], loaded[c])
        /\ pc[c] = "history" => found[c] = {wanted[c]}
    /\ CandlesAreOfTheContract
    /\ login # 0 /\ ready /\ access \in valid => login \in valid

Inv == TypeOK /\ CacheInv

-----------------------------------------------------------------------------
(* The cache is a dictionary of rows by exchange, and stays one.           *)
LEMMA CacheIsADictionary ==
    cache \in Caches <=>
        /\ DOMAIN cache \subseteq Exchanges
        /\ cache = [x \in DOMAIN cache |-> cache[x]]
        /\ \A x \in DOMAIN cache: cache[x] \subseteq Rows
<1>1. ASSUME cache \in Caches
      PROVE  /\ DOMAIN cache \subseteq Exchanges
             /\ cache = [x \in DOMAIN cache |-> cache[x]]
             /\ \A x \in DOMAIN cache: cache[x] \subseteq Rows
  <2>1. PICK keys \in SUBSET Exchanges: cache \in [keys -> SUBSET Rows]
    BY <1>1 DEF Caches
  <2> QED
    BY <2>1
<1>2. ASSUME DOMAIN cache \subseteq Exchanges,
             cache = [x \in DOMAIN cache |-> cache[x]],
             \A x \in DOMAIN cache: cache[x] \subseteq Rows
      PROVE  cache \in Caches
  <2>1. cache \in [DOMAIN cache -> SUBSET Rows]
    BY <1>2
  <2> QED
    BY <1>2, <2>1 DEF Caches
<1> QED
  BY <1>1, <1>2

(* The cache with one more exchange in it.                                 *)
LEMMA CacheWithType ==
    ASSUME cache \in Caches, NEW c \in Callers,
           wanted[c][1] \in Exchanges, loaded[c] \in SUBSET Rows,
           cache' = CacheWith(wanted[c][1], loaded[c])
    PROVE  /\ cache' \in Caches
           /\ DOMAIN cache' = DOMAIN cache \cup {wanted[c][1]}
           /\ cache'[wanted[c][1]] = loaded[c]
           /\ \A y \in DOMAIN cache: y # wanted[c][1] => cache'[y] = cache[y]
<1>1. DOMAIN cache \cup {wanted[c][1]} \in SUBSET Exchanges
  BY CacheIsADictionary
<1>2. cache' \in [DOMAIN cache \cup {wanted[c][1]} -> SUBSET Rows]
  BY CacheIsADictionary DEF CacheWith
<1>3. cache' \in Caches
  BY <1>1, <1>2 DEF Caches
<1> QED
  BY <1>3 DEF CacheWith

-----------------------------------------------------------------------------
(* The first day of a process.                                             *)
LEMMA KiteInit == Init => Inv
<1> SUFFICES ASSUME Init PROVE Inv
  OBVIOUS
<1>1. cache = [x \in {} |-> {}] /\ cache \in Caches /\ DOMAIN cache = {}
  BY CacheIsADictionary DEF Init
<1>2. answer \in [Callers -> Answers]
  BY DEF Init, NoAnswer, Answers
<1>3. TypeOK
  BY <1>1, <1>2 DEF Init, TypeOK
<1>4. CacheInv
  BY <1>1 DEF Init, CacheInv, CandlesAreOfTheContract, NoAnswer
<1> QED
  BY <1>3, <1>4 DEF Inv

(* Kite's reset drops contracts from everListed and adds none.             *)
LEMMA KiteReset == Inv /\ Reset => Inv'
<1> SUFFICES ASSUME Inv, Reset PROVE Inv'
  OBVIOUS
<1> USE DEF Inv, Reset, sessionVars, fetchVars
<1>1. TypeOK'
  BY DEF TypeOK, Caches
<1>2. everListed' \subseteq everListed
  OBVIOUS
<1>3. CacheInv'
  BY <1>2 DEF CacheInv, RowsOK, CandlesAreOfTheContract
<1> QED
  BY <1>1, <1>3

(* generate_session touches neither the cache nor a fetch.                 *)
LEMMA KiteLogin == Inv /\ (LoginIssues \/ LoginActivates \/ LoginFails) => Inv'
<1> SUFFICES ASSUME Inv, LoginIssues \/ LoginActivates \/ LoginFails PROVE Inv'
  OBVIOUS
<1> USE DEF Inv, kiteVars, fetchVars, LoginIssues, LoginActivates, LoginFails
<1>1. CacheInv'
  BY DEF CacheInv, RowsOK, CandlesAreOfTheContract
<1>2. CASE LoginIssues
  BY <1>1, <1>2 DEF TypeOK
<1>3. CASE LoginActivates
  <2>1. ready' = TRUE /\ access' # 0
    BY <1>3
  <2>2. (ready = (access # 0))'
    BY ONLY <2>1
  <2>3. access' \in 0 .. issued' /\ login' \in 0 .. issued'
    BY <1>3 DEF TypeOK
  <2> QED
    BY <1>1, <1>3, <2>2, <2>3 DEF TypeOK
<1>4. CASE LoginFails
  BY <1>1, <1>4 DEF TypeOK
<1> QED
  BY <1>2, <1>3, <1>4

(* A fetch ends with an answer; unless it has candles they are fit for     *)
(* any contract.                                                           *)
LEMMA KiteEnds ==
    ASSUME Inv, NEW c \in Callers, NEW result \in Answers, Ends(c, result),
           result.kind = "candles" => result.tokens = {wanted[c]},
           UNCHANGED <<cache, wanted, loaded>>
    PROVE  Inv'
<1> USE DEF Inv, Ends, kiteVars, sessionVars
<1>1. TypeOK'
  BY DEF TypeOK
<1>2. CandlesAreOfTheContract'
  BY DEF TypeOK, CacheInv, CandlesAreOfTheContract
<1>3. CacheInv'
  BY <1>2 DEF TypeOK, CacheInv, RowsOK
<1> QED
  BY <1>1, <1>3

(* The steps of a fetch.                                                   *)
LEMMA KiteFetch ==
    ASSUME Inv, NEW c \in Callers, FetchStep(c)
    PROVE  Inv'
<1> USE DEF Inv
<1>0. /\ wanted[c] \in Tokens /\ wanted[c][1] \in Exchanges /\ wanted[c][2] \in Symbols
      /\ wanted[c] = Token(wanted[c][1], wanted[c][2])
  BY DEF TypeOK, Tokens, Token
<1>1. ASSUME NEW x \in Exchanges, NEW s \in Symbols, FetchBegins(c, x, s)
      PROVE  Inv'
  <2> USE <1>1 DEF FetchBegins, Moves, kiteVars, sessionVars
  <2>1. Token(x, s) \in Tokens /\ Token(x, s)[1] = x /\ NoAnswer \in Answers
    BY DEF Token, Tokens, NoAnswer, Answers
  <2>2. TypeOK'
    BY <2>1 DEF TypeOK
  <2>3. CandlesAreOfTheContract'
    BY DEF TypeOK, CacheInv, CandlesAreOfTheContract, NoAnswer
  <2>4. CacheInv'
    BY <2>3 DEF TypeOK, CacheInv, RowsOK
  <2> QED
    BY <2>2, <2>4
<1>2. CASE FetchRefused(c)
  BY <1>2, KiteEnds DEF FetchRefused, AuthError, Answers
<1>3. CASE InstrumentsArrive(c)
  <2> DEFINE rows == {[symbol |-> s, token |-> Token(wanted[c][1], s)]:
                        s \in listed[wanted[c][1]]}
  <2> USE <1>3 DEF InstrumentsArrive, Moves, kiteVars, sessionVars
  <2>1. listed[wanted[c][1]] \subseteq Symbols
    BY <1>0, KiteAssumption DEF TypeOK
  <2>2. rows \subseteq Rows
    BY <1>0, <2>1 DEF Rows, Token, Tokens
  <2>3. RowsOK(wanted[c][1], rows)
    BY <2>1 DEF RowsOK, CacheInv, Token
  <2>4. loaded' = [loaded EXCEPT ![c] = rows]
    OBVIOUS
  <2> HIDE DEF rows
  <2>5. TypeOK'
    BY <2>2, <2>4 DEF TypeOK
  <2>6. CacheInv'
    BY <2>3, <2>4 DEF TypeOK, CacheInv, RowsOK, CandlesAreOfTheContract
  <2> QED
    BY <2>5, <2>6
<1>4. CASE InstrumentsStored(c)
  <2> USE <1>4 DEF InstrumentsStored, Moves, kiteVars, sessionVars
  <2>1. loaded[c] \in SUBSET Rows /\ RowsOK(wanted[c][1], loaded[c])
    BY DEF TypeOK, CacheInv
  <2>0. cache \in Caches /\ cache' = CacheWith(wanted[c][1], loaded[c])
    BY DEF TypeOK
  <2>2. /\ cache' \in Caches /\ DOMAIN cache' = DOMAIN cache \cup {wanted[c][1]}
        /\ cache'[wanted[c][1]] = loaded[c]
        /\ \A y \in DOMAIN cache: y # wanted[c][1] => cache'[y] = cache[y]
    BY <1>0, <2>0, <2>1, CacheWithType
  <2>3. TypeOK'
    BY <2>2 DEF TypeOK
  <2>4. \A x \in DOMAIN cache': RowsOK(x, cache'[x])
    BY <2>1, <2>2 DEF CacheInv
  <2>5. CacheInv'
    BY <2>4 DEF TypeOK, CacheInv, RowsOK, CandlesAreOfTheContract
  <2> QED
    BY <2>3, <2>5
<1>5. CASE RequestFails(c)
  BY <1>5, KiteEnds DEF RequestFails, ApiError, Answers
<1>6. CASE UnknownInstrument(c)
  BY <1>6, KiteEnds DEF UnknownInstrument, Unknown, Answers
<1>7. CASE InstrumentFound(c)
  <2> DEFINE ts == Lookup(wanted[c][1], wanted[c][2])
  <2> USE <1>7 DEF InstrumentFound, Moves, kiteVars, sessionVars
  <2>1. wanted[c][1] \in DOMAIN cache /\ RowsOK(wanted[c][1], cache[wanted[c][1]])
    BY DEF TypeOK, CacheInv
  <2>2. \A t \in ts: t = wanted[c]
    BY <1>0, <2>1 DEF Lookup, RowsOK
  <2>3. found' = [found EXCEPT ![c] = ts] /\ ts # {}
    BY DEF TypeOK
  <2>4. ts = {wanted[c]}
    BY <2>2, <2>3
  <2> HIDE DEF ts
  <2>5. TypeOK'
    BY <1>0, <2>3, <2>4 DEF TypeOK
  <2>6. CacheInv'
    BY <2>3, <2>4 DEF TypeOK, CacheInv, RowsOK, CandlesAreOfTheContract
  <2> QED
    BY <2>5, <2>6
<1>8. CASE CandlesArrive(c)
  <2>1. found[c] = {wanted[c]}
    BY <1>8 DEF CandlesArrive, CacheInv
  <2>2. CandlesOf(found[c]) \in Answers
    BY <1>0, <2>1 DEF CandlesOf, Answers
  <2> QED
    BY <1>8, <2>1, <2>2, KiteEnds DEF CandlesArrive, CandlesOf
<1> QED
  BY <1>1, <1>2, <1>3, <1>4, <1>5, <1>6, <1>7, <1>8 DEF FetchStep

(* Every step keeps the invariant,                                         *)
LEMMA KiteNext == Inv /\ [Next]_vars => Inv'
<1> SUFFICES ASSUME Inv, [Next]_vars PROVE Inv'
  OBVIOUS
<1>1. CASE UNCHANGED vars
  BY <1>1 DEF Inv, TypeOK, CacheInv, RowsOK, CandlesAreOfTheContract, vars,
     kiteVars, sessionVars, fetchVars
<1> QED
  BY <1>1, KiteReset, KiteLogin, KiteFetch DEF Next

(* so it always holds.                                                     *)
LEMMA KiteInvariant == Spec => []Inv
BY KiteInit, KiteNext, PTL DEF Spec

(* Every variable of the client and of Kite keeps its type.                *)
THEOREM KiteTypeCorrect == Spec => []TypeOK
BY KiteInvariant, PTL DEF Inv

(* A caller is never given the candles of another contract, whatever the   *)
(* other callers put into the cache of kite.py in the meantime.            *)
THEOREM ContractsAreNotMixedUp == Spec => []CandlesAreOfTheContract
BY KiteInvariant, PTL DEF Inv, CacheInv

(* Only contracts that were not listed on some day are "Unknown            *)
(* instrument": every listing in the cache has the ones that always were.  *)
THEOREM ListedContractsAreAlwaysKnown == Spec => ListedContractsAreKnown
<1>1. ASSUME Inv, [Next]_vars, NEW c \in Callers,
             answer'[c].kind = "unknown", answer[c].kind # "unknown"
      PROVE  wanted[c] \notin everListed
  <2>1. ASSUME NEW d \in Callers, NEW result \in Answers, Ends(d, result),
               result.kind # "unknown"
        PROVE  FALSE
    BY <1>1, <2>1 DEF Ends, Inv, TypeOK
  <2>2. ASSUME NEW d \in Callers, UnknownInstrument(d)
        PROVE  d = c
    BY <1>1, <2>2 DEF UnknownInstrument, Ends, Inv, TypeOK
  <2>3. PICK d \in Callers: FetchStep(d)
    BY <1>1 DEF Next, Reset, LoginIssues, LoginActivates, LoginFails, vars, fetchVars
  <2>4. UnknownInstrument(d)
    <3>1. CASE FetchRefused(d) \/ RequestFails(d)
      <4>1. AuthError \in Answers /\ ApiError \in Answers
            /\ AuthError.kind # "unknown" /\ ApiError.kind # "unknown"
        BY DEF AuthError, ApiError, Answers
      <4> QED
        BY <2>1, <3>1, <4>1 DEF FetchRefused, RequestFails
    <3>2. CASE CandlesArrive(d)
      <4>1. CandlesOf(found[d]) \in Answers /\ CandlesOf(found[d]).kind # "unknown"
        BY <1>1 DEF CandlesOf, Answers, Inv, TypeOK
      <4> QED
        BY <2>1, <3>2, <4>1 DEF CandlesArrive
    <3>3. CASE \E x \in Exchanges, s \in Symbols: FetchBegins(d, x, s)
      BY <1>1, <3>3 DEF FetchBegins, NoAnswer, Inv, TypeOK
    <3>4. CASE InstrumentsArrive(d) \/ InstrumentsStored(d) \/ InstrumentFound(d)
      BY <1>1, <3>4 DEF InstrumentsArrive, InstrumentsStored, InstrumentFound
    <3> QED
      BY <2>3, <3>1, <3>2, <3>3, <3>4 DEF FetchStep
  <2>5. pc[c] = "lookup" /\ Lookup(wanted[c][1], wanted[c][2]) = {}
    BY <2>2, <2>4 DEF UnknownInstrument
  <2>6. /\ wanted[c] = Token(wanted[c][1], wanted[c][2])
        /\ wanted[c][2] \in Symbols
    BY <1>1 DEF Inv, TypeOK, Tokens, Token
  <2>7. RowsOK(wanted[c][1], cache[wanted[c][1]])
    BY <1>1, <2>5 DEF Inv, TypeOK, CacheInv
  <2> QED
    BY <2>5, <2>6, <2>7 DEF RowsOK, Lookup
<1>2. Inv /\ [Next]_vars =>
        [ \A c \in Callers:
            answer'[c].kind = "unknown" /\ answer[c].kind # "unknown" =>
              wanted[c] \notin everListed ]_vars
  BY <1>1
<1> QED
  BY <1>2, KiteInvariant, PTL DEF Spec, ListedContractsAreKnown

(* A working session is lost to Kite's reset only, never to a failing      *)
(* generate_session or a failing request.                                  *)
THEOREM SessionsEndWithTheirDay == Spec => SessionEndsWithItsDay
<1>1. ASSUME Inv, [Next]_vars, ready, access \in valid, day' = day
      PROVE  ready' /\ access' \in valid'
  <2>1. CASE UNCHANGED vars
    BY <1>1, <2>1 DEF vars, kiteVars, sessionVars
  <2>2. CASE Reset
    BY <1>1, <2>2 DEF Reset, Inv, TypeOK
  <2>3. CASE LoginIssues
    BY <1>1, <2>3 DEF LoginIssues
  <2>4. CASE LoginActivates
    <3>1. ready' = TRUE /\ access' = login /\ valid' = valid /\ login # 0
      BY <2>4 DEF LoginActivates, kiteVars
    <3>2. login # 0 /\ ready /\ access \in valid => login \in valid
      BY <1>1 DEF Inv, CacheInv
    <3> QED
      BY ONLY <1>1, <3>1, <3>2, Zenon
  <2>5. CASE LoginFails
    BY <1>1, <2>5 DEF LoginFails, kiteVars
  <2>6. ASSUME NEW c \in Callers, FetchStep(c)
        PROVE  UNCHANGED kiteVars /\ UNCHANGED sessionVars
    BY <2>6 DEF FetchStep, FetchBegins, FetchRefused, InstrumentsArrive,
       InstrumentsStored, RequestFails, UnknownInstrument, InstrumentFound,
       CandlesArrive, Ends, Moves
  <2> QED
    <3>1. ASSUME NEW c \in Callers, FetchStep(c)
          PROVE  ready' /\ access' \in valid'
      <4>1. ready' = ready /\ access' = access /\ valid' = valid
        BY <2>6, <3>1 DEF kiteVars, sessionVars
      <4> QED
        BY <1>1, <4>1, Zenon
    <3> QED
      BY <1>1, <2>1, <2>2, <2>3, <2>4, <2>5, <3>1, Zenon DEF Next
<1>2. Inv /\ [Next]_vars =>
        [ ready /\ access \in valid /\ day' = day =>
            ready' /\ access' \in valid' ]_vars
  BY <1>1
<1> QED
  BY <1>2, KiteInvariant, PTL DEF Spec, SessionEndsWithItsDay
=============================================================================

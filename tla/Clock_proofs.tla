---------------------------- MODULE Clock_proofs ----------------------------
(***************************************************************************)
(* The tables of context/sessions.py, at every moment and under every pair *)
(* of offsets London and New York can have at once.                        *)
(***************************************************************************)
EXTENDS Sessions, TLAPS

(* What an offset is in each zone.                                         *)
LEMMA OffsetFacts ==
    ASSUME NEW offset \in Offsets
    PROVE  /\ offset["Asia/Tokyo"] = 540
           /\ offset["Asia/Kolkata"] = 330
           /\ offset["Europe/London"] = 0 \/ offset["Europe/London"] = 60
           /\ \/ offset["America/New_York"] = -300
              \/ offset["America/New_York"] = -240
  BY DEF Offsets, Zones, ZoneOffsets

IsTimeOfDay(t) == t \in Int /\ 0 <= t /\ t < 1440

(* A local time is a time of day.                                          *)
LEMMA TimeOfDay ==
    ASSUME NEW moment \in Int, NEW offset \in Offsets
    PROVE  IsTimeOfDay(LocalTime(moment, offset["America/New_York"]))
<1>1. offset["America/New_York"] \in Int
  BY OffsetFacts
<1>2. \A m, o \in Int: IsTimeOfDay((m + o) % 1440)
  BY DEF IsTimeOfDay
<1> QED
  BY <1>1, <1>2 DEF LocalTime, Day

(* Which kill zones are active, by the time of day in New York.            *)
LEMMA KillZoneTimes ==
    ASSUME NEW moment \in Int, NEW offset \in Offsets, NEW t,
           t = LocalTime(moment, offset["America/New_York"])
    PROVE  \A name \in ActiveKillZones(moment, offset):
             \/ name = "asian_kz" /\ 1200 <= t
             \/ name = "london_kz" /\ 120 <= t /\ t < 300
             \/ name = "ny_am_kz" /\ 420 <= t /\ t < 600
             \/ name = "london_close_kz" /\ 600 <= t /\ t < 720
<1>1. t \in Int /\ 0 <= t /\ t < 1440
  BY TimeOfDay DEF IsTimeOfDay
<1>2. TAKE name \in ActiveKillZones(moment, offset)
<1>3. name \in {"asian_kz", "london_kz", "ny_am_kz", "london_close_kz"}
  BY DEF ActiveKillZones, ActiveWindows, KillZones
<1>4. Contains(KillZones[name], LocalTime(moment, offset[KillZones[name].zone]))
  BY DEF ActiveKillZones, ActiveWindows
<1>5. CASE name = "asian_kz"
  BY <1>1, <1>4, <1>5 DEF Contains, KillZones, Window, Clock
<1>6. CASE name = "london_kz"
  BY <1>1, <1>4, <1>6 DEF Contains, KillZones, Window, Clock
<1>7. CASE name = "ny_am_kz"
  BY <1>1, <1>4, <1>7 DEF Contains, KillZones, Window, Clock
<1>8. CASE name = "london_close_kz"
  BY <1>1, <1>4, <1>8 DEF Contains, KillZones, Window, Clock
<1> QED
  BY <1>3, <1>5, <1>6, <1>7, <1>8

(* No two kill zones are active at once: the zone that ends at 10:00 does  *)
(* not contain 10:00, and the one that wraps past midnight ends there.     *)
THEOREM OneKillZoneAtATime ==
    ASSUME NEW moment \in Int, NEW offset \in Offsets
    PROVE  KillZonesAreExclusive(GetSessionContext(moment, offset))
<1> DEFINE t == LocalTime(moment, offset["America/New_York"])
<1>1. t \in Int /\ 0 <= t /\ t < 1440
  BY TimeOfDay DEF IsTimeOfDay
<1>2. \A name \in ActiveKillZones(moment, offset):
        \/ name = "asian_kz" /\ 1200 <= t
        \/ name = "london_kz" /\ 120 <= t /\ t < 300
        \/ name = "ny_am_kz" /\ 420 <= t /\ t < 600
        \/ name = "london_close_kz" /\ 600 <= t /\ t < 720
  BY KillZoneTimes
<1> HIDE DEF t
<1>3. \A a, b \in ActiveKillZones(moment, offset): a = b
  BY <1>1, <1>2
<1> QED
  BY <1>3 DEF KillZonesAreExclusive, GetSessionContext

(* A session that holds the local time is open.                            *)
LEMMA SessionIsOpen ==
    ASSUME NEW moment \in Int, NEW offset \in Offsets,
           NEW name \in DOMAIN TradingSessions,
           Contains(TradingSessions[name],
                    LocalTime(moment, offset[TradingSessions[name].zone]))
    PROVE  OpenSessions(moment, offset) # {}
  BY DEF OpenSessions, ActiveWindows

(* While a kill zone is active some market is open, also in the weeks in   *)
(* which New York has changed its clocks and London has not: Tokyo for the *)
(* Asian zone, India for London's, London for New York's morning, and New  *)
(* York for London's close.                                                *)
THEOREM KillZonesHaveAMarket ==
    ASSUME NEW moment \in Int, NEW offset \in Offsets
    PROVE  KillZonesAreWithinSessions(GetSessionContext(moment, offset))
<1> DEFINE ny == LocalTime(moment, offset["America/New_York"])
           ldn == LocalTime(moment, offset["Europe/London"])
           tokyo == LocalTime(moment, offset["Asia/Tokyo"])
           india == LocalTime(moment, offset["Asia/Kolkata"])
<1>1. SUFFICES ASSUME NEW name \in ActiveKillZones(moment, offset)
               PROVE  OpenSessions(moment, offset) # {}
  BY DEF KillZonesAreWithinSessions, GetSessionContext
<1>2. \/ name = "asian_kz" /\ 1200 <= ny
      \/ name = "london_kz" /\ 120 <= ny /\ ny < 300
      \/ name = "ny_am_kz" /\ 420 <= ny /\ ny < 600
      \/ name = "london_close_kz" /\ 600 <= ny /\ ny < 720
  BY KillZoneTimes
<1>3. CASE 1200 <= ny
  <2>1. 540 <= tokyo /\ tokyo < 900
    BY <1>3, OffsetFacts DEF LocalTime, Day
  <2> QED
    BY <2>1, SessionIsOpen DEF Contains, TradingSessions, Window, Clock
<1>4. CASE 120 <= ny /\ ny < 300
  <2>1. 555 <= india /\ india < 930
    BY <1>4, OffsetFacts DEF LocalTime, Day
  <2> QED
    BY <2>1, SessionIsOpen DEF Contains, TradingSessions, Window, Clock
<1>5. CASE 420 <= ny /\ ny < 600
  <2>1. 480 <= ldn /\ ldn < 990
    BY <1>5, OffsetFacts DEF LocalTime, Day
  <2> QED
    BY <2>1, SessionIsOpen DEF Contains, TradingSessions, Window, Clock
<1>6. CASE 600 <= ny /\ ny < 720
  <2>1. ny \in Int /\ 0 <= ny /\ ny < 1440
    BY TimeOfDay DEF IsTimeOfDay
  <2>2. 570 <= ny /\ ny < 960
    BY <1>6, <2>1
  <2> QED
    BY <2>2, SessionIsOpen DEF Contains, TradingSessions, Window, Clock
<1> QED
  BY <1>2, <1>3, <1>4, <1>5, <1>6
=============================================================================

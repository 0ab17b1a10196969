------------------------------ MODULE Sessions ------------------------------
(***************************************************************************)
(* context/sessions.py: which trading sessions are open and which kill     *)
(* zones are active at a moment.                                           *)
(*                                                                         *)
(* A moment is a number of minutes since some midnight UTC: every window   *)
(* begins and ends on a full minute, so seconds change no comparison.  The *)
(* offsets of the time zones are zoneinfo's; they change with the moment,  *)
(* New York's and London's on different days.                              *)
(***************************************************************************)
EXTENDS Integers

Zones == {"Asia/Tokyo", "Europe/London", "America/New_York", "Asia/Kolkata"}

(* The minutes each zone may be ahead of UTC, in winter and in summer.     *)
ZoneOffsets == [zone \in Zones |->
    CASE zone = "Asia/Tokyo" -> {540}
      [] zone = "Europe/London" -> {0, 60}
      [] zone = "America/New_York" -> {-300, -240}
      [] zone = "Asia/Kolkata" -> {330}]

(* What zoneinfo may say at one moment.                                    *)
Offsets == {offset \in [Zones -> Int]:
              \A zone \in Zones: offset[zone] \in ZoneOffsets[zone]}

Day == 1440

Clock(hour, minute) == 60 * hour + minute

(* _to_local(moment, zone).time()                                          *)
LocalTime(moment, offset) == (moment + offset) % Day

Window(zone, start, end) == [zone |-> zone, start |-> start, end |-> end]

TradingSessions ==
    [tokyo    |-> Window("Asia/Tokyo", Clock(9, 0), Clock(15, 0)),
     london   |-> Window("Europe/London", Clock(8, 0), Clock(16, 30)),
     new_york |-> Window("America/New_York", Clock(9, 30), Clock(16, 0)),
     nse      |-> Window("Asia/Kolkata", Clock(9, 15), Clock(15, 30))]

KillZones ==
    [asian_kz        |-> Window("America/New_York", Clock(20, 0), Clock(0, 0)),
     london_kz       |-> Window("America/New_York", Clock(2, 0), Clock(5, 0)),
     ny_am_kz        |-> Window("America/New_York", Clock(7, 0), Clock(10, 0)),
     london_close_kz |-> Window("America/New_York", Clock(10, 0), Clock(12, 0))]

(* Mutant: the end belongs to the window.                                  *)
MutantContains(window, time) ==
    IF window.start <= window.end
    THEN window.start <= time /\ time <= window.end
    ELSE window.start <= time \/ time <= window.end

(* Window.contains, for the time of day in the window's zone.              *)
Contains(window, time) ==
    IF window.start <= window.end
    THEN window.start <= time /\ time < window.end
    ELSE window.start <= time \/ time < window.end

ActiveWindows(windows, moment, offset) ==
    {name \in DOMAIN windows:
        Contains(windows[name], LocalTime(moment, offset[windows[name].zone]))}

OpenSessions(moment, offset) == ActiveWindows(TradingSessions, moment, offset)
ActiveKillZones(moment, offset) == ActiveWindows(KillZones, moment, offset)

GetSessionContext(moment, offset) ==
    [at |-> moment,
     open_sessions |-> OpenSessions(moment, offset),
     active_kill_zones |-> ActiveKillZones(moment, offset)]

-----------------------------------------------------------------------------
(* At no moment are two kill zones active.                                 *)
KillZonesAreExclusive(context) ==
    \A a, b \in context.active_kill_zones: a = b

(* "Narrow ... windows within those sessions": whenever a kill zone is     *)
(* active some market of the table is open.                                *)
KillZonesAreWithinSessions(context) ==
    context.active_kill_zones # {} => context.open_sessions # {}
=============================================================================

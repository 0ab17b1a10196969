----------------------- MODULE CommandLineProperties -----------------------
(***************************************************************************)
(* What the command line process must guarantee.                           *)
(***************************************************************************)
EXTENDS CommandLine

(* The value a setting has by run.py's words: "a real environment variable *)
(* already set always wins over the file", and in the file the first line. *)
FirstSource(key) ==
    LET lines == {n \in 1 .. Len(launch.file): launch.file[n].key = key}
    IN  CASE launch.environ[key] # Unset -> launch.environ[key]
          [] launch.environ[key] = Unset /\ lines = {} -> Unset
          [] OTHER -> launch.file[CHOOSE n \in lines: \A m \in lines: n <= m].value

HasKey(key) == FirstSource(key) \notin {Unset, ""}

(* Every setting comes from its first source, wherever it is repeated; no  *)
(* cycle runs without the keys of the chosen provider and of the model;    *)
(* and the live branch of the gate takes both switches, each from its      *)
(* first source.                                                           *)
SettingsHaveOneSource ==
    /\ pc \in {"client", "runner"} \cup LoopSteps =>
        \A key \in Keys: environ[key] = FirstSource(key)
    /\ pc \in LoopSteps => HasKey(ClientKey) /\ HasKey("ANTHROPIC_API_KEY")
    /\ liveReached =>
        /\ FirstSource("ICTAGENT_PHASE") = "autonomous"
        /\ FirstSource("ICTAGENT_LIVE_TRADING_CONFIRM") = "confirm"

(* The audit trail follows the clock, over passes and processes: each      *)
(* decision was made on a context taken after the decision before it.      *)
TrailFollowsTheClock ==
    /\ \A n \in 1 .. Len(rows): rows[n].context.at <= rows[n].at
    /\ \A n \in 1 .. Len(rows) - 1: rows[n].at <= rows[n + 1].context.at

(* Whatever the model answers, only decisions that keep the playbook's     *)
(* discipline get into the trail: an enter has its direction.              *)
TrailIsDisciplined ==
    \A n \in 1 .. Len(rows):
        rows[n].decision.action = "enter" => rows[n].decision.direction # "none"

(* A reported decision has a committed row of its own, and an open         *)
(* position is that of a committed enter for its instrument.               *)
ReportedIsCommitted ==
    /\ \A n \in 1 .. Len(results): results[n].id <= durable
    /\ \A m, n \in 1 .. Len(results):
        m < n /\ results[m].id # 0 /\ results[n].id # 0 =>
            results[m].id < results[n].id
    /\ \A i \in Instruments: HasPosition(i) =>
        /\ positions[i] \in 1 .. durable
        /\ rows[positions[i]].decision.action = "enter"
        /\ rows[positions[i]].decision.instrument = i

(* The whole story, as long as the machine's clock is not set back.        *)
TrailTellsTheStory ==
    TrailFollowsTheClock /\ TrailIsDisciplined /\ ReportedIsCommitted

(* The context of a turn names at most one kill zone, and never one at a   *)
(* moment at which none of the markets is open.                            *)
KillZonesFit ==
    context # NoContext =>
        /\ KillZonesAreExclusive(context)
        /\ KillZonesAreWithinSessions(context)

(* run_once and run_forever are passes over the watchlist.                 *)
Pass == INSTANCE WatchlistPass
          WITH List <- Watchlist, limit <- Limit,
               served <- [n \in 1 .. Len(results) |-> results[n].instrument]

PassSpec == Pass!Spec

(* A pass that has begun is reported, whatever its providers, its context, *)
(* the model and the database raise, unless a request never returns or the *)
(* process is interrupted.                                                 *)
PassesAreReported ==
    pc \in TurnSteps ~>
        \/ pc \in {"report", "hung"}
        \/ pc = "off" /\ ended \in {"stopped", "KeyboardInterrupt"}
=============================================================================

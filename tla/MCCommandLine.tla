---------------------------- MODULE MCCommandLine ----------------------------
(***************************************************************************)
(* A small instance of CommandLine for TLC.                                *)
(***************************************************************************)
EXTENDS CommandLineProperties, TLC

CONSTANTS eur, gbp, noname

MCInstruments == {eur, gbp}
MCWatchlist == <<eur, gbp>>

Input(action, instrument, direction, priced, confidence, rationale) ==
    [action |-> action, instrument |-> instrument, direction |-> direction,
     priced |-> priced, confidence |-> confidence, rationale |-> rationale]

(* An enter, one without a direction, one without a price and for whatever *)
(* was asked, an exit, and replies without an action or with a confidence  *)
(* that is no number.                                                      *)
MCRawReplies ==
    {Input("enter", gbp, "bullish", TRUE, "in_range", "text"),
     Input("enter", noname, "none", TRUE, "in_range", "text"),
     Input("enter", noname, "bearish", FALSE, "none", "text"),
     Input("exit", gbp, "none", FALSE, "none", "text"),
     Input("missing", noname, "none", FALSE, "none", "text"),
     Input("hold", noname, "none", FALSE, "not_a_number", "text")}

Environ(phase, confirm, twelve, oanda, environment, anthropic) ==
    [ICTAGENT_PHASE |-> phase, ICTAGENT_LIVE_TRADING_CONFIRM |-> confirm,
     TWELVEDATA_API_KEY |-> twelve, OANDA_API_TOKEN |-> oanda,
     OANDA_ENVIRONMENT |-> environment, ANTHROPIC_API_KEY |-> anthropic]

Line(key, value) == [key |-> key, value |-> value]

Launch(environment, file, provider, forever, limit) ==
    [environ |-> environment, file |-> file, provider |-> provider,
     forever |-> forever, limit |-> limit]

(* Paper for ever, with .env's keys; one cycle of OANDA, live, with a      *)
(* second ICTAGENT_PHASE in .env; an empty key that hides .env's; an       *)
(* unknown OANDA environment; one pass that waits for confirmation; no key *)
(* for the model.                                                          *)
MCLaunches ==
    {Launch(Environ(Unset, Unset, "key", Unset, Unset, Unset),
            <<Line("ANTHROPIC_API_KEY", "key"), Line(NoKey, ""),
              Line("ANTHROPIC_API_KEY", "")>>, "twelvedata", TRUE, NoLimit),
     Launch(Environ(Unset, "confirm", Unset, "key", "practice", "key"),
            <<Line("ICTAGENT_PHASE", "autonomous"),
              Line("ICTAGENT_PHASE", "paper")>>, "oanda", TRUE, 1),
     Launch(Environ(Unset, Unset, "", Unset, Unset, "key"),
            <<Line("TWELVEDATA_API_KEY", "key")>>, "twelvedata", FALSE, NoLimit),
     Launch(Environ(Unset, Unset, Unset, "key", "other", "key"),
            <<>>, "oanda", FALSE, NoLimit),
     Launch(Environ("semi_auto", Unset, "key", Unset, Unset, "key"),
            <<Line("ICTAGENT_PHASE", "autonomous")>>, "twelvedata", FALSE, NoLimit),
     Launch(Environ(Unset, Unset, "key", Unset, Unset, Unset),
            <<>>, "twelvedata", FALSE, NoLimit)}

(* From Saturday 7 March 2026, 0:00 UTC; New York changes its clocks on    *)
(* Sunday at 7:00 UTC, London three weeks later.  10:00 in New York before *)
(* and after it: one kill zone ends, another begins.                       *)
MCMoments == {900, 2280}
MCOffsetAt == [m \in MCMoments |->
    [zone \in Zones |->
        CASE zone = "Asia/Tokyo" -> 540
          [] zone = "Asia/Kolkata" -> 330
          [] zone = "Europe/London" -> 0
          [] OTHER -> IF m < 1860 THEN -300 ELSE -240]]
=============================================================================

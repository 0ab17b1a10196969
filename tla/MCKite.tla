------------------------------- MODULE MCKite -------------------------------
(* Constants for the run of KiteSession: one name on two exchanges, and a   *)
(* contract that is listed on some days only.                              *)
EXTENDS KiteSession, TLC

CONSTANTS nse, nfo, infy, future

MCExchanges == {nse, nfo}
MCSymbols == {infy, future}
MCListings == {(nse :> {infy}) @@ (nfo :> s): s \in {{infy}, {infy, future}}}
=============================================================================

----------------------------- MODULE MCScheduler -----------------------------
(***************************************************************************)
(* Small instances of CycleScheduler for TLC.                              *)
(***************************************************************************)
EXTENDS SchedulerProperties, TLC

CONSTANTS loop, now1, now2, op1, op2, eur, gbp, noname

(* The threads that run POST /phase are interchangeable.                   *)
MCRequestSymmetry == Permutations(PhaseThreads)

MCInstruments == {eur, gbp}
MCOneInstrument == {eur}

MCTwo == <<eur, gbp>>
MCOne == <<eur>>

Reply(a, i, p) == [action |-> a, instrument |-> i, priced |-> p]

(* Every branch of the gate, all about the instrument of the cycle.        *)
MCReplies == {Reply("enter", noname, TRUE), Reply("enter", noname, FALSE),
              Reply("exit", noname, FALSE), Reply("no_trade", noname, FALSE)}

(* The branches that move the ledger.                                      *)
MCTrades == {Reply("enter", noname, TRUE), Reply("exit", noname, FALSE)}

(* As MCReplies with every enter priced, and the model may name another    *)
(* instrument than the one it was asked about.                             *)
MCStrayReplies ==
    (MCReplies \ {Reply("enter", noname, FALSE)}) \cup {Reply("enter", gbp, TRUE)}

Env(p, c, k) == [phase |-> p, confirmed |-> c, credentials |-> k]

MCPaperEnvironments == {Env("paper", FALSE, TRUE), Env("paper", TRUE, FALSE)}
MCPaperEnvironment == {Env("paper", FALSE, TRUE)}
MCTwoEnvironments == {Env("paper", FALSE, TRUE), Env("paper", TRUE, TRUE)}
=============================================================================

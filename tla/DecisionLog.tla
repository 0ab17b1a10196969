----------------------------- MODULE DecisionLog -----------------------------
(***************************************************************************)
(* logging/store.py: the audit trail, one sqlite connection shared by all  *)
(* threads.  record() is two calls on that connection, execute(INSERT) and *)
(* commit(), and the transaction they act on belongs to the connection,    *)
(* not to the thread: a commit makes EVERY pending row durable.            *)
(*                                                                         *)
(* A row's id is its position in `rows`: ids are AUTOINCREMENT, nothing    *)
(* deletes a row, and a rolled-back or lost INSERT gives its id back.      *)
(***************************************************************************)
EXTENDS Naturals, Sequences, TradingTypes

CONSTANT CommitErrors  \* how sqlite's commit can fail, see LogCommitFails

ASSUME CommitErrorsAssumption == CommitErrors \subseteq {"busy", "rollback"}

VARIABLES
    rows,     \* the decisions this process sees in the table
    durable   \* how many of them are committed

logVars == <<rows, durable>>

LogTypeOK == rows \in Seq(Decisions) /\ durable \in Nat

LogInit == rows = <<>> /\ durable = 0

(* Mutant: the INSERT replaces the newest row.                             *)
MutantLogInsert(d) ==
    /\ rows' = IF rows = <<>> THEN <<d>> ELSE [rows EXCEPT ![Len(rows)] = d]
    /\ UNCHANGED durable

LogInsert(d) ==
    /\ rows' = Append(rows, d)
    /\ UNCHANGED durable

(* Mutant: record() forgets to commit.                                     *)
MutantLogCommit == UNCHANGED logVars

LogCommit ==
    /\ durable' = Len(rows)
    /\ UNCHANGED rows

(* "busy": another process holds the file (SQLITE_BUSY); the transaction   *)
(* stays open.  "rollback": an I/O or disk-full error, after which sqlite  *)
(* has rolled the connection's transaction back.                           *)
LogCommitFails(error) ==
    /\ rows' = IF error = "rollback" THEN SubSeq(rows, 1, durable) ELSE rows
    /\ UNCHANGED durable

(* The process dies: what was not committed is gone.                       *)
LogCrash ==
    /\ rows' = SubSeq(rows, 1, durable)
    /\ UNCHANGED durable

IsDurableRow(id, d) == id \in 1 .. durable /\ rows[id] = d
=============================================================================

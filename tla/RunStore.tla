------------------------------ MODULE RunStore ------------------------------
(***************************************************************************)
(* The history table `runs` of internal/store/store.go for one task, as a  *)
(* sequence of rows (a row's id is its position: AUTOINCREMENT never       *)
(* reuses one), and the queries and updates the engine makes on it.        *)
(* Column log_path is left out; `upto` stands for the text of a summary    *)
(* row, "n fires between A and B coalesced into this row".  A deleted row  *)
(* keeps its place and is marked `pruned`; no statement finds it again.    *)
(***************************************************************************)
EXTENDS Integers, Sequences, Schedule

\* exit_code IS NULL.
NoExit == -2

ExitCodes == {NoExit, -1, 0, 1}
Outcomes  == {"on_time", "queued", "missed", "manual"}
Reasons   == {"", "overlap", "catch_up_disabled", "coalesced", "daemon_stop"}
Errors    == {"", "signal", "timeout", "log_cap", "restart", "launch", "unknown", "summary"}

Row == [sched : Int, start : Int, finish : Int, exit : ExitCodes,
        outcome : Outcomes, reason : Reasons, error : Errors, upto : Int, pruned : BOOLEAN]

NewRow(sched, start, outcome, reason) ==
    [sched |-> sched, start |-> start, finish |-> NoTime, exit |-> NoExit,
     outcome |-> outcome, reason |-> reason, error |-> "", upto |-> sched, pruned |-> FALSE]

StartRun(rows, sched, outcome, now) == Append(rows, NewRow(sched, now, outcome, ""))

RecordMissed(rows, fire, reason) == Append(rows, NewRow(fire, NoTime, "missed", reason))

Closed(row, code, err, now) == [row EXCEPT !.finish = now, !.exit = code, !.error = err]

\* Both updates carry the guard `AND finished_at IS NULL`.
FinishRun(rows, id, code, err, now) ==
    IF id \in DOMAIN rows /\ rows[id].finish = NoTime /\ ~rows[id].pruned
    THEN [rows EXCEPT ![id] = Closed(@, code, err, now)]
    ELSE rows

FinishRunUnknownExit(rows, id, err, now) == FinishRun(rows, id, NoExit, err, now)

FinishAllUnknown_Skips(rows, ids, now) == rows

FinishAllUnknown(rows, ids, now) ==
    [i \in DOMAIN rows |-> IF i \in ids THEN FinishRunUnknownExit(rows, i, "unknown", now)[i]
                           ELSE rows[i]]

Kept(rows) == {i \in DOMAIN rows : ~rows[i].pruned}

\* started_at of the newest row, NoTime when it has none (a missed row) or
\* when there is no row: the engine's use of LastRun.
LastRunStart(rows) == IF Kept(rows) = {} THEN NoTime ELSE rows[Latest(Kept(rows))].start

\* finished_at of the newest row with exit_code = 0: the engine's use of
\* LastSuccess.
LastSuccess(rows) ==
    LET ok == {i \in Kept(rows) : rows[i].exit = 0}
    IN  IF ok = {} THEN NoTime ELSE rows[Latest(ok)].finish

\* COALESCE(finished_at, started_at, scheduled_for)
LastTouched_Planned(row) == row.sched
LastTouched(row) == IF row.finish # NoTime THEN row.finish
                    ELSE IF row.start # NoTime THEN row.start ELSE row.sched

\* Deletes by age alone, whether a row is open or not.
Prune(rows, cutoff) ==
    [i \in DOMAIN rows |-> [rows[i] EXCEPT !.pruned = @ \/ LastTouched(rows[i]) < cutoff]]
=============================================================================

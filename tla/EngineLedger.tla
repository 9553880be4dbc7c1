---------------------------- MODULE EngineLedger ----------------------------
(* The scheduler as an implementation of FireLedger. *)
EXTENDS Engine

\* A row as the ledger sees it; a pruned run is none that others wait for.
LedgerEntry(row) ==
    [first  |-> row.sched, last |-> row.upto, manual |-> row.outcome = "manual",
     state  |-> IF row.start = NoTime THEN "missed"
                ELSE IF row.finish = NoTime /\ ~row.pruned THEN "running" ELSE "ended"]

Ledger == INSTANCE FireLedger WITH
    None    <- NoTime,
    on      <- up # "down" /\ cfg # NoTask,
    ledger  <- [i \in DOMAIN rows |-> LedgerEntry(rows[i])],
    waiting <- queued

\* store.go "Every planned fire ends up as exactly one row", README "a task
\* cannot double-run across a restart": through stops, crashes, adoptions and
\* reloads the history and the queue behave as FireLedger says: runs alone, rows
\* only added and ended once, fires taken in order and at most once, the queued
\* one lost only with its daemon or its task.
ImplementsFireLedger == Ledger!Spec
=============================================================================

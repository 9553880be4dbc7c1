----------------------------- MODULE FireLedger -----------------------------
(***************************************************************************)
(* What task-clock promises about the fires of one task, whatever daemons  *)
(* come and go: a ledger to which entries are only added, in which a run   *)
(* ends at most once and runs alone, and at most one fire that waits.      *)
(* Every fire is dealt with in its turn and at most once.                  *)
(*                                                                         *)
(* Abstract specification; EngineLedger maps the scheduler to it.          *)
(***************************************************************************)
EXTENDS Integers, Sequences

CONSTANT None       \* no fire; an integer before every fire

VARIABLES
    on,             \* a daemon is alive and knows the task
    ledger,         \* one entry per run, missed fire or summary of missed fires
    waiting         \* the fire that waits for the current run to end, or None

ledgerVars == <<on, ledger, waiting>>

Entry == [first : Int, last : Int, manual : BOOLEAN, state : {"missed", "running", "ended"}]

Missed(f) == [first |-> f, last |-> f, manual |-> FALSE, state |-> "missed"]
Run(f)    == [Missed(f) EXCEPT !.state = "running"]

Running(l)  == {i \in DOMAIN l : l[i].state = "running"}
Ended(l, S) == [i \in DOMAIN l |-> IF i \in S THEN [l[i] EXCEPT !.state = "ended"] ELSE l[i]]

\* Fire f is later than every fire dealt with so far, the waiting one included.
Fresh(f) == waiting < f /\ \A i \in DOMAIN ledger : ledger[i].manual \/ ledger[i].last < f

\* The entries s deal with fresh fires in order, all but the last as missed.
Taken(s) ==
    /\ s # <<>> /\ Fresh(s[1].first)
    /\ \A i \in DOMAIN s : ~s[i].manual /\ s[i].first <= s[i].last
    /\ \A i \in 1 .. Len(s) - 1 : s[i].state = "missed" /\ s[i].last < s[i + 1].first

-----------------------------------------------------------------------------
\* In each action l is the ledger with the runs marked that end in the same
\* step, and new the entries it gains.

StartFire(l, new) ==
    /\ on /\ Running(l) = {} /\ waiting = None
    /\ Taken(new) /\ new[Len(new)].state = "running"
    /\ waiting' = None

MissFire(l, new) ==
    /\ on /\ Taken(new) /\ new[Len(new)].state = "missed"
    /\ waiting' = waiting

QueueFire(l, new) ==
    /\ on /\ Running(l) # {} /\ waiting = None
    /\ waiting' # None /\ Taken(Append(new, Missed(waiting')))

\* The waiting fire gives way to a later one, and is missed.
ReplaceFire(l, new) ==
    /\ on /\ waiting # None
    /\ new # <<>> /\ new[Len(new)] = Missed(waiting)
    /\ waiting' # None /\ Taken(Append(SubSeq(new, 1, Len(new) - 1), Missed(waiting')))

StartWaiting(l, new) ==
    /\ on /\ Running(l) = {} /\ waiting # None
    /\ new = <<Run(waiting)>> /\ waiting' = None

\* A daemon that stops in order says which fire it drops.
DropWaiting(l, new) ==
    /\ on /\ waiting # None
    /\ new = <<Missed(waiting)>> /\ waiting' = None

StartManual(l, new) ==
    /\ on /\ Running(l) = {} /\ waiting = None
    /\ Len(new) = 1 /\ new[1].manual /\ new[1].state = "running"
    /\ waiting' = None

Rest(l, new) == new = <<>> /\ waiting' = waiting

\* Only the death of the daemon or the removal of the task loses a fire.
Forget(l, new) == on /\ ~on' /\ new = <<>> /\ waiting' = None

Init == on = FALSE /\ ledger = <<>> /\ waiting = None

Next ==
    /\ on' \in BOOLEAN
    /\ \E S \in SUBSET Running(ledger) :
       LET l   == Ended(ledger, S)
           new == SubSeq(ledger', Len(l) + 1, Len(ledger'))
       IN  /\ ledger' = l \o new
           /\ \/ StartFire(l, new) \/ MissFire(l, new) \/ QueueFire(l, new) \/ ReplaceFire(l, new)
              \/ StartWaiting(l, new) \/ DropWaiting(l, new) \/ StartManual(l, new)
              \/ Rest(l, new) \/ Forget(l, new)

Spec == Init /\ [][Next]_ledgerVars
=============================================================================

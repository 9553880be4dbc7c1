----------------------------- MODULE LogRotate -----------------------------
(***************************************************************************)
(* internal/logrotate: the daemon's own log, daemon.log (generation 0) and *)
(* daemon.log.1 .. daemon.log.<Keep>.  A log is a record of its files, of  *)
(* the size the Writer believes the active one to have, and of the number  *)
(* of lines ever written; an absent file is the empty one.                 *)
(***************************************************************************)
EXTENDS Integers, Sequences, SequencesExt

CONSTANTS MaxBytes, Keep     \* daemonLogMaxBytes, daemonLogKeep

ASSUME LogAssumption == MaxBytes \in Nat \ {0} /\ Keep \in Nat \ {0}

\* Auxiliary: `degraded`, the active file could once not be renamed; `holed`,
\* a file that could not be renamed was once replaced by the next younger one.
Line == [n : Nat, len : Nat]
Log  == [gens : [0 .. Keep -> Seq(Line)], size : Nat, lines : Nat, degraded : BOOLEAN, holed : BOOLEAN]

NewLog == [gens |-> [i \in 0 .. Keep |-> <<>>], size |-> 0, lines |-> 0,
           degraded |-> FALSE, holed |-> FALSE]

Bytes(file) ==
    LET sum[i \in 0 .. Len(file)] == IF i = 0 THEN 0 ELSE sum[i - 1] + file[i].len
    IN  sum[Len(file)]

\* New stats the file it appends to.
Opened(l) == [l EXCEPT !.size = Bytes(l.gens[0])]

\* The files without a Writer.
Left(l) == [l EXCEPT !.size = 0]

\* A rename of a missing file fails and leaves the target alone.
Rename(gens, i) == IF gens[i] = <<>> THEN gens
                   ELSE [gens EXCEPT ![i + 1] = gens[i], ![i] = <<>>]

Shifted_Upwards(gens, k, failed) ==
    LET after[i \in -1 .. Keep - 1] ==
            IF i = -1 THEN gens ELSE IF i \in failed THEN after[i - 1] ELSE Rename(after[i - 1], i)
    IN  after[Keep - 1 - k]

\* The files once generations Keep - 1 down to k have been renamed: the
\* error of a rename is ignored, and those that `failed` changed nothing.
Shifted(gens, k, failed) ==
    LET after[i \in 0 .. Keep] ==
            IF i = Keep THEN gens ELSE IF i \in failed THEN after[i + 1] ELSE Rename(after[i + 1], i)
    IN  after[k]

Failures == SUBSET (0 .. Keep - 1)

Holes(gens, k, failed) ==
    \E i \in failed : i > k /\ i - 1 \notin failed /\ gens[i] # <<>> /\ gens[i - 1] # <<>>

Renamed(l, k, failed) == [l EXCEPT !.gens = Shifted(@, k, failed), !.holed = @ \/ Holes(l.gens, k, failed)]

Overflows(l, len) == l.size + len > MaxBytes /\ l.size > 0

\* The new active file starts at size 0, or the old one does when it could
\* not be renamed: then lines are appended in place.
Rotated(l) ==
    {[Renamed(l, 0, failed) EXCEPT !.size = 0, !.degraded = @ \/ 0 \in failed] : failed \in Failures}

Appended(l, len) == [l EXCEPT !.gens[0] = Append(@, [n |-> l.lines + 1, len |-> len]),
                              !.size = @ + len, !.lines = @ + 1]

\* Write, under the Writer's mutex.
Written(l, len) == {Appended(r, len) : r \in IF Overflows(l, len) THEN Rotated(l) ELSE {l}}

\* What a crash may leave of a log to which a line of length len is due.
CutShort(l, len) ==
    {l} \cup IF Overflows(l, len)
             THEN UNION {{Renamed(l, k, failed) : failed \in Failures} : k \in 0 .. Keep}
             ELSE {}

-----------------------------------------------------------------------------
\* All generations, oldest first.
AllLines(l) == FlattenSeq([i \in 1 .. Keep + 1 |-> l.gens[Keep + 1 - i]])

\* The files hold the last lines written, in order and without a gap; lines
\* are lost only off the end of generation Keep.
LastLinesKept(l) ==
    LET all == AllLines(l)
    IN  /\ \A i \in DOMAIN all : all[i].n = l.lines - Len(all) + i
        /\ Len(all) < l.lines => l.gens[Keep] # <<>>

\* Every file holds lines in the order written and only older ones than the
\* files of lower generations, and the line written last is in one of them.
Ordered(file)    == \A a, b \in DOMAIN file : a < b => file[a].n < file[b].n
Older(old, file) == \A a \in DOMAIN old, b \in DOMAIN file : old[a].n < file[b].n
InOrder(l) ==
    /\ \A i \in 0 .. Keep : Ordered(l.gens[i])
    /\ \A i, j \in 0 .. Keep : i < j => Older(l.gens[j], l.gens[i])
    /\ l.lines > 0 => \E i \in 0 .. Keep : \E a \in DOMAIN l.gens[i] : l.gens[i][a].n = l.lines

\* No file exceeds the cap, but for one line that does so by itself.
Capped(l) == ~l.degraded => \A i \in 0 .. Keep : Bytes(l.gens[i]) <= MaxBytes \/ Len(l.gens[i]) = 1
=============================================================================

------------------------------ MODULE Schedule ------------------------------
(***************************************************************************)
(* The cron arithmetic of internal/schedule/schedule.go.  A cron           *)
(* expression is abstracted to the set of instants it fires at; what the   *)
(* engine relies on is only how Next and FiresBetween walk that set.       *)
(***************************************************************************)
EXTENDS Integers, FiniteSets

\* The zero time.Time: "no fire", "never".
NoTime == -1

Earliest(S) == CHOOSE t \in S : \A u \in S : t <= u
Latest(S)   == CHOOSE t \in S : \A u \in S : t >= u

\* The members of a finite set in order, as the one sequence in a set.
Ascending(S) == {s \in [1 .. Cardinality(S) -> S] :
                    \A i, j \in 1 .. Cardinality(S) : i < j => s[i] < s[j]}

NextAfter_NotStrict(Fires, t) ==
    LET later == {f \in Fires : f >= t}
    IN  IF later = {} THEN NoTime ELSE Earliest(later)

\* The first fire strictly after t, or NoTime when there is none.
NextAfter(Fires, t) ==
    LET later == {f \in Fires : f > t}
    IN  IF later = {} THEN NoTime ELSE Earliest(later)

\* The fires in (after, until], only the max earliest of them.
FiresBetween(Fires, after, until, max) ==
    LET elapsed == {f \in Fires : after < f /\ f <= until}
    IN  {f \in elapsed : Cardinality({g \in elapsed : g < f}) < max}
=============================================================================

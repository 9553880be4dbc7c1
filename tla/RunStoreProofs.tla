--------------------------- MODULE RunStoreProofs ---------------------------
(***************************************************************************)
(* Lemmas about Schedule and RunStore: what their operators return, and    *)
(* that no update of the history touches a closed row.                     *)
(***************************************************************************)
EXTENDS RunStore, TLAPS, WellFoundedInduction, FiniteSetTheorems

-----------------------------------------------------------------------------
(* Lemmas about Schedule *)

\* Every nonempty set of naturals has an earliest member, and Earliest is it.
LEMMA EarliestInSet ==
    ASSUME NEW S \in SUBSET Nat, S # {}
    PROVE  Earliest(S) \in S /\ \A u \in S : Earliest(S) <= u
<1>1. PICK x \in S : \A y \in S : ~(<<y, x>> \in OpToRel(<, Nat))
  BY NatLessThanWellFounded, WFMin
<1>2. \A y \in S : ~(y < x)
  BY <1>1 DEF OpToRel
<1>3. x \in S /\ \A y \in S : x <= y
  BY <1>2
<1> QED
  BY <1>3 DEF Earliest

\* Every nonempty set of numbers up to n has a latest member.
LEMMA LatestInSet ==
    ASSUME NEW n \in Nat, NEW S \in SUBSET (1 .. n), S # {}
    PROVE  Latest(S) \in S /\ \A u \in S : Latest(S) >= u
<1> DEFINE D == {n - s : s \in S}
<1>1. D \in SUBSET Nat /\ D # {}
  <2>1. \A s \in S : s \in Nat /\ n - s \in Nat
    OBVIOUS
  <2> QED
    BY <2>1
<1>2. Earliest(D) \in D /\ \A d \in D : Earliest(D) <= d
  BY <1>1, EarliestInSet
<1>3. PICK x \in S : Earliest(D) = n - x
  BY <1>2
<1>4. \A u \in S : n - x <= n - u
  BY <1>2, <1>3
<1>5. \A u \in S : x >= u
  BY <1>4
<1> QED
  BY <1>3, <1>5 DEF Latest

\* NextAfter is a fire or "none", it lies strictly in the future, and it skips
\* no fire.
LEMMA NextAfterType ==
    ASSUME NEW F \in SUBSET Nat, NEW t \in Int
    PROVE  /\ NextAfter(F, t) \in F \cup {NoTime}
           /\ NextAfter(F, t) # NoTime => NextAfter(F, t) > t
           /\ \A f \in F : f > t => NextAfter(F, t) # NoTime /\ NextAfter(F, t) <= f
<1> DEFINE later == {f \in F : f > t}
<1>1. CASE later = {}
  BY <1>1 DEF NextAfter, NoTime
<1>2. CASE later # {}
  <2>1. Earliest(later) \in later /\ \A u \in later : Earliest(later) <= u
    BY <1>2, EarliestInSet
  <2>2. NextAfter(F, t) = Earliest(later)
    BY <1>2 DEF NextAfter
  <2> QED
    BY <2>1, <2>2 DEF NoTime
<1> QED
  BY <1>1, <1>2

\* A finite set in ascending order is a sequence of its members, not empty
\* unless the set is.
LEMMA AscendingType ==
    ASSUME NEW S, IsFiniteSet(S), S # {}, NEW f \in Ascending(S)
    PROVE  f \in Seq(S) /\ Len(f) \in Nat /\ Len(f) >= 1 /\ f[Len(f)] \in S
<1>1. Cardinality(S) \in Nat /\ Cardinality(S) # 0
  BY FS_CardinalityType, FS_EmptySet
<1>2. f \in [1 .. Cardinality(S) -> S]
  BY DEF Ascending
<1> QED
  BY <1>1, <1>2

LEMMA ElementType ==
    ASSUME NEW S, NEW f \in Seq(S)
    PROVE  \A i \in 1 .. Len(f) : f[i] \in S
OBVIOUS

\* The backlog, all fires but the last one, is a sequence of fires.
LEMMA FrontType ==
    ASSUME NEW S, NEW f \in Seq(S), Len(f) >= 1
    PROVE  SubSeq(f, 1, Len(f) - 1) \in Seq(S)
OBVIOUS

-----------------------------------------------------------------------------
(* Lemmas about RunStore *)

LEMMA NewRowType ==
    ASSUME NEW sched \in Int, NEW start \in Int, NEW outcome \in Outcomes, NEW reason \in Reasons
    PROVE  NewRow(sched, start, outcome, reason) \in Row
BY DEF NewRow, Row, ExitCodes, Errors, NoExit, NoTime

\* An insert adds one row, at the end.
LEMMA AppendRow ==
    ASSUME NEW r \in Seq(Row), NEW row \in Row
    PROVE  /\ Append(r, row) \in Seq(Row)
           /\ Len(Append(r, row)) = Len(r) + 1
           /\ \A i \in 1 .. Len(r) : Append(r, row)[i] = r[i]
OBVIOUS

LEMMA StartRunType ==
    ASSUME NEW r \in Seq(Row), NEW sched \in Int, NEW outcome \in Outcomes, NEW t \in Int
    PROVE  /\ StartRun(r, sched, outcome, t) \in Seq(Row)
           /\ Len(StartRun(r, sched, outcome, t)) = Len(r) + 1
           /\ \A i \in 1 .. Len(r) : StartRun(r, sched, outcome, t)[i] = r[i]
<1>1. NewRow(sched, t, outcome, "") \in Row
  BY NewRowType DEF Reasons
<1> QED
  BY <1>1, AppendRow, Zenon DEF StartRun

LEMMA RecordMissedType ==
    ASSUME NEW r \in Seq(Row), NEW fire \in Int, NEW reason \in Reasons
    PROVE  /\ RecordMissed(r, fire, reason) \in Seq(Row)
           /\ Len(RecordMissed(r, fire, reason)) = Len(r) + 1
           /\ \A i \in 1 .. Len(r) : RecordMissed(r, fire, reason)[i] = r[i]
<1>1. NewRow(fire, NoTime, "missed", reason) \in Row
  BY NewRowType DEF Outcomes, NoTime
<1> QED
  BY <1>1, AppendRow, Zenon DEF RecordMissed

LEMMA ClosedType ==
    ASSUME NEW row \in Row, NEW code \in ExitCodes, NEW err \in Errors, NEW t \in Int
    PROVE  /\ Closed(row, code, err, t) \in Row
           /\ Closed(row, code, err, t).start = row.start
BY DEF Closed, Row

\* Replacing one row keeps the history's length and every other row.
LEMMA ReplaceRow ==
    ASSUME NEW r \in Seq(Row), NEW id \in 1 .. Len(r), NEW row \in Row
    PROVE  /\ [r EXCEPT ![id] = row] \in Seq(Row)
           /\ Len([r EXCEPT ![id] = row]) = Len(r)
           /\ \A i \in 1 .. Len(r) : [r EXCEPT ![id] = row][i] = IF i = id THEN row ELSE r[i]
OBVIOUS

\* Closing a row keeps the history's length, every closed row and every start.
LEMMA FinishRunType ==
    ASSUME NEW r \in Seq(Row), NEW id, NEW code \in ExitCodes, NEW err \in Errors, NEW t \in Int
    PROVE  /\ FinishRun(r, id, code, err, t) \in Seq(Row)
           /\ Len(FinishRun(r, id, code, err, t)) = Len(r)
           /\ \A i \in 1 .. Len(r) : r[i].finish # NoTime => FinishRun(r, id, code, err, t)[i] = r[i]
           /\ \A i \in 1 .. Len(r) : i # id => FinishRun(r, id, code, err, t)[i] = r[i]
<1> USE DOMAIN r = 1 .. Len(r)
<1>1. CASE id \in DOMAIN r /\ r[id].finish = NoTime /\ ~r[id].pruned
  <2>1. id \in 1 .. Len(r) /\ r[id] \in Row
    BY <1>1
  <2>2. PICK row \in Row : row = Closed(r[id], code, err, t)
    BY <2>1, ClosedType, Zenon
  <2>3. FinishRun(r, id, code, err, t) = [r EXCEPT ![id] = row]
    BY <1>1, <2>2, Zenon DEF FinishRun
  <2>4. /\ [r EXCEPT ![id] = row] \in Seq(Row)
        /\ Len([r EXCEPT ![id] = row]) = Len(r)
        /\ \A i \in 1 .. Len(r) : [r EXCEPT ![id] = row][i] = IF i = id THEN row ELSE r[i]
    BY <2>1, ReplaceRow
  <2> QED
    BY <1>1, <2>3, <2>4
<1>2. CASE ~(id \in DOMAIN r /\ r[id].finish = NoTime /\ ~r[id].pruned)
  BY <1>2 DEF FinishRun
<1> QED
  BY <1>1, <1>2

LEMMA FinishRunUnknownExitType ==
    ASSUME NEW r \in Seq(Row), NEW id, NEW err \in Errors, NEW t \in Int
    PROVE  /\ FinishRunUnknownExit(r, id, err, t) \in Seq(Row)
           /\ Len(FinishRunUnknownExit(r, id, err, t)) = Len(r)
           /\ \A i \in 1 .. Len(r) :
                r[i].finish # NoTime => FinishRunUnknownExit(r, id, err, t)[i] = r[i]
           /\ \A i \in 1 .. Len(r) : i # id => FinishRunUnknownExit(r, id, err, t)[i] = r[i]
<1>1. NoExit \in ExitCodes
  BY DEF ExitCodes
<1> QED
  BY <1>1, FinishRunType, Zenon DEF FinishRunUnknownExit

LEMMA FinishAllUnknownType ==
    ASSUME NEW r \in Seq(Row), NEW ids, NEW t \in Int
    PROVE  /\ FinishAllUnknown(r, ids, t) \in Seq(Row)
           /\ Len(FinishAllUnknown(r, ids, t)) = Len(r)
           /\ \A i \in 1 .. Len(r) : r[i].finish # NoTime => FinishAllUnknown(r, ids, t)[i] = r[i]
           /\ \A i \in 1 .. Len(r) : i \notin ids => FinishAllUnknown(r, ids, t)[i] = r[i]
<1> USE DOMAIN r = 1 .. Len(r)
<1> DEFINE F(i) == FinishRunUnknownExit(r, i, "unknown", t)
           G(i) == IF i \in ids THEN F(i)[i] ELSE r[i]
           all  == [i \in DOMAIN r |-> G(i)]
<1>1. SUFFICES /\ all \in Seq(Row) /\ Len(all) = Len(r)
               /\ \A i \in 1 .. Len(r) : r[i].finish # NoTime => all[i] = r[i]
               /\ \A i \in 1 .. Len(r) : i \notin ids => all[i] = r[i]
  BY DEF FinishAllUnknown
<1>2. \A i \in 1 .. Len(r) : G(i) \in Row /\ (r[i].finish # NoTime => G(i) = r[i])
  <2> TAKE i \in 1 .. Len(r)
  <2>1. "unknown" \in Errors
    BY DEF Errors
  <2>2. F(i) \in Seq(Row) /\ Len(F(i)) = Len(r) /\ (r[i].finish # NoTime => F(i)[i] = r[i])
    BY <2>1, FinishRunUnknownExitType, Zenon
  <2>3. \A s \in Seq(Row) : Len(s) = Len(r) => s[i] \in Row
    OBVIOUS
  <2>4. F(i)[i] \in Row /\ r[i] \in Row
    BY <2>2, <2>3, Zenon
  <2> QED
    BY <2>2, <2>4, Zenon
<1> HIDE DEF G
<1>3. Len(r) \in Nat /\ DOMAIN all = 1 .. Len(r)
  OBVIOUS
<1>4. all \in Seq(Row) /\ Len(all) = Len(r)
  BY <1>2, <1>3
<1>5. \A i \in 1 .. Len(r) : all[i] = G(i)
  OBVIOUS
<1> QED
  BY <1>2, <1>4, <1>5 DEF G

\* A prune touches no row that is young enough, and marks the others only.
LEMMA PruneType ==
    ASSUME NEW r \in Seq(Row), NEW cutoff \in Int
    PROVE  /\ Prune(r, cutoff) \in Seq(Row)
           /\ Len(Prune(r, cutoff)) = Len(r)
           /\ \A i \in 1 .. Len(r) :
                \/ Prune(r, cutoff)[i] = r[i]
                \/ /\ Prune(r, cutoff)[i] = [r[i] EXCEPT !.pruned = TRUE]
                   /\ r[i].finish # NoTime => r[i].finish < cutoff
<1> DEFINE G(i) == [r[i] EXCEPT !.pruned = @ \/ LastTouched(r[i]) < cutoff]
           all  == [i \in 1 .. Len(r) |-> G(i)]
<1>1. Prune(r, cutoff) = all
  BY DEF Prune
<1>2. ASSUME NEW i \in 1 .. Len(r)
      PROVE  /\ G(i) \in Row
             /\ \/ G(i) = r[i]
                \/ G(i) = [r[i] EXCEPT !.pruned = TRUE] /\ (r[i].finish # NoTime => r[i].finish < cutoff)
  <2>1. r[i] \in Row
    OBVIOUS
  <2>2. CASE LastTouched(r[i]) < cutoff
    BY <2>1, <2>2 DEF LastTouched, Row
  <2>3. CASE ~(LastTouched(r[i]) < cutoff)
    BY <2>1, <2>3 DEF Row
  <2> QED
    BY <2>2, <2>3
<1> HIDE DEF G
<1>3. all \in Seq(Row) /\ Len(all) = Len(r) /\ \A i \in 1 .. Len(r) : all[i] = G(i)
  BY <1>2
<1> QED
  BY <1>1, <1>2, <1>3

\* What the engine recovers from the history is a time or NoTime.
LEMMA RecoveredType ==
    ASSUME NEW r \in Seq(Row)
    PROVE  LastRunStart(r) \in Int /\ LastSuccess(r) \in Int
<1>1. \A i \in 1 .. Len(r) : r[i] \in Row /\ r[i].start \in Int /\ r[i].finish \in Int
  <2> TAKE i \in 1 .. Len(r)
  <2>1. r[i] \in Row
    OBVIOUS
  <2> QED
    BY <2>1 DEF Row
<1>2. LastRunStart(r) \in Int
  <2>1. Kept(r) \in SUBSET (1 .. Len(r)) /\ Len(r) \in Nat
    BY DEF Kept
  <2>2. Kept(r) # {} => Latest(Kept(r)) \in 1 .. Len(r)
    BY <2>1, LatestInSet
  <2> QED
    BY <1>1, <2>2 DEF LastRunStart, NoTime
<1> DEFINE ok == {i \in Kept(r) : r[i].exit = 0}
<1>3. CASE ok = {}
  BY <1>2, <1>3 DEF LastSuccess, NoTime
<1>4. CASE ok # {}
  <2>1. ok \in SUBSET (1 .. Len(r)) /\ Len(r) \in Nat
    BY DEF Kept
  <2>2. Latest(ok) \in 1 .. Len(r)
    BY <1>4, <2>1, LatestInSet
  <2> QED
    BY <1>1, <1>2, <1>4, <2>2 DEF LastSuccess
<1> QED
  BY <1>3, <1>4
=============================================================================

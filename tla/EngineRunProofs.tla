---------------------------- MODULE EngineRunProofs ----------------------------
(***************************************************************************)
(* Safety theorems of Engine about runs and their processes, for every     *)
(* value of its constants.  The invariants build on each other:            *)
(*   IdsInv       a new run's id is one nobody has heard of                *)
(*   ChildInv     handles and processes of this daemon belong together     *)
(*   HeldInv      what taskState.running says of its process is true       *)
(*   RegistryInv  live_runs and the adopted run agree                      *)
(*   SignalInv    only runs get signals                                    *)
(***************************************************************************)
EXTENDS EngineProofs

-----------------------------------------------------------------------------
(* What a step does to the history *)

\* History s has every row of history r at its place, with its start; a row
\* that is closed or deleted stays so.
Grows(r, s) ==
    /\ s \in Seq(Row) /\ Len(s) >= Len(r)
    /\ \A i \in 1 .. Len(r) : /\ s[i].start = r[i].start
                              /\ r[i].finish # NoTime => s[i].finish # NoTime
                              /\ r[i].pruned => s[i].pruned

\* None of the rows that s has beyond n is a run.
NoRuns(n, s) == \A i \in n + 1 .. Len(s) : s[i].start = NoTime

LEMMA GrowsTrans ==
    ASSUME NEW r \in Seq(Row), NEW s, NEW u, Grows(r, s), Grows(s, u)
    PROVE  Grows(r, u)
BY DEF Grows

LEMMA GrowsPrefix ==
    ASSUME NEW r \in Seq(Row), NEW s \in Seq(Row), Len(s) >= Len(r), \A i \in 1 .. Len(r) : s[i] = r[i]
    PROVE  Grows(r, s)
BY DEF Grows

\* The row that BeginRun adds is open, and the id it hands out is that row's.
LEMMA BeginRunRow ==
    ASSUME NEW rows0 \in Seq(Row), NEW sched \in Int, NEW outcome \in Outcomes,
           NEW cont \in {"free", "due"}, now \in Time,
           BeginRun(rows0, sched, outcome, cont)
    PROVE  /\ Grows(rows0, rows') /\ Len(rows') = Len(rows0) + 1
           /\ \A i \in 1 .. Len(rows0) : rows'[i] = rows0[i]
           /\ pc' = "spawn" /\ job'.id = Len(rows')
           /\ rows'[job'.id].finish = NoTime /\ ~rows'[job'.id].pruned
           /\ rows'[job'.id].start = now
<1>1. now \in Int
  BY TimeFacts
<1>2. PICK row \in Row : row = NewRow(sched, now, outcome, "")
  BY <1>1, NewRowType DEF Reasons
<1>3. rows' = Append(rows0, row) /\ pc' = "spawn"
  BY <1>2 DEF BeginRun, StartRun
<1>4. job'.id = Len(rows0) + 1
  BY DEF BeginRun, NoJob
<1>5. row.finish = NoTime /\ row.pruned = FALSE /\ row.start = now
  BY <1>2 DEF NewRow
<1>6. /\ rows' \in Seq(Row) /\ Len(rows') = Len(rows0) + 1
      /\ \A i \in 1 .. Len(rows0) : rows'[i] = rows0[i]
      /\ rows'[Len(rows0) + 1] = row
  BY <1>3
<1> QED
  BY <1>3, <1>4, <1>5, <1>6 DEF Grows

LEMMA StartQueuedRow ==
    ASSUME NEW rows0 \in Seq(Row), NEW cont \in {"free", "due"}, now \in Time, queued \in TimeOrNo,
           StartQueued(rows0, cont)
    PROVE  /\ Grows(rows0, rows') /\ \A i \in 1 .. Len(rows0) : rows'[i] = rows0[i]
           /\ \/ rows' = rows0 /\ pc' = cont /\ job' = NoJob
              \/ /\ pc' = "spawn" /\ job'.id = Len(rows') /\ Len(rows') = Len(rows0) + 1
                 /\ rows'[job'.id].finish = NoTime /\ ~rows'[job'.id].pruned
                 /\ rows'[job'.id].start = now
<1>1. CASE queued = NoTime
  BY <1>1, GrowsPrefix DEF StartQueued
<1>2. CASE queued # NoTime
  <2>1. queued \in Int /\ "queued" \in Outcomes
    BY TimeFacts DEF TimeOrNo, Outcomes
  <2>2. BeginRun(rows0, queued, "queued", cont)
    BY <1>2 DEF StartQueued
  <2> QED
    BY <2>1, <2>2, BeginRunRow
<1> QED
  BY <1>1, <1>2

\* A missed fire adds a row without a start.
LEMMA RecordMissedRow ==
    ASSUME NEW r \in Seq(Row), NEW fire \in Int, NEW reason \in Reasons
    PROVE  /\ Grows(r, RecordMissed(r, fire, reason)) /\ NoRuns(Len(r), RecordMissed(r, fire, reason))
           /\ Len(RecordMissed(r, fire, reason)) = Len(r) + 1
           /\ \A i \in 1 .. Len(r) : RecordMissed(r, fire, reason)[i] = r[i]
<1>1. PICK row \in Row : row = NewRow(fire, NoTime, "missed", reason)
  BY NewRowType DEF Outcomes, NoTime
<1>2. row.start = NoTime
  BY <1>1 DEF NewRow
<1>3. PICK s : s = Append(r, row)
  OBVIOUS
<1>4. /\ s \in Seq(Row) /\ Len(s) = Len(r) + 1 /\ \A i \in 1 .. Len(r) : s[i] = r[i]
      /\ s[Len(r) + 1] = row
  BY <1>3
<1>5. Grows(r, s) /\ NoRuns(Len(r), s)
  BY <1>2, <1>4 DEF Grows, NoRuns
<1>6. RecordMissed(r, fire, reason) = s
  BY <1>1, <1>3 DEF RecordMissed
<1> QED
  BY <1>4, <1>5, <1>6

LEMMA BackloggedRows ==
    ASSUME TypeInv, CronFires, NEW fires \in Elapsed
    PROVE  /\ Grows(rows, Backlogged(fires)) /\ NoRuns(Len(rows), Backlogged(fires))
           /\ \A i \in 1 .. Len(rows) : Backlogged(fires)[i] = rows[i]
<1> DEFINE backlog == SubSeq(fires, 1, Len(fires) - 1)
<1>1. /\ backlog \in Seq(Time) /\ rows \in Seq(Row) /\ Backlogged(fires) \in Seq(Row)
      /\ Len(Backlogged(fires)) >= Len(rows)
      /\ \A i \in 1 .. Len(rows) : Backlogged(fires)[i] = rows[i]
  BY ElapsedType, BackloggedType DEF TypeInv, TypeOK, TablesOK
<1>2. Backlogged(fires) = RecordBacklog(backlog)
  BY DEF Backlogged
<1> HIDE DEF backlog
<1>3. CASE Len(backlog) > CoalescedDetailLimit
  <2>1. PICK row : row = [NewRow(backlog[1], NoTime, "missed", "coalesced")
                          EXCEPT !.finish = backlog[1], !.exit = -1, !.error = "summary",
                                 !.upto = backlog[Len(backlog)]]
    OBVIOUS
  <2>2. row.start = NoTime
    BY <2>1 DEF NewRow
  <2>3. Backlogged(fires) = Append(rows, row)
    BY <1>2, <1>3, <2>1 DEF RecordBacklog
  <2>4. Len(Append(rows, row)) = Len(rows) + 1 /\ Append(rows, row)[Len(rows) + 1] = row
    BY <1>1
  <2>5. NoRuns(Len(rows), Append(rows, row))
    BY <1>1, <2>2, <2>4 DEF NoRuns
  <2> QED
    BY <1>1, <2>3, <2>5, GrowsPrefix
<1>4. CASE ~(Len(backlog) > CoalescedDetailLimit)
  <2> DEFINE R(i) == NewRow(backlog[i], NoTime, "missed", "coalesced")
             more == [i \in 1 .. Len(backlog) |-> R(i)]
  <2>1. \A i : R(i).start = NoTime
    BY DEF NewRow
  <2>2. Backlogged(fires) = rows \o more /\ Len(backlog) \in Nat
    BY <1>1, <1>2, <1>4 DEF RecordBacklog
  <2> HIDE DEF R
  <2>3. more \in Seq({R(i) : i \in 1 .. Len(backlog)})
    BY <2>2
  <2>4. Len(more) = Len(backlog) /\ \A i \in 1 .. Len(backlog) : more[i] = R(i)
    BY <2>2
  <2> HIDE DEF more
  <2>5. \A i \in Len(rows) + 1 .. Len(rows) + Len(backlog) : (rows \o more)[i] = more[i - Len(rows)]
    BY <1>1, <2>2, <2>3, <2>4
  <2>6. \A i \in Len(rows) + 1 .. Len(rows) + Len(backlog) : i - Len(rows) \in 1 .. Len(backlog)
    BY <1>1, <2>2
  <2>7. Len(rows \o more) = Len(rows) + Len(backlog)
    BY <1>1, <2>3, <2>4
  <2>8. NoRuns(Len(rows), rows \o more)
    BY <2>1, <2>4, <2>5, <2>6, <2>7 DEF NoRuns
  <2> QED
    BY <1>1, <2>2, <2>8, GrowsPrefix
<1> QED
  BY <1>3, <1>4

\* A step's effect on the history: outside of `closed` the rows there were
\* stay as they are, and the only new row that is a run is the run begun.
HistoryStep(closed) ==
    /\ Grows(rows, rows')
    /\ \A i \in 1 .. Len(rows) : i \notin closed => rows'[i] = rows[i]
    /\ \A i \in Len(rows) + 1 .. Len(rows') : rows'[i].start # NoTime => pc' = "spawn" /\ i = job'.id
    /\ pc' = "spawn" /\ pc # "spawn" =>
          /\ job'.id = Len(rows') /\ Len(rows') > Len(rows)
          /\ rows'[job'.id].finish = NoTime /\ ~rows'[job'.id].pruned /\ rows'[job'.id].start = now

\* A step that leaves the history alone and begins no run.
LEMMA HistorySame ==
    ASSUME TypeInv, UNCHANGED rows, pc' # "spawn" \/ pc = "spawn", NEW closed
    PROVE  HistoryStep(closed)
BY GrowsPrefix DEF HistoryStep, TypeInv, TypeOK, TablesOK

\* A step that adds missed fires, then begins a run.
LEMMA HistoryBegin ==
    ASSUME TypeInv, NEW rows0 \in Seq(Row), Grows(rows, rows0), NoRuns(Len(rows), rows0),
           \A i \in 1 .. Len(rows) : rows0[i] = rows[i],
           NEW sched \in Int, NEW outcome \in Outcomes, NEW cont \in {"free", "due"},
           BeginRun(rows0, sched, outcome, cont), NEW closed
    PROVE  HistoryStep(closed)
<1>1. now \in Time /\ rows \in Seq(Row)
  BY DEF TypeInv, TypeOK, ClockOK, TablesOK
<1>2. /\ Grows(rows0, rows') /\ Len(rows') = Len(rows0) + 1
      /\ \A i \in 1 .. Len(rows0) : rows'[i] = rows0[i]
      /\ pc' = "spawn" /\ job'.id = Len(rows')
      /\ rows'[job'.id].finish = NoTime /\ ~rows'[job'.id].pruned
      /\ rows'[job'.id].start = now
  BY <1>1, BeginRunRow
<1>3. Grows(rows, rows')
  BY <1>1, <1>2, GrowsTrans
<1>4. Len(rows0) \in Nat /\ Len(rows0) >= Len(rows) /\ Len(rows) \in Nat
  BY <1>1 DEF Grows
<1>5. \A i \in 1 .. Len(rows) : rows'[i] = rows[i]
  BY <1>2, <1>4
<1>6. \A i \in Len(rows) + 1 .. Len(rows') : i = job'.id \/ rows'[i].start = NoTime
  BY <1>2, <1>4 DEF NoRuns
<1>7. Len(rows') > Len(rows)
  BY <1>2, <1>4
<1> QED
  BY <1>2, <1>3, <1>5, <1>6, <1>7 DEF HistoryStep

\* A step that adds missed fires and begins no run.
LEMMA HistoryMissed ==
    ASSUME TypeInv, Grows(rows, rows'), NoRuns(Len(rows), rows'),
           \A i \in 1 .. Len(rows) : rows'[i] = rows[i], pc' # "spawn", NEW closed
    PROVE  HistoryStep(closed)
BY DEF HistoryStep, NoRuns

\* A step that closes rows, then starts the queued fire, if there is one.
LEMMA HistoryQueued ==
    ASSUME TypeInv, NEW rows0 \in Seq(Row), Grows(rows, rows0), Len(rows0) = Len(rows), NEW closed,
           \A i \in 1 .. Len(rows) : i \notin closed => rows0[i] = rows[i],
           NEW cont \in {"free", "due"}, StartQueued(rows0, cont)
    PROVE  HistoryStep(closed)
<1>1. now \in Time /\ rows \in Seq(Row) /\ queued \in TimeOrNo
  BY DEF TypeInv, TypeOK, ClockOK, MemoryOK, TablesOK
<1>2. /\ Grows(rows0, rows') /\ \A i \in 1 .. Len(rows0) : rows'[i] = rows0[i]
      /\ \/ rows' = rows0 /\ pc' = cont /\ job' = NoJob
         \/ /\ pc' = "spawn" /\ job'.id = Len(rows') /\ Len(rows') = Len(rows0) + 1
            /\ rows'[job'.id].finish = NoTime /\ ~rows'[job'.id].pruned
            /\ rows'[job'.id].start = now
  BY <1>1, StartQueuedRow
<1>3. Grows(rows, rows')
  BY <1>1, <1>2, GrowsTrans
<1>4. \A i \in 1 .. Len(rows) : i \notin closed => rows'[i] = rows[i]
  BY <1>2
<1>5. \/ rows' = rows0 /\ pc' # "spawn"
      \/ /\ pc' = "spawn" /\ job'.id = Len(rows') /\ Len(rows') = Len(rows) + 1
         /\ rows'[job'.id].finish = NoTime /\ ~rows'[job'.id].pruned
         /\ rows'[job'.id].start = now
  BY <1>2
<1>6. CASE rows' = rows0 /\ pc' # "spawn"
  BY <1>1, <1>3, <1>4, <1>6 DEF HistoryStep
<1>7. CASE /\ pc' = "spawn" /\ job'.id = Len(rows') /\ Len(rows') = Len(rows) + 1
           /\ rows'[job'.id].finish = NoTime /\ ~rows'[job'.id].pruned
           /\ rows'[job'.id].start = now
  <2>1. Len(rows) \in Nat
    BY <1>1
  <2>2. \A i \in Len(rows) + 1 .. Len(rows') : i = job'.id
    BY <1>7, <2>1
  <2>3. Len(rows') > Len(rows)
    BY <1>7, <2>1
  <2> QED
    BY <1>3, <1>4, <1>7, <2>2, <2>3 DEF HistoryStep
<1> QED
  BY <1>5, <1>6, <1>7

\* Closing a row leaves its start.
LEMMA GrowsFinish ==
    ASSUME NEW r \in Seq(Row), NEW id, NEW code \in ExitCodes, NEW err \in Errors, NEW t \in Int
    PROVE  Grows(r, FinishRun(r, id, code, err, t))
<1> DEFINE s == FinishRun(r, id, code, err, t)
<1>1. /\ s \in Seq(Row) /\ Len(s) = Len(r) /\ \A i \in 1 .. Len(r) : i # id => s[i] = r[i]
      /\ \A i \in 1 .. Len(r) : r[i].finish # NoTime => s[i] = r[i]
  BY FinishRunType
<1>2. ASSUME id \in 1 .. Len(r) PROVE s[id].start = r[id].start /\ (r[id].pruned => s[id].pruned)
  <2>1. CASE r[id].finish = NoTime /\ ~r[id].pruned
    <3>1. r[id] \in Row /\ id \in DOMAIN r
      BY <1>2
    <3>2. PICK row \in Row : row = Closed(r[id], code, err, t) /\ row.start = r[id].start
      BY <3>1, ClosedType, Zenon
    <3>3. s = [r EXCEPT ![id] = row]
      BY <2>1, <3>1, <3>2, Zenon DEF FinishRun
    <3>4. s[id] = row
      BY <1>2, <3>2, <3>3
    <3> QED
      BY <2>1, <3>2, <3>4
  <2>2. CASE ~(r[id].finish = NoTime /\ ~r[id].pruned)
    BY <2>2 DEF FinishRun
  <2> QED
    BY <2>1, <2>2
<1> HIDE DEF s
<1>3. Grows(r, s)
  BY <1>1, <1>2 DEF Grows
<1> QED
  BY <1>3 DEF s

LEMMA GrowsFinishAll ==
    ASSUME NEW r \in Seq(Row), NEW ids, NEW t \in Int
    PROVE  Grows(r, FinishAllUnknown(r, ids, t))
<1> DEFINE s == FinishAllUnknown(r, ids, t)
           F(i) == FinishRunUnknownExit(r, i, "unknown", t)
<1>1. s \in Seq(Row) /\ Len(s) = Len(r)
      /\ \A i \in 1 .. Len(r) : r[i].finish # NoTime => s[i] = r[i]
  BY FinishAllUnknownType
<1>2. \A i \in 1 .. Len(r) : s[i] = IF i \in ids THEN F(i)[i] ELSE r[i]
  BY DEF FinishAllUnknown
<1>3. \A i \in 1 .. Len(r) : F(i)[i].start = r[i].start /\ (r[i].pruned => F(i)[i].pruned)
  <2>1. "unknown" \in Errors /\ NoExit \in ExitCodes
    BY DEF Errors, ExitCodes
  <2>2. \A i : Grows(r, F(i))
    BY <2>1, GrowsFinish DEF FinishRunUnknownExit
  <2> QED
    BY <2>2 DEF Grows
<1> HIDE DEF s, F
<1>4. Grows(r, s)
  BY <1>1, <1>2, <1>3 DEF Grows
<1> QED
  BY <1>4 DEF s

\* Deleting rows leaves what they say.
LEMMA PrunedRows ==
    ASSUME NEW r \in Seq(Row), NEW cutoff \in Int
    PROVE  /\ Grows(r, Prune(r, cutoff)) /\ Len(Prune(r, cutoff)) = Len(r)
           /\ \A i \in 1 .. Len(r) : /\ Prune(r, cutoff)[i].finish = r[i].finish
                                     /\ r[i].pruned => Prune(r, cutoff)[i].pruned
<1> DEFINE s == Prune(r, cutoff)
<1>1. s \in Seq(Row) /\ Len(s) = Len(r)
  BY PruneType
<1>2. \A i \in 1 .. Len(r) : \E b \in BOOLEAN : s[i] = [r[i] EXCEPT !.pruned = @ \/ b]
  <2> TAKE i \in 1 .. Len(r)
  <2>1. s[i] = [r[i] EXCEPT !.pruned = @ \/ LastTouched(r[i]) < cutoff]
    BY DEF Prune
  <2>2. (LastTouched(r[i]) < cutoff) \in BOOLEAN
    OBVIOUS
  <2> QED
    BY <2>1, <2>2, Zenon
<1>3. \A i \in 1 .. Len(r) : s[i].start = r[i].start /\ s[i].finish = r[i].finish
                             /\ (r[i].pruned => s[i].pruned)
  <2> TAKE i \in 1 .. Len(r)
  <2>1. PICK b \in BOOLEAN : s[i] = [r[i] EXCEPT !.pruned = @ \/ b]
    BY <1>2
  <2>2. r[i] \in Row
    OBVIOUS
  <2>3. s[i].start = r[i].start /\ s[i].finish = r[i].finish /\ s[i].pruned = (r[i].pruned \/ b)
    BY <2>1, <2>2 DEF Row
  <2> QED
    BY <2>3
<1> HIDE DEF s
<1>4. Grows(r, s)
  BY <1>1, <1>3 DEF Grows
<1> QED
  BY <1>1, <1>3, <1>4 DEF s

LEMMA SettleHistory == TypeInv /\ SettleAdopted => HistoryStep({released.id})
<1> SUFFICES ASSUME TypeInv, SettleAdopted PROVE HistoryStep({released.id})
  OBVIOUS
<1>1. now \in Int /\ rows \in Seq(Row)
  BY TimeFacts DEF TypeInv, TypeOK, ClockOK, TablesOK
<1>2. PICK err \in Errors : StartQueued(FinishRun(rows, released.id, NoExit, err, now), "due")
  BY DEF SettleAdopted, FinishRunUnknownExit, Errors
<1>3. NoExit \in ExitCodes
  BY DEF ExitCodes
<1>4. PICK rows0 : rows0 = FinishRun(rows, released.id, NoExit, err, now)
  OBVIOUS
<1>5. /\ rows0 \in Seq(Row) /\ Grows(rows, rows0) /\ Len(rows0) = Len(rows)
      /\ \A i \in 1 .. Len(rows) : i \notin {released.id} => rows0[i] = rows[i]
  BY <1>1, <1>3, <1>4, FinishRunType, GrowsFinish
<1>6. StartQueued(rows0, "due")
  BY <1>2, <1>4
<1> QED
  BY <1>5, <1>6, HistoryQueued

\* The rest of a tick closes no row.
LEMMA DueHistory ==
    TypeInv /\ (\/ EnforceOwned \/ EnforceAdopted \/ NothingDue \/ FireWatermark
                \/ StartFire \/ MissFire \/ QueueFire \/ RestartFire)
    => HistoryStep({})
<1> SUFFICES ASSUME TypeInv, \/ EnforceOwned \/ EnforceAdopted \/ NothingDue \/ FireWatermark
                             \/ StartFire \/ MissFire \/ QueueFire \/ RestartFire
             PROVE  HistoryStep({})
  OBVIOUS
<1>1. /\ now \in Time /\ now \in Int /\ rows \in Seq(Row) /\ queued \in Int
      /\ Grows(rows, rows) /\ NoRuns(Len(rows), rows)
  BY TimeFacts DEF TypeInv, TypeOK, ClockOK, MemoryOK, TablesOK, TimeOrNo, Grows, NoRuns
<1>2. CASE EnforceOwned \/ EnforceAdopted \/ NothingDue
  <2>1. UNCHANGED rows /\ pc' # "spawn"
    BY <1>2 DEF EnforceOwned, EnforceAdopted, NothingDue, tables
  <2> QED
    BY <2>1, HistorySame
<1>3. CASE FireWatermark
  <2>1. watermarkDue \in Int
    BY <1>3 DEF FireWatermark, DueStep, Locked, watermarkDue, TypeInv, TypeOK, MemoryOK, HandlerOK,
       TaskConfig, NoTime
  <2>2. PICK sched \in Int, outcome \in Outcomes : BeginRun(rows, sched, outcome, "free")
    BY <1>1, <1>3, <2>1 DEF FireWatermark, Outcomes
  <2> QED
    BY <1>1, <2>2, HistoryBegin
<1>4. CASE StartFire
  <2>1. PICK fires \in Elapsed, outcome \in Outcomes :
           BeginRun(Backlogged(fires), Last(fires), outcome, "free")
    BY <1>4 DEF StartFire, Outcomes
  <2>2. /\ Last(fires) \in Int /\ Backlogged(fires) \in Seq(Row)
        /\ Grows(rows, Backlogged(fires)) /\ NoRuns(Len(rows), Backlogged(fires))
        /\ \A i \in 1 .. Len(rows) : Backlogged(fires)[i] = rows[i]
    BY <1>4, ElapsedType, BackloggedType, BackloggedRows, TimeIsInt DEF StartFire
  <2> QED
    BY <2>1, <2>2, HistoryBegin
<1>5. CASE MissFire \/ QueueFire \/ RestartFire
  <2>1. PICK fires \in Elapsed, fire \in Int, reason \in Reasons :
           rows' \in {Backlogged(fires), RecordMissed(Backlogged(fires), fire, reason)}
    <3>1. {"catch_up_disabled", "overlap"} \subseteq Reasons
      BY DEF Reasons
    <3>2. CronFires => \A fires \in Elapsed : Last(fires) \in Int
      BY ElapsedType, TimeIsInt
    <3> QED
      BY <1>1, <1>5, <3>1, <3>2 DEF MissFire, QueueFire, RestartFire
  <2>2. CronFires /\ pc' # "spawn"
    BY <1>5 DEF MissFire, QueueFire, RestartFire
  <2>3. PICK r : r = Backlogged(fires)
    OBVIOUS
  <2>4. /\ r \in Seq(Row) /\ Grows(rows, r) /\ NoRuns(Len(rows), r) /\ Len(r) >= Len(rows)
        /\ \A i \in 1 .. Len(rows) : r[i] = rows[i]
    BY <2>2, <2>3, BackloggedType, BackloggedRows
  <2>5. PICK s : s = RecordMissed(r, fire, reason)
    OBVIOUS
  <2>6. /\ Grows(r, s) /\ NoRuns(Len(r), s) /\ Len(s) = Len(r) + 1
        /\ \A i \in 1 .. Len(r) : s[i] = r[i]
    BY <2>4, <2>5, RecordMissedRow
  <2>7. Grows(rows, s)
    BY <1>1, <2>4, <2>6, GrowsTrans
  <2>8. /\ \A i \in 1 .. Len(rows) : s[i] = rows[i]
        /\ \A i \in Len(rows) + 1 .. Len(s) : s[i].start = NoTime
    <3>1. Len(r) \in Nat /\ Len(rows) \in Nat
      BY <1>1, <2>4
    <3>2. \A i \in 1 .. Len(rows) : i \in 1 .. Len(r)
      BY <2>4, <3>1
    <3>3. \A i \in Len(rows) + 1 .. Len(s) : \/ i \in Len(rows) + 1 .. Len(r) /\ i \in 1 .. Len(r)
                                             \/ i \in Len(r) + 1 .. Len(s)
      BY <2>4, <2>6, <3>1
    <3> QED
      BY <2>4, <2>6, <3>2, <3>3 DEF NoRuns
  <2>9. NoRuns(Len(rows), s)
    BY <2>8 DEF NoRuns
  <2>10. rows' = r \/ rows' = s
    BY <2>1, <2>3, <2>5
  <2> QED
    BY <2>2, <2>4, <2>7, <2>8, <2>9, <2>10, HistoryMissed
<1> QED
  BY <1>2, <1>3, <1>4, <1>5

LEMMA FinishedHistory ==
    ASSUME TypeInv, NEW id, NEW code \in ExitCodes, NEW err \in Errors,
           rows' = FinishRun(rows, id, code, err, now), pc' # "spawn"
    PROVE  HistoryStep({id})
<1>1. now \in Int /\ rows \in Seq(Row)
  BY TimeFacts DEF TypeInv, TypeOK, ClockOK, TablesOK
<1>2. PICK s : s = FinishRun(rows, id, code, err, now)
  OBVIOUS
<1>3. /\ s \in Seq(Row) /\ Grows(rows, s) /\ Len(s) = Len(rows)
      /\ \A i \in 1 .. Len(rows) : i # id => s[i] = rows[i]
  BY <1>1, <1>2, FinishRunType, GrowsFinish
<1>4. rows' = s
  BY <1>2
<1> QED
  BY <1>1, <1>3, <1>4 DEF HistoryStep

LEMMA FinalizedHistory ==
    ASSUME TypeInv, NEW ids, rows' = FinishAllUnknown(rows, ids, now), pc' = pc
    PROVE  HistoryStep(ids)
<1>1. now \in Int /\ rows \in Seq(Row)
  BY TimeFacts DEF TypeInv, TypeOK, ClockOK, TablesOK
<1>2. PICK s : s = FinishAllUnknown(rows, ids, now)
  OBVIOUS
<1>3. /\ s \in Seq(Row) /\ Grows(rows, s) /\ Len(s) = Len(rows)
      /\ \A i \in 1 .. Len(rows) : i \notin ids => s[i] = rows[i]
  BY <1>1, <1>2, FinishAllUnknownType, GrowsFinishAll
<1>4. rows' = s
  BY <1>2
<1> QED
  BY <1>1, <1>3, <1>4 DEF HistoryStep

LEMMA LaunchFailHistory == TypeInv /\ LaunchFail => HistoryStep({job.id})
<1>1. -1 \in ExitCodes /\ "launch" \in Errors
  BY DEF ExitCodes, Errors
<1>2. TypeInv /\ LaunchFail => pc' # "spawn"
  BY DEF LaunchFail, TypeInv, TypeOK, MutexOK, Job
<1> QED
  BY <1>1, <1>2, FinishedHistory DEF LaunchFail, FailedLaunch

LEMMA RecordFinishHistory == TypeInv /\ RecordFinish => HistoryStep({job'.id})
<1> SUFFICES ASSUME TypeInv, RecordFinish PROVE HistoryStep({job'.id})
  OBVIOUS
<1>1. PICK h \in handles : rows' = Recorded(h) /\ pc' = "clear" /\ job'.id = h.id
  BY DEF RecordFinish, NoJob
<1>2. h.result \in ExitCodes /\ FinishError(h) \in Errors
  BY DEF FinishError, KillReason, Errors, TypeInv, TypeOK, MutexOK, Handle
<1> QED
  BY <1>1, <1>2, FinishedHistory DEF Recorded

LEMMA ClearFinishedHistory == TypeInv /\ ClearFinished => HistoryStep({})
<1> SUFFICES ASSUME TypeInv, ClearFinished PROVE HistoryStep({})
  OBVIOUS
<1>1. CASE running.id # job.id
  BY <1>1, HistorySame DEF ClearFinished
<1>2. CASE running.id = job.id
  <2>1. StartQueued(rows, "free") /\ rows \in Seq(Row)
    BY <1>2 DEF ClearFinished, TypeInv, TypeOK, TablesOK
  <2>2. Grows(rows, rows)
    BY <2>1 DEF Grows
  <2> QED
    BY <2>1, <2>2, HistoryQueued
<1> QED
  BY <1>1, <1>2

\* Steps that write no row, and requests that add one.
LEMMA OtherHistory ==
    TypeInv /\ (\/ Spawn \/ Register \/ Trigger \/ Pause \/ Resume \/ ReleaseAll \/ Drained \/ Crash
                \/ ClockAdvance \/ KillTimer \/ Kernel)
    => HistoryStep({})
<1> SUFFICES ASSUME TypeInv, \/ Spawn \/ Register \/ Trigger \/ Pause \/ Resume \/ ReleaseAll
                             \/ Drained \/ Crash \/ ClockAdvance \/ KillTimer \/ Kernel
             PROVE  HistoryStep({})
  OBVIOUS
<1>1. /\ now \in Int /\ rows \in Seq(Row) /\ queued \in Int
      /\ Grows(rows, rows) /\ NoRuns(Len(rows), rows)
  BY TimeFacts DEF TypeInv, TypeOK, ClockOK, MemoryOK, TablesOK, TimeOrNo, Grows, NoRuns
<1>2. CASE \/ Spawn \/ Register \/ Pause \/ Resume \/ Drained \/ Crash
           \/ ClockAdvance \/ KillTimer \/ Kernel
  <2>1. UNCHANGED rows
    BY <1>2 DEF Spawn, Register, Pause, Resume, SetPaused, Drained, Crash, Die, LoseState, ClockAdvance,
       KillTimer, Kernel, ProcessExit, PidReused, StrangerExit, tables
  <2>2. pc' # "spawn" \/ pc = "spawn"
    BY <1>2 DEF Spawn, Register, Pause, Resume, Drained, Crash, Die, ClockAdvance,
       KillTimer, Kernel, ProcessExit, PidReused, StrangerExit, TypeInv, TypeOK, MutexOK, Job
  <2> QED
    BY <2>1, <2>2, HistorySame
<1>3. CASE Trigger
  BY <1>1, <1>3, HistoryBegin DEF Trigger, Outcomes
<1>4. CASE ReleaseAll
  <2>1. rows' = rows \/ rows' = RecordMissed(rows, queued, "daemon_stop")
    BY <1>4 DEF ReleaseAll, DisownQueued
  <2>2. pc' # "spawn"
    BY <1>4 DEF ReleaseAll, Idle, Locked
  <2>3. CASE rows' = rows
    BY <2>2, <2>3, HistorySame
  <2>4. CASE rows' = RecordMissed(rows, queued, "daemon_stop")
    <3>1. "daemon_stop" \in Reasons
      BY DEF Reasons
    <3> QED
      BY <1>1, <2>2, <2>4, <3>1, RecordMissedRow, HistoryMissed
  <2> QED
    BY <2>1, <2>3, <2>4
<1> QED
  BY <1>2, <1>3, <1>4

-----------------------------------------------------------------------------
(* What a step does to the runs that are under way *)

\* No handle, registry entry or process is new.
Fewer ==
    /\ \A h \in handles' : \E g \in handles : h.id = g.id /\ h.pid = g.pid
    /\ live' \subseteq live
    /\ \A p \in Pids : owner'[p] \in {Free, Stranger} \/ owner'[p] = owner[p]

LEMMA ArmKillHandles ==
    ASSUME handles \subseteq Handle, NEW id
    PROVE  \A h \in ArmKill(id) : \E g \in handles : h.id = g.id /\ h.pid = g.pid /\ h.result = g.result
BY DEF ArmKill, Handle

\* The handle of the process that exits gets its result.
LEMMA ReapedHandles ==
    ASSUME TypeInv, NEW p \in Pids, ProcessExit(p)
    PROVE  \A h \in handles' : \E g \in handles :
             /\ h.id = g.id /\ h.pid = g.pid /\ h.killAt \in {g.killAt, NoTime}
             /\ IF g.id = owner[p] THEN h.result \in ExitsUnder(sig[p]) ELSE h = g
<1>1. handles \subseteq Handle /\ ExitsUnder(sig[p]) \subseteq {0, 1, -1}
  BY EngineAssumption DEF TypeInv, TypeOK, MutexOK, KernelOK, ExitsUnder, Signals
<1>2. PICK code \in ExitsUnder(sig[p]) :
        handles' = {IF g.id = owner[p] THEN Reaped(g, code) ELSE g : g \in handles}
  BY DEF ProcessExit
<1> TAKE h \in handles'
<1>3. PICK g \in handles : h = IF g.id = owner[p] THEN Reaped(g, code) ELSE g
  BY <1>2
<1>4. CASE g.id = owner[p]
  BY <1>1, <1>3, <1>4, ReapedFields
<1>5. CASE g.id # owner[p]
  BY <1>3, <1>5
<1> QED
  BY <1>4, <1>5

LEMMA ReapedKeepsHandles ==
    ASSUME handles \subseteq Handle, NEW p, ProcessExit(p)
    PROVE  \A g \in handles : \E h \in handles' : h.id = g.id /\ h.pid = g.pid
<1>1. PICK code : handles' = {IF g.id = owner[p] THEN Reaped(g, code) ELSE g : g \in handles}
  BY DEF ProcessExit
<1>2. \A g \in Handle : Reaped(g, code).id = g.id /\ Reaped(g, code).pid = g.pid
  BY DEF Handle, Reaped
<1> QED
  BY <1>1, <1>2

LEMMA ConfigureFewer ==
    ASSUME TypeInv, NEW c, Configure(c), UNCHANGED <<handles, owner>>
    PROVE  Fewer
BY DEF Configure, Fewer

LEMMA StepFewer == TypeInv /\ Next => Spawn \/ Register \/ Fewer
<1> SUFFICES ASSUME TypeInv, Next, ~Spawn, ~Register PROVE Fewer
  OBVIOUS
<1>1. handles \subseteq Handle /\ \A h \in handles : \E g \in handles : h.id = g.id /\ h.pid = g.pid
  BY DEF TypeInv, TypeOK, MutexOK
<1>2. CASE EnforceOwned \/ RestartFire
  <2>1. UNCHANGED <<live, owner>> /\ handles' \in {handles, ArmKill(running.id)}
    BY <1>2 DEF EnforceOwned, RestartFire, FireCron, tables
  <2> QED
    BY <1>1, <2>1, ArmKillHandles DEF Fewer
<1>3. CASE \/ EnforceAdopted \/ SettleAdopted \/ NothingDue \/ FireWatermark
           \/ StartFire \/ MissFire \/ QueueFire
  BY <1>1, <1>3 DEF EnforceAdopted, SettleAdopted, NothingDue, FireWatermark, StartFire, MissFire, QueueFire,
     FireCron, tables, kernel, Fewer
<1>4. CASE LaunchFail \/ RecordFinish \/ ClearFinished
  BY <1>1, <1>4 DEF LaunchFail, RecordFinish, ClearFinished, kernel, Fewer
<1>5. CASE Trigger \/ Pause \/ Resume
  BY <1>1, <1>5 DEF Trigger, Pause, Resume, kernel, Fewer
<1>6. CASE Reload \/ Start
  BY <1>6, ConfigureFewer DEF Reload, Start, kernel
<1>7. CASE SecondServe \/ PruneHistory \/ ReleaseAll
  BY <1>1, <1>7 DEF SecondServe, PruneHistory, ReleaseAll, kernel, Fewer
<1>8. CASE Drained \/ Crash
  BY <1>8 DEF Drained, Crash, Die, LoseState, tables, kernel, Fewer
<1>9. CASE ClockAdvance \/ KillTimer
  BY <1>1, <1>9 DEF ClockAdvance, KillTimer, tables, kernel, Fewer
<1>10. CASE Kernel
  <2>1. PICK p \in Pids : ProcessExit(p) \/ PidReused(p) \/ StrangerExit(p)
    BY <1>10 DEF Kernel
  <2>2. \A h \in handles' : \E g \in handles : h.id = g.id /\ h.pid = g.pid
    BY <1>1, <2>1, ReapedHandles DEF PidReused, StrangerExit
  <2>3. UNCHANGED live /\ \A q \in Pids : owner'[q] \in {Free, Stranger} \/ owner'[q] = owner[q]
    BY <2>1 DEF ProcessExit, PidReused, StrangerExit, tables, TypeInv, TypeOK, KernelOK
  <2> QED
    BY <2>2, <2>3 DEF Fewer
<1> QED
  BY <1>2, <1>3, <1>4, <1>5, <1>6, <1>7, <1>8, <1>9, <1>10 DEF Next, TickStep, Request

\* Who may bring the mutex to a point, and whose job it then is.
MutexStep ==
    /\ pc' = "spawn" /\ pc = "spawn" => job' = job /\ Len(rows') = Len(rows)
    /\ pc' = "register" => Spawn \/ (pc = "register" /\ job' = job)
    /\ pc' = "clear" => RecordFinish \/ (pc = "clear" /\ job' = job)
    /\ pc' \in {"free", "due"} => job' = NoJob \/ (pc \in {"free", "due"} /\ job' = job)

LEMMA StepMutex == TypeInv /\ Next => MutexStep
<1> SUFFICES ASSUME TypeInv, Next PROVE MutexStep
  OBVIOUS
<1>1. /\ job \in Job /\ rows \in Seq(Row) /\ queued \in TimeOrNo /\ now \in Time /\ now \in Int
      /\ job.cont \in {"free", "due"} /\ (up = "down" => pc = "free")
  BY TimeFacts DEF TypeInv, TypeOK, MutexOK, Job, TablesOK, MemoryOK, ClockOK, HandlerOK
<1> USE DEF MutexStep
<1>2. CASE EnforceOwned \/ EnforceAdopted
  BY <1>2 DEF EnforceOwned, EnforceAdopted, TickStarts, Idle, Locked
<1>3. CASE SettleAdopted
  <2>1. \E rows0 : StartQueued(rows0, "due") /\ pc = "free"
    BY <1>3 DEF SettleAdopted, TickStarts, Idle, Locked
  <2>2. pc' = "spawn" \/ (pc' = "due" /\ job' = NoJob)
    BY <2>1 DEF StartQueued, BeginRun
  <2> QED
    BY <2>1, <2>2
<1>4. CASE NothingDue \/ FireWatermark \/ StartFire \/ MissFire \/ QueueFire \/ RestartFire
  BY <1>4 DEF NothingDue, FireWatermark, StartFire, MissFire, QueueFire, RestartFire, CronFires, DueStep, Locked,
     BeginRun
<1>5. CASE Spawn \/ LaunchFail \/ Register \/ RecordFinish
  BY <1>1, <1>5 DEF Spawn, LaunchFail, Register, RecordFinish, Locked
<1>6. CASE ClearFinished
  <2>1. pc = "clear" /\ (StartQueued(rows, "free") \/ (pc' = "free" /\ job' = NoJob))
    BY <1>6 DEF ClearFinished, Locked
  <2>2. pc' = "spawn" \/ (pc' = "free" /\ job' = NoJob)
    BY <2>1 DEF StartQueued, BeginRun
  <2> QED
    BY <2>1, <2>2
<1>7. CASE Trigger \/ Pause \/ Resume \/ Reload
  BY <1>7 DEF Trigger, Pause, Resume, Reload, Serving, Idle, Locked, BeginRun
<1>8. CASE Start \/ PruneHistory \/ ReleaseAll \/ ClockAdvance
  BY <1>1, <1>8 DEF Start, PruneHistory, ReleaseAll, ClockAdvance, Idle, Locked
<1>9. CASE SecondServe
  <2>1. PICK ids : rows' = FinishAllUnknown(rows, ids, now) /\ UNCHANGED <<pc, job>>
    BY <1>9 DEF SecondServe
  <2> QED
    BY <1>1, <2>1, FinishAllUnknownType
<1>10. CASE Drained \/ Crash
  BY <1>10 DEF Drained, Crash, Die, LoseState
<1>11. CASE KillTimer \/ Kernel
  BY <1>11 DEF KillTimer, Kernel, ProcessExit, PidReused, StrangerExit, tables
<1> QED
  BY <1>2, <1>3, <1>4, <1>5, <1>6, <1>7, <1>8, <1>9, <1>10, <1>11 DEF Next, TickStep, Request

\* The history grows, and a run that is begun is its last row.
LEMMA StepHistory == TypeInv /\ Next => \E closed : HistoryStep(closed)
<1> SUFFICES ASSUME TypeInv, Next PROVE \E closed : HistoryStep(closed)
  OBVIOUS
<1>1. CASE TickStep \/ Spawn \/ LaunchFail \/ Register \/ RecordFinish \/ ClearFinished
  BY <1>1, SettleHistory, DueHistory, LaunchFailHistory, RecordFinishHistory, ClearFinishedHistory, OtherHistory
     DEF TickStep
<1>2. CASE \/ Trigger \/ Pause \/ Resume \/ ReleaseAll \/ Drained \/ Crash
           \/ ClockAdvance \/ KillTimer \/ Kernel
  BY <1>2, OtherHistory
<1>3. CASE Reload \/ Start \/ SecondServe
  <2>1. PICK ids : rows' = FinishAllUnknown(rows, ids, now) /\ UNCHANGED pc
    BY <1>3 DEF Reload, Start, SecondServe, Configure
  <2> QED
    BY <2>1, FinalizedHistory
<1>4. CASE PruneHistory
  <2>1. now - Retention \in Int /\ rows \in Seq(Row)
    BY EngineAssumption, TimeFacts DEF TypeInv, TypeOK, ClockOK, TablesOK
  <2>2. rows' = Prune(rows, now - Retention) /\ pc' = pc
    BY <1>4 DEF PruneHistory
  <2>3. Grows(rows, rows') /\ Len(rows') = Len(rows)
    BY <2>1, <2>2, PrunedRows
  <2> QED
    BY <2>1, <2>2, <2>3 DEF HistoryStep
<1> QED
  BY <1>1, <1>2, <1>3, <1>4 DEF Next, Request

-----------------------------------------------------------------------------
(* Run ids *)

\* The runs that a handle, a registry entry or a process is of.
Named == {h.id : h \in handles} \cup {e.id : e \in live} \cup {owner[p] : p \in Alive}

\* A run's id is its row's, and the run being started is new to everybody.
IdsInv ==
    /\ Named \subseteq 1 .. Len(rows)
    /\ pc = "spawn" => job.id = Len(rows) /\ job.id \notin Named
    /\ pc = "register" => \A e \in live : e.id # job.id
    /\ pc \in {"free", "due"} => job = NoJob

LEMMA IdsInit == Init => IdsInv
BY DEF Init, IdsInv, Named, Alive

LEMMA FewerNamed == ASSUME Fewer PROVE Named' \subseteq Named
<1>1. {h.id : h \in handles'} \subseteq {h.id : h \in handles}
  BY DEF Fewer
<1>2. {e.id : e \in live'} \subseteq {e.id : e \in live}
  BY DEF Fewer
<1>3. {owner'[p] : p \in Alive'} \subseteq {owner[p] : p \in Alive}
  BY DEF Fewer, Alive
<1> QED
  BY <1>1, <1>2, <1>3 DEF Named

LEMMA IdsStep == TypeInv /\ IdsInv /\ [Next]_vars => IdsInv'
<1>1. ASSUME IdsInv, UNCHANGED vars PROVE IdsInv'
  BY <1>1 DEF vars, tables, kernel, IdsInv, Named, Alive
<1>2. ASSUME TypeInv, IdsInv, Next PROVE IdsInv'
  <2>1. PICK closed : HistoryStep(closed)
    BY <1>2, StepHistory
  <2>2. /\ rows \in Seq(Row) /\ rows' \in Seq(Row) /\ Len(rows') >= Len(rows)
        /\ Len(rows) \in Nat /\ Len(rows') \in Nat
    BY <1>2, <2>1 DEF TypeInv, TypeOK, TablesOK, HistoryStep, Grows
  <2>3. MutexStep
    BY <1>2, StepMutex
  <2>4. CASE Fewer /\ ~Spawn
    <3>1. Named' \subseteq 1 .. Len(rows)
      BY <1>2, <2>4, FewerNamed DEF IdsInv
    <3>2. Named' \subseteq 1 .. Len(rows')
      BY <2>2, <3>1
    <3>3. ASSUME pc' = "spawn" PROVE job'.id = Len(rows') /\ job'.id \notin Named'
      <4>1. CASE pc = "spawn"
        BY <1>2, <2>3, <2>4, <3>3, <4>1, FewerNamed DEF MutexStep, IdsInv
      <4>2. CASE pc # "spawn"
        <5>1. job'.id = Len(rows') /\ Len(rows') > Len(rows)
          BY <2>1, <3>3, <4>2 DEF HistoryStep
        <5> QED
          BY <2>2, <3>1, <5>1
      <4> QED
        BY <4>1, <4>2
    <3>4. ASSUME pc' = "register" PROVE \A e \in live' : e.id # job'.id
      BY <1>2, <2>3, <2>4, <3>4 DEF MutexStep, IdsInv, Fewer
    <3>5. pc' \in {"free", "due"} => job' = NoJob
      BY <1>2, <2>3 DEF MutexStep, IdsInv
    <3> QED
      BY <3>2, <3>3, <3>4, <3>5 DEF IdsInv
  <2>5. CASE Spawn
    <3>1. job \in Job
      BY <1>2 DEF TypeInv, TypeOK, MutexOK
    <3>2. PICK p \in Pids :
          /\ owner' = [owner EXCEPT ![p] = job.id]
          /\ handles' = handles \cup {[id |-> job.id, pid |-> p, result |-> NoExit, killAt |-> NoTime]}
          /\ job' = [job EXCEPT !.pid = p] /\ pc = "spawn" /\ pc' = "register"
          /\ UNCHANGED <<rows, live>>
      BY <2>5 DEF Spawn, Locked, tables
    <3>3. job'.id = job.id
      BY <3>1, <3>2 DEF Job
    <3>4. {h.id : h \in handles'} \subseteq {h.id : h \in handles} \cup {job.id}
      BY <3>2
    <3>5. {owner'[q] : q \in Alive'} \subseteq {owner[q] : q \in Alive} \cup {job.id}
      BY <1>2, <3>2 DEF Alive, TypeInv, TypeOK, KernelOK
    <3>6. Named' \subseteq Named \cup {job.id}
      BY <3>2, <3>4, <3>5 DEF Named
    <3>7. job.id \in 1 .. Len(rows) /\ job.id \notin Named /\ Named \subseteq 1 .. Len(rows)
      BY <1>2, <2>2, <3>2 DEF IdsInv, TypeInv, HandlerOK
    <3>8. \A e \in live : e.id # job.id
      BY <3>7 DEF Named
    <3> QED
      BY <3>2, <3>3, <3>6, <3>7, <3>8 DEF IdsInv
  <2>6. CASE Register
    <3>1. PICK ident :
          /\ live' = live \cup {[id |-> job.id, pid |-> job.pid, ident |-> ident,
                                 start |-> rows[job.id].start]}
          /\ pc = "register" /\ pc' \in {"free", "due"} /\ job' = NoJob /\ UNCHANGED <<rows, handles, owner>>
      BY <1>2, <2>6 DEF Register, Locked, kernel, TypeInv, TypeOK, MutexOK, Job
    <3>2. {e.id : e \in live'} \subseteq {e.id : e \in live} \cup {job.id}
      BY <3>1
    <3>3. Named' \subseteq Named \cup {job.id}
      BY <3>1, <3>2 DEF Named, Alive
    <3>4. job.id \in 1 .. Len(rows)
      BY <1>2, <2>2, <3>1 DEF TypeInv, HandlerOK
    <3> QED
      BY <1>2, <3>1, <3>3, <3>4 DEF IdsInv
  <2> QED
    BY <1>2, <2>4, <2>5, <2>6, StepFewer
<1> QED
  BY <1>1, <1>2

-----------------------------------------------------------------------------
(* Handles and processes *)

\* Each run has one handle and one process at most.  A handle's process is the
\* run's until Wait has reaped it; from then on the pid may be anybody's.
ChildInv ==
    /\ \A g, h \in handles : g.id = h.id => g = h
    /\ \A p, q \in Alive : owner[p] = owner[q] => p = q
    /\ \A h \in handles :
          /\ h.result = NoExit => owner[h.pid] = h.id
          /\ h.result # NoExit => \A p \in Pids : owner[p] # h.id
    /\ pc = "register" => \E h \in handles : h.id = job.id /\ h.pid = job.pid
    /\ pc = "clear" => (\A h \in handles : h.id # job.id) /\ (\A p \in Pids : owner[p] # job.id)

LEMMA ChildInit == Init => ChildInv
BY DEF Init, ChildInv, Alive

\* The handles are the ones there were, some with a KILL armed.
Armed == handles' = handles \/ \E id : handles' = ArmKill(id)

LEMMA ArmedHandles ==
    ASSUME handles \subseteq Handle, Armed
    PROVE  /\ \A h \in handles' : \E g \in handles : h.id = g.id /\ h.pid = g.pid /\ h.result = g.result
           /\ \A g \in handles : \E h \in handles' : h.id = g.id /\ h.pid = g.pid
           /\ (\A g, h \in handles : g.id = h.id => g = h) => \A g, h \in handles' : g.id = h.id => g = h
<1>1. CASE handles' = handles
  BY <1>1
<1>2. CASE \E id : handles' = ArmKill(id)
  <2>1. PICK id : handles' = ArmKill(id)
    BY <1>2
  <2> DEFINE F(h) == IF h.id = id /\ h.killAt = NoTime /\ h.result = NoExit
                     THEN [h EXCEPT !.killAt = now] ELSE h
  <2>2. handles' = {F(h) : h \in handles}
    BY <2>1 DEF ArmKill
  <2>3. \A h \in handles : F(h).id = h.id /\ F(h).pid = h.pid /\ F(h).result = h.result
    BY DEF Handle
  <2> HIDE DEF F
  <2> QED
    BY <2>2, <2>3
<1> QED
  BY <1>1, <1>2 DEF Armed

\* The kernel's table stays, and so do the handles and the mutex's job.
LEMMA ChildSame ==
    ASSUME TypeInv, ChildInv, Armed, UNCHANGED owner,
           pc' = "register" => pc = "register" /\ job' = job,
           pc' = "clear" => pc = "clear" /\ job' = job
    PROVE  ChildInv'
<1>1. handles \subseteq Handle
  BY DEF TypeInv, TypeOK, MutexOK
<1>2. /\ \A h \in handles' : \E g \in handles : h.id = g.id /\ h.pid = g.pid /\ h.result = g.result
      /\ \A g \in handles : \E h \in handles' : h.id = g.id /\ h.pid = g.pid
      /\ \A g, h \in handles' : g.id = h.id => g = h
  BY <1>1, ArmedHandles DEF ChildInv
<1>3. \A h \in handles' : /\ h.result = NoExit => owner'[h.pid] = h.id
                          /\ h.result # NoExit => \A p \in Pids : owner'[p] # h.id
  BY <1>2 DEF ChildInv
<1>4. pc' = "register" => \E h \in handles' : h.id = job'.id /\ h.pid = job'.pid
  BY <1>2 DEF ChildInv
<1>5. pc' = "clear" => (\A h \in handles' : h.id # job'.id) /\ (\A p \in Pids : owner'[p] # job'.id)
  BY <1>2 DEF ChildInv
<1> QED
  BY <1>2, <1>3, <1>4, <1>5 DEF ChildInv, Alive

\* Only these steps start, reap or forget a process, or rename one.
Disturbs == Spawn \/ RecordFinish \/ Drained \/ Crash \/ Kernel

LEMMA StepArmed == TypeInv /\ Next => Disturbs \/ (Armed /\ UNCHANGED owner)
<1> SUFFICES ASSUME TypeInv, Next, ~Disturbs PROVE Armed /\ UNCHANGED owner
  OBVIOUS
<1>1. CASE EnforceOwned \/ RestartFire
  BY <1>1 DEF EnforceOwned, RestartFire, FireCron, Armed
<1>2. CASE \/ EnforceAdopted \/ SettleAdopted \/ NothingDue \/ FireWatermark
           \/ StartFire \/ MissFire \/ QueueFire
  BY <1>2 DEF EnforceAdopted, SettleAdopted, NothingDue, FireWatermark, StartFire, MissFire, QueueFire,
     FireCron, kernel, Armed
<1>3. CASE LaunchFail \/ Register \/ ClearFinished
  BY <1>3 DEF LaunchFail, Register, ClearFinished, kernel, Armed
<1>4. CASE Trigger \/ Pause \/ Resume \/ Reload \/ Start
  BY <1>4 DEF Trigger, Pause, Resume, Reload, Start, kernel, Armed
<1>5. CASE SecondServe \/ PruneHistory \/ ReleaseAll \/ ClockAdvance \/ KillTimer
  BY <1>5 DEF SecondServe, PruneHistory, ReleaseAll, ClockAdvance, KillTimer, kernel, Armed
<1> QED
  BY <1>1, <1>2, <1>3, <1>4, <1>5 DEF Next, TickStep, Request, Disturbs

LEMMA ChildSpawn == TypeInv /\ QueueInv /\ IdsInv /\ ChildInv /\ Spawn => ChildInv'
<1> SUFFICES ASSUME TypeInv, QueueInv, IdsInv, ChildInv, Spawn PROVE ChildInv'
  OBVIOUS
<1>1. job \in Job /\ owner \in [Pids -> Nat \cup {Stranger}] /\ handles \subseteq Handle
  BY DEF TypeInv, TypeOK, MutexOK, KernelOK
<1>2. PICK p \in Pids :
        /\ owner[p] = Free /\ owner' = [owner EXCEPT ![p] = job.id]
        /\ handles' = handles \cup {[id |-> job.id, pid |-> p, result |-> NoExit, killAt |-> NoTime]}
        /\ job' = [job EXCEPT !.pid = p] /\ pc = "spawn" /\ pc' = "register"
  BY DEF Spawn, Locked
<1>3. PICK new : /\ new = [id |-> job.id, pid |-> p, result |-> NoExit, killAt |-> NoTime]
                 /\ handles' = handles \cup {new}
  BY <1>2
<1>4. /\ new.id = job.id /\ new.pid = p /\ new.result = NoExit
      /\ job'.id = job.id /\ job'.pid = p
  BY <1>1, <1>2, <1>3 DEF Job
<1>5. owner'[p] = job.id /\ \A q \in Pids : q # p => owner'[q] = owner[q]
  BY <1>1, <1>2
<1>6. job.id \in Nat /\ job.id # 0 /\ job.id \notin Named
  BY <1>1, <1>2 DEF QueueInv, IdsInv, Job, NoId
<1>7. /\ \A h \in handles : h.id # job.id /\ h.pid \in Pids /\ h.id \in Nat /\ h.id # 0
      /\ \A q \in Pids : owner[q] # job.id
  BY <1>1, <1>6 DEF Named, Alive, Free, Stranger, QueueInv, NoId, Handle
<1>8. \A g, h \in handles' : g.id = h.id => g = h
  BY <1>3, <1>4, <1>7 DEF ChildInv
<1>9. \A q, r \in Alive' : owner'[q] = owner'[r] => q = r
  <2>1. \A q \in Pids : q # p /\ q \in Alive' => q \in Alive
    BY <1>5 DEF Alive
  <2> QED
    BY <1>5, <1>7, <2>1 DEF ChildInv, Alive
<1>10. ASSUME NEW h \in handles
      PROVE  /\ h.result = NoExit => owner'[h.pid] = h.id
             /\ h.result # NoExit => \A q \in Pids : owner'[q] # h.id
  BY <1>2, <1>5, <1>6, <1>7 DEF ChildInv, Free, Stranger
<1>11. owner'[new.pid] = new.id
  BY <1>4, <1>5, <1>6
<1> QED
  BY <1>2, <1>3, <1>4, <1>8, <1>9, <1>10, <1>11 DEF ChildInv

LEMMA ChildKernel == TypeInv /\ QueueInv /\ ChildInv /\ Kernel => ChildInv'
<1> SUFFICES ASSUME TypeInv, QueueInv, ChildInv, Kernel PROVE ChildInv'
  OBVIOUS
<1>1. owner \in [Pids -> Nat \cup {Stranger}] /\ handles \subseteq Handle /\ sig \in [Pids -> Signals]
      /\ \A h \in handles : h.pid \in Pids /\ h.id \in Nat /\ h.id # 0
  BY DEF TypeInv, TypeOK, MutexOK, KernelOK, QueueInv, Handle, NoId
<1>2. PICK p \in Pids : ProcessExit(p) \/ PidReused(p) \/ StrangerExit(p)
  BY DEF Kernel
<1>3. UNCHANGED <<pc, job>> /\ \A q \in Pids : q # p => owner'[q] = owner[q]
  BY <1>1, <1>2 DEF ProcessExit, PidReused, StrangerExit
<1>4. \A q \in Alive' : q \in Alive /\ q # p /\ owner'[q] = owner[q]
  BY <1>1, <1>2, <1>3 DEF ProcessExit, PidReused, StrangerExit, Alive
<1>5. \A q, r \in Alive' : owner'[q] = owner'[r] => q = r
  BY <1>4 DEF ChildInv
<1>6. CASE ProcessExit(p)
  <2>1. owner'[p] = Free /\ owner[p] \notin {Free, Stranger}
    BY <1>1, <1>6 DEF ProcessExit
  <2>2. \A q \in Pids : owner'[q] # owner[p]
    BY <1>3, <2>1 DEF ChildInv, Alive
  <2>3. \A h \in handles' : \E g \in handles :
             /\ h.id = g.id /\ h.pid = g.pid
             /\ g.id = owner[p] => h.result # NoExit
             /\ g.id # owner[p] => h = g
    <3>1. NoExit \notin ExitsUnder(sig[p])
      BY <1>1, EngineAssumption DEF ExitsUnder, Signals, NoExit
    <3> QED
      BY <1>1, <1>6, <3>1, ReapedHandles
  <2>4. \A g, h \in handles' : g.id = h.id => g = h
    <3>1. PICK code : handles' = {IF g.id = owner[p] THEN Reaped(g, code) ELSE g : g \in handles}
      BY <1>6 DEF ProcessExit
    <3> DEFINE F(g) == IF g.id = owner[p] THEN Reaped(g, code) ELSE g
    <3>2. \A g \in handles : F(g).id = g.id
      BY <1>1 DEF Handle, Reaped
    <3>3. handles' = {F(g) : g \in handles}
      BY <3>1
    <3> HIDE DEF F
    <3> QED
      BY <3>2, <3>3 DEF ChildInv
  <2>5. ASSUME NEW h \in handles'
        PROVE  /\ h.result = NoExit => owner'[h.pid] = h.id
               /\ h.result # NoExit => \A q \in Pids : owner'[q] # h.id
    <3>1. PICK g \in handles : /\ h.id = g.id /\ h.pid = g.pid
                               /\ g.id = owner[p] => h.result # NoExit
                               /\ g.id # owner[p] => h = g
      BY <2>3
    <3>2. CASE g.id = owner[p]
      BY <1>1, <1>3, <2>1, <2>2, <3>1, <3>2 DEF ChildInv, Free, Stranger
    <3>3. CASE g.id # owner[p]
      BY <1>1, <1>3, <2>1, <3>1, <3>3 DEF ChildInv, Free, Stranger
    <3> QED
      BY <3>2, <3>3
  <2>6. pc' = "register" => \E h \in handles' : h.id = job'.id /\ h.pid = job'.pid
    <3>1. \A g \in handles : \E h \in handles' : h.id = g.id /\ h.pid = g.pid
      BY <1>1, <1>6, ReapedKeepsHandles
    <3> QED
      BY <1>3, <3>1 DEF ChildInv
  <2>7. pc' = "clear" => (\A h \in handles' : h.id # job'.id) /\ (\A q \in Pids : owner'[q] # job'.id)
    <3>1. pc = "clear" => job.id # Free
      BY DEF QueueInv, NoId, Free
    <3> QED
      BY <1>3, <2>1, <2>3, <3>1 DEF ChildInv
  <2> QED
    BY <1>5, <2>4, <2>5, <2>6, <2>7 DEF ChildInv
<1>7. CASE PidReused(p)
  <2>1. owner[p] = Free /\ owner'[p] = Stranger /\ handles' = handles
    BY <1>1, <1>7 DEF PidReused
  <2>2. ASSUME NEW h \in handles
        PROVE  /\ h.result = NoExit => owner'[h.pid] = h.id
               /\ h.result # NoExit => \A q \in Pids : owner'[q] # h.id
    BY <1>1, <1>3, <2>1 DEF ChildInv, Free, Stranger
  <2>3. pc = "clear" => \A q \in Pids : owner'[q] # job.id
    BY <1>1, <1>3, <2>1 DEF ChildInv, TypeInv, TypeOK, MutexOK, Job, Stranger
  <2> QED
    BY <1>3, <1>5, <2>1, <2>2, <2>3 DEF ChildInv
<1>8. CASE StrangerExit(p)
  <2>1. owner[p] = Stranger /\ owner'[p] = Free /\ handles' = handles
    BY <1>1, <1>8 DEF StrangerExit
  <2>2. ASSUME NEW h \in handles
        PROVE  /\ h.result = NoExit => owner'[h.pid] = h.id
               /\ h.result # NoExit => \A q \in Pids : owner'[q] # h.id
    BY <1>1, <1>3, <2>1 DEF ChildInv, Stranger, Free
  <2>3. pc = "clear" => \A q \in Pids : owner'[q] # job.id
    BY <1>3, <2>1 DEF ChildInv, QueueInv, NoId, Free
  <2> QED
    BY <1>3, <1>5, <2>1, <2>2, <2>3 DEF ChildInv
<1> QED
  BY <1>2, <1>6, <1>7, <1>8

LEMMA ChildStep == TypeInv /\ QueueInv /\ IdsInv /\ ChildInv /\ [Next]_vars => ChildInv'
<1>1. ASSUME ChildInv, UNCHANGED vars PROVE ChildInv'
  BY <1>1 DEF vars, kernel, ChildInv, Alive
<1>2. ASSUME TypeInv, QueueInv, IdsInv, ChildInv, Next PROVE ChildInv'
  <2>1. CASE ~Disturbs
    <3>1. Armed /\ UNCHANGED owner /\ MutexStep
      BY <1>2, <2>1, StepArmed, StepMutex
    <3> QED
      BY <1>2, <2>1, <3>1, ChildSame DEF MutexStep, Disturbs
  <2>2. CASE Drained \/ Crash
    BY <1>2, <2>2 DEF Drained, Crash, Die, kernel, ChildInv, Alive
  <2>3. CASE RecordFinish
    <3>1. PICK h \in handles : /\ h.result # NoExit /\ handles' = handles \ {h}
                               /\ job' = [NoJob EXCEPT !.id = h.id,
                                                       !.success = (h.result = 0 /\ FinishError(h) = "")]
                               /\ pc' = "clear" /\ UNCHANGED owner
      BY <2>3 DEF RecordFinish, kernel
    <3>2. job'.id = h.id
      BY <3>1 DEF NoJob
    <3> QED
      BY <1>2, <3>1, <3>2 DEF ChildInv, Alive
  <2> QED
    BY <1>2, <2>1, <2>2, <2>3, ChildSpawn, ChildKernel DEF Disturbs
<1> QED
  BY <1>1, <1>2

-----------------------------------------------------------------------------
(* The run the engine holds *)

\* The run in taskState.running has this daemon's handle, until its finish is
\* recorded.  A task that is not in tasks.d, or
\* whose daemon is down, holds no run and starts none.
HeldInv ==
    /\ running.id # NoId =>
          /\ running.pid \in Pids
          /\ \/ \E h \in handles : h.id = running.id /\ h.pid = running.pid
             \/ pc = "clear" /\ job.id = running.id
    /\ pc = "register" => owner[job.pid] \in {Free, job.id}
    /\ up = "down" => handles = {} /\ ~busy
    /\ cfg = NoTask => ~busy
    /\ pc \in {"spawn", "register"} => cfg # NoTask

LEMMA HeldInit == Init => HeldInv
BY DEF Init, HeldInv, busy, NoRun, NoReleased

\* The engine holds the run it held.
LEMMA HeldSame ==
    ASSUME TypeInv, HeldInv, running'.id = running.id, running'.pid = running.pid,
           released'.id \in {released.id, NoId},
           \A g \in handles : \E h \in handles' : h.id = g.id /\ h.pid = g.pid,
           \A p \in Pids : owner'[p] \in {owner[p], Free},
           up' = "down" => up = "down" /\ handles' = {}, UNCHANGED cfg,
           pc = "clear" => (pc' = "clear" /\ job' = job) \/ running.id # job.id,
           pc' = "register" => pc = "register" /\ job' = job,
           pc' = "spawn" => cfg # NoTask
    PROVE  HeldInv'
<1>1. pc = "register" => job.pid \in Pids
  BY DEF TypeInv, HandlerOK
<1>2. running'.id # NoId =>
          /\ running'.pid \in Pids
          /\ \/ \E h \in handles' : h.id = running'.id /\ h.pid = running'.pid
             \/ pc' = "clear" /\ job'.id = running'.id
  BY DEF HeldInv
<1>3. pc' = "register" => owner'[job'.pid] \in {Free, job'.id}
  BY <1>1 DEF HeldInv
<1>4. busy' => busy
  BY DEF busy
<1> QED
  BY <1>2, <1>3, <1>4 DEF HeldInv

LEMMA HeldConfigure ==
    ASSUME TypeInv, QueueInv, HeldInv, NEW c, Configure(c), UNCHANGED <<pc, job, handles, owner>>,
           pc = "free", up' # "down"
    PROVE  HeldInv'
<1>1. CASE c = NoTask
  BY <1>1 DEF Configure, ForgetTask, LoseState, HeldInv, busy, NoRun, NoReleased
<1>2. CASE c # NoTask
  <2>1. cfg' = c /\ UNCHANGED running
    BY <1>2 DEF Configure, LoadTask
  <2> QED
    BY <1>2, <2>1 DEF HeldInv
<1> QED
  BY <1>1, <1>2

LEMMA HeldTick == TypeInv /\ QueueInv /\ HeldInv /\ TickStep => HeldInv'
<1> SUFFICES ASSUME TypeInv, QueueInv, HeldInv, TickStep PROVE HeldInv'
  OBVIOUS
<1>1. /\ handles \subseteq Handle /\ running \in OwnedRun /\ released \in AdoptedRun
      /\ rows \in Seq(Row) /\ now \in Time /\ queued \in TimeOrNo
  BY DEF TypeInv, TypeOK, MutexOK, MemoryOK, TablesOK, ClockOK
<1>2. CASE EnforceOwned \/ RestartFire
  <2>1. /\ Armed /\ UNCHANGED <<owner, cfg, up>> /\ pc \in {"free", "due"} /\ up # "down"
        /\ pc' \in {"free", "due"}
    BY <1>2 DEF EnforceOwned, RestartFire, FireCron, CronFires, DueStep, TickStarts, Idle, Locked, Armed
  <2>2. running'.id = running.id /\ running'.pid = running.pid
    BY <1>1, <1>2 DEF EnforceOwned, RestartFire, OwnedRun
  <2>3. released'.id = released.id
    BY <1>1, <1>2 DEF EnforceOwned, RestartFire, AdoptedRun
  <2> QED
    BY <1>1, <2>1, <2>2, <2>3, ArmedHandles, HeldSame
<1>3. CASE \/ EnforceAdopted \/ NothingDue \/ FireWatermark
           \/ StartFire \/ MissFire \/ QueueFire
  <2>1. UNCHANGED <<handles, owner, cfg, up, running>> /\ up # "down" /\ pc \in {"free", "due"}
    BY <1>3 DEF EnforceAdopted, NothingDue, FireWatermark, StartFire, MissFire, QueueFire, CronFires,
       DueStep, TickStarts, Idle, Locked, memory, kernel, FireCron
  <2>2. released'.id = released.id
    BY <1>1, <1>3 DEF EnforceAdopted, NothingDue, FireWatermark, StartFire, MissFire, QueueFire, memory, AdoptedRun
  <2>3. pc' \in {"free", "due", "spawn"} /\ cfg # NoTask
    BY <1>3 DEF EnforceAdopted, NothingDue, FireWatermark, StartFire, MissFire, QueueFire, CronFires,
       DueStep, TickStarts, Locked, BeginRun, TypeInv, HandlerOK
  <2> QED
    BY <2>1, <2>2, <2>3, HeldSame
<1>4. CASE SettleAdopted
  <2>1. /\ UNCHANGED <<handles, owner, cfg, up, running>> /\ released'.id = NoId
        /\ up # "down" /\ pc = "free" /\ cfg # NoTask
    BY <1>4 DEF SettleAdopted, TickStarts, Idle, Locked, kernel, NoReleased
  <2>2. pc' \in {"due", "spawn"}
    BY <1>4 DEF SettleAdopted, StartQueued, BeginRun
  <2> QED
    BY <2>1, <2>2, HeldSame
<1> QED
  BY <1>2, <1>3, <1>4 DEF TickStep

LEMMA HeldRun ==
    TypeInv /\ QueueInv /\ ChildInv /\ HeldInv /\ (Spawn \/ LaunchFail \/ Register \/ RecordFinish \/ ClearFinished)
    => HeldInv'
<1> SUFFICES ASSUME TypeInv, QueueInv, ChildInv, HeldInv,
                    Spawn \/ LaunchFail \/ Register \/ RecordFinish \/ ClearFinished
             PROVE  HeldInv'
  OBVIOUS
<1>1. handles \subseteq Handle /\ job \in Job /\ owner \in [Pids -> Nat \cup {Stranger}]
  BY DEF TypeInv, TypeOK, MutexOK, KernelOK
<1>2. CASE Spawn
  <2>1. PICK p \in Pids :
        /\ owner' = [owner EXCEPT ![p] = job.id] /\ job' = [job EXCEPT !.pid = p]
        /\ pc = "spawn" /\ pc' = "register" /\ up # "down" /\ up' = up /\ UNCHANGED memory
    BY <1>2 DEF Spawn, Locked
  <2>2. owner'[job'.pid] = job'.id
    BY <1>1, <2>1 DEF Job
  <2>3. ~busy /\ cfg # NoTask
    BY <2>1 DEF QueueInv, HeldInv
  <2> QED
    BY <2>1, <2>2, <2>3 DEF HeldInv, busy, memory
<1>3. CASE LaunchFail
  <2>1. pc = "spawn" /\ pc' \in {"free", "due"} /\ UNCHANGED <<memory, kernel, handles, up>> /\ up # "down"
    BY <1>1, <1>3 DEF LaunchFail, Locked, Job
  <2> QED
    BY <2>1, HeldSame DEF memory, kernel
<1>4. CASE Register
  <2>1. /\ running' = [NoRun EXCEPT !.id = job.id, !.pid = job.pid, !.start = rows[job.id].start]
        /\ pc = "register" /\ pc' \in {"free", "due"}
        /\ UNCHANGED <<owner, handles, cfg, released, up>> /\ up # "down"
    BY <1>1, <1>4 DEF Register, Locked, kernel, Job
  <2>2. running'.id = job.id /\ running'.pid = job.pid
    BY <2>1 DEF NoRun
  <2>3. job.pid \in Pids /\ cfg # NoTask
    BY <2>1 DEF TypeInv, HandlerOK, HeldInv
  <2> QED
    BY <2>1, <2>2, <2>3 DEF HeldInv, ChildInv
<1>5. CASE RecordFinish
  <2>1. PICK h \in handles :
        /\ handles' = handles \ {h} /\ pc = "free" /\ pc' = "clear" /\ job'.id = h.id
        /\ UNCHANGED <<owner, memory, up>> /\ up # "down"
    BY <1>5 DEF RecordFinish, Idle, Locked, kernel, NoJob
  <2> QED
    BY <2>1 DEF HeldInv, memory, busy
<1>6. CASE ClearFinished
  <2>1. /\ pc = "clear" /\ up # "down"
        /\ UNCHANGED <<up, cfg, released, handles, owner>>
    BY <1>6 DEF ClearFinished, Locked, kernel
  <2>2. CASE running.id # job.id
    <3>1. UNCHANGED running /\ pc' = "free"
      BY <1>6, <2>2 DEF ClearFinished
    <3> QED
      BY <2>1, <2>2, <3>1, HeldSame
  <2>3. CASE running.id = job.id
    <3>1. running'.id = NoId /\ pc' \in {"free", "spawn"}
      BY <1>6, <2>3 DEF ClearFinished, StartQueued, BeginRun, NoRun
    <3>2. busy
      BY <2>1, <2>3 DEF busy, QueueInv
    <3> QED
      BY <2>1, <3>1, <3>2 DEF HeldInv, busy
  <2> QED
    BY <2>2, <2>3
<1> QED
  BY <1>2, <1>3, <1>4, <1>5, <1>6

LEMMA HeldAround ==
    TypeInv /\ QueueInv /\ HeldInv /\ (\/ Request \/ Start \/ SecondServe \/ PruneHistory \/ ReleaseAll
                                       \/ Drained \/ Crash \/ ClockAdvance \/ KillTimer \/ Kernel)
    => HeldInv'
<1> SUFFICES ASSUME TypeInv, QueueInv, HeldInv,
                    \/ Request \/ Start \/ SecondServe \/ PruneHistory \/ ReleaseAll
                    \/ Drained \/ Crash \/ ClockAdvance \/ KillTimer \/ Kernel
             PROVE  HeldInv'
  OBVIOUS
<1>1. CASE Trigger \/ Pause \/ Resume
  <2>1. /\ UNCHANGED <<running, released, handles, owner, cfg, up>> /\ up # "down" /\ pc = "free"
        /\ cfg # NoTask /\ pc' \in {"free", "spawn"}
    BY <1>1 DEF Trigger, Pause, Resume, Serving, Idle, Locked, memory, kernel, BeginRun
  <2> QED
    BY <2>1, HeldSame
<1>2. CASE Reload
  BY <1>2, HeldConfigure DEF Reload, Serving, Idle, Locked, kernel
<1>3. CASE Start
  <2>1. pc = "free"
    BY <1>3 DEF Start, TypeInv, HandlerOK
  <2> QED
    BY <1>3, <2>1, HeldConfigure DEF Start, kernel
<1>4. CASE SecondServe \/ PruneHistory \/ ClockAdvance \/ KillTimer
  <2>1. UNCHANGED <<running, released, handles, owner, cfg, up, pc, job>>
    BY <1>4 DEF SecondServe, PruneHistory, ClockAdvance, KillTimer, memory, kernel
  <2> QED
    BY <2>1, HeldSame DEF HeldInv
<1>5. CASE ReleaseAll
  BY <1>5 DEF ReleaseAll, Idle, Locked, kernel, HeldInv, busy, NoRun, NoReleased
<1>6. CASE Drained \/ Crash
  BY <1>6 DEF Drained, Crash, Die, LoseState, kernel, HeldInv, busy, NoRun, NoReleased
<1>7. CASE Kernel
  <2>1. PICK p \in Pids : ProcessExit(p) \/ PidReused(p) \/ StrangerExit(p)
    BY <1>7 DEF Kernel
  <2>2. /\ UNCHANGED <<running, released, cfg, up, pc, job>>
        /\ owner \in [Pids -> Nat \cup {Stranger}] /\ handles \subseteq Handle
    BY <2>1 DEF ProcessExit, PidReused, StrangerExit, memory, TypeInv, TypeOK, KernelOK, MutexOK
  <2>3. CASE ProcessExit(p) \/ StrangerExit(p)
    <3>1. \A q \in Pids : owner'[q] \in {owner[q], Free}
      BY <2>2, <2>3 DEF ProcessExit, StrangerExit
    <3>2. \A g \in handles : \E h \in handles' : h.id = g.id /\ h.pid = g.pid
      BY <2>2, <2>3, ReapedKeepsHandles DEF StrangerExit
    <3>3. handles = {} => handles' = {}
      BY <2>3 DEF ProcessExit, StrangerExit
    <3> QED
      BY <2>2, <3>1, <3>2, <3>3, HeldSame DEF HeldInv
  <2>4. CASE PidReused(p)
    <3>1. owner' = [owner EXCEPT ![p] = Stranger] /\ handles' = handles /\ p # job.pid
      BY <2>4 DEF PidReused
    <3>2. \A q \in Pids : q # p => owner'[q] = owner[q]
      BY <2>2, <3>1
    <3> QED
      BY <2>2, <3>1, <3>2 DEF HeldInv, busy
  <2> QED
    BY <2>1, <2>3, <2>4
<1> QED
  BY <1>1, <1>2, <1>3, <1>4, <1>5, <1>6, <1>7 DEF Request

LEMMA HeldStep == TypeInv /\ QueueInv /\ ChildInv /\ HeldInv /\ [Next]_vars => HeldInv'
<1>1. ASSUME HeldInv, UNCHANGED vars PROVE HeldInv'
  BY <1>1 DEF vars, memory, kernel, HeldInv, busy
<1> QED
  BY <1>1, HeldTick, HeldRun, HeldAround DEF Next

-----------------------------------------------------------------------------
(* The registry and the adopted run *)

\* A run has one registry entry at most, whose identity is that of the run's
\* process or unknown; the adopted run is as its entry says.
RegistryInv ==
    /\ \A e, f \in live : e.id = f.id => e = f
    /\ \A e \in live : e.ident \in {NoId, e.id}
    /\ released.id # NoId =>
          /\ released.pid \in Pids /\ released.ident \in {NoId, released.id}
          /\ \A e \in live : e.id = released.id => e.pid = released.pid /\ e.ident = released.ident

LEMMA RegistryInit == Init => RegistryInv
BY DEF Init, RegistryInv, NoReleased

\* What identifies the adopted run.
SameAdopted == released'.id = released.id /\ released'.pid = released.pid /\ released'.ident = released.ident

LEMMA RegistrySame ==
    ASSUME RegistryInv, live' \subseteq live, released'.id = NoId \/ SameAdopted
    PROVE  RegistryInv'
BY DEF RegistryInv, SameAdopted

\* A Configure adopts nothing, goes on with what it had, or takes an entry.
LEMMA ConfigureAdopts ==
    ASSUME TypeInv, NEW c, Configure(c)
    PROVE  /\ live' \subseteq live
           /\ \/ released'.id = NoId \/ released' = released
              \/ /\ ~busy /\ \E e \in live' : /\ released'.id = e.id /\ released'.pid = e.pid /\ released'.ident = e.ident
                                              /\ released'.start = e.start /\ released'.killedAt = NoTime
<1>1. live \subseteq LiveEntry
  BY DEF TypeInv, TypeOK, TablesOK
<1>2. CASE c = NoTask
  BY <1>2 DEF Configure, ForgetTask, LoseState, NoReleased
<1>3. CASE c # NoTask
  <2>1. PICK untracked \in SUBSET live, dead \in SUBSET live :
              /\ live' = live \ dead /\ dead \subseteq untracked
              /\ released' = IF busy \/ dead = untracked THEN released
                             ELSE Adopted(Oldest(untracked \ dead))
    BY <1>3 DEF Configure, Finalized
  <2>2. CASE busy \/ dead = untracked
    BY <2>1, <2>2
  <2>3. CASE ~(busy \/ dead = untracked)
    <3>1. PICK e \in untracked \ dead : e = Oldest(untracked \ dead)
      <4>1. untracked \ dead \in SUBSET LiveEntry /\ untracked \ dead # {}
        BY <1>1, <2>1, <2>3
      <4> QED
        BY <4>1, OldestType
    <3>2. released' = [NoReleased EXCEPT !.id = e.id, !.pid = e.pid, !.ident = e.ident, !.start = e.start]
      BY <2>1, <2>3, <3>1 DEF Adopted
    <3>3. e \in live' /\ released'.id = e.id /\ released'.pid = e.pid /\ released'.ident = e.ident
          /\ released'.start = e.start /\ released'.killedAt = NoTime
      BY <2>1, <3>2 DEF NoReleased
    <3> QED
      BY <2>1, <2>3, <3>3
  <2> QED
    BY <2>2, <2>3
<1> QED
  BY <1>2, <1>3

LEMMA RegistryConfigure ==
    ASSUME TypeInv, RegistryInv, NEW c, Configure(c)
    PROVE  RegistryInv'
<1>1. live \subseteq LiveEntry /\ live' \subseteq live
  BY ConfigureAdopts DEF TypeInv, TypeOK, TablesOK
<1>2. CASE released'.id = NoId \/ released' = released
  BY <1>1, <1>2, RegistrySame DEF SameAdopted
<1>3. CASE \E e \in live' : released'.id = e.id /\ released'.pid = e.pid /\ released'.ident = e.ident
  BY <1>1, <1>3 DEF RegistryInv, LiveEntry
<1> QED
  BY <1>2, <1>3, ConfigureAdopts

\* No other step renames the adopted run.
LEMMA StepAdopted ==
    TypeInv /\ Next => \/ released'.id = NoId \/ SameAdopted
                       \/ \E c : Configure(c) /\ (Reload \/ Start)
<1> SUFFICES ASSUME TypeInv, Next PROVE \/ released'.id = NoId \/ SameAdopted
                                        \/ \E c : Configure(c) /\ (Reload \/ Start)
  OBVIOUS
<1>1. released \in AdoptedRun
  BY DEF TypeInv, TypeOK, MemoryOK
<1>2. CASE EnforceAdopted \/ RestartFire
  BY <1>1, <1>2 DEF EnforceAdopted, RestartFire, AdoptedRun, SameAdopted
<1>3. CASE \/ EnforceOwned \/ NothingDue \/ FireWatermark \/ StartFire \/ MissFire \/ QueueFire
  BY <1>3 DEF EnforceOwned, NothingDue, FireWatermark, StartFire, MissFire, QueueFire, memory, SameAdopted
<1>4. CASE SettleAdopted \/ ReleaseAll \/ Drained \/ Crash
  <2>1. released' = NoReleased
    BY <1>4 DEF SettleAdopted, ReleaseAll, Drained, Crash, Die, LoseState
  <2> QED
    BY <2>1 DEF NoReleased
<1>5. CASE Spawn \/ LaunchFail \/ Register \/ RecordFinish \/ ClearFinished
  BY <1>5 DEF Spawn, LaunchFail, Register, RecordFinish, ClearFinished, memory, SameAdopted
<1>6. CASE Trigger \/ Pause \/ Resume \/ SecondServe \/ PruneHistory \/ ClockAdvance \/ KillTimer
  BY <1>6 DEF Trigger, Pause, Resume, SecondServe, PruneHistory, ClockAdvance, KillTimer, memory, SameAdopted
<1>7. CASE Kernel
  BY <1>7 DEF Kernel, ProcessExit, PidReused, StrangerExit, memory, SameAdopted
<1>8. CASE Reload \/ Start
  BY <1>8 DEF Reload, Start
<1> QED
  BY <1>2, <1>3, <1>4, <1>5, <1>6, <1>7, <1>8 DEF Next, TickStep, Request

LEMMA RegistryStep == TypeInv /\ QueueInv /\ IdsInv /\ RegistryInv /\ [Next]_vars => RegistryInv'
<1>1. ASSUME RegistryInv, UNCHANGED vars PROVE RegistryInv'
  BY <1>1, RegistrySame DEF vars, memory, tables, SameAdopted
<1>2. ASSUME TypeInv, QueueInv, IdsInv, RegistryInv, Next PROVE RegistryInv'
  <2>1. CASE Register
    <3>0. PICK ident \in {job.id, NoId} :
            /\ live' = live \cup {[id |-> job.id, pid |-> job.pid, ident |-> ident, start |-> rows[job.id].start]}
            /\ pc = "register" /\ released' = released
      BY <2>1 DEF Register, Locked
    <3> DEFINE e == [id |-> job.id, pid |-> job.pid, ident |-> ident, start |-> rows[job.id].start]
    <3>1. live' = live \cup {e} /\ pc = "register" /\ released' = released
      BY <3>0
    <3>2. e.id = job.id /\ e.ident \in {NoId, job.id}
      OBVIOUS
    <3> HIDE DEF e
    <3>3. released.id = NoId /\ \A f \in live : f.id # job.id
      BY <1>2, <3>1 DEF QueueInv, busy, IdsInv
    <3> QED
      BY <1>2, <3>1, <3>2, <3>3 DEF RegistryInv
  <2>2. CASE Spawn
    BY <1>2, <2>2, RegistrySame DEF Spawn, memory, tables, SameAdopted
  <2>3. CASE ~Register /\ ~Spawn
    <3>1. live' \subseteq live
      BY <1>2, <2>3, StepFewer DEF Fewer
    <3> QED
      BY <1>2, <3>1, StepAdopted, RegistrySame, RegistryConfigure
  <2> QED
    BY <2>1, <2>2, <2>3
<1> QED
  BY <1>1, <1>2

-----------------------------------------------------------------------------
(* Signals *)

\* A pid that no process has, has no signal pending.
SignalInv == \A p \in Pids : owner[p] = Free => sig[p] = "none"

LEMMA SignalInit == Init => SignalInv
BY DEF Init, SignalInv

LEMMA SignalSent ==
    ASSUME TypeInv, SignalInv, NEW p, NEW s, sig' = Signal(p, s), UNCHANGED owner
    PROVE  SignalInv'
BY DEF Signal, SignalInv, TypeInv, TypeOK, KernelOK

\* The steps that send a signal, and those that change the kernel's table.
Signalling == EnforceOwned \/ EnforceAdopted \/ RestartFire \/ KillTimer

LEMMA StepSignal == Next => Signalling \/ Spawn \/ Kernel \/ UNCHANGED <<owner, sig>>
<1> SUFFICES ASSUME Next, ~Signalling, ~Spawn, ~Kernel PROVE UNCHANGED <<owner, sig>>
  OBVIOUS
<1>1. CASE SettleAdopted \/ NothingDue \/ FireWatermark \/ StartFire \/ MissFire \/ QueueFire
  BY <1>1 DEF SettleAdopted, NothingDue, FireWatermark, StartFire, MissFire, QueueFire, FireCron, kernel
<1>2. CASE LaunchFail \/ Register \/ RecordFinish \/ ClearFinished
  BY <1>2 DEF LaunchFail, Register, RecordFinish, ClearFinished, kernel
<1>3. CASE Request \/ Start \/ SecondServe \/ PruneHistory \/ ReleaseAll \/ Drained \/ Crash \/ ClockAdvance
  BY <1>3 DEF Request, Trigger, Pause, Resume, Reload, Start, SecondServe, PruneHistory, ReleaseAll, Drained,
     Crash, Die, ClockAdvance, kernel
<1> QED
  BY <1>1, <1>2, <1>3 DEF Next, TickStep, Signalling

LEMMA SignalStep == TypeInv /\ SignalInv /\ [Next]_vars => SignalInv'
<1> SUFFICES ASSUME TypeInv, SignalInv, [Next]_vars PROVE SignalInv'
  OBVIOUS
<1>1. sig \in [Pids -> Signals] /\ owner \in [Pids -> Nat \cup {Stranger}]
  BY DEF TypeInv, TypeOK, KernelOK
<1>2. CASE UNCHANGED <<owner, sig>>
  BY <1>2 DEF SignalInv
<1>3. CASE Signalling
  <2>1. UNCHANGED owner /\ (sig' = sig \/ \E p, s : sig' = Signal(p, s))
    BY <1>3 DEF Signalling, EnforceOwned, EnforceAdopted, RestartFire, FireCron, KillTimer
  <2> QED
    BY <2>1, <1>2, SignalSent
<1>4. CASE Spawn
  BY <1>1, <1>4 DEF Spawn, SignalInv
<1>5. CASE Kernel
  <2>1. PICK p \in Pids : ProcessExit(p) \/ PidReused(p) \/ StrangerExit(p)
    BY <1>5 DEF Kernel
  <2> QED
    BY <1>1, <2>1 DEF ProcessExit, PidReused, StrangerExit, SignalInv
<1> QED
  BY <1>2, <1>3, <1>4, <1>5, StepSignal DEF vars, kernel

-----------------------------------------------------------------------------
(* The invariants so far hold whatever the constants are *)

RunInv == TypeInv /\ QueueInv /\ IdsInv /\ ChildInv /\ HeldInv /\ RegistryInv /\ SignalInv

LEMMA RunInvInit == Init => RunInv
BY TypeInit, QueueInit, IdsInit, ChildInit, HeldInit, RegistryInit, SignalInit DEF RunInv

LEMMA RunInvStep == RunInv /\ [Next]_vars => RunInv'
BY TypeStep, QueueStep, IdsStep, ChildStep, HeldStep, RegistryStep, SignalStep DEF RunInv

\* The stranger on a pid a step signals has it from a child this daemon has
\* reaped, or from an adopted run that died within the tick.
LEMMA StrangerHit ==
    ASSUME RunInv, Next, NEW p \in Pids, owner[p] = Stranger, owner'[p] = Stranger, sig'[p] # sig[p]
    PROVE  \/ \E h \in handles : h.pid = p /\ h.result # NoExit
           \/ pc = "due" /\ released.pid = p
<1>1. /\ sig \in [Pids -> Signals] /\ owner \in [Pids -> Nat \cup {Stranger}]
      /\ handles \subseteq Handle /\ running \in OwnedRun /\ released \in AdoptedRun /\ job \in Job
  BY DEF RunInv, TypeInv, TypeOK, KernelOK, MutexOK, MemoryOK
<1>2. \A q, s : sig' = Signal(q, s) => q = p
  BY <1>1 DEF Signal
<1>3. \A h \in handles : h.pid = p => h.result # NoExit
  BY <1>1 DEF RunInv, ChildInv, Handle, Stranger
<1>4. CASE EnforceOwned
  <2>1. running.id # NoId /\ sig' = Signal(running.pid, "term") /\ pc = "free"
    BY <1>4 DEF EnforceOwned, TickStarts, Idle, Locked
  <2> QED
    BY <1>2, <1>3, <2>1 DEF RunInv, HeldInv
<1>5. CASE EnforceAdopted
  <2>1. /\ \E s : sig' = Signal(released.pid, s)
        /\ released.id # NoId /\ TRUE \in Verdicts(released.pid, released.ident)
    BY <1>5 DEF EnforceAdopted
  <2>2. released.ident # NoId /\ owner[released.pid] = released.ident
    BY <2>1 DEF Verdicts, sameLiveProcess
  <2> QED
    BY <1>1, <1>2, <2>1, <2>2 DEF AdoptedRun, Stranger
<1>6. CASE RestartFire
  <2>1. /\ pc = "due"
        /\ \/ running.id # NoId /\ sig' = Signal(running.pid, "term")
           \/ sig' = Signal(released.pid, "term")
    BY <1>6 DEF RestartFire, CronFires, DueStep, Locked
  <2> QED
    BY <1>2, <1>3, <2>1 DEF RunInv, HeldInv
<1>7. CASE KillTimer
  <2>1. PICK h \in handles : sig' = Signal(h.pid, "kill")
    BY <1>7 DEF KillTimer
  <2> QED
    BY <1>2, <1>3, <2>1
<1>8. CASE Spawn
  BY <1>1, <1>8 DEF Spawn, Free, Stranger
<1>9. CASE Kernel
  <2>1. PICK q \in Pids : ProcessExit(q) \/ PidReused(q) \/ StrangerExit(q)
    BY <1>9 DEF Kernel
  <2> QED
    BY <1>1, <2>1 DEF ProcessExit, PidReused, StrangerExit, Free, Stranger
<1> QED
  BY <1>4, <1>5, <1>6, <1>7, <1>8, <1>9, StepSignal DEF Signalling

\* A process that is none of the task's runs is signalled on the pid of a child
\* that is reaped but not recorded, or of an adopted run found alive by the same
\* tick, and never otherwise: whatever ticks, kill timers, adoptions, crashes
\* and restarts do while pids are reused.
THEOREM StrangersSpared == Spec => StrangerSpared
<1> DEFINE Spared ==
      \A p \in Pids :
          owner[p] = Stranger /\ owner'[p] = Stranger /\ sig'[p] # sig[p] =>
              \/ \E h \in handles : h.pid = p /\ h.result # NoExit
              \/ pc = "due" /\ released.pid = p
<1>1. RunInv /\ [Next]_vars => [Spared]_vars
  BY StrangerHit
<1>2. StrangerSpared <=> [][Spared]_vars
  BY DEF StrangerSpared
<1> HIDE DEF Spared
<1> QED
  BY <1>1, <1>2, RunInvInit, RunInvStep, PTL DEF Spec
=============================================================================

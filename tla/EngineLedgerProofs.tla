-------------------------- MODULE EngineLedgerProofs --------------------------
(***************************************************************************)
(* What Engine does with the fires of a task: each gets one row, and the   *)
(* engine implements FireLedger for every value of its constants that      *)
(* LedgerAssumption allows.  The invariants build on those of              *)
(* EngineTrackProofs:                                                      *)
(*   AloneInv    the one open row is that of the run the engine holds      *)
(*   BusyInv     the run the engine holds has the open row                 *)
(*   OrderInv    every fire dealt with is before the next one              *)
(*   AccountInv  every fire before the next one is dealt with once         *)
(*   StreakInv   the streak is what the rows and the queue say             *)
(*   EarlyInv    what has started or waits was due                         *)
(*   SpacingInv  the runs of a watermark are spaced, and remembered        *)
(*   ForetoldInv what waits or is awaited is what the status shows         *)
(***************************************************************************)
EXTENDS EngineLedger, Status, EngineTrackProofs, SequenceTheorems

-----------------------------------------------------------------------------
(* The history as a ledger *)

Entries(r) == [i \in DOMAIN r |-> LedgerEntry(r[i])]

OpenRuns(r) == {i \in 1 .. Len(r) : r[i].start # NoTime /\ ~Settled(r, i)}

\* The rows of r are about the same fires in s.
SameFires(r, s) ==
    \A i \in 1 .. Len(r) : /\ s[i].sched = r[i].sched /\ s[i].upto = r[i].upto
                            /\ s[i].outcome = r[i].outcome /\ s[i].reason = r[i].reason

\* A row of a fire that was late, or missed otherwise than in a backlog.
Late(row) == row.outcome = "queued" \/ row.reason \in {"overlap", "catch_up_disabled"}

\* The ledger of r with the runs marked that have ended in s, and the entries
\* that s has beyond it.
Ending(r, s) == Ledger!Ended(Entries(r), OpenRuns(r) \ OpenRuns(s))
Added(r, s)  == SubSeq(Entries(s), Len(r) + 1, Len(s))

LEMMA EntryType == ASSUME NEW row \in Row PROVE LedgerEntry(row) \in Ledger!Entry
BY DEF LedgerEntry, Ledger!Entry, Row

LEMMA EntriesType ==
    ASSUME NEW r \in Seq(Row)
    PROVE  /\ Entries(r) \in Seq(Ledger!Entry) /\ Len(Entries(r)) = Len(r)
           /\ \A i \in 1 .. Len(r) : Entries(r)[i] = LedgerEntry(r[i])
           /\ Ledger!Running(Entries(r)) = OpenRuns(r)
<1>1. \A i \in 1 .. Len(r) : r[i] \in Row /\ LedgerEntry(r[i]) \in Ledger!Entry
  BY EntryType
<1>2. Entries(r) = [i \in 1 .. Len(r) |-> LedgerEntry(r[i])]
  BY DEF Entries
<1>3. /\ Entries(r) \in Seq(Ledger!Entry) /\ Len(Entries(r)) = Len(r) /\ DOMAIN Entries(r) = 1 .. Len(r)
      /\ \A i \in 1 .. Len(r) : Entries(r)[i] = LedgerEntry(r[i])
  BY <1>1, <1>2
<1>4. \A i \in 1 .. Len(r) : LedgerEntry(r[i]).state = "running" <=> i \in OpenRuns(r)
  BY DEF LedgerEntry, OpenRuns, Settled
<1>5. Ledger!Running(Entries(r)) = {i \in 1 .. Len(r) : LedgerEntry(r[i]).state = "running"}
  BY <1>3 DEF Ledger!Running
<1>6. Ledger!Running(Entries(r)) = OpenRuns(r)
  BY <1>4, <1>5 DEF OpenRuns
<1> QED
  BY <1>3, <1>6

LEMMA EntryFields ==
    ASSUME NEW f
    PROVE  /\ Ledger!Missed(f).first = f /\ Ledger!Missed(f).last = f
           /\ ~Ledger!Missed(f).manual /\ Ledger!Missed(f).state = "missed"
           /\ Ledger!Run(f).first = f /\ Ledger!Run(f).last = f
           /\ ~Ledger!Run(f).manual /\ Ledger!Run(f).state = "running"
BY DEF Ledger!Missed, Ledger!Run

LEMMA NotManual ==
    ASSUME NEW row, NEW f, LedgerEntry(row) = Ledger!Run(f) \/ LedgerEntry(row) = Ledger!Missed(f)
    PROVE  row.outcome # "manual"
<1>1. ~LedgerEntry(row).manual
  BY EntryFields
<1>2. LedgerEntry(row).manual <=> row.outcome = "manual"
  BY DEF LedgerEntry
<1> QED
  BY <1>1, <1>2

\* What happens to an entry when its row stays, is closed or is deleted.
LEMMA EntryStep ==
    ASSUME NEW r \in Seq(Row), NEW s \in Seq(Row), Grows(r, s), SameFires(r, s), NEW i \in 1 .. Len(r)
    PROVE  LedgerEntry(s[i]) = IF i \in OpenRuns(r) \ OpenRuns(s)
                               THEN [LedgerEntry(r[i]) EXCEPT !.state = "ended"] ELSE LedgerEntry(r[i])
<1>1. i \in 1 .. Len(s)
  BY DEF Grows
<1>2. /\ s[i].sched = r[i].sched /\ s[i].upto = r[i].upto /\ s[i].outcome = r[i].outcome
      /\ s[i].start = r[i].start /\ (Settled(r, i) => Settled(s, i))
  BY DEF SameFires, Grows, Settled
<1>3. i \in OpenRuns(r) <=> (r[i].start # NoTime /\ ~Settled(r, i))
  BY DEF OpenRuns
<1>4. i \in OpenRuns(s) <=> (s[i].start # NoTime /\ ~Settled(s, i))
  BY <1>1 DEF OpenRuns
<1>5. CASE i \in OpenRuns(r) \ OpenRuns(s)
  BY <1>2, <1>3, <1>4, <1>5 DEF LedgerEntry, Settled
<1>6. CASE ~(i \in OpenRuns(r) \ OpenRuns(s))
  BY <1>2, <1>3, <1>4, <1>6 DEF LedgerEntry, Settled
<1> QED
  BY <1>5, <1>6

LEMMA LedgerGrows ==
    ASSUME NEW r \in Seq(Row), NEW s \in Seq(Row), Grows(r, s), SameFires(r, s)
    PROVE  /\ Entries(s) = Ending(r, s) \o Added(r, s)
           /\ Len(Ending(r, s)) = Len(r)
           /\ Ledger!Running(Ending(r, s)) = OpenRuns(r) \cap OpenRuns(s)
           /\ Added(r, s) \in Seq(Ledger!Entry) /\ Len(Added(r, s)) = Len(s) - Len(r)
           /\ \A k \in 1 .. Len(s) - Len(r) : Added(r, s)[k] = LedgerEntry(s[Len(r) + k])
<1> DEFINE l == Ending(r, s)
           new == Added(r, s)
<1>1. /\ Len(r) \in Nat /\ Len(s) \in Nat /\ Len(s) >= Len(r)
      /\ Entries(r) \in Seq(Ledger!Entry) /\ Entries(s) \in Seq(Ledger!Entry)
      /\ Len(Entries(r)) = Len(r) /\ Len(Entries(s)) = Len(s)
      /\ \A i \in 1 .. Len(r) : Entries(r)[i] = LedgerEntry(r[i])
      /\ \A i \in 1 .. Len(s) : Entries(s)[i] = LedgerEntry(s[i])
  BY EntriesType DEF Grows
<1>2. /\ DOMAIN l = 1 .. Len(r)
      /\ \A i \in 1 .. Len(r) : l[i] = LedgerEntry(s[i])
  <2>1. DOMAIN Entries(r) = 1 .. Len(r)
    BY <1>1
  <2>2. l = [i \in 1 .. Len(r) |-> IF i \in OpenRuns(r) \ OpenRuns(s)
                                   THEN [Entries(r)[i] EXCEPT !.state = "ended"] ELSE Entries(r)[i]]
    BY <2>1 DEF Ending, Ledger!Ended
  <2>3. \A i \in 1 .. Len(r) : LedgerEntry(s[i]) = IF i \in OpenRuns(r) \ OpenRuns(s)
            THEN [LedgerEntry(r[i]) EXCEPT !.state = "ended"] ELSE LedgerEntry(r[i])
    BY EntryStep
  <2>4. \A i \in 1 .. Len(r) : l[i] = LedgerEntry(s[i])
    <3> HIDE DEF l
    <3> TAKE i \in 1 .. Len(r)
    <3>1. l[i] = IF i \in OpenRuns(r) \ OpenRuns(s)
                 THEN [Entries(r)[i] EXCEPT !.state = "ended"] ELSE Entries(r)[i]
      BY <2>2
    <3>2. Entries(r)[i] = LedgerEntry(r[i])
      BY <1>1
    <3> QED
      BY <2>3, <3>1, <3>2, Zenon
  <2> QED
    BY <2>2, <2>4
<1>3. \A i \in 1 .. Len(r) : l[i] \in Ledger!Entry
  BY <1>1, <1>2, EntryType
<1>4. l = [i \in 1 .. Len(r) |-> l[i]]
  BY <1>2 DEF Ending, Ledger!Ended
<1>5. l \in Seq(Ledger!Entry) /\ Len(l) = Len(r)
  BY <1>1, <1>3, <1>4
<1>6. /\ new \in Seq(Ledger!Entry) /\ Len(new) = Len(s) - Len(r)
      /\ \A k \in 1 .. Len(s) - Len(r) : new[k] = LedgerEntry(s[Len(r) + k])
  BY <1>1 DEF Added
<1> HIDE DEF new
<1>7. Ledger!Running(l) = OpenRuns(r) \cap OpenRuns(s)
  <2>1. \A i \in 1 .. Len(r) : LedgerEntry(s[i]).state = "running" <=> i \in OpenRuns(s)
    <3> TAKE i \in 1 .. Len(r)
    <3>1. i \in 1 .. Len(s)
      BY <1>1
    <3> QED
      BY <3>1 DEF LedgerEntry, OpenRuns, Settled
  <2>2. OpenRuns(s) \cap 1 .. Len(r) \subseteq OpenRuns(r)
    BY DEF OpenRuns, Grows, Settled
  <2>3. OpenRuns(r) \subseteq 1 .. Len(r)
    BY DEF OpenRuns
  <2> HIDE DEF l
  <2> QED
    BY <1>2, <2>1, <2>2, <2>3 DEF Ledger!Running
<1> HIDE DEF l
<1>8. Entries(s) = l \o new
  <2>1. /\ l \o new \in Seq(Ledger!Entry) /\ Len(l \o new) = Len(s)
        /\ \A i \in 1 .. Len(s) : (l \o new)[i] = IF i <= Len(r) THEN l[i] ELSE new[i - Len(r)]
    BY <1>1, <1>5, <1>6, ConcatProperties
  <2>2. \A i \in 1 .. Len(s) : (l \o new)[i] = Entries(s)[i]
    <3> TAKE i \in 1 .. Len(s)
    <3>1. CASE i <= Len(r)
      BY <1>1, <1>2, <2>1, <3>1, SMTT(30)
    <3>2. CASE ~(i <= Len(r))
      <4>1. i - Len(r) \in 1 .. Len(s) - Len(r) /\ Len(r) + (i - Len(r)) = i
        BY <1>1, <3>2
      <4> QED
        BY <1>1, <1>6, <2>1, <3>2, <4>1
    <3> QED
      BY <3>1, <3>2
  <2> QED
    BY <1>1, <2>1, <2>2, SeqEqual
<1> QED
  BY <1>5, <1>6, <1>7, <1>8 DEF l, new

\* A step of the ledger: some runs end, and one of its actions accounts for
\* the entries it gains and for the queue.
LedgerAction(l, new) ==
    \/ Ledger!StartFire(l, new) \/ Ledger!MissFire(l, new)
    \/ Ledger!QueueFire(l, new) \/ Ledger!ReplaceFire(l, new)
    \/ Ledger!StartWaiting(l, new) \/ Ledger!DropWaiting(l, new) \/ Ledger!StartManual(l, new)
    \/ Ledger!Rest(l, new) \/ Ledger!Forget(l, new)

LEMMA LedgerNext ==
    ASSUME rows \in Seq(Row), Grows(rows, rows'), SameFires(rows, rows'),
           LedgerAction(Ending(rows, rows'), Added(rows, rows'))
    PROVE  Ledger!Next
<1>1. rows' \in Seq(Row)
  BY DEF Grows
<1> DEFINE S == OpenRuns(rows) \ OpenRuns(rows')
           l == Ledger!Ended(Entries(rows), S)
           new == SubSeq(Entries(rows'), Len(l) + 1, Len(Entries(rows')))
<1>2. l = Ending(rows, rows') /\ Len(l) = Len(rows) /\ Len(Entries(rows')) = Len(rows')
  BY <1>1, LedgerGrows, EntriesType DEF Ending
<1>3. new = Added(rows, rows')
  BY <1>2 DEF Added
<1>4. Entries(rows') = l \o new
  BY <1>1, <1>2, <1>3, LedgerGrows
<1>5. S \in SUBSET Ledger!Running(Entries(rows))
  BY EntriesType
<1>6. LedgerAction(l, new)
  BY <1>2, <1>3
<1> HIDE DEF S
<1>7. \E T \in SUBSET Ledger!Running(Entries(rows)) :
      LET m    == Ledger!Ended(Entries(rows), T)
          more == SubSeq(Entries(rows'), Len(m) + 1, Len(Entries(rows')))
      IN  Entries(rows') = m \o more /\ LedgerAction(m, more)
  BY <1>4, <1>5, <1>6, Zenon
<1>8. (up' # "down" /\ cfg' # NoTask) \in BOOLEAN
  OBVIOUS
<1> QED
  BY <1>7, <1>8, Zenon DEF Ledger!Next, Entries, LedgerAction

\* A step that deals with no fire.
LEMMA RestStep ==
    ASSUME rows \in Seq(Row), Grows(rows, rows'), SameFires(rows, rows'), Len(rows') = Len(rows),
           \/ queued' = queued
           \/ queued' = NoTime /\ up # "down" /\ cfg # NoTask /\ ~(up' # "down" /\ cfg' # NoTask)
    PROVE  Ledger!Next
<1>1. rows' \in Seq(Row)
  BY DEF Grows
<1>2. Added(rows, rows') \in Seq(Ledger!Entry) /\ Len(Added(rows, rows')) = 0
  BY <1>1, LedgerGrows
<1>3. Added(rows, rows') = <<>>
  BY <1>2
<1>4. LedgerAction(Ending(rows, rows'), Added(rows, rows'))
  BY <1>3 DEF LedgerAction, Ledger!Rest, Ledger!Forget
<1> QED
  BY <1>4, LedgerNext

-----------------------------------------------------------------------------
(* What a step does to the open runs and to the fires *)

\* An open run is closed, or else the run being started.
LEMMA OpenRunsStep ==
    ASSUME TypeInv, NEW closed, HistoryStep(closed), MutexStep
    PROVE  /\ OpenRuns(rows) \subseteq 1 .. Len(rows)
           /\ OpenRuns(rows) \ closed \subseteq OpenRuns(rows')
           /\ ~(pc' = "spawn" /\ pc # "spawn") => OpenRuns(rows') \subseteq OpenRuns(rows)
           /\ pc' = "spawn" /\ pc # "spawn" => /\ job'.id \in OpenRuns(rows')
                                               /\ OpenRuns(rows') \subseteq OpenRuns(rows) \cup {job'.id}
<1>1. /\ rows \in Seq(Row) /\ rows' \in Seq(Row) /\ Grows(rows, rows') /\ now # NoTime
      /\ Len(rows') >= Len(rows) /\ Len(rows) \in Nat /\ Len(rows') \in Nat
  BY TimeFacts DEF HistoryStep, Grows, TypeInv, TypeOK, TablesOK, ClockOK
<1>2. OpenRuns(rows) \ closed \subseteq OpenRuns(rows')
  BY <1>1 DEF HistoryStep, OpenRuns, Settled
<1>3. \A i \in OpenRuns(rows') : i \in 1 .. Len(rows) => i \in OpenRuns(rows)
  BY <1>1 DEF Grows, OpenRuns, Settled
<1>4. \A i \in OpenRuns(rows') : i \notin 1 .. Len(rows) => pc' = "spawn" /\ i = job'.id
  <2> TAKE i \in OpenRuns(rows')
  <2>1. i \in 1 .. Len(rows') /\ rows'[i].start # NoTime
    BY DEF OpenRuns
  <2>2. i \notin 1 .. Len(rows) => i \in Len(rows) + 1 .. Len(rows')
    BY <1>1, <2>1
  <2> QED
    BY <2>1, <2>2 DEF HistoryStep
<1>5. pc' = "spawn" /\ pc = "spawn" => OpenRuns(rows') \subseteq OpenRuns(rows)
  BY <1>1, <1>3 DEF MutexStep, OpenRuns
<1>6. pc' = "spawn" /\ pc # "spawn" => job'.id \in OpenRuns(rows')
  BY <1>1 DEF HistoryStep, OpenRuns, Settled
<1>7. OpenRuns(rows) \subseteq 1 .. Len(rows)
  BY DEF OpenRuns
<1> QED
  BY <1>2, <1>3, <1>4, <1>5, <1>6, <1>7

\* Closing rows leaves the fires they are about.
LEMMA FiresFinish ==
    ASSUME NEW r \in Seq(Row), NEW id, NEW code \in ExitCodes, NEW err \in Errors, NEW t \in Int
    PROVE  SameFires(r, FinishRun(r, id, code, err, t))
<1> DEFINE s == FinishRun(r, id, code, err, t)
<1>1. \A i \in 1 .. Len(r) : i # id => s[i] = r[i]
  BY FinishRunType
<1>2. ASSUME id \in 1 .. Len(r)
      PROVE  /\ s[id].sched = r[id].sched /\ s[id].upto = r[id].upto
             /\ s[id].outcome = r[id].outcome /\ s[id].reason = r[id].reason
  <2>1. r[id] \in Row
    BY <1>2
  <2>2. PICK row : row = Closed(r[id], code, err, t)
    OBVIOUS
  <2>3. /\ row.sched = r[id].sched /\ row.upto = r[id].upto
        /\ row.outcome = r[id].outcome /\ row.reason = r[id].reason
    BY <2>1, <2>2 DEF Closed, Row
  <2>4. s = r \/ s = [r EXCEPT ![id] = row]
    BY <2>2, Zenon DEF FinishRun
  <2>5. s[id] \in {r[id], row}
    BY <1>2, <2>4
  <2> QED
    BY <2>3, <2>5
<1> HIDE DEF s
<1>3. SameFires(r, s)
  BY <1>1, <1>2 DEF SameFires
<1> QED
  BY <1>3 DEF s

LEMMA FiresFinishAll ==
    ASSUME NEW r \in Seq(Row), NEW ids, NEW t \in Int
    PROVE  SameFires(r, FinishAllUnknown(r, ids, t))
<1> DEFINE s == FinishAllUnknown(r, ids, t)
           F(i) == FinishRunUnknownExit(r, i, "unknown", t)
<1>1. \A i \in 1 .. Len(r) : s[i] = IF i \in ids THEN F(i)[i] ELSE r[i]
  BY DEF FinishAllUnknown
<1>2. \A i : SameFires(r, F(i))
  <2>1. "unknown" \in Errors /\ NoExit \in ExitCodes
    BY DEF Errors, ExitCodes
  <2> QED
    BY <2>1, FiresFinish DEF FinishRunUnknownExit
<1> HIDE DEF s, F
<1>3. SameFires(r, s)
  BY <1>1, <1>2 DEF SameFires
<1> QED
  BY <1>3 DEF s

LEMMA FiresSame ==
    ASSUME NEW r, NEW s, NEW u, SameFires(r, s), \A i \in 1 .. Len(r) : u[i] = s[i]
    PROVE  SameFires(r, u)
BY DEF SameFires

\* No step changes what a row says of its fire.
LEMMA StepFires == TypeInv /\ Next => SameFires(rows, rows')
<1> SUFFICES ASSUME TypeInv, Next PROVE SameFires(rows, rows')
  OBVIOUS
<1>1. /\ rows \in Seq(Row) /\ now \in Int /\ now \in Time /\ queued \in TimeOrNo
      /\ handles \subseteq Handle
  BY TimeFacts DEF TypeInv, TypeOK, TablesOK, ClockOK, MemoryOK, MutexOK
<1>2. ASSUME HistoryStep({}) PROVE SameFires(rows, rows')
  BY <1>2 DEF HistoryStep, SameFires
<1>3. CASE SettleAdopted
  <2>1. PICK err \in Errors : StartQueued(FinishRun(rows, released.id, NoExit, err, now), "due")
    BY <1>3 DEF SettleAdopted, FinishRunUnknownExit, Errors
  <2>2. NoExit \in ExitCodes
    BY DEF ExitCodes
  <2>3. PICK rows0 : rows0 = FinishRun(rows, released.id, NoExit, err, now)
    OBVIOUS
  <2>4. rows0 \in Seq(Row) /\ Len(rows0) = Len(rows) /\ SameFires(rows, rows0)
    BY <1>1, <2>2, <2>3, FinishRunType, FiresFinish
  <2>5. StartQueued(rows0, "due")
    BY <2>1, <2>3
  <2>6. \A i \in 1 .. Len(rows) : rows'[i] = rows0[i]
    BY <1>1, <2>4, <2>5, StartQueuedRow
  <2> QED
    BY <2>4, <2>6, FiresSame
<1>4. CASE TickStep /\ ~SettleAdopted
  BY <1>2, <1>4, DueHistory DEF TickStep
<1>5. CASE LaunchFail
  <2>1. -1 \in ExitCodes /\ "launch" \in Errors
    BY DEF ExitCodes, Errors
  <2> QED
    BY <1>1, <1>5, <2>1, FiresFinish DEF LaunchFail, FailedLaunch
<1>6. CASE RecordFinish
  <2>1. PICK h \in handles : rows' = FinishRun(rows, h.id, h.result, FinishError(h), now)
    BY <1>6 DEF RecordFinish, Recorded
  <2>2. h.result \in ExitCodes /\ FinishError(h) \in Errors
    BY <1>1 DEF FinishError, KillReason, Errors, Handle
  <2> QED
    BY <1>1, <2>1, <2>2, FiresFinish
<1>7. CASE ClearFinished
  BY <1>2, <1>7, ClearFinishedHistory
<1>8. CASE Reload \/ Start \/ SecondServe
  <2>1. PICK ids : rows' = FinishAllUnknown(rows, ids, now)
    BY <1>8, FinalizingStep
  <2> QED
    BY <1>1, <2>1, FiresFinishAll
<1>9. CASE \/ Spawn \/ Register \/ Trigger \/ Pause \/ Resume \/ ReleaseAll \/ Drained \/ Crash
           \/ ClockAdvance \/ KillTimer \/ Kernel
  BY <1>2, <1>9, OtherHistory
<1>10. CASE PruneHistory
  <2>1. rows' = Prune(rows, now - Retention) /\ now - Retention \in Int
    BY <1>1, <1>10, EngineAssumption DEF PruneHistory
  <2>2. ASSUME NEW i \in 1 .. Len(rows)
        PROVE  /\ rows'[i].sched = rows[i].sched /\ rows'[i].upto = rows[i].upto
               /\ rows'[i].outcome = rows[i].outcome /\ rows'[i].reason = rows[i].reason
    <3>1. rows[i] \in Row
      BY <1>1
    <3>2. rows'[i] \in {rows[i], [rows[i] EXCEPT !.pruned = TRUE]}
      BY <1>1, <2>1, PruneType, ZenonT(30)
    <3> QED
      BY <3>1, <3>2 DEF Row
  <2> QED
    BY <2>2 DEF SameFires
<1> QED
  BY <1>3, <1>4, <1>5, <1>6, <1>7, <1>8, <1>9, <1>10 DEF Next, Request

-----------------------------------------------------------------------------
(* The one open run *)

\* Nothing makes the engine forget a fire or a run it has begun: no crash in
\* the middle of a start, no second daemon, no history deleted under a run; no
\* trigger is served while HTTP drains.  And the task is a cron task: a
\* watermark's due time is no fire that comes once.
LedgerAssumption ==
    /\ OpenAssumption
    /\ {"second_daemon", "prune"} \cap Events = {}
    /\ ~({"late_request", "trigger"} \subseteq Events)
    /\ \A c \in Configs : c # NoTask => ~IsWatermark(c)

\* At most one run is open.  It is the run being started, or else the one the
\* engine holds; no run is begun or due while HTTP drains.
AloneInv ==
    /\ \A i, j \in OpenRuns(rows) : i = j
    /\ pc \in {"spawn", "register"} => job.id \in OpenRuns(rows)
    /\ pc \in {"spawn", "register", "due"} => up = "up"
    /\ up = "draining" => running.id = NoId
    /\ up = "up" /\ cfg # NoTask /\ pc \notin {"spawn", "register"} =>
          OpenRuns(rows) \subseteq {running.id, released.id}

\* The run the engine holds is open, until finishRun has closed its row.  So
\* is a registered or adopted one, unless its process is gone; and a tick that
\* looks for what is due has seen to that.
BusyInv ==
    /\ running.id # NoId => running.id \in OpenRuns(rows) \/ (pc = "clear" /\ job.id = running.id)
    /\ pc = "due" /\ released.id # NoId => released.id \in OpenRuns(rows)
    /\ \A e \in live : e.id \in OpenRuns(rows) \/ ~sameLiveProcess(e.pid, e.ident)
    /\ released.id # NoId =>
          released.id \in OpenRuns(rows) \/ ~sameLiveProcess(released.pid, released.ident)

LEMMA AloneInit == Init => AloneInv /\ BusyInv
BY DEF Init, AloneInv, BusyInv, OpenRuns, NoRun, NoReleased

\* The runs of closed rows are those of processes that are gone; the registry
\* gains no entry, and the engine holds the runs it held, or fewer.
LEMMA BusySame ==
    ASSUME RunInv, BusyInv, MutexStep, NEW closed, HistoryStep(closed), Fewer,
           \A e \in live' : e.id \in closed => ~sameLiveProcess(e.pid, e.ident),
           \/ running'.id = NoId
           \/ /\ running'.id = running.id
              /\ running.id \in closed => pc' = "clear" /\ job'.id = running.id
              /\ pc = "clear" => (pc' = "clear" /\ job' = job) \/ running.id # job.id,
           \/ released'.id = NoId
           \/ /\ SameAdopted
              /\ released.id \in closed => ~sameLiveProcess(released.pid, released.ident)
           \/ \E e \in live' : released'.id = e.id /\ released'.pid = e.pid /\ released'.ident = e.ident,
           pc' = "due" => \/ released'.id = NoId
                          \/ SameAdopted /\ released.id \notin closed /\ released.id \in OpenRuns(rows)
    PROVE  BusyInv'
<1>1. OpenRuns(rows) \ closed \subseteq OpenRuns(rows')
  BY OpenRunsStep DEF RunInv
<1>2. \A p \in Pids : \A i : ~sameLiveProcess(p, i) /\ i \in Nat => ~sameLiveProcess(p, i)'
  BY DEF Fewer, sameLiveProcess, Free, Stranger, NoId
<1>3. /\ \A e \in live : e.pid \in Pids /\ e.ident \in Nat
      /\ released.id # NoId => released.pid \in Pids /\ released.ident \in Nat
  BY DEF RunInv, RegistryInv, TypeInv, TypeOK, TablesOK, MemoryOK, LiveEntry, AdoptedRun
<1>4. ASSUME NEW e \in live' PROVE e.id \in OpenRuns(rows') \/ ~sameLiveProcess(e.pid, e.ident)'
  <2>1. e \in live
    BY DEF Fewer
  <2> QED
    BY <1>1, <1>2, <1>3, <2>1 DEF BusyInv
<1>5. running'.id # NoId => running'.id \in OpenRuns(rows') \/ (pc' = "clear" /\ job'.id = running'.id)
  BY <1>1 DEF BusyInv
<1>6. released'.id # NoId => \/ released'.id \in OpenRuns(rows')
                            \/ ~(released'.ident # NoId /\ owner'[released'.pid] = released'.ident)
  <2>1. CASE SameAdopted /\ (released.id \in closed => ~sameLiveProcess(released.pid, released.ident))
    <3>1. ASSUME released'.id # NoId, released.id \notin OpenRuns(rows')
          PROVE  ~(released.ident # NoId /\ owner'[released.pid] = released.ident)
      <4>1. released.id # NoId /\ ~sameLiveProcess(released.pid, released.ident)
        BY <1>1, <2>1, <3>1 DEF BusyInv, SameAdopted
      <4> QED
        BY <1>2, <1>3, <4>1 DEF sameLiveProcess
    <3> QED
      BY <2>1, <3>1 DEF SameAdopted
  <2>2. CASE \E e \in live' : released'.id = e.id /\ released'.pid = e.pid /\ released'.ident = e.ident
    BY <1>4, <2>2 DEF sameLiveProcess
  <2> QED
    BY <2>1, <2>2
<1>7. pc' = "due" /\ released'.id # NoId => released'.id \in OpenRuns(rows')
  BY <1>1 DEF SameAdopted
<1> QED
  BY <1>4, <1>5, <1>6, <1>7 DEF BusyInv, sameLiveProcess

\* The process of an adopted run that a tick has found alive has an open row.
LEMMA FoundAlive ==
    ASSUME NEW p, NEW i, TRUE \in Verdicts(p, i)
    PROVE  sameLiveProcess(p, i)
BY DEF Verdicts

LEMMA BusyTick == RunInv /\ BusyInv /\ TickStep => BusyInv'
<1> SUFFICES ASSUME RunInv, BusyInv, TickStep PROVE BusyInv'
  OBVIOUS
<1>1. /\ TypeInv /\ Next /\ running \in OwnedRun /\ released \in AdoptedRun
      /\ pc \in {"free", "due"} /\ pc' # "clear"
  BY TickPoint DEF Next, RunInv, TypeInv, TypeOK, MemoryOK
<1>2. Fewer /\ MutexStep
  BY <1>1, StepFewer, StepMutex DEF Spawn, Register, Locked
<1>3. CASE SettleAdopted
  <2>1. /\ live' = {e \in live : e.id # released.id} /\ released'.id = NoId /\ UNCHANGED running
        /\ released.id # NoId
    BY <1>3 DEF SettleAdopted, NoReleased
  <2>2. running.id = NoId
    BY <2>1 DEF RunInv, QueueInv, OneHolder
  <2>3. HistoryStep({released.id})
    BY <1>1, <1>3, SettleHistory
  <2> QED
    BY <1>1, <1>2, <2>1, <2>2, <2>3, BusySame
<1>4. CASE ~SettleAdopted
  <2>1. HistoryStep({})
    BY <1>1, <1>4, DueHistory DEF TickStep
  <2>2. running'.id = running.id /\ SameAdopted
    BY <1>1, <1>4 DEF TickStep, EnforceOwned, EnforceAdopted, NothingDue, FireWatermark, StartFire, MissFire,
       QueueFire, RestartFire, memory, OwnedRun, AdoptedRun, SameAdopted
  <2>3. ASSUME pc' = "due", released'.id # NoId PROVE released.id \in OpenRuns(rows)
    <3>1. EnforceOwned \/ EnforceAdopted
      BY <1>4, <2>3 DEF TickStep, NothingDue, FireWatermark, StartFire, MissFire,
         QueueFire, RestartFire, BeginRun
    <3>2. EnforceAdopted
      BY <2>2, <2>3, <3>1 DEF EnforceOwned, SameAdopted
    <3>3. released.id # NoId /\ sameLiveProcess(released.pid, released.ident)
      BY <3>2, FoundAlive DEF EnforceAdopted
    <3> QED
      BY <3>3 DEF BusyInv
  <2> QED
    BY <1>1, <1>2, <2>1, <2>2, <2>3, BusySame
<1> QED
  BY <1>3, <1>4

LEMMA BusyRun ==
    RunInv /\ OpenInv /\ AloneInv /\ BusyInv
    /\ (Spawn \/ LaunchFail \/ Register \/ RecordFinish \/ ClearFinished) => BusyInv'
<1> SUFFICES ASSUME RunInv, OpenInv, AloneInv, BusyInv,
                    Spawn \/ LaunchFail \/ Register \/ RecordFinish \/ ClearFinished
             PROVE  BusyInv'
  OBVIOUS
<1>1. /\ TypeInv /\ Next /\ job \in Job /\ rows \in Seq(Row) /\ live \subseteq LiveEntry
      /\ owner \in [Pids -> Nat \cup {Stranger}] /\ MutexStep
  BY StepMutex DEF RunInv, TypeInv, TypeOK, MutexOK, KernelOK, TablesOK, Next
<1>2. \A e \in live : e.pid \in Pids /\ e.id \in Named /\ e.ident \in {NoId, e.id}
  BY <1>1 DEF LiveEntry, Named, RunInv, RegistryInv
<1>3. pc = "spawn" => ~busy
  BY DEF RunInv, QueueInv
<1>4. CASE Spawn
  <2>1. PICK p \in Pids : /\ owner' = [owner EXCEPT ![p] = job.id] /\ pc = "spawn" /\ pc' = "register"
                          /\ UNCHANGED <<running, released, rows, live>>
    BY <1>4 DEF Spawn, Locked, memory, tables
  <2>2. running.id = NoId /\ released.id = NoId
    BY <1>3, <2>1 DEF busy
  <2>3. ASSUME NEW e \in live PROVE ~sameLiveProcess(e.pid, e.ident) => ~sameLiveProcess(e.pid, e.ident)'
    <3>1. e.id # job.id
      BY <1>2, <2>1 DEF RunInv, IdsInv
    <3> QED
      BY <1>1, <1>2, <2>1, <3>1 DEF sameLiveProcess
  <2> QED
    BY <2>1, <2>2, <2>3 DEF BusyInv
<1>5. CASE LaunchFail
  <2>1. /\ pc = "spawn" /\ pc' \in {"free", "due"} /\ HistoryStep({job.id})
        /\ UNCHANGED <<running, released, live>>
    BY <1>1, <1>5, LaunchFailHistory DEF LaunchFail, Locked, memory, Job
  <2>2. Fewer /\ running.id = NoId /\ released.id = NoId
    BY <1>1, <1>3, <2>1, StepFewer DEF Spawn, Register, Locked, busy
  <2>3. \A e \in live' : e.id # job.id
    BY <1>2, <2>1 DEF RunInv, IdsInv
  <2> QED
    BY <1>1, <2>1, <2>2, <2>3, BusySame
<1>6. CASE Register
  <2>1. PICK ident :
          /\ live' = live \cup {[id |-> job.id, pid |-> job.pid, ident |-> ident, start |-> rows[job.id].start]}
          /\ running' = [NoRun EXCEPT !.id = job.id, !.pid = job.pid, !.start = rows[job.id].start]
          /\ pc = "register" /\ UNCHANGED <<rows, owner, released>>
    BY <1>6 DEF Register, Locked, kernel
  <2>2. running'.id = job.id /\ released.id = NoId /\ job.id \in OpenRuns(rows)
    BY <2>1 DEF NoRun, RunInv, QueueInv, busy, AloneInv
  <2>3. \A e \in live' : e \in live \/ e.id = job.id
    BY <2>1
  <2> QED
    BY <2>1, <2>2, <2>3 DEF BusyInv, sameLiveProcess
<1>7. CASE RecordFinish
  <2>1. PICK h \in handles : h.result # NoExit /\ job'.id = h.id
    BY <1>7 DEF RecordFinish, NoJob
  <2>2. /\ pc = "free" /\ pc' = "clear" /\ UNCHANGED <<running, released, live>>
        /\ HistoryStep({job'.id}) /\ Fewer
    BY <1>1, <1>7, RecordFinishHistory, StepFewer DEF RecordFinish, Idle, Locked, memory, Spawn, Register
  <2>3. \A p \in Pids : owner[p] # job'.id
    BY <2>1 DEF RunInv, ChildInv
  <2>4. \A e \in live' : e.id = job'.id => ~sameLiveProcess(e.pid, e.ident)
    BY <1>2, <2>2, <2>3 DEF sameLiveProcess
  <2>5. released.id = job'.id /\ released.id # NoId => ~sameLiveProcess(released.pid, released.ident)
    BY <2>3 DEF sameLiveProcess, RunInv, RegistryInv
  <2> QED
    BY <1>1, <2>2, <2>4, <2>5, BusySame DEF SameAdopted
<1>8. CASE ClearFinished
  <2>1. /\ pc = "clear" /\ pc' \in {"free", "spawn"} /\ HistoryStep({}) /\ Fewer /\ UNCHANGED released
        /\ running.id # job.id => UNCHANGED running
        /\ running.id = job.id => running'.id = NoId
    BY <1>1, <1>8, ClearFinishedHistory, StepFewer
       DEF ClearFinished, Locked, Spawn, Register, StartQueued, BeginRun, NoRun
  <2> QED
    BY <1>1, <2>1, BusySame DEF SameAdopted
<1> QED
  BY <1>4, <1>5, <1>6, <1>7, <1>8

LEMMA BusyAround ==
    LedgerAssumption /\ RunInv /\ BusyInv
    /\ (\/ Request \/ Start \/ SecondServe \/ PruneHistory \/ ReleaseAll \/ Drained \/ Crash
        \/ ClockAdvance \/ KillTimer \/ Kernel)
    => BusyInv'
<1> SUFFICES ASSUME LedgerAssumption, RunInv, BusyInv,
                    \/ Request \/ Start \/ SecondServe \/ PruneHistory \/ ReleaseAll \/ Drained \/ Crash
                    \/ ClockAdvance \/ KillTimer \/ Kernel
             PROVE  BusyInv'
  OBVIOUS
<1>1. TypeInv /\ Next /\ MutexStep
  BY StepMutex DEF RunInv, Next
<1>2. ~SecondServe /\ ~PruneHistory
  BY DEF LedgerAssumption, SecondServe, PruneHistory
<1>3. CASE Reload \/ Start
  <2>1. PICK c : Configure(c)
    BY <1>3 DEF Reload, Start
  <2>2. pc = "free" /\ pc' = "free" /\ UNCHANGED <<owner, handles>>
    BY <1>1, <1>3 DEF Reload, Start, Serving, Idle, Locked, kernel, TypeInv, HandlerOK
  <2>3. Fewer
    BY <1>1, <2>1, <2>2, ConfigureFewer
  <2> DEFINE E == {e \in live : e.id \notin (IF c = NoTask THEN {} ELSE {running.id, released.id})}
  <2>4. PICK dead \in Finalized(E) :
          rows' = FinishAllUnknown(rows, {e.id : e \in dead}, now) /\ live' = live \ dead
    BY <2>1 DEF Configure, Tracked
  <2> DEFINE closed == {e.id : e \in dead}
  <2>5. HistoryStep(closed)
    BY <1>1, <2>2, <2>4, FinalizedHistory
  <2>6. dead \subseteq E /\ E \subseteq live
    BY DEF Finalized
  <2>7. \A e \in live' : e.id \notin closed
    BY <2>4, <2>6 DEF RunInv, RegistryInv
  <2>8. c = NoTask => running'.id = NoId /\ released'.id = NoId
    BY <2>1 DEF Configure, ForgetTask, LoseState, NoRun, NoReleased
  <2>9. c # NoTask => running' = running /\ running.id \notin closed /\ released.id \notin closed
    BY <2>1, <2>6 DEF Configure, LoadTask
  <2>10. \/ released'.id = NoId \/ released' = released
         \/ \E e \in live' : released'.id = e.id /\ released'.pid = e.pid /\ released'.ident = e.ident
    BY <1>1, <2>1, ConfigureAdopts
  <2> HIDE DEF closed, E
  <2> QED
    BY <1>1, <2>2, <2>3, <2>5, <2>7, <2>8, <2>9, <2>10, BusySame DEF SameAdopted
<1>4. CASE \/ Trigger \/ Pause \/ Resume \/ ReleaseAll \/ Drained \/ Crash
           \/ ClockAdvance \/ KillTimer \/ Kernel
  <2>1. HistoryStep({})
    BY <1>1, <1>4, OtherHistory
  <2>2. CASE Trigger \/ Pause \/ Resume \/ ReleaseAll \/ ClockAdvance
    <3>1. /\ pc = "free" /\ pc' \in {"free", "spawn"}
          /\ running'.id \in {NoId, running.id} /\ (released'.id = NoId \/ SameAdopted)
      <4>1. CASE Trigger \/ Pause \/ Resume \/ ClockAdvance
        BY <4>1 DEF Trigger, Pause, Resume, ClockAdvance, Serving, Idle, Locked, BeginRun, memory, SameAdopted
      <4>2. CASE ReleaseAll
        BY <4>2 DEF ReleaseAll, Idle, Locked, NoRun, NoReleased
      <4> QED
        BY <2>2, <4>1, <4>2
    <3>2. Fewer
      BY <1>1, <3>1, StepFewer DEF Spawn, Register, Locked
    <3> QED
      BY <1>1, <2>1, <3>1, <3>2, BusySame
  <2>3. CASE Drained \/ Crash
    <3>1. /\ running'.id = NoId /\ released'.id = NoId /\ pc' = "free" /\ UNCHANGED <<live, owner>>
          /\ handles' = {}
      BY <2>3 DEF Drained, Crash, Die, LoseState, NoRun, NoReleased, tables, kernel
    <3>2. Fewer
      BY <3>1 DEF Fewer
    <3> QED
      BY <1>1, <2>1, <3>1, <3>2, BusySame
  <2>4. CASE KillTimer \/ Kernel
    <3>1. UNCHANGED <<pc, job, running, released>>
      BY <2>4 DEF KillTimer, Kernel, ProcessExit, PidReused, StrangerExit, memory
    <3>2. Fewer
      BY <1>1, <3>1, StepFewer DEF Spawn, Register, Locked, TypeInv, TypeOK, MutexOK, Job
    <3>3. pc = "due" => released.id = NoId \/ released.id \in OpenRuns(rows)
      BY DEF BusyInv
    <3> QED
      BY <1>1, <2>1, <3>1, <3>2, <3>3, BusySame DEF SameAdopted
  <2> QED
    BY <1>4, <2>2, <2>3, <2>4
<1> QED
  BY <1>2, <1>3, <1>4 DEF Request

LEMMA BusyStep ==
    LedgerAssumption /\ RunInv /\ OpenInv /\ AloneInv /\ BusyInv /\ [Next]_vars => BusyInv'
<1>1. ASSUME BusyInv, UNCHANGED vars PROVE BusyInv'
  BY <1>1 DEF vars, memory, tables, kernel, BusyInv, OpenRuns, Settled, sameLiveProcess
<1> QED
  BY <1>1, BusyTick, BusyRun, BusyAround DEF Next

\* The runs held are the same, no run is begun, and no row is opened.
LEMMA AloneSame ==
    ASSUME RunInv, AloneInv, MutexStep, NEW closed, HistoryStep(closed),
           running'.id = running.id, released'.id = released.id, UNCHANGED <<up, cfg>>,
           pc \notin {"spawn", "register"}, pc' \notin {"spawn", "register"}, pc' = "due" => up = "up"
    PROVE  AloneInv'
<1>1. OpenRuns(rows') \subseteq OpenRuns(rows)
  BY OpenRunsStep DEF RunInv
<1> QED
  BY <1>1 DEF AloneInv

\* Every run is closed, and perhaps one is begun.
LEMMA AloneIdle ==
    ASSUME RunInv, MutexStep, NEW closed, HistoryStep(closed), OpenRuns(rows) \cap OpenRuns(rows') = {},
           up' = "up", pc' # "register", pc' = "spawn" => pc # "spawn"
    PROVE  AloneInv'
<1>1. CASE pc' = "spawn"
  BY <1>1, OpenRunsStep DEF RunInv, AloneInv
<1>2. CASE pc' # "spawn"
  <2>1. OpenRuns(rows') = {}
    BY <1>2, OpenRunsStep DEF RunInv
  <2> QED
    BY <1>2, <2>1 DEF AloneInv
<1> QED
  BY <1>1, <1>2

\* An idle task has no open run.
LEMMA IdleSettled ==
    ASSUME AloneInv, up = "up", cfg # NoTask, pc \notin {"spawn", "register"}, ~busy
    PROVE  OpenRuns(rows) = {}
BY DEF AloneInv, busy, OpenRuns, NoId

\* A settled row is not of an open run.
LEMMA SettledNotOpen == ASSUME NEW r, NEW i, Settled(r, i) PROVE i \notin OpenRuns(r)
BY DEF OpenRuns

\* A task whose adopted run a tick settles has no open run left.
LEMMA SettleLast ==
    ASSUME RunInv, AloneInv, SettleAdopted
    PROVE  OpenRuns(rows) \cap OpenRuns(rows') = {}
<1>1. rows \in Seq(Row) /\ now \in Int /\ now \in Time /\ now # NoTime /\ queued \in TimeOrNo
  BY TimeFacts DEF RunInv, TypeInv, TypeOK, TablesOK, ClockOK, MemoryOK
<1>2. PICK err \in Errors : StartQueued(FinishRun(rows, released.id, NoExit, err, now), "due")
  BY DEF SettleAdopted, FinishRunUnknownExit, Errors
<1>3. NoExit \in ExitCodes
  BY DEF ExitCodes
<1>4. PICK rows0 : rows0 = FinishRun(rows, released.id, NoExit, err, now)
  OBVIOUS
<1>5. rows0 \in Seq(Row) /\ Len(rows0) = Len(rows) /\ StartQueued(rows0, "due")
  BY <1>1, <1>2, <1>3, <1>4, FinishRunType
<1>6. \A i \in 1 .. Len(rows0) : rows'[i] = rows0[i]
  BY <1>1, <1>5, StartQueuedRow
<1>7. released.id \in 1 .. Len(rows) => Settled(rows', released.id)
  <2>1. released.id \in 1 .. Len(rows) => Settled(rows0, released.id)
    BY <1>1, <1>4, FinishRunSettles
  <2> QED
    BY <1>5, <1>6, <2>1 DEF Settled
<1>8. OpenRuns(rows) \subseteq {running.id, released.id} /\ running.id = NoId
  BY DEF AloneInv, SettleAdopted, TickStarts, Idle, Locked, RunInv, QueueInv, OneHolder
<1>9. OpenRuns(rows) \subseteq 1 .. Len(rows)
  BY DEF OpenRuns
<1> QED
  BY <1>7, <1>8, <1>9, SettledNotOpen DEF NoId

LEMMA AloneTick == RunInv /\ AloneInv /\ TickStep => AloneInv'
<1> SUFFICES ASSUME RunInv, AloneInv, TickStep PROVE AloneInv'
  OBVIOUS
<1>1. /\ running \in OwnedRun /\ released \in AdoptedRun /\ TypeInv /\ MutexStep
      /\ pc \in {"free", "due"} /\ pc' # "register"
  BY TickPoint, StepMutex DEF RunInv, TypeInv, TypeOK, MemoryOK, Next
<1>2. CASE EnforceOwned \/ EnforceAdopted \/ NothingDue \/ MissFire \/ QueueFire \/ RestartFire
  <2>1. running'.id = running.id /\ released'.id = released.id
    BY <1>1, <1>2 DEF EnforceOwned, EnforceAdopted, NothingDue, MissFire, QueueFire, RestartFire, memory,
       OwnedRun, AdoptedRun
  <2>2. UNCHANGED <<up, cfg>> /\ pc' \in {"free", "due"} /\ (pc' = "due" => up = "up")
    BY <1>2 DEF EnforceOwned, EnforceAdopted, NothingDue, MissFire, QueueFire, RestartFire, FireCron,
       TickStarts, memory
  <2> QED
    BY <1>1, <1>2, <2>1, <2>2, DueHistory, AloneSame
<1>3. CASE FireWatermark \/ StartFire
  <2>1. pc = "due" /\ ~busy /\ up' = up
    BY <1>3 DEF FireWatermark, StartFire, CronFires, DueStep, Locked, FireCron
  <2>2. up = "up" /\ cfg # NoTask
    BY <1>1, <2>1 DEF AloneInv, TypeInv, HandlerOK
  <2>3. OpenRuns(rows) = {}
    BY <2>1, <2>2, IdleSettled
  <2> QED
    BY <1>1, <1>3, <2>1, <2>2, <2>3, DueHistory, AloneIdle
<1>4. CASE SettleAdopted
  <2>1. up' = "up" /\ pc = "free"
    BY <1>4 DEF SettleAdopted, TickStarts, Idle, Locked
  <2> QED
    BY <1>1, <1>4, <2>1, SettleHistory, SettleLast, AloneIdle
<1> QED
  BY <1>2, <1>3, <1>4 DEF TickStep

\* The run that finishRun clears was the only open one, if the engine held it.
LEMMA ClearLast ==
    ASSUME RunInv, OpenInv, AloneInv, ClearFinished, running.id = job.id
    PROVE  up = "up" /\ cfg # NoTask /\ OpenRuns(rows) = {}
<1>1. pc = "clear" /\ up # "down" /\ job.id # NoId
  BY DEF ClearFinished, Locked, RunInv, QueueInv
<1>2. up = "up" /\ cfg # NoTask /\ released.id = NoId
  BY <1>1 DEF AloneInv, RunInv, HeldInv, QueueInv, OneHolder, busy, TypeInv, TypeOK, ClockOK
<1>3. OpenRuns(rows) \subseteq {job.id, NoId} /\ Settled(rows, job.id)
  BY <1>1, <1>2 DEF AloneInv, OpenInv
<1> QED
  BY <1>2, <1>3, SettledNotOpen DEF OpenRuns, NoId

LEMMA AloneRun ==
    RunInv /\ OpenInv /\ AloneInv /\ (Spawn \/ LaunchFail \/ Register \/ RecordFinish \/ ClearFinished)
    => AloneInv'
<1> SUFFICES ASSUME RunInv, OpenInv, AloneInv,
                    Spawn \/ LaunchFail \/ Register \/ RecordFinish \/ ClearFinished
             PROVE  AloneInv'
  OBVIOUS
<1>1. /\ TypeInv /\ MutexStep /\ job \in Job /\ rows \in Seq(Row)
      /\ now \in Int /\ now # NoTime
  BY StepMutex, TimeFacts DEF RunInv, TypeInv, TypeOK, MutexOK, TablesOK, ClockOK, Next
<1>2. \A i \in OpenRuns(rows) : pc \in {"spawn", "register"} => i = job.id
  BY DEF AloneInv
<1>3. CASE Spawn
  <2>1. /\ pc = "spawn" /\ pc' = "register" /\ UNCHANGED <<up, running, rows>>
        /\ \E p \in Pids : job' = [job EXCEPT !.pid = p]
    BY <1>3 DEF Spawn, Locked, memory, tables
  <2>2. job'.id = job.id
    BY <1>1, <2>1 DEF Job
  <2> QED
    BY <2>1, <2>2 DEF AloneInv
<1>4. CASE LaunchFail
  <2>1. /\ pc = "spawn" /\ up' = up /\ pc' \notin {"spawn", "register"} /\ HistoryStep({job.id})
        /\ rows' = FinishRun(rows, job.id, -1, "launch", now)
    BY <1>1, <1>4, LaunchFailHistory DEF LaunchFail, Locked, Job, FailedLaunch
  <2>2. job.id \in 1 .. Len(rows) /\ Settled(rows', job.id)
    BY <1>1, <2>1, FinishRunSettles DEF TypeInv, HandlerOK
  <2>3. OpenRuns(rows) \cap OpenRuns(rows') = {}
    BY <1>2, <2>1, <2>2, SettledNotOpen
  <2> QED
    BY <1>1, <2>1, <2>3, AloneIdle DEF AloneInv
<1>5. CASE Register
  <2>1. /\ pc = "register" /\ pc' \in {"free", "due"} /\ UNCHANGED <<up, rows>>
        /\ running' = [NoRun EXCEPT !.id = job.id, !.pid = job.pid, !.start = rows[job.id].start]
    BY <1>1, <1>5 DEF Register, Locked, Job
  <2>2. running'.id = job.id /\ up = "up"
    BY <2>1 DEF NoRun, AloneInv
  <2> QED
    BY <1>2, <2>1, <2>2 DEF AloneInv
<1>6. CASE RecordFinish
  <2>1. pc = "free" /\ pc' = "clear" /\ UNCHANGED <<up, cfg, running, released>>
    BY <1>6 DEF RecordFinish, Idle, Locked, memory
  <2> QED
    BY <1>1, <1>6, <2>1, RecordFinishHistory, AloneSame
<1>7. CASE ClearFinished
  <2>1. pc = "clear" /\ UNCHANGED <<up, cfg, released>> /\ HistoryStep({})
    BY <1>1, <1>7, ClearFinishedHistory DEF ClearFinished, Locked
  <2>2. CASE running.id # job.id
    <3>1. pc' = "free" /\ UNCHANGED running
      BY <1>7, <2>2 DEF ClearFinished
    <3> QED
      BY <1>1, <2>1, <3>1, AloneSame
  <2>3. CASE running.id = job.id
    <3>1. pc' \in {"free", "spawn"}
      BY <1>7, <2>3 DEF ClearFinished, StartQueued, BeginRun
    <3> QED
      BY <1>1, <1>7, <2>1, <2>3, <3>1, ClearLast, AloneIdle
  <2> QED
    BY <2>2, <2>3
<1> QED
  BY <1>3, <1>4, <1>5, <1>6, <1>7

\* What Configure leaves open is in the registry, and what the registry has of
\* live processes is open: so the entry it adopts is of the open run.
LEMMA AloneConfigure ==
    ASSUME RunInv, AloneInv, BusyInv, OpenInv', MutexStep, NEW c, Configure(c), UNCHANGED <<pc, job>>,
           pc = "free", up' = up \/ (up = "down" /\ up' = "up")
    PROVE  AloneInv'
<1> DEFINE E == {e \in live : e.id \notin (IF c = NoTask THEN {} ELSE {running.id, released.id})}
<1>1. PICK dead \in Finalized(E) :
        /\ rows' = FinishAllUnknown(rows, {e.id : e \in dead}, now) /\ live' = live \ dead
        /\ c # NoTask => /\ UNCHANGED running
                         /\ released' = IF busy \/ dead = E THEN released ELSE Adopted(Oldest(E \ dead))
  BY DEF Configure, LoadTask, Tracked
<1>2. c = NoTask => cfg' = NoTask /\ running'.id = NoId
  BY DEF Configure, ForgetTask, LoseState, NoRun
<1>3. OpenRuns(rows') \subseteq OpenRuns(rows)
  <2>1. \E closed : HistoryStep(closed)
    BY <1>1, FinalizedHistory DEF RunInv
  <2> QED
    BY <2>1, OpenRunsStep DEF RunInv
<1>4. ASSUME c # NoTask, ~busy, NEW i \in OpenRuns(rows') PROVE i = released'.id
  <2>1. job.id = NoId /\ i # NoId
    BY DEF RunInv, IdsInv, NoJob, OpenRuns, NoId
  <2>2. PICK e \in live' : e.id = i
    BY <2>1 DEF OpenInv, OpenRunIsTracked, RunIds, OpenRuns, Settled, Open
  <2>3. e \in E \ dead
    BY <1>1, <1>4, <2>1, <2>2 DEF busy
  <2>4. E \subseteq LiveEntry
    BY DEF RunInv, TypeInv, TypeOK, TablesOK
  <2> HIDE DEF E
  <2>5. PICK o \in E \ dead : o = Oldest(E \ dead)
    BY <2>3, <2>4, OldestType
  <2>6. sameLiveProcess(o.pid, o.ident)
    BY <2>5, FoundAlive DEF Finalized
  <2>7. o.id \in OpenRuns(rows)
    BY <2>5, <2>6 DEF BusyInv, E
  <2>8. o.id = i
    BY <1>3, <1>4, <2>7 DEF AloneInv
  <2>9. released'.id = o.id
    BY <1>1, <1>4, <2>3, <2>5 DEF Adopted, NoReleased
  <2> QED
    BY <2>8, <2>9
<1>5. ASSUME up' = "up", c # NoTask, busy PROVE OpenRuns(rows') \subseteq {running'.id, released'.id}
  <2>1. up = "up" /\ cfg # NoTask
    BY <1>5 DEF RunInv, HeldInv
  <2> QED
    BY <1>1, <1>3, <1>5, <2>1 DEF AloneInv
<1>6. c # NoTask => running' = running
  BY <1>1
<1> HIDE DEF E
<1> QED
  BY <1>2, <1>3, <1>4, <1>5, <1>6 DEF AloneInv

LEMMA AloneAround ==
    LedgerAssumption /\ RunInv /\ OpenInv /\ AloneInv /\ BusyInv
    /\ (\/ Request \/ Start \/ SecondServe \/ PruneHistory \/ ReleaseAll \/ Drained \/ Crash
        \/ ClockAdvance \/ KillTimer \/ Kernel)
    => AloneInv'
<1> SUFFICES ASSUME LedgerAssumption, RunInv, OpenInv, AloneInv, BusyInv,
                    \/ Request \/ Start \/ SecondServe \/ PruneHistory \/ ReleaseAll \/ Drained \/ Crash
                    \/ ClockAdvance \/ KillTimer \/ Kernel
             PROVE  AloneInv'
  OBVIOUS
<1>1. TypeInv /\ Next /\ MutexStep
  BY StepMutex DEF RunInv, Next
<1>2. CASE Reload \/ Start
  <2>1. PICK c : Configure(c)
    BY <1>2 DEF Reload, Start
  <2>2. pc = "free" /\ UNCHANGED <<pc, job>> /\ (up' = up \/ (up = "down" /\ up' = "up"))
    BY <1>1, <1>2 DEF Reload, Start, Serving, Idle, Locked, TypeInv, HandlerOK
  <2>3. OpenInv'
    BY <1>1, OpenStep DEF LedgerAssumption
  <2> QED
    BY <1>1, <2>1, <2>2, <2>3, AloneConfigure
<1>3. CASE Trigger
  <2>1. up = "up" /\ up' = up /\ pc = "free" /\ cfg # NoTask /\ ~busy /\ pc' = "spawn"
    BY <1>3 DEF Trigger, Serving, Idle, Locked, LedgerAssumption, BeginRun
  <2> QED
    BY <1>1, <1>3, <2>1, OtherHistory, IdleSettled, AloneIdle
<1>4. CASE Pause \/ Resume
  <2>1. pc = "free" /\ UNCHANGED <<pc, up, cfg, running, released>>
    BY <1>4 DEF Pause, Resume, Serving, Idle, Locked
  <2> QED
    BY <1>1, <1>4, <2>1, OtherHistory, AloneSame
<1>5. CASE ReleaseAll \/ Drained \/ Crash
  <2>1. pc' = "free" /\ up' # "up" /\ running'.id = NoId
    BY <1>5 DEF ReleaseAll, Drained, Crash, Die, LoseState, Idle, Locked, NoRun
  <2>2. OpenRuns(rows') \subseteq OpenRuns(rows)
    BY <1>1, <1>5, <2>1, OtherHistory, OpenRunsStep
  <2> QED
    BY <2>1, <2>2 DEF AloneInv
<1>6. CASE ClockAdvance \/ KillTimer \/ Kernel
  <2>1. UNCHANGED <<pc, job, up, cfg, running, released, rows>>
    BY <1>6 DEF ClockAdvance, KillTimer, Kernel, ProcessExit, PidReused, StrangerExit, memory, tables
  <2> QED
    BY <2>1 DEF AloneInv
<1>7. ~SecondServe /\ ~PruneHistory
  BY DEF LedgerAssumption, SecondServe, PruneHistory
<1> QED
  BY <1>2, <1>3, <1>4, <1>5, <1>6, <1>7 DEF Request

LEMMA AloneStep ==
    LedgerAssumption /\ RunInv /\ OpenInv /\ AloneInv /\ BusyInv /\ [Next]_vars => AloneInv'
<1>1. ASSUME AloneInv, UNCHANGED vars PROVE AloneInv'
  BY <1>1 DEF vars, memory, tables, AloneInv, OpenRuns, Settled
<1> QED
  BY <1>1, AloneTick, AloneRun, AloneAround DEF Next

-----------------------------------------------------------------------------
(* The fires that have elapsed *)

LEMMA DueNotEarly ==
    ASSUME TypeInv, CronFires
    PROVE  nextFire \in Time /\ nextFire <= now /\ cfg \in TaskConfig
<1>1. cfg \in TaskConfig /\ nextFire \in Time /\ now \in Time /\ now >= effectiveDue(cfg, nextFire)
  BY DEF CronFires, DueStep, Locked, CronDue, TypeInv, TypeOK, MemoryOK, ClockOK, HandlerOK, TimeOrNo
<1>2. cfg.jitter \in Nat /\ Hash[nextFire] \in Nat /\ nextFire \in Int /\ now \in Int
  BY <1>1, EngineAssumption, TimeIsInt DEF TaskConfig
<1>3. \A a, b \in Nat : b # 0 => a % b \in Nat
  OBVIOUS
<1>4. effectiveDue(cfg, nextFire) >= nextFire /\ effectiveDue(cfg, nextFire) \in Int
  BY <1>2, <1>3 DEF effectiveDue
<1> QED
  BY <1>1, <1>2, <1>4

\* They are in order, between the fire awaited and the present.
LEMMA ElapsedOrder ==
    ASSUME TypeInv, CronFires, NEW fires \in Elapsed
    PROVE  /\ fires \in Seq(Time) /\ Len(fires) \in Nat /\ Len(fires) >= 1
           /\ \A i \in 1 .. Len(fires) : fires[i] \in Int /\ nextFire <= fires[i] /\ fires[i] <= now
           /\ \A i, j \in 1 .. Len(fires) : i < j => fires[i] < fires[j]
<1> DEFINE S == {nextFire} \cup FiresBetween(cfg.fires, nextFire, now, MaxBatch)
<1>1. nextFire \in Time /\ nextFire <= now /\ cfg \in TaskConfig
  BY DueNotEarly
<1>2. S \subseteq Time /\ S # {}
  BY <1>1 DEF FiresBetween, TaskConfig
<1>3. IsFiniteSet(S)
  BY <1>2, TimeFacts, FS_Subset
<1>4. \A f \in S : nextFire <= f /\ f <= now
  <2>1. nextFire \in Int
    BY <1>1, TimeIsInt
  <2> QED
    BY <1>1, <2>1 DEF FiresBetween
<1> HIDE DEF S
<1>5. fires \in Ascending(S)
  BY DEF Elapsed, S
<1>6. fires \in Seq(S) /\ Len(fires) \in Nat /\ Len(fires) >= 1
  BY <1>2, <1>3, <1>5, AscendingType
<1>7. /\ fires \in [1 .. Cardinality(S) -> S]
      /\ \A i, j \in 1 .. Cardinality(S) : i < j => fires[i] < fires[j]
  BY <1>5 DEF Ascending
<1>8. 1 .. Cardinality(S) = 1 .. Len(fires)
  BY <1>6, <1>7
<1>9. \A i \in 1 .. Len(fires) : fires[i] \in S
  BY <1>6, ElementType
<1>10. \A i \in 1 .. Len(fires) : fires[i] \in Int
  BY <1>2, <1>9, TimeIsInt
<1>11. fires \in Seq(Time)
  BY <1>2, <1>6
<1> QED
  BY <1>4, <1>6, <1>7, <1>8, <1>9, <1>10, <1>11

LEMMA FrontElements ==
    ASSUME NEW S, NEW f \in Seq(S), Len(f) >= 1
    PROVE  LET front == SubSeq(f, 1, Len(f) - 1)
           IN  Len(front) = Len(f) - 1 /\ \A i \in 1 .. Len(f) - 1 : front[i] = f[i]
<1>1. PICK n \in Nat : n = Len(f) - 1 /\ Len(f) = n + 1
  OBVIOUS
<1>2. \A i \in 1 .. n : f[i] \in S
  BY <1>1
<1>3. /\ Len(SubSeq(f, 1, n)) = IF 1 <= n THEN n - 1 + 1 ELSE 0
      /\ \A i \in 1 .. n - 1 + 1 : SubSeq(f, 1, n)[i] = f[1 + i - 1]
  BY ONLY <1>1, <1>2, SubSeqProperties
<1>4. Len(SubSeq(f, 1, n)) = n /\ \A i \in 1 .. n : SubSeq(f, 1, n)[i] = f[i]
  BY <1>1, <1>3
<1> QED
  BY <1>1, <1>4

\* A row that records as backlog fires from `first` on and before `before`.
MissedWithin(row, first, before) ==
    /\ row.start = NoTime /\ row.outcome = "missed" /\ row.reason = "coalesced"
    /\ first <= row.sched /\ row.sched <= row.upto /\ row.upto < before

\* The backlog is recorded in order, each row before the next, and every fire
\* of it is in a row.
LEMMA BacklogFires ==
    ASSUME TypeInv, CronFires, NEW fires \in Elapsed
    PROVE  LET s == Backlogged(fires)
           IN  /\ \A i \in Len(rows) + 1 .. Len(s) : MissedWithin(s[i], nextFire, Last(fires))
               /\ \A i, j \in Len(rows) + 1 .. Len(s) : i < j => s[i].upto < s[j].sched
               /\ \A k \in 1 .. Len(fires) - 1 : \E i \in Len(rows) + 1 .. Len(s) :
                      s[i].sched <= fires[k] /\ fires[k] <= s[i].upto
<1> DEFINE backlog == SubSeq(fires, 1, Len(fires) - 1)
           n == Len(fires) - 1
           s == Backlogged(fires)
<1>1. /\ fires \in Seq(Time) /\ Len(fires) \in Nat /\ Len(fires) >= 1 /\ rows \in Seq(Row)
      /\ \A i \in 1 .. Len(fires) : fires[i] \in Int /\ nextFire <= fires[i]
      /\ \A i, j \in 1 .. Len(fires) : i < j => fires[i] < fires[j]
  BY ElapsedOrder DEF TypeInv, TypeOK, TablesOK
<1>2. n \in Nat /\ Len(backlog) = n /\ \A i \in 1 .. n : backlog[i] = fires[i]
  BY <1>1, FrontElements
<1>3. /\ \A i \in 1 .. n : backlog[i] \in Int /\ nextFire <= backlog[i] /\ backlog[i] < Last(fires)
      /\ \A i, j \in 1 .. n : i < j => backlog[i] < backlog[j]
  BY <1>1, <1>2, SMTT(30) DEF Last
<1>4. s = RecordBacklog(backlog)
  BY DEF Backlogged
<1> HIDE DEF backlog, s, n
<1>5. CASE n > CoalescedDetailLimit
  <2>1. n >= 1 /\ CoalescedDetailLimit \in Nat
    BY <1>2, <1>5, EngineAssumption
  <2>2. PICK row : row = [NewRow(backlog[1], NoTime, "missed", "coalesced")
                          EXCEPT !.finish = backlog[1], !.exit = -1, !.error = "summary",
                                 !.upto = backlog[n]]
    OBVIOUS
  <2>3. /\ row.start = NoTime /\ row.outcome = "missed" /\ row.reason = "coalesced"
        /\ row.sched = backlog[1] /\ row.upto = backlog[n]
    BY <2>2 DEF NewRow
  <2>4. s = Append(rows, row)
    BY <1>2, <1>4, <1>5, <2>2 DEF RecordBacklog
  <2>5. Len(s) = Len(rows) + 1 /\ s[Len(rows) + 1] = row /\ Len(rows) \in Nat
    BY <1>1, <2>4
  <2>6. MissedWithin(row, nextFire, Last(fires))
    <3>1. 1 \in 1 .. n /\ n \in 1 .. n
      BY <1>2, <2>1
    <3>2. backlog[1] <= backlog[n]
      BY <1>2, <1>3, <2>1, <3>1
    <3> QED
      BY <1>3, <2>3, <3>1, <3>2 DEF MissedWithin
  <2>7. \A i \in Len(rows) + 1 .. Len(s) : i = Len(rows) + 1
    BY <2>5
  <2>8. \A i \in Len(rows) + 1 .. Len(s) : MissedWithin(s[i], nextFire, Last(fires))
    BY <2>5, <2>6, <2>7
  <2>9. \A i, j \in Len(rows) + 1 .. Len(s) : ~(i < j)
    BY <2>5
  <2>10. \A k \in 1 .. n : row.sched <= backlog[k] /\ backlog[k] <= row.upto
    <3> TAKE k \in 1 .. n
    <3>1. 1 \in 1 .. n /\ n \in 1 .. n
      BY <1>2, <2>1
    <3>2. (k = 1 \/ 1 < k) /\ (k = n \/ k < n)
      BY <1>2
    <3> QED
      BY <1>3, <2>3, <3>1, <3>2
  <2>11. Len(rows) + 1 \in Len(rows) + 1 .. Len(s)
    BY <2>5
  <2>12. \A k \in 1 .. n : \E i \in Len(rows) + 1 .. Len(s) : s[i].sched <= fires[k] /\ fires[k] <= s[i].upto
    BY <1>2, <2>5, <2>10, <2>11
  <2> QED
    BY <2>8, <2>9, <2>12 DEF s, n
<1>6. CASE ~(n > CoalescedDetailLimit)
  <2> DEFINE R(i) == NewRow(backlog[i], NoTime, "missed", "coalesced")
             more == [i \in 1 .. n |-> R(i)]
  <2>1. DOMAIN backlog = 1 .. n /\ Len(backlog) = n
    BY <1>1, <1>2 DEF backlog
  <2>2. s = rows \o more
    BY <1>4, <1>6, <2>1 DEF RecordBacklog
  <2>3. \A i : /\ R(i).start = NoTime /\ R(i).outcome = "missed" /\ R(i).reason = "coalesced"
               /\ R(i).sched = backlog[i] /\ R(i).upto = backlog[i]
    BY DEF NewRow
  <2> HIDE DEF R
  <2>4. more \in Seq({R(i) : i \in 1 .. n}) /\ Len(more) = n /\ \A i \in 1 .. n : more[i] = R(i)
    BY <1>2
  <2> HIDE DEF more
  <2>5. Len(s) = Len(rows) + n /\ \A i \in Len(rows) + 1 .. Len(rows) + n : s[i] = more[i - Len(rows)]
    <3>1. PICK T : rows \in Seq(Row) /\ more \in Seq(T) /\ Len(more) = n
      BY <1>1, <2>4
    <3>2. Len(rows \o more) = Len(rows) + n
      BY ONLY <3>1
    <3>3. \A i \in Len(rows) + 1 .. Len(rows) + n : (rows \o more)[i] = more[i - Len(rows)]
      BY <1>1, <1>2, <2>4
    <3> QED
      BY <2>2, <3>2, <3>3
  <2>6. \A i \in Len(rows) + 1 .. Len(s) : i - Len(rows) \in 1 .. n /\ s[i] = R(i - Len(rows))
    BY <1>1, <1>2, <2>4, <2>5
  <2>7. \A k \in 1 .. n : MissedWithin(R(k), nextFire, Last(fires))
    BY <1>3, <2>3 DEF MissedWithin
  <2>8. \A i \in Len(rows) + 1 .. Len(s) : MissedWithin(s[i], nextFire, Last(fires))
    BY <2>6, <2>7
  <2>9. \A i, j \in Len(rows) + 1 .. Len(s) : i < j => s[i].upto < s[j].sched
    <3> TAKE i, j \in Len(rows) + 1 .. Len(s)
    <3>1. Len(rows) \in Nat /\ Len(s) \in Nat
      BY <1>1, <1>2, <2>5
    <3>2. i < j => i - Len(rows) < j - Len(rows)
      BY <3>1
    <3> QED
      BY <1>3, <2>3, <2>6, <3>2
  <2>10. ASSUME NEW k \in 1 .. n
         PROVE  \E i \in Len(rows) + 1 .. Len(s) : s[i].sched <= fires[k] /\ fires[k] <= s[i].upto
    <3>1. Len(rows) + k \in Len(rows) + 1 .. Len(s) /\ Len(rows) + k - Len(rows) = k
      BY <1>1, <1>2, <2>5
    <3>2. s[Len(rows) + k] = R(k)
      BY <2>6, <3>1
    <3>3. s[Len(rows) + k].sched <= fires[k] /\ fires[k] <= s[Len(rows) + k].upto
      BY <1>2, <1>3, <2>3, <3>2
    <3> QED
      BY <3>1, <3>3
  <2> QED
    BY <2>8, <2>9, <2>10 DEF s, n
<1> QED
  BY <1>5, <1>6

-----------------------------------------------------------------------------
(* The order of fires *)

\* What a row says of its fire: it was there, and it is before the next one.
InOrder(row) ==
    row.outcome # "manual" => /\ row.sched <= row.upto /\ row.upto <= now
                              /\ nextFire # NoTime => row.upto < nextFire

\* Every fire dealt with, in a row or in the queue, is before the next one,
\* which is a fire of the task.
OrderInv ==
    /\ cfg \in Configs
    /\ nextFire # NoTime => cfg # NoTask /\ nextFire \in cfg.fires
    /\ queued <= now /\ (nextFire # NoTime => queued < nextFire)
    /\ \A i \in 1 .. Len(rows) : InOrder(rows[i])

LEMMA OrderInit == Init => OrderInv
BY DEF Init, OrderInv, NoTime

LEMMA OrderTypes ==
    ASSUME TypeInv
    PROVE  /\ now \in Int /\ now \in Time /\ nextFire \in Int /\ queued \in Int /\ rows \in Seq(Row)
           /\ now >= 0 /\ now # NoTime /\ NoTime = -1 /\ Len(rows) \in Nat
           /\ \A i \in 1 .. Len(rows) : rows[i].sched \in Int /\ rows[i].upto \in Int
<1>1. now \in Nat /\ now \in Time /\ nextFire \in Int /\ queued \in Int /\ rows \in Seq(Row)
  BY TimeFacts DEF TypeInv, TypeOK, ClockOK, MemoryOK, TablesOK, TimeOrNo
<1>2. \A i \in 1 .. Len(rows) : rows[i].sched \in Int /\ rows[i].upto \in Int
  <2> TAKE i \in 1 .. Len(rows)
  <2>1. rows[i] \in Row
    BY <1>1
  <2> QED
    BY <2>1 DEF Row
<1> QED
  BY <1>1, <1>2 DEF NoTime

\* No fire is awaited any more, or the same one of the same schedule, or the
\* first one from now on.
AwaitStep ==
    \/ nextFire' = NoTime /\ armed' = NoTime
    \/ /\ UNCHANGED <<nextFire, armed>>
       /\ cfg' = cfg \/ (cfg # NoTask /\ cfg' # NoTask /\ cfg'.fires = cfg.fires)
    \/ now' = now /\ armed' = now /\ cfg' # NoTask /\ nextFire' = NextAfter(cfg'.fires, now)

LEMMA ConfigFires == \A c \in Configs : c # NoTask => c.fires \in SUBSET Nat
BY EngineAssumption, TimeFacts DEF TaskConfig

LEMMA AwaitNext ==
    ASSUME TypeInv, OrderInv, cfg' \in Configs, AwaitStep
    PROVE  /\ nextFire' # NoTime => cfg' # NoTask /\ nextFire' \in cfg'.fires
           /\ nextFire' = NoTime \/ nextFire' = nextFire \/ (now' = now /\ nextFire' > now)
<1>1. now \in Int
  BY OrderTypes
<1>2. cfg' # NoTask => cfg'.fires \in SUBSET Nat
  BY ConfigFires
<1>3. CASE now' = now /\ cfg' # NoTask /\ nextFire' = NextAfter(cfg'.fires, now)
  BY <1>1, <1>2, <1>3, NextAfterType
<1>4. CASE ~(now' = now /\ cfg' # NoTask /\ nextFire' = NextAfter(cfg'.fires, now))
  BY <1>4 DEF AwaitStep, OrderInv
<1> QED
  BY <1>3, <1>4

\* The rows added are of manual runs, of the queued fire or of a watermark.
LEMMA OrderSame ==
    ASSUME TypeInv, TypeInv', OrderInv, SameFires(rows, rows'), Len(rows') >= Len(rows),
           cfg' \in Configs, queued' \in {queued, NoTime}, now' \in {now, now + 1}, AwaitStep,
           \A i \in Len(rows) + 1 .. Len(rows') :
               \/ rows'[i].outcome = "manual" \/ (rows'[i].sched = queued /\ rows'[i].upto = queued)
               \/ rows'[i].sched = rows'[i].upto /\ rows'[i].upto <= now /\ nextFire' = NoTime
    PROVE  OrderInv'
<1>1. /\ now \in Int /\ now >= 0 /\ nextFire \in Int /\ queued \in Int /\ NoTime = -1 /\ Len(rows) \in Nat
      /\ \A i \in 1 .. Len(rows) : rows[i].sched \in Int /\ rows[i].upto \in Int
  BY OrderTypes
<1>2. now' \in Int /\ nextFire' \in Int /\ queued' \in Int /\ Len(rows') \in Nat
  <2>1. now' \in Time /\ nextFire' \in TimeOrNo /\ queued' \in TimeOrNo /\ rows' \in Seq(Row)
    BY ONLY TypeInv' DEF TypeInv, TypeOK, ClockOK, MemoryOK, TablesOK
  <2> QED
    BY ONLY <2>1, TimeFacts DEF TimeOrNo
<1>3. /\ now' >= now /\ (nextFire' = NoTime \/ nextFire' = nextFire \/ (now' = now /\ nextFire' > now))
      /\ nextFire' # NoTime => cfg' # NoTask /\ nextFire' \in cfg'.fires
  BY <1>1, <1>2, AwaitNext
<1>4. \A t \in Int : t <= now /\ (nextFire # NoTime => t < nextFire)
                     => t <= now' /\ (nextFire' # NoTime => t < nextFire')
  BY <1>1, <1>2, <1>3
<1>5. queued' <= now' /\ (nextFire' # NoTime => queued' < nextFire')
  <2>1. CASE queued' = queued
    BY <1>1, <1>4, <2>1 DEF OrderInv
  <2>2. CASE queued' = NoTime
    <3>1. nextFire' # NoTime => nextFire' > queued'
      <4>1. nextFire \in TimeOrNo /\ (nextFire # NoTime => nextFire >= 0)
        BY TimeFacts DEF TypeInv, TypeOK, MemoryOK, TimeOrNo
      <4> QED
        BY <1>1, <1>2, <1>3, <2>2, <4>1
    <3> QED
      BY <1>1, <1>2, <1>3, <2>2, <3>1
  <2> QED
    BY <2>1, <2>2
<1>6. ASSUME NEW i \in 1 .. Len(rows') PROVE InOrder(rows[i])'
  <2>1. CASE i <= Len(rows)
    <3>1. /\ i \in 1 .. Len(rows) /\ rows'[i].outcome = rows[i].outcome
          /\ rows'[i].sched = rows[i].sched /\ rows'[i].upto = rows[i].upto
      BY <1>1, <2>1 DEF SameFires
    <3>2. rows[i].sched \in Int /\ rows[i].upto \in Int /\ InOrder(rows[i])
      BY <1>1, <3>1 DEF OrderInv
    <3> QED
      BY <1>4, <3>1, <3>2 DEF InOrder
  <2>2. CASE ~(i <= Len(rows))
    <3>1. i \in Len(rows) + 1 .. Len(rows')
      BY <1>1, <1>2, <2>2
    <3>2. \/ rows'[i].outcome = "manual" \/ (rows'[i].sched = queued /\ rows'[i].upto = queued)
          \/ rows'[i].sched = rows'[i].upto /\ rows'[i].upto <= now /\ nextFire' = NoTime
      BY <3>1
    <3>3. queued <= now' /\ (nextFire' # NoTime => queued < nextFire')
      BY <1>1, <1>4 DEF OrderInv
    <3>4. rows'[i].sched \in Int /\ rows'[i].upto \in Int
      <4>1. rows'[i] \in Row
        BY DEF TypeInv, TypeOK, TablesOK
      <4> QED
        BY <4>1 DEF Row
    <3> QED
      BY <1>1, <1>2, <1>3, <3>2, <3>3, <3>4 DEF InOrder
  <2> QED
    BY <2>1, <2>2
<1> QED
  BY <1>3, <1>5, <1>6 DEF OrderInv

\* The row a run begins with, and that of a missed fire.
LEMMA BegunRow ==
    ASSUME NEW sched \in Int, NEW outcome \in Outcomes, now \in Time
    PROVE  \E row \in Row :
               /\ row = NewRow(sched, now, outcome, "") /\ row.outcome = outcome
               /\ row.sched = sched /\ row.upto = sched
               /\ LedgerEntry(row).state = "running"
               /\ outcome = "manual" => LedgerEntry(row).manual
               /\ outcome # "manual" => LedgerEntry(row) = Ledger!Run(sched)
<1>1. now \in Int /\ now # NoTime /\ "" \in Reasons
  BY TimeFacts DEF Reasons
<1>2. PICK row \in Row : row = NewRow(sched, now, outcome, "")
  BY <1>1, NewRowType
<1>3. /\ row.sched = sched /\ row.upto = sched /\ row.outcome = outcome
      /\ row.start = now /\ row.finish = NoTime /\ row.pruned = FALSE
  BY <1>2 DEF NewRow
<1>4. PICK e : e = LedgerEntry(row)
  OBVIOUS
<1>5. e = [first |-> sched, last |-> sched, manual |-> outcome = "manual", state |-> "running"]
  BY <1>1, <1>3, <1>4 DEF LedgerEntry
<1>6. (outcome = "manual" => e.manual) /\ e.state = "running"
  BY <1>5
<1>7. Ledger!Run(sched) = [first |-> sched, last |-> sched, manual |-> FALSE, state |-> "running"]
  <2>1. PICK m : m = [first |-> sched, last |-> sched, manual |-> FALSE, state |-> "missed"]
    OBVIOUS
  <2>2. PICK r : r = [m EXCEPT !.state = "running"]
    OBVIOUS
  <2>3. r = [first |-> sched, last |-> sched, manual |-> FALSE, state |-> "running"]
    BY <2>1, <2>2
  <2> QED
    BY <2>1, <2>2, <2>3 DEF Ledger!Run, Ledger!Missed
<1>8. outcome # "manual" => e = Ledger!Run(sched)
  BY <1>5, <1>7
<1> QED
  BY <1>2, <1>3, <1>4, <1>6, <1>8

LEMMA MissedRow ==
    ASSUME NEW fire \in Int, NEW reason \in Reasons
    PROVE  \E row \in Row :
               /\ row = NewRow(fire, NoTime, "missed", reason)
               /\ \A r : RecordMissed(r, fire, reason) = Append(r, row)
               /\ row.sched = fire /\ row.upto = fire
               /\ LedgerEntry(row) = Ledger!Missed(fire)
<1>1. PICK row \in Row : row = NewRow(fire, NoTime, "missed", reason)
  BY NewRowType DEF Outcomes, NoTime
<1>2. row.sched = fire /\ row.upto = fire /\ row.outcome = "missed" /\ row.start = NoTime
  BY <1>1 DEF NewRow
<1>3. LedgerEntry(row) = Ledger!Missed(fire)
  BY <1>2 DEF LedgerEntry, Ledger!Missed
<1> QED
  BY <1>1, <1>2, <1>3 DEF RecordMissed

\* A fire of a cron task is dealt with: the rows added are of fires not before
\* the one awaited and not after the last elapsed one, and the next is later.
LEMMA OrderFires ==
    ASSUME TypeInv, TypeInv', OrderInv, CronFires, NEW fires \in Elapsed, FireCron(fires),
           SameFires(rows, rows'), Len(rows') >= Len(rows), queued' \in {queued, NoTime, Last(fires)},
           \A i \in Len(rows) + 1 .. Len(rows') :
               \/ MissedWithin(rows'[i], nextFire, Last(fires))
               \/ rows'[i].sched = rows'[i].upto /\ rows'[i].upto \in {queued, Last(fires)}
    PROVE  OrderInv'
<1>1. /\ now \in Int /\ now >= 0 /\ nextFire \in Int /\ queued \in Int /\ NoTime = -1 /\ Len(rows) \in Nat
      /\ rows \in Seq(Row) /\ \A i \in 1 .. Len(rows) : rows[i].sched \in Int /\ rows[i].upto \in Int
  BY OrderTypes
<1>2. /\ Last(fires) \in Int /\ nextFire <= Last(fires) /\ Last(fires) <= now
  BY ElapsedOrder DEF Last
<1>3. nextFire \in Nat /\ nextFire # NoTime /\ cfg.fires \in SUBSET Nat
  BY DueNotEarly, TimeFacts DEF TaskConfig
<1>4. /\ UNCHANGED <<now, cfg>> /\ nextFire' \in Int /\ cfg # NoTask
      /\ nextFire' # NoTime => nextFire' > Last(fires) /\ nextFire' \in cfg.fires
  BY <1>2, <1>3, NextAfterType DEF FireCron, NoTime, OrderInv
<1>5. \A t \in Int : t <= Last(fires) => t <= now /\ (nextFire' # NoTime => t < nextFire')
  BY <1>1, <1>2, <1>4
<1>6. \A t \in Int : t < nextFire => t <= now /\ (nextFire' # NoTime => t < nextFire')
  BY <1>1, <1>2, <1>5
<1>7. queued < nextFire /\ NoTime < nextFire
  BY <1>1, <1>3 DEF OrderInv
<1>8. queued' <= now' /\ (nextFire' # NoTime => queued' < nextFire')
  BY <1>1, <1>2, <1>4, <1>5, <1>6, <1>7
<1>9. \A i \in 1 .. Len(rows') : rows'[i] \in Row /\ rows'[i].sched \in Int /\ rows'[i].upto \in Int
  <2>1. rows' \in Seq(Row)
    BY DEF TypeInv, TypeOK, TablesOK
  <2>2. \A row \in Row : row.sched \in Int /\ row.upto \in Int
    BY DEF Row
  <2> QED
    BY <2>1, <2>2, ElementType
<1>10. Len(rows') \in Nat
  BY DEF TypeInv, TypeOK, TablesOK
<1>11. ASSUME NEW i \in 1 .. Len(rows') PROVE InOrder(rows[i])'
  <2>1. CASE i <= Len(rows)
    <3>1. /\ i \in 1 .. Len(rows) /\ rows'[i].outcome = rows[i].outcome
          /\ rows'[i].sched = rows[i].sched /\ rows'[i].upto = rows[i].upto
      BY <1>1, <2>1 DEF SameFires
    <3>2. InOrder(rows[i])
      BY <3>1 DEF OrderInv
    <3>3. rows'[i].outcome # "manual" => rows'[i].sched <= rows'[i].upto /\ rows'[i].upto < nextFire
      BY <1>3, <3>1, <3>2 DEF InOrder
    <3> QED
      BY <1>4, <1>6, <1>9, <3>3 DEF InOrder
  <2>2. CASE ~(i <= Len(rows))
    <3>1. i \in Len(rows) + 1 .. Len(rows')
      BY <1>1, <1>10, <2>2
    <3>2. \/ rows'[i].sched <= rows'[i].upto /\ rows'[i].upto < Last(fires)
          \/ rows'[i].sched = rows'[i].upto /\ rows'[i].upto \in {queued, Last(fires)}
      BY <3>1 DEF MissedWithin
    <3>3. rows'[i].sched \in Int /\ rows'[i].upto \in Int
      BY <1>9
    <3>4. rows'[i].sched <= rows'[i].upto /\ (rows'[i].upto <= Last(fires) \/ rows'[i].upto < nextFire)
      BY <1>2, <1>7, <3>2, <3>3
    <3>5. rows'[i].upto <= now' /\ (nextFire' # NoTime => rows'[i].upto < nextFire')
      BY <1>4, <1>5, <1>6, <3>3, <3>4
    <3> QED
      BY <3>4, <3>5 DEF InOrder
  <2> QED
    BY <2>1, <2>2
<1>12. cfg' \in Configs /\ (nextFire' # NoTime => cfg' # NoTask /\ nextFire' \in cfg'.fires)
  BY <1>4 DEF OrderInv
<1> QED
  BY <1>8, <1>11, <1>12 DEF OrderInv

\* The last of the elapsed fires gets a row or takes the queue.
LEMMA FiredRows ==
    ASSUME TypeInv, StartFire \/ MissFire \/ QueueFire \/ RestartFire
    PROVE  \E fires \in Elapsed :
             /\ FireCron(fires)
             /\ \/ /\ queued' = queued
                   /\ \E row \in Row :
                         /\ rows' = Append(Backlogged(fires), row)
                         /\ row.sched = Last(fires) /\ row.upto = Last(fires) /\ row.outcome # "manual"
                         /\ \/ row.outcome = "on_time" /\ ~busy /\ streak' = 0
                            \/ row.outcome # "on_time" /\ Late(row) /\ streak' = streak + 1
                \/ /\ queued = NoTime /\ queued' = Last(fires) /\ rows' = Backlogged(fires)
                   /\ streak' = streak + 1
                \/ /\ queued # NoTime /\ queued' = Last(fires) /\ streak' = streak + 1
                   /\ \E row \in Row :
                         /\ rows' = Append(Backlogged(fires), row)
                         /\ row.sched = queued /\ row.upto = queued /\ row.outcome # "manual"
                         /\ row.outcome # "on_time" /\ Late(row)
<1>1. now \in Time /\ queued \in Int /\ CronFires
  BY OrderTypes DEF StartFire, MissFire, QueueFire, RestartFire
<1>2. \A fires \in Elapsed : Last(fires) \in Int /\ Backlogged(fires) \in Seq(Row)
  BY <1>1, ElapsedType, BackloggedType, TimeIsInt
<1>3. CASE StartFire
  <2>1. PICK fires \in Elapsed, outcome \in Outcomes :
          /\ FireCron(fires) /\ BeginRun(Backlogged(fires), Last(fires), outcome, "free")
          /\ UNCHANGED queued /\ outcome # "manual" /\ ~busy
          /\ \/ outcome = "on_time" /\ streak' = 0
             \/ outcome = "queued" /\ streak' = streak + 1
    BY <1>3 DEF StartFire, Outcomes, noteFireOutcome
  <2>2. PICK b, f : b = Backlogged(fires) /\ f = Last(fires)
    OBVIOUS
  <2>3. b \in Seq(Row) /\ f \in Int /\ BeginRun(b, f, outcome, "free")
    BY <1>2, <2>1, <2>2
  <2>4. PICK row \in Row : /\ row = NewRow(f, now, outcome, "") /\ row.outcome = outcome
                           /\ row.sched = f /\ row.upto = f
    BY ONLY <1>1, <2>3, outcome \in Outcomes, BegunRow, ZenonT(30)
  <2>5. rows' = Append(b, row)
    BY <2>3, <2>4 DEF BeginRun, StartRun
  <2>6. \/ row.outcome = "on_time" /\ ~busy /\ streak' = 0
        \/ row.outcome # "on_time" /\ Late(row) /\ streak' = streak + 1
    BY <2>1, <2>4 DEF Late
  <2> QED
    BY <2>1, <2>2, <2>4, <2>5, <2>6
<1>4. CASE MissFire
  <2>1. PICK fires \in Elapsed, reason \in Reasons :
          /\ FireCron(fires) /\ rows' = RecordMissed(Backlogged(fires), Last(fires), reason)
          /\ UNCHANGED queued /\ streak' = streak + 1 /\ reason \in {"catch_up_disabled", "overlap"}
    BY <1>4 DEF MissFire, Reasons, noteFireOutcome
  <2>2. PICK f : f = Last(fires) /\ f \in Int
    BY <1>2
  <2>3. PICK row \in Row : /\ row = NewRow(f, NoTime, "missed", reason)
                           /\ \A r : RecordMissed(r, f, reason) = Append(r, row)
                           /\ row.sched = f /\ row.upto = f
    BY <2>2, MissedRow
  <2>4. row.outcome # "manual" /\ row.outcome # "on_time" /\ Late(row)
    BY <2>1, <2>3 DEF NewRow, Late
  <2> QED
    BY <2>1, <2>2, <2>3, <2>4
<1>5. CASE QueueFire
  BY <1>5 DEF QueueFire, noteFireOutcome
<1>6. CASE RestartFire
  <2>1. "overlap" \in Reasons
    BY DEF Reasons
  <2>2. PICK row \in Row : /\ row = NewRow(queued, NoTime, "missed", "overlap")
                           /\ \A r : RecordMissed(r, queued, "overlap") = Append(r, row)
                           /\ row.sched = queued /\ row.upto = queued
    BY <1>1, <2>1, MissedRow
  <2>3. PICK fires \in Elapsed :
          /\ FireCron(fires) /\ queued' = Last(fires) /\ streak' = streak + 1
          /\ rows' = IF queued = NoTime THEN Backlogged(fires)
                     ELSE RecordMissed(Backlogged(fires), queued, "overlap")
    BY <1>6 DEF RestartFire, noteFireOutcome
  <2>4. row.outcome # "manual" /\ row.outcome # "on_time" /\ Late(row)
    BY <2>2 DEF NewRow, Late
  <2> QED
    BY <2>2, <2>3, <2>4
<1> QED
  BY <1>3, <1>4, <1>5, <1>6

LEMMA OrderFire ==
    TypeInv /\ TypeInv' /\ OrderInv /\ (StartFire \/ MissFire \/ QueueFire \/ RestartFire) => OrderInv'
<1> SUFFICES ASSUME TypeInv, TypeInv', OrderInv, StartFire \/ MissFire \/ QueueFire \/ RestartFire
             PROVE  OrderInv'
  OBVIOUS
<1>1. /\ rows \in Seq(Row) /\ Len(rows) \in Nat /\ CronFires /\ SameFires(rows, rows')
  BY OrderTypes, StepFires DEF StartFire, MissFire, QueueFire, RestartFire, Next, TickStep
<1>2. \A fires \in Elapsed : Backlogged(fires) \in Seq(Row)
  BY <1>1, BackloggedType
<1>3. PICK fires \in Elapsed :
        /\ FireCron(fires) /\ queued' \in {queued, Last(fires)}
        /\ \/ rows' = Backlogged(fires)
           \/ \E row \in Row : /\ rows' = Append(Backlogged(fires), row)
                               /\ row.sched = row.upto /\ row.upto \in {queued, Last(fires)}
  BY FiredRows
<1>4. PICK b : b = Backlogged(fires)
  OBVIOUS
<1>5. /\ b \in Seq(Row) /\ Len(b) >= Len(rows) /\ Len(b) \in Nat
      /\ \A i \in Len(rows) + 1 .. Len(b) : MissedWithin(b[i], nextFire, Last(fires))
  BY <1>1, <1>4, BackloggedType, BacklogFires
<1>6. CASE rows' = b
  BY <1>1, <1>3, <1>5, <1>6, OrderFires
<1>7. CASE \E row \in Row : rows' = Append(b, row) /\ row.sched = row.upto /\ row.upto \in {queued, Last(fires)}
  <2>1. PICK row \in Row : rows' = Append(b, row) /\ row.sched = row.upto /\ row.upto \in {queued, Last(fires)}
    BY <1>7
  <2>2. /\ Len(rows') = Len(b) + 1 /\ rows'[Len(b) + 1] = row
        /\ \A i \in 1 .. Len(b) : rows'[i] = b[i]
    BY <1>5, <2>1
  <2>3. \A i \in Len(rows) + 1 .. Len(rows') : \/ i \in Len(rows) + 1 .. Len(b) /\ i \in 1 .. Len(b)
                                               \/ i = Len(b) + 1
    BY <1>1, <1>5, <2>2
  <2>4. \A i \in Len(rows) + 1 .. Len(rows') :
               \/ MissedWithin(rows'[i], nextFire, Last(fires))
               \/ rows'[i].sched = rows'[i].upto /\ rows'[i].upto \in {queued, Last(fires)}
    BY <1>5, <2>1, <2>2, <2>3
  <2>5. Len(rows') >= Len(rows)
    BY <1>1, <1>5, <2>2
  <2> QED
    BY <1>1, <1>3, <2>4, <2>5, OrderFires
<1> QED
  BY <1>3, <1>4, <1>6, <1>7

\* The only row that a step can add after closing some is the queued fire's.
LEMMA QueuedRows ==
    ASSUME TypeInv, NEW rows0 \in Seq(Row), Len(rows0) = Len(rows), NEW cont, StartQueued(rows0, cont)
    PROVE  /\ queued' = NoTime
           /\ queued = NoTime => Len(rows') = Len(rows)
           /\ queued # NoTime => /\ Len(rows') = Len(rows) + 1
                                 /\ LedgerEntry(rows'[Len(rows) + 1]) = Ledger!Run(queued)
                                 /\ rows'[Len(rows) + 1].outcome = "queued"
           /\ \A i \in Len(rows) + 1 .. Len(rows') : rows'[i].sched = queued /\ rows'[i].upto = queued
<1>1. now \in Time /\ queued \in Int /\ Len(rows) \in Nat
  BY OrderTypes
<1>2. CASE queued = NoTime
  BY <1>1, <1>2 DEF StartQueued
<1>3. CASE queued # NoTime
  <2>1. BeginRun(rows0, queued, "queued", cont) /\ queued' = NoTime
    BY <1>3 DEF StartQueued
  <2>2. PICK row \in Row : /\ rows' = Append(rows0, row) /\ row.sched = queued /\ row.upto = queued
                           /\ LedgerEntry(row) = Ledger!Run(queued) /\ row.outcome = "queued"
    <3>1. "queued" \in Outcomes
      BY DEF Outcomes
    <3>2. PICK row \in Row : /\ row = NewRow(queued, now, "queued", "")
                             /\ row.sched = queued /\ row.upto = queued
                             /\ LedgerEntry(row) = Ledger!Run(queued)
      BY <1>1, <3>1, BegunRow, ZenonT(30)
    <3>3. row.outcome = "queued"
      BY <3>2 DEF NewRow
    <3> QED
      BY <2>1, <3>2, <3>3 DEF BeginRun, StartRun
  <2>3. Len(rows') = Len(rows) + 1 /\ rows'[Len(rows) + 1] = row
    <3>1. rows' = Append(rows0, row) /\ rows0 \in Seq(Row) /\ row \in Row /\ Len(rows0) = Len(rows)
      BY <2>2
    <3> QED
      BY ONLY <3>1
  <2>4. \A i \in Len(rows) + 1 .. Len(rows') : i = Len(rows) + 1
    BY <1>1, <2>3
  <2>5. LedgerEntry(rows'[Len(rows) + 1]) = Ledger!Run(queued)
    BY <2>2, <2>3, Zenon
  <2> QED
    BY <1>1, <1>3, <2>1, <2>2, <2>3, <2>4, <2>5
<1> QED
  BY <1>2, <1>3

LEMMA SettledRows ==
    TypeInv /\ (SettleAdopted \/ (ClearFinished /\ running.id = job.id)) =>
        \E rows0 \in Seq(Row), cont \in {"free", "due"} : Len(rows0) = Len(rows) /\ StartQueued(rows0, cont)
<1> SUFFICES ASSUME TypeInv, SettleAdopted \/ (ClearFinished /\ running.id = job.id)
             PROVE  \E rows0 \in Seq(Row), cont \in {"free", "due"} :
                        Len(rows0) = Len(rows) /\ StartQueued(rows0, cont)
  OBVIOUS
<1>1. rows \in Seq(Row) /\ now \in Int
  BY TimeFacts DEF TypeInv, TypeOK, TablesOK, ClockOK
<1>2. CASE SettleAdopted
  <2>1. PICK err \in Errors : StartQueued(FinishRun(rows, released.id, NoExit, err, now), "due")
    BY <1>2 DEF SettleAdopted, FinishRunUnknownExit, Errors
  <2>2. NoExit \in ExitCodes
    BY DEF ExitCodes
  <2>3. PICK rows0 : rows0 = FinishRun(rows, released.id, NoExit, err, now)
    OBVIOUS
  <2>4. rows0 \in Seq(Row) /\ Len(rows0) = Len(rows)
    BY <1>1, <2>2, <2>3, FinishRunType
  <2>5. StartQueued(rows0, "due")
    BY <2>1, <2>3
  <2> QED
    BY <2>4, <2>5
<1>3. CASE ClearFinished /\ running.id = job.id
  BY <1>1, <1>3 DEF ClearFinished
<1> QED
  BY <1>2, <1>3

\* A stop records the queued fire as missed.
LEMMA ReleasedRows ==
    ASSUME TypeInv, ReleaseAll
    PROVE  /\ queued' = NoTime
           /\ queued = NoTime => Len(rows') = Len(rows)
           /\ queued # NoTime => /\ Len(rows') = Len(rows) + 1
                                 /\ LedgerEntry(rows'[Len(rows) + 1]) = Ledger!Missed(queued)
           /\ \A i \in Len(rows) + 1 .. Len(rows') : rows'[i].sched = queued /\ rows'[i].upto = queued
<1>1. queued \in Int /\ rows \in Seq(Row) /\ Len(rows) \in Nat
  BY OrderTypes
<1>2. queued' = NoTime
  BY DEF ReleaseAll, DisownQueued
<1>3. CASE queued = NoTime
  <2>1. rows' = rows
    BY <1>3 DEF ReleaseAll, DisownQueued
  <2> QED
    BY <1>1, <1>2, <1>3, <2>1
<1>4. CASE queued # NoTime
  <2>1. "daemon_stop" \in Reasons
    BY DEF Reasons
  <2>2. PICK row \in Row : /\ RecordMissed(rows, queued, "daemon_stop") = Append(rows, row)
                           /\ row.sched = queued /\ row.upto = queued
                           /\ LedgerEntry(row) = Ledger!Missed(queued)
    BY <1>1, <2>1, MissedRow, ZenonT(30)
  <2>3. rows' = Append(rows, row)
    BY <1>4, <2>2 DEF ReleaseAll, DisownQueued
  <2>4. Len(rows') = Len(rows) + 1 /\ rows'[Len(rows) + 1] = row
    BY <1>1, <2>3
  <2>5. \A i \in Len(rows) + 1 .. Len(rows') : i = Len(rows) + 1
    BY <1>1, <2>4
  <2>6. LedgerEntry(rows'[Len(rows) + 1]) = Ledger!Missed(queued)
    BY <2>2, <2>4, Zenon
  <2> QED
    BY <1>2, <1>4, <2>2, <2>4, <2>5, <2>6
<1> QED
  BY <1>3, <1>4

LEMMA TriggeredRows ==
    ASSUME TypeInv, Trigger
    PROVE  /\ Len(rows') = Len(rows) + 1 /\ rows'[Len(rows) + 1].outcome = "manual"
           /\ LedgerEntry(rows'[Len(rows) + 1]).manual
           /\ LedgerEntry(rows'[Len(rows) + 1]).state = "running"
           /\ ~Late(rows'[Len(rows) + 1])
<1>1. now \in Time /\ now \in Int /\ rows \in Seq(Row)
  BY OrderTypes
<1>2. PICK outcome \in Outcomes : outcome = "manual"
  BY DEF Outcomes
<1>3. PICK row \in Row : /\ row = NewRow(now, now, outcome, "") /\ row.outcome = outcome
                         /\ LedgerEntry(row).state = "running"
                         /\ outcome = "manual" => LedgerEntry(row).manual
  BY <1>1, BegunRow, ZenonT(30)
<1>6. ~Late(row)
  BY <1>2, <1>3 DEF NewRow, Late
<1>4. rows' = Append(rows, row)
  BY <1>2, <1>3 DEF Trigger, BeginRun, StartRun
<1>5. Len(rows') = Len(rows) + 1 /\ rows'[Len(rows) + 1] = row
  BY <1>1, <1>4
<1> QED
  BY <1>2, <1>3, <1>5, <1>6, Zenon

\* The steps that deal with no fire and leave the task's files as they are.
QuietStep ==
    \/ EnforceOwned \/ EnforceAdopted \/ NothingDue
    \/ Spawn \/ LaunchFail \/ Register \/ RecordFinish
    \/ (ClearFinished /\ running.id # job.id)
    \/ Pause \/ Resume \/ ClockAdvance \/ KillTimer \/ Kernel

LEMMA QuietRows ==
    ASSUME TypeInv, QuietStep
    PROVE  /\ Len(rows') = Len(rows) /\ UNCHANGED <<queued, cfg, up>>
           /\ now' \in {now, now + 1} /\ AwaitStep
<1>1. rows \in Seq(Row) /\ now \in Int /\ handles \subseteq Handle
  BY TimeFacts DEF TypeInv, TypeOK, TablesOK, ClockOK, MutexOK
<1>2. CASE \/ EnforceOwned \/ EnforceAdopted \/ NothingDue \/ Spawn \/ Register
           \/ (ClearFinished /\ running.id # job.id) \/ Pause
  BY <1>2 DEF EnforceOwned, EnforceAdopted, NothingDue, Spawn, Register, ClearFinished, Pause, memory, tables,
              AwaitStep
<1>3. CASE LaunchFail
  <2>1. -1 \in ExitCodes /\ "launch" \in Errors
    BY DEF ExitCodes, Errors
  <2> QED
    BY <1>1, <1>3, <2>1, FinishRunType DEF LaunchFail, FailedLaunch, memory, AwaitStep
<1>4. CASE RecordFinish
  <2>1. PICK h \in handles : rows' = FinishRun(rows, h.id, h.result, FinishError(h), now)
    BY <1>4 DEF RecordFinish, Recorded
  <2>2. h.result \in ExitCodes /\ FinishError(h) \in Errors
    BY <1>1 DEF FinishError, KillReason, Errors, Handle
  <2>3. Len(rows') = Len(rows)
    BY <1>1, <2>1, <2>2, FinishRunType
  <2> QED
    BY <1>4, <2>3 DEF RecordFinish, memory, AwaitStep
<1>5. CASE Resume
  BY <1>5 DEF Resume, AwaitStep
<1>6. CASE ClockAdvance \/ KillTimer \/ Kernel
  BY <1>6 DEF ClockAdvance, KillTimer, Kernel, ProcessExit, PidReused, StrangerExit, memory, tables,
              AwaitStep
<1> QED
  BY <1>2, <1>3, <1>4, <1>5, <1>6 DEF QuietStep

\* A second daemon and a prune add no row.
LEMMA DatedRows == ASSUME TypeInv, SecondServe \/ PruneHistory PROVE Len(rows') = Len(rows)
<1>1. rows \in Seq(Row) /\ now \in Int
  BY OrderTypes
<1>2. CASE SecondServe
  <2>1. PICK ids : rows' = FinishAllUnknown(rows, ids, now)
    BY <1>2, FinalizingStep
  <2> QED
    BY <1>1, <2>1, FinishAllUnknownType
<1>3. CASE PruneHistory
  <2>1. now - Retention \in Int
    BY <1>1, EngineAssumption
  <2> QED
    BY <1>1, <1>3, <2>1, PruneType DEF PruneHistory
<1> QED
  BY <1>2, <1>3

\* Neither a configuration nor the death of the daemon adds rows.
LEMMA ConfiguredRows ==
    ASSUME TypeInv, OrderInv, NEW c \in Configs, Configure(c), now' = now
    PROVE  /\ Len(rows') = Len(rows) /\ cfg' = c /\ AwaitStep
           /\ queued' = IF c = NoTask THEN NoTime ELSE queued
<1>1. rows \in Seq(Row) /\ now \in Int
  BY TimeFacts DEF TypeInv, TypeOK, TablesOK, ClockOK
<1>2. Len(rows') = Len(rows)
  BY <1>1, FinishAllUnknownType DEF Configure
<1>3. CASE c = NoTask
  <2>1. ForgetTask
    BY <1>3 DEF Configure
  <2> QED
    BY <1>2, <1>3, <2>1 DEF ForgetTask, LoseState, AwaitStep
<1>4. CASE c # NoTask
  <2>1. PICK known \in BOOLEAN : LoadTask(c, known) /\ (known => cfg # NoTask)
    BY <1>4 DEF Configure
  <2>2. cfg' = c /\ queued' = queued
    BY <2>1 DEF LoadTask
  <2>3. CASE KeptFire(c, known) # NoTime
    <3>1. nextFire' = nextFire /\ armed' = armed /\ known /\ cfg.fires = c.fires
      BY <2>1, <2>3 DEF LoadTask, KeptFire
    <3> QED
      BY <1>2, <1>4, <2>1, <2>2, <3>1 DEF AwaitStep
  <2>4. CASE KeptFire(c, known) = NoTime
    <3>1. \/ nextFire' = NextAfter(c.fires, now) /\ armed' = now
          \/ nextFire' = NoTime /\ armed' = NoTime
      BY <2>1, <2>4 DEF LoadTask
    <3> QED
      BY <1>2, <1>4, <2>2, <3>1 DEF AwaitStep
  <2> QED
    BY <2>3, <2>4
<1> QED
  BY <1>3, <1>4

\* A watermark awaits no fire; its run is one for the present, or for the past.
LEMMA WatermarkRows ==
    ASSUME TypeInv, OrderInv, FireWatermark
    PROVE  /\ cfg.fires = {} /\ nextFire = NoTime /\ Len(rows') = Len(rows) + 1
           /\ rows'[Len(rows) + 1].sched = rows'[Len(rows) + 1].upto
           /\ rows'[Len(rows) + 1].upto <= now
<1>1. cfg \in Configs /\ cfg # NoTask /\ cfg.interval > 0 /\ cfg \in TaskConfig
  BY DEF OrderInv, FireWatermark, IsWatermark, DueStep, Locked, TypeInv, HandlerOK, TypeOK, MemoryOK
<1>2. cfg.fires = {}
  BY <1>1, ScheduleAssumption
<1>3. now \in Time /\ now \in Int /\ rows \in Seq(Row)
  BY OrderTypes
<1>4. PICK due : due = watermarkDue
  OBVIOUS
<1>5. due \in Int
  <2>1. lastAttempt \in Int /\ lastSuccess \in Int /\ cfg.interval \in Int /\ NoTime \in Int
    BY <1>1, TimeFacts DEF TypeInv, TypeOK, MemoryOK, TaskConfig
  <2> QED
    BY <1>4, <2>1 DEF watermarkDue
<1>6. PICK sched \in Int, outcome \in Outcomes : sched <= now /\ BeginRun(rows, sched, outcome, "free")
  <2>1. "on_time" \in Outcomes /\ "queued" \in Outcomes
    BY DEF Outcomes
  <2>2. CASE due = NoTime
    BY <1>3, <1>4, <2>1, <2>2 DEF FireWatermark
  <2>3. CASE due # NoTime
    <3>1. due <= now
      BY <1>3, <1>4, <1>5, <2>3 DEF FireWatermark, WatermarkReady
    <3>2. \E outcome \in Outcomes : BeginRun(rows, due, outcome, "free")
      BY <1>4, <2>1, <2>3 DEF FireWatermark
    <3> QED
      BY <1>5, <3>1, <3>2
  <2> QED
    BY <2>2, <2>3
<1>7. PICK row \in Row : row = NewRow(sched, now, outcome, "") /\ row.sched = sched /\ row.upto = sched
  BY <1>3, BegunRow, ZenonT(30)
<1>8. rows' = Append(rows, row)
  BY <1>6, <1>7 DEF BeginRun, StartRun
<1>9. Len(rows') = Len(rows) + 1 /\ rows'[Len(rows) + 1] = row
  BY <1>3, <1>8
<1>10. nextFire = NoTime
  BY <1>2 DEF OrderInv
<1> QED
  BY <1>2, <1>6, <1>7, <1>9, <1>10

LEMMA OrderStep == TypeInv /\ TypeInv' /\ OrderInv /\ [Next]_vars => OrderInv'
<1> SUFFICES ASSUME TypeInv, TypeInv', OrderInv, [Next]_vars PROVE OrderInv'
  OBVIOUS
<1>1. /\ now \in Int /\ Len(rows) \in Nat /\ rows \in Seq(Row) /\ cfg \in Configs
      /\ \A r : Len(r) = Len(rows) => \A i : i \notin Len(rows) + 1 .. Len(r)
      /\ \A r : Len(r) = Len(rows) + 1 => /\ Len(r) >= Len(rows)
                                          /\ \A i \in Len(rows) + 1 .. Len(r) : i = Len(rows) + 1
  BY OrderTypes DEF OrderInv
<1>2. Next => SameFires(rows, rows')
  BY StepFires
<1>3. UNCHANGED <<cfg, nextFire, armed>> => AwaitStep
  BY DEF AwaitStep
<1>4. CASE UNCHANGED vars
  <2>1. OrderInv' = OrderInv
    BY <1>4 DEF vars, memory, tables, OrderInv, InOrder
  <2> QED
    BY <2>1
<1>5. CASE StartFire \/ MissFire \/ QueueFire \/ RestartFire
  BY <1>5, OrderFire
<1>6. CASE FireWatermark
  <2>1. /\ nextFire = NoTime /\ Len(rows') = Len(rows) + 1
        /\ rows'[Len(rows) + 1].sched = rows'[Len(rows) + 1].upto
        /\ rows'[Len(rows) + 1].upto <= now
    BY <1>6, WatermarkRows
  <2>2. UNCHANGED <<cfg, now, nextFire, armed, queued>> /\ Next
    BY <1>6 DEF FireWatermark, Next, TickStep
  <2> QED
    BY <1>1, <1>2, <1>3, <2>1, <2>2, OrderSame
<1>7. CASE SettleAdopted \/ (ClearFinished /\ running.id = job.id)
  <2>1. PICK rows0 \in Seq(Row), cont \in {"free", "due"} : Len(rows0) = Len(rows) /\ StartQueued(rows0, cont)
    BY <1>7, SettledRows
  <2>2. /\ queued' = NoTime /\ (Len(rows') = Len(rows) \/ Len(rows') = Len(rows) + 1)
        /\ \A i \in Len(rows) + 1 .. Len(rows') : rows'[i].sched = queued /\ rows'[i].upto = queued
    BY <2>1, QueuedRows
  <2>3. UNCHANGED <<cfg, now, nextFire, armed>> /\ Next
    BY <1>7 DEF SettleAdopted, ClearFinished, Next, TickStep
  <2> QED
    BY <1>1, <1>2, <1>3, <2>2, <2>3, OrderSame
<1>8. CASE QuietStep
  <2>1. /\ Len(rows') = Len(rows) /\ UNCHANGED <<queued, cfg, up>>
        /\ now' \in {now, now + 1} /\ AwaitStep
    BY <1>8, QuietRows
  <2>2. Next
    BY <1>8 DEF QuietStep, Next, TickStep, Request
  <2> QED
    BY <1>1, <1>2, <2>1, <2>2, OrderSame
<1>9. CASE ReleaseAll
  <2>1. /\ queued' = NoTime /\ (Len(rows') = Len(rows) \/ Len(rows') = Len(rows) + 1)
        /\ \A i \in Len(rows) + 1 .. Len(rows') : rows'[i].sched = queued /\ rows'[i].upto = queued
    BY <1>9, ReleasedRows
  <2>2. UNCHANGED <<cfg, now, nextFire, armed>> /\ Next
    BY <1>9 DEF ReleaseAll, Next
  <2> QED
    BY <1>1, <1>2, <1>3, <2>1, <2>2, OrderSame
<1>10. CASE Trigger
  <2>1. Len(rows') = Len(rows) + 1 /\ rows'[Len(rows) + 1].outcome = "manual"
    BY <1>10, TriggeredRows
  <2>2. UNCHANGED <<cfg, now, nextFire, queued, armed>> /\ Next
    BY <1>10 DEF Trigger, Next, Request, memory
  <2> QED
    BY <1>1, <1>2, <1>3, <2>1, <2>2, OrderSame
<1>11. CASE Reload \/ Start
  <2>1. PICK c \in Configs : Configure(c)
    BY <1>1, <1>11 DEF Reload, Start, Loadable
  <2>2. now' = now /\ Next
    BY <1>11 DEF Reload, Start, Next, Request
  <2>3. Len(rows') = Len(rows) /\ cfg' = c /\ AwaitStep /\ queued' \in {queued, NoTime}
    BY <2>1, <2>2, ConfiguredRows
  <2> QED
    BY <1>1, <1>2, <2>2, <2>3, OrderSame
<1>12. CASE Drained \/ Crash
  <2>1. /\ UNCHANGED <<cfg, now, rows>> /\ queued' = NoTime /\ AwaitStep
        /\ Next
    BY <1>12 DEF Drained, Crash, Die, LoseState, tables, Next, AwaitStep
  <2> QED
    BY <1>1, <1>2, <2>1, OrderSame
<1>13. CASE SecondServe \/ PruneHistory
  <2>1. Len(rows') = Len(rows) /\ UNCHANGED <<cfg, now, nextFire, armed, queued>> /\ Next
    BY <1>13, DatedRows DEF SecondServe, PruneHistory, memory, Next
  <2> QED
    BY <1>1, <1>2, <1>3, <2>1, OrderSame
<1> QED
  BY <1>4, <1>5, <1>6, <1>7, <1>8, <1>9, <1>10, <1>11, <1>12, <1>13
     DEF Next, TickStep, Request, QuietStep

-----------------------------------------------------------------------------
(* Every fire has its row *)

\* The rows of r, a manual run's aside, that are about a fire.
Covering(r, f) == {i \in 1 .. Len(r) : r[i].outcome # "manual" /\ r[i].sched <= f /\ f <= r[i].upto}

\* A fire is in the queue, or it is in one row.
Accounted(r, q, f) == IF q = f THEN Covering(r, f) = {} ELSE \E i : Covering(r, f) = {i}

\* So is every fire since the next one was last computed from the clock.
AccountInv ==
    cfg # NoTask /\ armed # NoTime =>
        \A f \in cfg.fires : f > armed /\ (nextFire = NoTime \/ f < nextFire) => Accounted(rows, queued, f)

LEMMA CoveringGrows ==
    ASSUME NEW r \in Seq(Row), NEW s \in Seq(Row), SameFires(r, s), Len(s) >= Len(r), NEW f
    PROVE  Covering(s, f) = Covering(r, f) \cup {i \in Covering(s, f) : i \in Len(r) + 1 .. Len(s)}
<1>1. Len(r) \in Nat /\ Len(s) \in Nat
  OBVIOUS
<1>2. \A i \in 1 .. Len(s) : i \in 1 .. Len(r) \/ i \in Len(r) + 1 .. Len(s)
  BY <1>1
<1>3. \A i \in 1 .. Len(r) : i \in 1 .. Len(s) /\ (i \in Covering(s, f) <=> i \in Covering(r, f))
  BY <1>1 DEF SameFires, Covering
<1>4. Covering(r, f) \subseteq 1 .. Len(r) /\ Covering(s, f) \subseteq 1 .. Len(s)
  BY DEF Covering
<1> QED
  BY <1>2, <1>3, <1>4

\* The queued fire gets its row.
LEMMA CoveringAdded ==
    ASSUME NEW r \in Seq(Row), NEW s \in Seq(Row), SameFires(r, s), Len(s) = Len(r) + 1, NEW f \in Int,
           s[Len(r) + 1].sched = s[Len(r) + 1].upto, s[Len(r) + 1].outcome # "manual"
    PROVE  Covering(s, f) = Covering(r, f) \cup (IF s[Len(r) + 1].upto = f THEN {Len(r) + 1} ELSE {})
<1>1. PICK n : n = Len(r) + 1
  OBVIOUS
<1>2. Len(r) \in Nat /\ n \in 1 .. Len(s) /\ s[n].upto \in Int
  <2>1. Len(r) \in Nat /\ n \in 1 .. Len(s)
    BY <1>1
  <2>2. s[n] \in Row
    BY <2>1
  <2> QED
    BY <2>1, <2>2 DEF Row
<1>3. n \in Covering(s, f) <=> s[n].upto = f
  BY <1>1, <1>2 DEF Covering
<1>4. \A i : i \in Len(r) + 1 .. Len(s) <=> i = n
  BY <1>1, <1>2
<1>5. Covering(s, f) = Covering(r, f) \cup {i \in Covering(s, f) : i \in Len(r) + 1 .. Len(s)}
  BY <1>2, CoveringGrows
<1> QED
  BY <1>1, <1>3, <1>4, <1>5

\* No fire comes due: the queued one may get its row.
LEMMA AccountSame ==
    ASSUME TypeInv, TypeInv', AccountInv, SameFires(rows, rows'), cfg' \in Configs, AwaitStep,
           \/ /\ queued' = queued /\ Len(rows') >= Len(rows)
              /\ \A i \in Len(rows) + 1 .. Len(rows') : rows'[i].outcome = "manual"
           \/ /\ queued # NoTime /\ queued' = NoTime /\ Len(rows') = Len(rows) + 1
              /\ rows'[Len(rows) + 1].sched = queued /\ rows'[Len(rows) + 1].upto = queued
              /\ rows'[Len(rows) + 1].outcome # "manual"
           \/ armed' = NoTime
           \/ cfg' # NoTask /\ cfg'.fires = {}
    PROVE  AccountInv'
<1> SUFFICES ASSUME cfg' # NoTask, armed' # NoTime, NEW f \in cfg'.fires, f > armed',
                    nextFire' = NoTime \/ f < nextFire'
             PROVE  Accounted(rows', queued', f)
  BY DEF AccountInv
<1>1. /\ now \in Int /\ nextFire \in Int /\ queued \in Int /\ rows \in Seq(Row) /\ Len(rows) \in Nat
      /\ rows' \in Seq(Row) /\ NoTime = -1
  BY OrderTypes DEF TypeInv, TypeOK, TablesOK
<1>2. cfg'.fires \in SUBSET Nat /\ f \in Nat /\ f \in Int /\ f # NoTime
  BY <1>1, ConfigFires
<1>3. ~(now' = now /\ armed' = now /\ nextFire' = NextAfter(cfg'.fires, now))
  <2> SUFFICES ASSUME armed' = now, nextFire' = NextAfter(cfg'.fires, now) PROVE FALSE
    OBVIOUS
  <2>1. PICK n \in Int : n = NextAfter(cfg'.fires, now) /\ n # NoTime /\ n <= f
    BY <1>1, <1>2, NextAfterType
  <2> QED
    BY <1>2, <2>1
<1>4. UNCHANGED <<nextFire, armed>> /\ cfg # NoTask /\ cfg'.fires = cfg.fires
  BY <1>3 DEF AwaitStep
<1>5. Accounted(rows, queued, f)
  BY <1>4 DEF AccountInv
<1>6. CASE /\ queued' = queued /\ Len(rows') >= Len(rows)
           /\ \A i \in Len(rows) + 1 .. Len(rows') : rows'[i].outcome = "manual"
  <2>1. {i \in Covering(rows', f) : i \in Len(rows) + 1 .. Len(rows')} = {}
    BY <1>6 DEF Covering
  <2>2. Covering(rows', f) = Covering(rows, f) \cup {i \in Covering(rows', f) : i \in Len(rows) + 1 .. Len(rows')}
    BY <1>1, <1>6, CoveringGrows
  <2>3. Covering(rows', f) = Covering(rows, f)
    BY <2>1, <2>2
  <2> QED
    BY <1>5, <1>6, <2>3 DEF Accounted
<1>7. CASE /\ queued # NoTime /\ queued' = NoTime /\ Len(rows') = Len(rows) + 1
           /\ rows'[Len(rows) + 1].sched = queued /\ rows'[Len(rows) + 1].upto = queued
           /\ rows'[Len(rows) + 1].outcome # "manual"
  <2>1. Covering(rows', f) = Covering(rows, f) \cup (IF queued = f THEN {Len(rows) + 1} ELSE {})
    BY <1>1, <1>2, <1>7, CoveringAdded
  <2> QED
    BY <1>2, <1>5, <1>7, <2>1 DEF Accounted
<1> QED
  BY <1>6, <1>7

\* FiresBetween takes the earliest of the elapsed fires.
LEMMA FiresBetweenFront ==
    ASSUME NEW F \in SUBSET Nat, NEW after \in Int, NEW until \in Int, NEW max \in Nat,
           NEW l \in FiresBetween(F, after, until, max), NEW f \in F, after < f, f <= l
    PROVE  f \in FiresBetween(F, after, until, max)
<1> DEFINE elapsed == {g \in F : after < g /\ g <= until}
           before(t) == {g \in elapsed : g < t}
<1>1. FiresBetween(F, after, until, max) = {t \in elapsed : Cardinality(before(t)) < max}
  BY DEF FiresBetween
<1>2. l \in elapsed /\ Cardinality(before(l)) < max /\ f \in Nat /\ l \in Nat
  BY <1>1
<1>3. f \in elapsed
  BY <1>2
<1>4. before(f) \subseteq before(l) /\ before(l) \in SUBSET Nat /\ \A g \in before(l) : g <= l
  <2>1. \A g \in elapsed : g \in Nat /\ (g < f => g < l) /\ (g < l => g <= l)
    BY <1>2
  <2> HIDE DEF elapsed
  <2> QED
    BY <2>1
<1> HIDE DEF before
<1>5. IsFiniteSet(before(l))
  BY <1>2, <1>4, FS_BoundedSetOfNaturals
<1>6. IsFiniteSet(before(f)) /\ Cardinality(before(f)) <= Cardinality(before(l))
  BY <1>4, <1>5, FS_Subset
<1>7. Cardinality(before(f)) \in Nat /\ Cardinality(before(l)) \in Nat
  BY <1>5, <1>6, FS_CardinalityType
<1>8. Cardinality(before(f)) < max
  BY <1>2, <1>6, <1>7
<1> QED
  BY <1>1, <1>3, <1>8

\* The ascending sequence of a finite set has all its members.
LEMMA AscendingHas ==
    ASSUME NEW S, S \subseteq Int, IsFiniteSet(S), NEW s \in Ascending(S), NEW x \in S
    PROVE  \E i \in 1 .. Cardinality(S) : s[i] = x
<1> DEFINE n == Cardinality(S)
<1>1. n \in Nat
  BY FS_CardinalityType
<1>2. IsFiniteSet(1 .. n) /\ Cardinality(1 .. n) = n
  BY <1>1, FS_Interval
<1>3. s \in [1 .. n -> S] /\ \A i, j \in 1 .. n : i < j => s[i] < s[j]
  BY DEF Ascending
<1>4. ASSUME NEW i \in 1 .. n, NEW j \in 1 .. n, s[i] = s[j] PROVE i = j
  <2>1. s[i] \in Int /\ s[j] \in Int
    BY <1>3
  <2> QED
    BY <1>1, <1>3, <1>4, <2>1
<1>5. s \in Injection(1 .. n, S)
  BY <1>3, <1>4 DEF Injection, IsInjective
<1>6. s \in Surjection(1 .. n, S)
  BY <1>2, <1>5, FS_Injection
<1> QED
  BY <1>6 DEF Surjection

\* No fire of the task is left out between the one awaited and the last.
LEMMA ElapsedHas ==
    ASSUME TypeInv, CronFires, NEW fires \in Elapsed,
           NEW f \in cfg.fires, nextFire <= f, f <= Last(fires)
    PROVE  \E k \in 1 .. Len(fires) : fires[k] = f
<1> DEFINE B == FiresBetween(cfg.fires, nextFire, now, MaxBatch)
           S == {nextFire} \cup B
<1>1. /\ nextFire \in Time /\ nextFire \in Nat /\ now \in Int /\ cfg \in TaskConfig /\ cfg.fires \in SUBSET Time
      /\ Time \subseteq Nat /\ f \in Nat /\ MaxBatch \in Nat
  BY DueNotEarly, OrderTypes, TimeFacts, EngineAssumption DEF TaskConfig
<1>2. S \subseteq Time /\ IsFiniteSet(S) /\ S \subseteq Int
  <2>1. S \subseteq Time
    BY <1>1 DEF FiresBetween
  <2> HIDE DEF S
  <2>2. IsFiniteSet(S)
    BY <2>1, TimeFacts, FS_Subset
  <2>3. S \subseteq Int
    BY <2>1, TimeIsInt
  <2> QED
    BY <2>1, <2>2, <2>3
<1> HIDE DEF B
<1>3. fires \in Ascending(S)
  BY DEF Elapsed, B
<1> HIDE DEF S
<1>4. fires \in Seq(S) /\ Len(fires) >= 1 /\ Last(fires) \in S /\ Cardinality(S) = Len(fires)
  <2>1. S # {}
    BY DEF S
  <2>2. fires \in [1 .. Cardinality(S) -> S] /\ Cardinality(S) \in Nat
    BY <1>2, <1>3, FS_CardinalityType DEF Ascending
  <2>3. fires \in Seq(S) /\ Len(fires) >= 1 /\ Last(fires) \in S
    BY <1>2, <1>3, <2>1, AscendingType DEF Last
  <2> QED
    BY <2>2, <2>3
<1>5. f \in S
  <2>1. CASE f = nextFire
    BY <2>1 DEF S
  <2>2. CASE f # nextFire
    <3>1. nextFire < f /\ Last(fires) \in Nat
      <4>1. nextFire < f
        BY ONLY <1>1, <2>2, nextFire <= f
      <4>2. Last(fires) \in Nat
        BY <1>1, <1>2, <1>4
      <4> QED
        BY <4>1, <4>2
    <3>2. Last(fires) \in B
      BY <1>1, <1>4, <3>1 DEF S
    <3>3. PICK l : l = Last(fires)
      OBVIOUS
    <3>4. l \in FiresBetween(cfg.fires, nextFire, now, MaxBatch) /\ f <= l
      BY <3>2, <3>3 DEF B
    <3>5. f \in B
      BY <1>1, <3>1, <3>4, FiresBetweenFront DEF B
    <3> QED
      BY <3>5 DEF S
  <2> QED
    BY <2>1, <2>2
<1>6. \E k \in 1 .. Cardinality(S) : fires[k] = f
  BY <1>2, <1>3, <1>5, AscendingHas
<1> QED
  BY <1>4, <1>6

\* What the backlog is about: the fires before the last one, each once.
LEMMA BacklogCovers ==
    ASSUME TypeInv, OrderInv, CronFires, NEW fires \in Elapsed, NEW b, b = Backlogged(fires),
           NEW f \in cfg.fires
    PROVE  /\ f < nextFire => Covering(b, f) = Covering(rows, f)
           /\ nextFire <= f => Covering(rows, f) = {}
           /\ f = Last(fires) => Covering(b, f) = {}
           /\ nextFire <= f /\ f < Last(fires) => \E i : Covering(b, f) = {i}
<1> DEFINE new == Len(rows) + 1 .. Len(b)
           more == {i \in Covering(b, f) : i \in new}
<1>1. /\ rows \in Seq(Row) /\ b \in Seq(Row) /\ Len(b) >= Len(rows) /\ SameFires(rows, b)
      /\ \A i \in 1 .. Len(rows) : rows[i].sched \in Int /\ rows[i].upto \in Int
      /\ Len(rows) \in Nat /\ Len(b) \in Nat
  BY OrderTypes, BackloggedType DEF SameFires
<1>2. /\ nextFire \in Int /\ nextFire # NoTime /\ f \in Int /\ Last(fires) \in Int
      /\ nextFire <= Last(fires)
  <2>1. f \in Nat /\ nextFire \in Time
    BY DueNotEarly, TimeFacts DEF TaskConfig
  <2>2. Last(fires) \in Int /\ nextFire <= Last(fires)
    BY ElapsedOrder DEF Last
  <2> QED
    BY <2>1, <2>2, TimeFacts
<1>3. /\ \A i \in new : MissedWithin(b[i], nextFire, Last(fires))
      /\ \A i, j \in new : i < j => b[i].upto < b[j].sched
      /\ \A k \in 1 .. Len(fires) - 1 : \E i \in new : b[i].sched <= fires[k] /\ fires[k] <= b[i].upto
  <2>1. LET s == Backlogged(fires)
        IN  /\ \A i \in Len(rows) + 1 .. Len(s) : MissedWithin(s[i], nextFire, Last(fires))
            /\ \A i, j \in Len(rows) + 1 .. Len(s) : i < j => s[i].upto < s[j].sched
            /\ \A k \in 1 .. Len(fires) - 1 : \E i \in Len(rows) + 1 .. Len(s) :
                   s[i].sched <= fires[k] /\ fires[k] <= s[i].upto
    BY ONLY TypeInv, CronFires, fires \in Elapsed, BacklogFires, Zenon
  <2> QED
    BY <2>1
<1>4. \A i \in new : b[i].sched \in Int /\ b[i].upto \in Int /\ i \in Int /\ i \in 1 .. Len(b)
  <2> TAKE i \in new
  <2>1. i \in 1 .. Len(b) /\ i \in Int
    BY <1>1
  <2>2. b[i] \in Row
    BY <1>1, <2>1
  <2> QED
    BY <2>1, <2>2 DEF Row
<1>5. Covering(b, f) = Covering(rows, f) \cup more
  BY <1>1, CoveringGrows
<1> HIDE DEF new
<1>6. \A i : i \in more <=> i \in new /\ b[i].sched <= f /\ f <= b[i].upto
  BY <1>3, <1>4 DEF Covering, MissedWithin
<1> HIDE DEF more
<1>7. nextFire <= f => Covering(rows, f) = {}
  <2> SUFFICES ASSUME nextFire <= f, NEW i \in Covering(rows, f) PROVE FALSE
    OBVIOUS
  <2>1. i \in 1 .. Len(rows) /\ rows[i].outcome # "manual" /\ f <= rows[i].upto
    BY DEF Covering
  <2>2. InOrder(rows[i])
    BY <2>1 DEF OrderInv
  <2>3. rows[i].upto < nextFire /\ rows[i].upto \in Int
    BY <1>1, <1>2, <2>1, <2>2 DEF InOrder
  <2> QED
    BY <1>2, <2>1, <2>3
<1>8. f < nextFire \/ f = Last(fires) => more = {}
  <2> SUFFICES ASSUME f < nextFire \/ f = Last(fires), NEW i \in more PROVE FALSE
    OBVIOUS
  <2> QED
    BY <1>2, <1>3, <1>4, <1>6 DEF MissedWithin
<1>9. \A i, j \in more : i = j
  <2> TAKE i, j \in more
  <2>1. i \in Int /\ j \in Int /\ ~(i < j) /\ ~(j < i)
    BY <1>2, <1>3, <1>4, <1>6
  <2> QED
    BY <2>1
<1>10. nextFire <= f /\ f < Last(fires) => \E i : i \in more
  <2> SUFFICES ASSUME nextFire <= f, f < Last(fires) PROVE \E i : i \in more
    OBVIOUS
  <2>1. PICK k \in 1 .. Len(fires) : fires[k] = f
    BY <1>2, ElapsedHas
  <2>2. k # Len(fires) /\ Len(fires) \in Nat
    BY <1>2, <2>1, ElapsedOrder DEF Last
  <2>3. k \in 1 .. Len(fires) - 1
    BY <2>2
  <2> QED
    BY <1>3, <1>6, <2>1, <2>3
<1>11. nextFire <= f /\ f < Last(fires) => \E i : Covering(b, f) = {i}
  BY <1>5, <1>7, <1>9, <1>10, SMTT(30)
<1> QED
  BY <1>2, <1>5, <1>7, <1>8, <1>11

\* The elapsed fires get their rows, the last of them the queue perhaps.
LEMMA AccountFire ==
    TypeInv /\ TypeInv' /\ OrderInv /\ AccountInv /\ (StartFire \/ MissFire \/ QueueFire \/ RestartFire)
    => AccountInv'
<1> SUFFICES ASSUME TypeInv, TypeInv', OrderInv, AccountInv, StartFire \/ MissFire \/ QueueFire \/ RestartFire
             PROVE  AccountInv'
  OBVIOUS
<1>1. CronFires /\ queued \in Int /\ rows' \in Seq(Row)
  BY OrderTypes DEF StartFire, MissFire, QueueFire, RestartFire, TypeInv, TypeOK, TablesOK
<1>2. PICK fires \in Elapsed :
        /\ FireCron(fires)
        /\ \/ /\ queued' = queued
              /\ \E row \in Row :
                    /\ rows' = Append(Backlogged(fires), row)
                    /\ row.sched = Last(fires) /\ row.upto = Last(fires) /\ row.outcome # "manual"
           \/ queued = NoTime /\ queued' = Last(fires) /\ rows' = Backlogged(fires)
           \/ /\ queued # NoTime /\ queued' = Last(fires)
              /\ \E row \in Row :
                    /\ rows' = Append(Backlogged(fires), row)
                    /\ row.sched = queued /\ row.upto = queued /\ row.outcome # "manual"
  BY FiredRows
<1>3. PICK b, last : b = Backlogged(fires) /\ last = Last(fires)
  OBVIOUS
<1> SUFFICES ASSUME cfg # NoTask, armed # NoTime, NEW f \in cfg.fires, f > armed,
                    nextFire' = NoTime \/ f < nextFire'
             PROVE  Accounted(rows', queued', f)
  BY <1>2 DEF AccountInv, FireCron
<1>4. /\ nextFire \in Int /\ nextFire # NoTime /\ cfg.fires \in SUBSET Nat /\ f \in Int /\ f # NoTime
      /\ last \in Int /\ nextFire <= last /\ b \in Seq(Row)
  <2>1. nextFire \in Time /\ cfg.fires \in SUBSET Nat
    BY <1>1, DueNotEarly, TimeFacts DEF TaskConfig
  <2>2. last \in Int /\ nextFire <= last
    BY <1>1, <1>3, ElapsedOrder DEF Last
  <2>3. b \in Seq(Row)
    BY <1>1, <1>3, BackloggedType
  <2>4. f \in Int /\ f # NoTime
    BY <2>1 DEF NoTime
  <2> QED
    BY <2>1, <2>2, <2>3, <2>4, TimeFacts
<1>5. f <= last
  <2>1. PICK next \in Int : /\ next = NextAfter(cfg.fires, last)
                            /\ f > last => next # NoTime /\ next <= f
    BY <1>4, NextAfterType DEF NoTime
  <2>2. next = NoTime \/ f < next
    BY <1>2, <1>3, <2>1 DEF FireCron
  <2> QED
    BY <1>4, <2>1, <2>2
<1>6. /\ f < nextFire => Covering(b, f) = Covering(rows, f)
      /\ f = last => Covering(b, f) = {}
      /\ nextFire <= f /\ f < last => \E i : Covering(b, f) = {i}
  BY <1>1, <1>3, BacklogCovers
<1>7. queued < nextFire
  BY <1>4 DEF OrderInv
<1>8. f # last => Accounted(b, queued, f)
  <2>1. CASE f < nextFire
    <3>1. Accounted(rows, queued, f)
      BY <2>1 DEF AccountInv
    <3> QED
      BY <1>6, <2>1, <3>1 DEF Accounted
  <2>2. CASE nextFire <= f /\ f # last
    <3>1. queued # f /\ f < last
      BY <1>1, <1>4, <1>5, <1>7, <2>2
    <3> QED
      BY <1>6, <2>2, <3>1 DEF Accounted
  <2> QED
    BY <1>4, <2>1, <2>2
<1>9. queued # last
  BY <1>1, <1>4, <1>7
<1>10. ASSUME NEW row \in Row, rows' = Append(b, row), row.sched = row.upto, row.outcome # "manual"
      PROVE  Covering(rows', f) = Covering(b, f) \cup (IF row.upto = f THEN {Len(b) + 1} ELSE {})
  <2>1. /\ Len(rows') = Len(b) + 1 /\ rows'[Len(b) + 1] = row
        /\ \A i \in 1 .. Len(b) : rows'[i] = b[i]
    BY <1>4, <1>10
  <2>2. SameFires(b, rows')
    BY <2>1 DEF SameFires
  <2>3. PICK m : m = Len(b) + 1
    OBVIOUS
  <2>4. rows'[m].sched = rows'[m].upto /\ rows'[m].outcome # "manual"
    BY <1>10, <2>1, <2>3
  <2>5. Covering(rows', f) = Covering(b, f) \cup (IF rows'[m].upto = f THEN {m} ELSE {})
    BY ONLY <1>1, <1>4, <2>1, <2>2, <2>3, <2>4, CoveringAdded
  <2> QED
    BY <2>1, <2>3, <2>5
<1>11. CASE /\ queued' = queued
            /\ \E row \in Row : /\ rows' = Append(b, row)
                                /\ row.sched = last /\ row.upto = last /\ row.outcome # "manual"
  <2>1. Covering(rows', f) = Covering(b, f) \cup (IF last = f THEN {Len(b) + 1} ELSE {})
    BY <1>10, <1>11
  <2> QED
    BY <1>6, <1>8, <1>9, <1>11, <2>1 DEF Accounted
<1>12. CASE queued = NoTime /\ queued' = last /\ rows' = b
  BY <1>4, <1>6, <1>8, <1>12 DEF Accounted
<1>13. CASE /\ queued # NoTime /\ queued' = last
            /\ \E row \in Row : /\ rows' = Append(b, row)
                                /\ row.sched = queued /\ row.upto = queued /\ row.outcome # "manual"
  <2>1. Covering(rows', f) = Covering(b, f) \cup (IF queued = f THEN {Len(b) + 1} ELSE {})
    BY <1>10, <1>13
  <2> QED
    BY <1>6, <1>8, <1>9, <1>13, <2>1 DEF Accounted
<1> QED
  BY <1>2, <1>3, <1>11, <1>12, <1>13

LEMMA AccountStep == TypeInv /\ TypeInv' /\ OrderInv /\ OrderInv' /\ AccountInv /\ [Next]_vars => AccountInv'
<1> SUFFICES ASSUME TypeInv, TypeInv', OrderInv, OrderInv', AccountInv, [Next]_vars PROVE AccountInv'
  OBVIOUS
<1>1. /\ now \in Int /\ Len(rows) \in Nat /\ rows \in Seq(Row) /\ cfg \in Configs /\ cfg' \in Configs
      /\ \A r : Len(r) = Len(rows) => Len(r) >= Len(rows) /\ \A i : i \notin Len(rows) + 1 .. Len(r)
      /\ \A r : Len(r) = Len(rows) + 1 => /\ Len(r) >= Len(rows)
                                          /\ \A i \in Len(rows) + 1 .. Len(r) : i = Len(rows) + 1
  BY OrderTypes DEF OrderInv
<1>2. Next => SameFires(rows, rows')
  BY StepFires
<1>3. UNCHANGED <<cfg, nextFire, armed>> => AwaitStep
  BY DEF AwaitStep
<1>4. CASE UNCHANGED vars
  BY <1>4 DEF vars, memory, tables, AccountInv
<1>5. CASE StartFire \/ MissFire \/ QueueFire \/ RestartFire
  BY <1>5, AccountFire
<1>6. CASE FireWatermark
  <2>1. UNCHANGED <<cfg, nextFire, armed>> /\ Next /\ cfg # NoTask
    BY <1>6 DEF FireWatermark, Next, TickStep, DueStep, Locked, TypeInv, HandlerOK
  <2>2. cfg.fires = {}
    BY <1>6, WatermarkRows
  <2> QED
    BY <1>1, <1>2, <1>3, <2>1, <2>2, AccountSame
<1>7. ASSUME UNCHANGED <<cfg, nextFire, armed>>, Next, queued' = NoTime,
             queued = NoTime => Len(rows') = Len(rows),
             queued # NoTime => /\ Len(rows') = Len(rows) + 1
                                /\ \/ LedgerEntry(rows'[Len(rows) + 1]) = Ledger!Run(queued)
                                   \/ LedgerEntry(rows'[Len(rows) + 1]) = Ledger!Missed(queued),
             \A i \in Len(rows) + 1 .. Len(rows') : rows'[i].sched = queued /\ rows'[i].upto = queued
      PROVE  AccountInv'
  <2>1. CASE queued = NoTime
    BY <1>1, <1>2, <1>3, <1>7, <2>1, AccountSame
  <2>2. CASE queued # NoTime
    <3>1. PICK n : n = Len(rows) + 1
      OBVIOUS
    <3>2. rows'[n].outcome # "manual"
      BY <1>7, <2>2, <3>1, NotManual
    <3>3. n \in Len(rows) + 1 .. Len(rows')
      BY <1>1, <1>7, <2>2, <3>1
    <3>4. rows'[n].sched = queued /\ rows'[n].upto = queued
      BY <1>7, <3>3
    <3> QED
      BY <1>1, <1>2, <1>3, <1>7, <2>2, <3>1, <3>2, <3>4, AccountSame
  <2> QED
    BY <2>1, <2>2
<1>8. CASE SettleAdopted \/ (ClearFinished /\ running.id = job.id)
  <2>1. PICK rows0 \in Seq(Row), cont \in {"free", "due"} : Len(rows0) = Len(rows) /\ StartQueued(rows0, cont)
    BY <1>8, SettledRows
  <2>2. /\ queued' = NoTime
        /\ queued = NoTime => Len(rows') = Len(rows)
        /\ queued # NoTime => /\ Len(rows') = Len(rows) + 1
                              /\ LedgerEntry(rows'[Len(rows) + 1]) = Ledger!Run(queued)
        /\ \A i \in Len(rows) + 1 .. Len(rows') : rows'[i].sched = queued /\ rows'[i].upto = queued
    BY <2>1, QueuedRows
  <2>3. UNCHANGED <<cfg, nextFire, armed>> /\ Next
    BY <1>8 DEF SettleAdopted, ClearFinished, Next, TickStep
  <2> QED
    BY <1>7, <2>2, <2>3
<1>9. CASE ReleaseAll
  <2>1. UNCHANGED <<cfg, nextFire, armed>> /\ Next
    BY <1>9 DEF ReleaseAll, Next
  <2> QED
    BY <1>7, <1>9, <2>1, ReleasedRows
<1>10. CASE QuietStep
  <2>1. Len(rows') = Len(rows) /\ UNCHANGED queued /\ AwaitStep
    BY <1>10, QuietRows
  <2>2. Next
    BY <1>10 DEF QuietStep, Next, TickStep, Request
  <2> QED
    BY <1>1, <1>2, <2>1, <2>2, AccountSame
<1>11. CASE Trigger
  <2>1. Len(rows') = Len(rows) + 1 /\ rows'[Len(rows) + 1].outcome = "manual"
    BY <1>11, TriggeredRows
  <2>2. UNCHANGED <<cfg, nextFire, queued, armed>> /\ Next
    BY <1>11 DEF Trigger, Next, Request, memory
  <2> QED
    BY <1>1, <1>2, <1>3, <2>1, <2>2, AccountSame
<1>12. CASE Reload \/ Start
  <2>1. PICK c \in Configs : Configure(c)
    BY <1>1, <1>12 DEF Reload, Start, Loadable
  <2>2. now' = now /\ Next
    BY <1>12 DEF Reload, Start, Next, Request
  <2>3. Len(rows') = Len(rows) /\ cfg' = c /\ AwaitStep /\ queued' = IF c = NoTask THEN NoTime ELSE queued
    BY <2>1, <2>2, ConfiguredRows
  <2>4. CASE c = NoTask
    BY <2>3, <2>4 DEF AccountInv
  <2>5. CASE c # NoTask
    BY <1>1, <1>2, <2>2, <2>3, <2>5, AccountSame
  <2> QED
    BY <2>4, <2>5
<1>13. CASE Drained \/ Crash
  <2>1. armed' = NoTime
    BY <1>13 DEF Drained, Crash, Die, LoseState
  <2> QED
    BY <2>1 DEF AccountInv
<1>14. CASE SecondServe \/ PruneHistory
  <2>1. Len(rows') = Len(rows) /\ UNCHANGED <<cfg, nextFire, armed, queued>> /\ Next
    BY <1>14, DatedRows DEF SecondServe, PruneHistory, memory, Next
  <2> QED
    BY <1>1, <1>2, <1>3, <2>1, AccountSame
<1> QED
  BY <1>4, <1>5, <1>6, <1>8, <1>9, <1>10, <1>11, <1>12, <1>13, <1>14
     DEF Next, TickStep, Request, QuietStep

LEMMA AccountedOnce == TypeInv /\ AccountInv => FiresAccounted
<1> SUFFICES ASSUME TypeInv, AccountInv, cfg # NoTask, armed # NoTime, NEW f \in cfg.fires, f > armed,
                    nextFire = NoTime \/ f < nextFire
             PROVE  Accounts(f) = 1
  BY DEF FiresAccounted
<1>1. Accounted(rows, queued, f)
  BY DEF AccountInv
<1>2. Accounts(f) = Cardinality(Covering(rows, f)) + (IF queued = f THEN 1 ELSE 0)
  <2>1. DOMAIN rows = 1 .. Len(rows)
    BY OrderTypes
  <2> QED
    BY <2>1 DEF Accounts, Covering
<1>3. CASE queued = f
  <2>1. Cardinality(Covering(rows, f)) = 0
    BY <1>1, <1>3, FS_EmptySet DEF Accounted
  <2> QED
    BY <1>2, <1>3, <2>1
<1>4. CASE queued # f
  <2>1. Cardinality(Covering(rows, f)) = 1
    BY <1>1, <1>4, FS_Singleton DEF Accounted
  <2> QED
    BY <1>2, <1>4, <2>1
<1> QED
  BY <1>3, <1>4

\* store.go "Every planned fire ends up as exactly one row": whatever the
\* engine is asked to do and wherever its daemon dies, each fire between the
\* instant nextFire was computed for and nextFire itself is in one row, or
\* waits in the queue and is in none.
THEOREM EveryFireOnce == Spec => []FiresAccounted
<1>1. Init => AccountInv
  BY DEF Init, AccountInv
<1> QED
  BY <1>1, TypeInit, TypeStep, OrderInit, OrderStep, AccountStep, AccountedOnce, PTL DEF Spec

-----------------------------------------------------------------------------
(* The streak *)

\* A reload sets the streak to 0 and keeps the queued fire.
StreakAssumption == "reload" \notin Events

\* The rows beyond n that are late, with none on time after them.
Behind(r, n) == {i \in 1 .. Len(r) : i > n /\ Late(r[i]) /\ \A j \in i .. Len(r) : r[j].outcome # "on_time"}

StreakIs(q) == streak = Cardinality(Behind(rows, born)) + (IF q = NoTime THEN 0 ELSE 1)

\* The streak counts those rows and the queued fire.  A watermark that never
\* ran has none: the one run it is given at once leaves it alone.
StreakInv ==
    /\ born <= Len(rows)
    /\ pc \in {"spawn", "register"} => rows[job.id].start >= 0
    /\ up = "up" /\ cfg # NoTask =>
          /\ StreakIs(queued)
          /\ IsWatermark(cfg) /\ watermarkDue = NoTime => streak = 0

LEMMA StreakInit == Init => StreakInv
BY DEF Init, StreakInv

LEMMA BehindType ==
    ASSUME NEW r \in Seq(Row), NEW n \in Nat
    PROVE  IsFiniteSet(Behind(r, n)) /\ Cardinality(Behind(r, n)) \in Nat /\ Behind(r, n) \subseteq 1 .. Len(r)
<1>1. Behind(r, n) \subseteq 1 .. Len(r)
  BY DEF Behind
<1>2. IsFiniteSet(1 .. Len(r))
  BY FS_Interval
<1> QED
  BY <1>1, <1>2, FS_Subset, FS_CardinalityType

\* Rows of other fires do not count.
LEMMA BehindSame ==
    ASSUME NEW r \in Seq(Row), NEW s \in Seq(Row), SameFires(r, s), Len(s) >= Len(r), NEW n \in Nat,
           \A i \in Len(r) + 1 .. Len(s) : ~Late(s[i]) /\ s[i].outcome # "on_time"
    PROVE  Behind(s, n) = Behind(r, n)
<1>1. Len(r) \in Nat /\ Len(s) \in Nat
  OBVIOUS
<1>2. \A i \in 1 .. Len(r) : i \in 1 .. Len(s) /\ s[i].outcome = r[i].outcome /\ (Late(s[i]) <=> Late(r[i]))
  BY <1>1 DEF SameFires, Late
<1>3. \A i \in 1 .. Len(s) : i \in 1 .. Len(r) \/ i \in Len(r) + 1 .. Len(s)
  BY <1>1
<1>4. ASSUME NEW i \in Behind(s, n) PROVE i \in Behind(r, n)
  <2>1. i \in 1 .. Len(r) /\ i > n /\ Late(r[i]) /\ \A j \in i .. Len(s) : s[j].outcome # "on_time"
    BY <1>2, <1>3 DEF Behind
  <2>2. \A j \in i .. Len(r) : j \in 1 .. Len(r) /\ j \in i .. Len(s)
    BY <1>1, <2>1
  <2> QED
    BY <1>2, <2>1, <2>2 DEF Behind
<1>5. ASSUME NEW i \in Behind(r, n) PROVE i \in Behind(s, n)
  <2>1. i \in 1 .. Len(r) /\ i > n /\ Late(s[i]) /\ \A j \in i .. Len(r) : r[j].outcome # "on_time"
    BY <1>2 DEF Behind
  <2>2. \A j \in i .. Len(s) : j \in Len(r) + 1 .. Len(s) \/ (j \in 1 .. Len(r) /\ j \in i .. Len(r))
    BY <1>1, <2>1
  <2>3. \A j \in i .. Len(s) : s[j].outcome # "on_time"
    BY <1>2, <2>1, <2>2
  <2> QED
    BY <1>2, <2>1, <2>3 DEF Behind
<1> QED
  BY <1>4, <1>5

\* A late row counts, one on time ends the count.
LEMMA BehindNext ==
    ASSUME NEW r \in Seq(Row), NEW s \in Seq(Row), SameFires(r, s), NEW n \in Nat, n <= Len(r),
           NEW m, m = Len(r) + 1, Len(s) = m
    PROVE  /\ s[m].outcome = "on_time" => Cardinality(Behind(s, n)) = 0
           /\ s[m].outcome # "on_time" /\ Late(s[m]) =>
                  Cardinality(Behind(s, n)) = Cardinality(Behind(r, n)) + 1
<1>1. Len(r) \in Nat /\ m \in Nat /\ m \in 1 .. Len(s) /\ m > n /\ Len(s) \in Nat
  OBVIOUS
<1>2. \A i \in 1 .. Len(r) : i \in 1 .. Len(s) /\ s[i].outcome = r[i].outcome /\ (Late(s[i]) <=> Late(r[i]))
  BY <1>1 DEF SameFires, Late
<1>3. \A i \in 1 .. Len(s) : (i \in 1 .. Len(r) \/ i = m) /\ m \in i .. Len(s)
  BY <1>1
<1>4. CASE s[m].outcome = "on_time"
  <2>1. Behind(s, n) = {}
    BY <1>3, <1>4 DEF Behind
  <2> QED
    BY <1>4, <2>1, FS_EmptySet
<1>5. CASE s[m].outcome # "on_time" /\ Late(s[m])
  <2>1. m \in Behind(s, n)
    <3>1. \A j \in m .. Len(s) : j = m
      BY <1>1
    <3> QED
      BY <1>1, <1>5, <3>1 DEF Behind
  <2>2. ASSUME NEW i \in Behind(s, n), i # m PROVE i \in Behind(r, n)
    <3>1. i \in 1 .. Len(r) /\ i > n /\ Late(r[i]) /\ \A j \in i .. Len(s) : s[j].outcome # "on_time"
      BY <1>2, <1>3, <2>2 DEF Behind
    <3>2. \A j \in i .. Len(r) : j \in 1 .. Len(r) /\ j \in i .. Len(s)
      BY <1>1, <3>1
    <3> QED
      BY <1>2, <3>1, <3>2 DEF Behind
  <2>3. ASSUME NEW i \in Behind(r, n) PROVE i \in Behind(s, n)
    <3>1. i \in 1 .. Len(r) /\ i > n /\ Late(s[i]) /\ \A j \in i .. Len(r) : r[j].outcome # "on_time"
      BY <1>2 DEF Behind
    <3>2. \A j \in i .. Len(s) : j = m \/ (j \in 1 .. Len(r) /\ j \in i .. Len(r))
      BY <1>1, <3>1
    <3>3. \A j \in i .. Len(s) : s[j].outcome # "on_time"
      BY <1>2, <1>5, <3>1, <3>2
    <3> QED
      BY <1>2, <3>1, <3>3 DEF Behind
  <2>4. Behind(s, n) = Behind(r, n) \cup {m}
    BY <2>1, <2>2, <2>3
  <2>5. m \notin Behind(r, n) /\ IsFiniteSet(Behind(r, n))
    BY <1>1, BehindType
  <2> QED
    BY <1>5, <2>4, <2>5, FS_AddElement
<1> QED
  BY <1>4, <1>5

\* No row counts for a taskState that is new.
LEMMA BehindNone == ASSUME NEW r \in Seq(Row), NEW n \in Nat, n >= Len(r) PROVE Cardinality(Behind(r, n)) = 0
<1>1. \A i \in 1 .. Len(r) : ~(i > n)
  OBVIOUS
<1>2. Behind(r, n) = {}
  BY <1>1 DEF Behind
<1> QED
  BY <1>2, FS_EmptySet

LEMMA StreakTypes ==
    ASSUME TypeInv
    PROVE  /\ rows \in Seq(Row) /\ Len(rows) \in Nat /\ born \in Nat /\ streak \in Nat /\ queued \in Int
           /\ now \in Int /\ now >= 0 /\ NoTime = -1 /\ lastAttempt \in Int /\ lastSuccess \in Int
           /\ Cardinality(Behind(rows, born)) \in Nat
<1>1. rows \in Seq(Row) /\ born \in Nat /\ streak \in Nat /\ lastAttempt \in Int /\ lastSuccess \in Int
  BY DEF TypeInv, TypeOK, TablesOK, MemoryOK
<1> QED
  BY <1>1, OrderTypes, BehindType

\* The steps that are about no fire.
LEMMA StreakSame ==
    ASSUME TypeInv, TypeInv', StreakInv, SameFires(rows, rows'), Len(rows') >= Len(rows),
           UNCHANGED <<born, streak, queued>>, up = "up", cfg # NoTask,
           \A i \in Len(rows) + 1 .. Len(rows') : ~Late(rows'[i]) /\ rows'[i].outcome # "on_time"
    PROVE  StreakIs(queued)'
<1>1. rows \in Seq(Row) /\ rows' \in Seq(Row) /\ born \in Nat
  BY StreakTypes DEF TypeInv, TypeOK, TablesOK
<1>2. Behind(rows', born) = Behind(rows, born)
  BY <1>1, BehindSame
<1> QED
  BY <1>2 DEF StreakInv, StreakIs

\* The queued fire leaves the queue for its row.
LEMMA StreakDequeued ==
    ASSUME TypeInv, TypeInv', StreakInv, SameFires(rows, rows'), UNCHANGED <<born, streak>>, queued' = NoTime,
           up = "up", cfg # NoTask,
           queued = NoTime => Len(rows') = Len(rows),
           queued # NoTime => /\ Len(rows') = Len(rows) + 1
                              /\ rows'[Len(rows) + 1].outcome = "queued"
    PROVE  StreakIs(queued)'
<1>1. rows \in Seq(Row) /\ rows' \in Seq(Row) /\ born \in Nat /\ born <= Len(rows) /\ Len(rows) \in Nat
      /\ Cardinality(Behind(rows, born)) \in Nat /\ streak \in Nat
  BY StreakTypes DEF TypeInv, TypeOK, TablesOK, StreakInv
<1>2. CASE queued = NoTime
  <2>1. \A i : i \notin Len(rows) + 1 .. Len(rows')
    BY <1>1, <1>2
  <2> QED
    BY <1>1, <1>2, <2>1, StreakSame
<1>3. CASE queued # NoTime
  <2>1. PICK m : m = Len(rows) + 1
    OBVIOUS
  <2>2. rows'[m].outcome # "on_time" /\ Late(rows'[m]) /\ Len(rows') = m
    BY <1>3, <2>1 DEF Late
  <2>3. Cardinality(Behind(rows', born)) = Cardinality(Behind(rows, born)) + 1
    BY <1>1, <2>1, <2>2, BehindNext
  <2>4. streak = Cardinality(Behind(rows, born)) + 1
    BY <1>3 DEF StreakInv, StreakIs
  <2>5. streak' = Cardinality(Behind(rows', born'))
    BY <2>3, <2>4
  <2> QED
    BY <1>1, <2>5 DEF StreakIs
<1> QED
  BY <1>2, <1>3

\* The elapsed fires of a tick: the backlog does not count, the last one does.
LEMMA StreakFire ==
    ASSUME TypeInv, TypeInv', QueueInv, StreakInv, StartFire \/ MissFire \/ QueueFire \/ RestartFire,
           up = "up", cfg # NoTask
    PROVE  StreakIs(queued)'
<1>1. /\ rows \in Seq(Row) /\ rows' \in Seq(Row) /\ born \in Nat /\ born <= Len(rows) /\ Len(rows) \in Nat
      /\ Cardinality(Behind(rows, born)) \in Nat /\ streak \in Nat /\ CronFires
  BY StreakTypes DEF TypeInv, TypeOK, TablesOK, StreakInv, StartFire, MissFire, QueueFire, RestartFire
<1>2. PICK fires \in Elapsed :
        /\ FireCron(fires)
        /\ \/ /\ queued' = queued
              /\ \E row \in Row :
                    /\ rows' = Append(Backlogged(fires), row)
                    /\ row.sched = Last(fires) /\ row.upto = Last(fires) /\ row.outcome # "manual"
                    /\ \/ row.outcome = "on_time" /\ ~busy /\ streak' = 0
                       \/ row.outcome # "on_time" /\ Late(row) /\ streak' = streak + 1
           \/ /\ queued = NoTime /\ queued' = Last(fires) /\ rows' = Backlogged(fires)
              /\ streak' = streak + 1
           \/ /\ queued # NoTime /\ queued' = Last(fires) /\ streak' = streak + 1
              /\ \E row \in Row :
                    /\ rows' = Append(Backlogged(fires), row)
                    /\ row.sched = queued /\ row.upto = queued /\ row.outcome # "manual"
                    /\ row.outcome # "on_time" /\ Late(row)
  BY FiredRows
<1>3. PICK b, n : b = Backlogged(fires) /\ n = Cardinality(Behind(rows, born))
  OBVIOUS
<1>4. /\ b \in Seq(Row) /\ Len(b) \in Nat /\ Len(b) >= Len(rows) /\ SameFires(rows, b)
      /\ Last(fires) # NoTime /\ born' = born
  <2>1. b \in Seq(Row) /\ Len(b) >= Len(rows) /\ \A i \in 1 .. Len(rows) : b[i] = rows[i]
    BY <1>1, <1>3, BackloggedType
  <2>2. Last(fires) # NoTime
    BY <1>1, ElapsedType, TimeFacts
  <2> QED
    BY <1>2, <2>1, <2>2 DEF SameFires, FireCron
<1>5. Cardinality(Behind(b, born)) = n
  <2>1. \A i \in Len(rows) + 1 .. Len(b) : MissedWithin(b[i], nextFire, Last(fires))
    BY <1>1, <1>3, BacklogFires
  <2>2. \A i \in Len(rows) + 1 .. Len(b) : ~Late(b[i]) /\ b[i].outcome # "on_time"
    BY <2>1 DEF MissedWithin, Late
  <2> QED
    BY <1>1, <1>3, <1>4, <2>2, BehindSame
<1>6. ASSUME NEW row \in Row, rows' = Append(b, row)
      PROVE  /\ row.outcome = "on_time" => Cardinality(Behind(rows', born)) = 0
             /\ row.outcome # "on_time" /\ Late(row) => Cardinality(Behind(rows', born)) = n + 1
  <2>1. PICK m : m = Len(b) + 1
    OBVIOUS
  <2>2. Len(rows') = m /\ rows'[m] = row /\ \A i \in 1 .. Len(b) : rows'[i] = b[i]
    BY <1>4, <1>6, <2>1
  <2>3. SameFires(b, rows')
    BY <2>2 DEF SameFires
  <2>4. born <= Len(b)
    BY <1>1, <1>4
  <2> QED
    BY <1>1, <1>4, <1>5, <2>1, <2>2, <2>3, <2>4, BehindNext
<1>7. streak = n + (IF queued = NoTime THEN 0 ELSE 1) /\ n \in Nat
  BY <1>1, <1>3 DEF StreakInv, StreakIs
<1>8. ASSUME NEW row \in Row, rows' = Append(b, row), row.outcome # "on_time", Late(row), streak' = streak + 1,
             queued = NoTime <=> queued' = NoTime
      PROVE  StreakIs(queued)'
  <2>1. Cardinality(Behind(rows', born')) = n + 1
    BY <1>4, <1>6, <1>8
  <2> QED
    BY <1>7, <1>8, <2>1 DEF StreakIs
<1>9. ASSUME NEW row \in Row, rows' = Append(b, row), row.outcome = "on_time", ~busy, streak' = 0,
             queued' = queued
      PROVE  StreakIs(queued)'
  <2>1. queued' = NoTime
    BY <1>9 DEF QueueInv, QueuedBehindARun
  <2>2. Cardinality(Behind(rows', born')) = 0
    BY <1>4, <1>6, <1>9
  <2> QED
    BY <1>9, <2>1, <2>2 DEF StreakIs
<1>10. CASE queued = NoTime /\ queued' = Last(fires) /\ rows' = b /\ streak' = streak + 1
  BY <1>4, <1>5, <1>7, <1>10 DEF StreakIs
<1> QED
  BY <1>2, <1>3, <1>4, <1>8, <1>9, <1>10

\* A watermark's run counts when it is late.
LEMMA StreakWatermark ==
    ASSUME TypeInv, TypeInv', QueueInv, StreakInv, FireWatermark, up = "up", cfg # NoTask
    PROVE  StreakIs(queued)'
<1>1. /\ rows \in Seq(Row) /\ rows' \in Seq(Row) /\ born \in Nat /\ born <= Len(rows) /\ Len(rows) \in Nat
      /\ Cardinality(Behind(rows, born)) \in Nat /\ streak \in Nat /\ now \in Time
  BY StreakTypes, OrderTypes DEF TypeInv, TypeOK, TablesOK, StreakInv
<1>2. queued' = NoTime /\ queued = NoTime /\ born' = born
  BY DEF QueueInv, QueuedBehindARun, FireWatermark
<1>3. PICK due : due = watermarkDue /\ due \in Int
  <2>1. cfg \in TaskConfig
    BY DEF TypeInv, TypeOK, MemoryOK
  <2>2. lastAttempt \in Int /\ lastSuccess \in Int /\ cfg.interval \in Int /\ NoTime \in Int
    BY <2>1, StreakTypes DEF TaskConfig
  <2> QED
    BY <2>2 DEF watermarkDue
<1>4. PICK sched \in Int, outcome \in Outcomes :
        /\ BeginRun(rows, sched, outcome, "free")
        /\ \/ outcome = "on_time" /\ streak' = 0
           \/ outcome = "queued" /\ streak' = streak + 1
  <2>1. "on_time" \in Outcomes /\ "queued" \in Outcomes /\ now \in Int
    BY <1>1, TimeIsInt DEF Outcomes
  <2>2. CASE due = NoTime
    <3>1. streak = 0
      BY <1>3, <2>2 DEF StreakInv, FireWatermark
    <3> QED
      BY <1>3, <2>1, <2>2, <3>1 DEF FireWatermark
  <2>3. CASE due # NoTime
    BY <1>3, <2>1, <2>3 DEF FireWatermark, noteFireOutcome
  <2> QED
    BY <2>2, <2>3
<1>5. PICK row \in Row : row = NewRow(sched, now, outcome, "") /\ row.outcome = outcome
  BY <1>1, BegunRow, ZenonT(30)
<1>6. rows' = Append(rows, row)
  BY <1>4, <1>5 DEF BeginRun, StartRun
<1>7. PICK m : m = Len(rows) + 1
  OBVIOUS
<1>8. Len(rows') = m /\ rows'[m] = row /\ \A i \in 1 .. Len(rows) : rows'[i] = rows[i]
  BY <1>1, <1>6, <1>7
<1>9. SameFires(rows, rows')
  BY <1>8 DEF SameFires
<1>10. /\ row.outcome = "on_time" => Cardinality(Behind(rows', born)) = 0
       /\ row.outcome # "on_time" /\ Late(row) =>
              Cardinality(Behind(rows', born)) = Cardinality(Behind(rows, born)) + 1
  BY <1>1, <1>7, <1>8, <1>9, BehindNext
<1>11. streak = Cardinality(Behind(rows, born))
  BY <1>1, <1>2 DEF StreakInv, StreakIs
<1>12. CASE outcome = "on_time" /\ streak' = 0
  <2>1. Cardinality(Behind(rows', born')) = 0
    BY <1>2, <1>5, <1>10, <1>12
  <2> QED
    BY <1>2, <1>12, <2>1 DEF StreakIs
<1>13. CASE outcome = "queued" /\ streak' = streak + 1
  <2>1. Cardinality(Behind(rows', born')) = Cardinality(Behind(rows, born)) + 1
    BY <1>2, <1>5, <1>10, <1>13 DEF Late
  <2> QED
    BY <1>1, <1>2, <1>11, <1>13, <2>1 DEF StreakIs
<1> QED
  BY <1>4, <1>12, <1>13

\* A run that is being started has a start time.
LEMMA StreakStarts ==
    ASSUME TypeInv, TypeInv', Next, StreakInv
    PROVE  /\ pc' \in {"spawn", "register"} => rows'[job'.id].start >= 0
           /\ Len(rows') >= Len(rows)
<1>1. MutexStep /\ (\E closed : HistoryStep(closed)) /\ now >= 0 /\ now \in Int
  BY StepMutex, StepHistory, StreakTypes
<1>2. Grows(rows, rows') /\ Len(rows') >= Len(rows)
  BY <1>1 DEF HistoryStep, Grows
<1>3. CASE pc' = "spawn" /\ pc # "spawn"
  <2>1. rows'[job'.id].start = now
    BY <1>1, <1>3 DEF HistoryStep
  <2> QED
    BY <1>1, <1>2, <2>1
<1>4. CASE \/ pc' = "spawn" /\ pc = "spawn"
           \/ pc' = "register"
  <2>1. pc \in {"spawn", "register"} /\ job'.id = job.id
    <3>1. CASE Spawn
      BY <3>1 DEF Spawn, Locked, TypeInv, TypeOK, MutexOK, Job
    <3> QED
      BY <1>1, <1>4, <3>1 DEF MutexStep
  <2>2. job.id \in 1 .. Len(rows)
    BY <2>1, StreakTypes DEF TypeInv, HandlerOK
  <2>3. rows'[job'.id].start = rows[job.id].start
    BY <1>2, <2>1, <2>2 DEF Grows
  <2> QED
    BY <1>2, <2>1, <2>3 DEF StreakInv
<1> QED
  BY <1>2, <1>3, <1>4

\* What has run once has a due time.
LEMMA StreakDue ==
    ASSUME TypeInv, TypeInv', StreakInv, up = "up", cfg # NoTask, UNCHANGED <<cfg, streak>>,
           IsWatermark(cfg), watermarkDue' = NoTime,
           \/ UNCHANGED <<lastAttempt, lastSuccess>>
           \/ UNCHANGED lastAttempt /\ lastSuccess' = now
           \/ UNCHANGED lastSuccess /\ lastAttempt' >= 0
    PROVE  streak' = 0
<1>1. /\ cfg.interval \in Int /\ cfg.interval > 0 /\ now \in Int /\ now >= 0 /\ NoTime = -1
      /\ lastAttempt' \in Int /\ lastSuccess' \in Int
  <2>1. cfg \in TaskConfig /\ lastAttempt' \in Int /\ lastSuccess' \in Int
    BY DEF TypeInv, TypeOK, MemoryOK
  <2> QED
    BY <2>1, StreakTypes DEF TaskConfig, IsWatermark
<1>2. CASE UNCHANGED <<lastAttempt, lastSuccess>>
  <2>1. watermarkDue = NoTime
    BY <1>2 DEF watermarkDue
  <2> QED
    BY <2>1 DEF StreakInv
<1>3. CASE lastSuccess' = now \/ lastAttempt' >= 0
  <2>1. watermarkDue' >= 0
    BY <1>1, <1>3 DEF watermarkDue
  <2> QED
    BY <1>1, <2>1
<1> QED
  BY <1>2, <1>3

LEMMA StreakStep ==
    StreakAssumption /\ RunInv /\ TypeInv' /\ OrderInv /\ StreakInv /\ [Next]_vars => StreakInv'
<1> SUFFICES ASSUME StreakAssumption, RunInv, TypeInv', OrderInv, StreakInv, [Next]_vars
             PROVE  StreakInv'
  OBVIOUS
<1>1. /\ rows \in Seq(Row) /\ Len(rows) \in Nat /\ rows' \in Seq(Row) /\ Len(rows') \in Nat
      /\ born \in Nat /\ born <= Len(rows)
      /\ \A r : Len(r) = Len(rows) => Len(r) >= Len(rows) /\ \A i : i \notin Len(rows) + 1 .. Len(r)
      /\ \A r : Len(r) = Len(rows) + 1 => /\ Len(r) >= Len(rows)
                                          /\ \A i \in Len(rows) + 1 .. Len(r) : i = Len(rows) + 1
      /\ TypeInv /\ QueueInv
  BY StreakTypes DEF RunInv, TypeInv, TypeOK, TablesOK, StreakInv
<1>2. Next => /\ SameFires(rows, rows') /\ Len(rows') >= Len(rows)
              /\ pc' \in {"spawn", "register"} => rows'[job'.id].start >= 0
  BY <1>1, StepFires, StreakStarts
<1>3. CASE UNCHANGED vars
  BY <1>3 DEF vars, memory, tables, StreakInv, StreakIs, watermarkDue
<1>4. ASSUME Next, UNCHANGED <<born, cfg, up>>, up = "up" /\ cfg # NoTask => StreakIs(queued)',
             up = "up" /\ cfg # NoTask /\ IsWatermark(cfg) /\ watermarkDue' = NoTime => streak' = 0
      PROVE  StreakInv'
  BY <1>1, <1>2, <1>4 DEF StreakInv
<1>5. ASSUME Next, UNCHANGED <<born, streak, cfg, up>>, up = "up" /\ cfg # NoTask => StreakIs(queued)',
             \/ UNCHANGED <<lastAttempt, lastSuccess>>
             \/ UNCHANGED lastAttempt /\ lastSuccess' = now
             \/ UNCHANGED lastSuccess /\ lastAttempt' >= 0
      PROVE  StreakInv'
  BY <1>1, <1>4, <1>5, StreakDue
<1>6. CASE StartFire \/ MissFire \/ QueueFire \/ RestartFire
  <2>1. Next /\ CronFires /\ UNCHANGED <<born, cfg, up>>
    BY <1>6 DEF StartFire, MissFire, QueueFire, RestartFire, FireCron, Next, TickStep
  <2>2. up = "up" /\ cfg # NoTask => StreakIs(queued)'
    BY <1>1, <1>6, StreakFire
  <2>3. ~IsWatermark(cfg)
    BY <2>1 DEF CronFires
  <2> QED
    BY <1>4, <2>1, <2>2, <2>3
<1>7. CASE FireWatermark
  <2>1. Next /\ UNCHANGED <<born, cfg, up, lastAttempt, lastSuccess>>
    BY <1>7 DEF FireWatermark, Next, TickStep
  <2>2. watermarkDue' = watermarkDue /\ (watermarkDue = NoTime => streak' = streak)
    BY <1>7, <2>1 DEF FireWatermark, watermarkDue
  <2>3. up = "up" /\ cfg # NoTask /\ IsWatermark(cfg) /\ watermarkDue' = NoTime => streak' = 0
    BY <2>2 DEF StreakInv
  <2>4. up = "up" /\ cfg # NoTask => StreakIs(queued)'
    BY <1>1, <1>7, StreakWatermark
  <2> QED
    BY <1>4, <2>1, <2>3, <2>4
<1>8. CASE SettleAdopted \/ (ClearFinished /\ running.id = job.id)
  <2>1. PICK rows0 \in Seq(Row), cont \in {"free", "due"} : Len(rows0) = Len(rows) /\ StartQueued(rows0, cont)
    BY <1>1, <1>8, SettledRows
  <2>2. /\ queued' = NoTime
        /\ queued = NoTime => Len(rows') = Len(rows)
        /\ queued # NoTime => Len(rows') = Len(rows) + 1 /\ rows'[Len(rows) + 1].outcome = "queued"
    BY <1>1, <2>1, QueuedRows
  <2>3. /\ Next /\ UNCHANGED <<born, streak, cfg, up, lastAttempt>> /\ lastSuccess' \in {lastSuccess, now}
    BY <1>8 DEF SettleAdopted, ClearFinished, Next, TickStep
  <2>4. up = "up" /\ cfg # NoTask => StreakIs(queued)'
    BY <1>1, <1>2, <2>2, <2>3, StreakDequeued
  <2> QED
    BY <1>5, <2>3, <2>4
<1>9. CASE QuietStep
  <2>1. Len(rows') = Len(rows) /\ UNCHANGED <<queued, cfg, up>>
    BY <1>1, <1>9, QuietRows
  <2>2. Next /\ UNCHANGED <<born, streak, lastSuccess>> /\ (lastAttempt' = lastAttempt \/ lastAttempt' >= 0)
    <3>1. CASE Register
      BY <3>1 DEF Register, Locked, StreakInv, Next
    <3>2. CASE EnforceOwned \/ EnforceAdopted \/ NothingDue
      BY <3>2 DEF EnforceOwned, EnforceAdopted, NothingDue, memory, Next, TickStep
    <3>3. CASE Spawn \/ LaunchFail \/ RecordFinish \/ Pause \/ Resume \/ (ClearFinished /\ running.id # job.id)
      BY <3>3 DEF Spawn, LaunchFail, RecordFinish, Pause, Resume, ClearFinished, memory, Next, Request
    <3>4. CASE ClockAdvance \/ KillTimer \/ Kernel
      BY <3>4 DEF ClockAdvance, KillTimer, Kernel, ProcessExit, PidReused, StrangerExit, memory, Next
    <3> QED
      BY <1>9, <3>1, <3>2, <3>3, <3>4 DEF QuietStep
  <2>3. up = "up" /\ cfg # NoTask => StreakIs(queued)'
    BY <1>1, <1>2, <2>1, <2>2, StreakSame
  <2> QED
    BY <1>5, <2>1, <2>2, <2>3
<1>10. CASE Trigger
  <2>1. /\ Len(rows') = Len(rows) + 1 /\ rows'[Len(rows) + 1].outcome = "manual"
        /\ ~Late(rows'[Len(rows) + 1])
    BY <1>1, <1>10, TriggeredRows
  <2>2. Next /\ UNCHANGED <<born, streak, cfg, up, queued, lastAttempt, lastSuccess>>
    BY <1>10 DEF Trigger, Next, Request, memory
  <2>3. \A i \in Len(rows) + 1 .. Len(rows') : ~Late(rows'[i]) /\ rows'[i].outcome # "on_time"
    BY <1>1, <2>1
  <2>4. up = "up" /\ cfg # NoTask => StreakIs(queued)'
    BY <1>1, <1>2, <2>2, <2>3, StreakSame
  <2> QED
    BY <1>5, <2>2, <2>4
<1>11. CASE SecondServe \/ PruneHistory
  <2>1. /\ Next /\ Len(rows') = Len(rows)
        /\ UNCHANGED <<born, streak, cfg, up, queued, lastAttempt, lastSuccess>>
    BY <1>1, <1>11, DatedRows DEF SecondServe, PruneHistory, memory, Next
  <2>2. up = "up" /\ cfg # NoTask => StreakIs(queued)'
    BY <1>1, <1>2, <2>1, StreakSame
  <2> QED
    BY <1>5, <2>1, <2>2
<1>12. CASE Start
  <2>1. PICK c \in Configs : Configure(c) /\ up = "down" /\ now' = now
    BY <1>12 DEF Start, Loadable, OrderInv
  <2>2. Len(rows') = Len(rows) /\ cfg' = c /\ (c # NoTask => queued' = queued) /\ Next
    BY <1>1, <1>12, <2>1, ConfiguredRows DEF Next
  <2>3. CASE c = NoTask
    <3>1. born' = 0
      BY <2>1, <2>3 DEF Configure, ForgetTask, LoseState
    <3> QED
      BY <1>1, <1>2, <2>2, <2>3, <3>1 DEF StreakInv
  <2>4. CASE c # NoTask
    <3>1. born' = Len(rows) /\ streak' = 0
      BY <2>1, <2>4 DEF Configure, LoadTask
    <3>2. queued = NoTime
      BY <2>1 DEF RunInv, QueueInv, QueuedBehindARun, HeldInv
    <3>3. Cardinality(Behind(rows', born')) = 0
      BY <1>1, <2>2, <3>1, BehindNone
    <3>4. StreakIs(queued)'
      BY <2>2, <2>4, <3>1, <3>2, <3>3 DEF StreakIs
    <3> QED
      BY <1>1, <1>2, <2>2, <3>1, <3>4 DEF StreakInv
  <2> QED
    BY <2>3, <2>4
<1>13. CASE ReleaseAll \/ Drained \/ Crash
  <2>1. Next /\ up' # "up" /\ (born' = born \/ born' = 0)
    BY <1>13 DEF ReleaseAll, Drained, Crash, Die, LoseState, Next
  <2> QED
    BY <1>1, <1>2, <2>1 DEF StreakInv
<1>14. ~Reload
  BY DEF StreakAssumption, Reload
<1> QED
  BY <1>3, <1>6, <1>7, <1>8, <1>9, <1>10, <1>11, <1>12, <1>13, <1>14
     DEF Next, TickStep, Request, QuietStep

\* The rows the invariant counts are those since the last one on time.
LEMMA StreakCounted == TypeInv /\ StreakInv => StreakCounts
<1> SUFFICES ASSUME TypeInv, StreakInv, up = "up", cfg # NoTask PROVE StreakCounts
  BY DEF StreakCounts
<1> DEFINE onTime == {i \in DOMAIN rows : i > born /\ rows[i].outcome = "on_time"}
           since  == IF onTime = {} THEN born ELSE Latest(onTime)
           counted == {i \in DOMAIN rows : i > since /\ NotOnTime(i)}
<1>1. rows \in Seq(Row) /\ Len(rows) \in Nat /\ DOMAIN rows = 1 .. Len(rows) /\ born \in Nat
  BY StreakTypes
<1>2. onTime \in SUBSET (1 .. Len(rows))
  BY <1>1
<1>3. \A i \in 1 .. Len(rows) : NotOnTime(i) <=> Late(rows[i])
  BY DEF NotOnTime, Late
<1>4. /\ since \in Nat /\ since >= born /\ \A i \in onTime : i <= since
      /\ since = born \/ (since \in 1 .. Len(rows) /\ rows[since].outcome = "on_time")
  <2>1. CASE onTime = {}
    BY <1>1, <2>1
  <2>2. CASE onTime # {}
    <3> HIDE DEF onTime
    <3>1. Latest(onTime) \in onTime /\ \A i \in onTime : Latest(onTime) >= i
      BY <1>1, <1>2, <2>2, LatestInSet
    <3>2. PICK l : l = Latest(onTime)
      OBVIOUS
    <3>3. l \in 1 .. Len(rows) /\ l > born /\ rows[l].outcome = "on_time"
      BY <1>1, <3>1, <3>2 DEF onTime
    <3>4. \A i \in onTime : i \in 1 .. Len(rows)
      BY <1>2
    <3> QED
      BY <1>1, <2>2, <3>1, <3>2, <3>3, <3>4
  <2> QED
    BY <2>1, <2>2
<1>5. PICK s : s = since
  OBVIOUS
<1>6. \A i \in 1 .. Len(rows) : i > born /\ rows[i].outcome = "on_time" => i <= s
  BY <1>1, <1>4, <1>5
<1>7. s \in Nat /\ s >= born /\ (s = born \/ (s \in 1 .. Len(rows) /\ rows[s].outcome = "on_time"))
  BY <1>4, <1>5
<1>8. counted = {i \in 1 .. Len(rows) : i > s /\ Late(rows[i])}
  BY <1>1, <1>3, <1>5
<1> HIDE DEF since, counted
<1>9. counted = Behind(rows, born)
  <2>1. ASSUME NEW i \in counted PROVE i \in Behind(rows, born)
    <3>1. i \in 1 .. Len(rows) /\ i > s /\ Late(rows[i])
      BY <1>8
    <3>2. i > born /\ \A j \in i .. Len(rows) : j \in 1 .. Len(rows) /\ j > born /\ ~(j <= s)
      BY <1>1, <1>7, <3>1
    <3>3. \A j \in i .. Len(rows) : rows[j].outcome # "on_time"
      BY <1>6, <3>2
    <3> QED
      BY <3>1, <3>2, <3>3 DEF Behind
  <2>2. ASSUME NEW i \in Behind(rows, born) PROVE i \in counted
    <3>1. /\ i \in 1 .. Len(rows) /\ i > born /\ Late(rows[i])
          /\ \A j \in i .. Len(rows) : rows[j].outcome # "on_time"
      BY DEF Behind
    <3>2. CASE s = born
      BY <1>8, <3>1, <3>2
    <3>3. CASE s \in 1 .. Len(rows) /\ rows[s].outcome = "on_time"
      <4>1. s \notin i .. Len(rows)
        BY <3>1, <3>3
      <4>2. i > s
        BY <1>1, <3>1, <3>3, <4>1
      <4> QED
        BY <1>8, <3>1, <4>2
    <3> QED
      BY <1>7, <3>2, <3>3
  <2> QED
    BY <2>1, <2>2
<1>10. streak = Cardinality(counted) + (IF queued = NoTime THEN 0 ELSE 1)
  BY <1>9 DEF StreakInv, StreakIs
<1> QED
  BY <1>10 DEF StreakCounts, counted, since

\* engine.go noteFireOutcome, the "consecutive not-on-time streak": between
\* two reloads it is the number of late or missed fires in the history since
\* the last one on time, the queued fire included, over pauses, restarts,
\* failed launches, a second daemon and prunes.
THEOREM StreakIsHistory ==
    ASSUME StreakAssumption
    PROVE  Spec => []StreakCounts
<1>1. RunInv /\ TypeInv' /\ OrderInv /\ StreakInv /\ [Next]_vars => StreakInv'
  BY StreakStep
<1>2. RunInv => TypeInv
  BY DEF RunInv
<1> QED
  BY <1>1, <1>2, RunInvInit, RunInvStep, OrderInit, OrderStep, StreakInit, StreakCounted, PTL DEF Spec

-----------------------------------------------------------------------------
(* No fire starts before it is due *)

Unjittered == \A c \in Configs \ {NoTask} : c.jitter = 0

\* Ticks are not late, and no jitter reaches the next fire: a late tick takes
\* the latest fire that has elapsed, whose own jitter may still be running.
\* An edit of the jitter says nothing of the runs that were started before.
Timely ==
    /\ {"sleep", "edit"} \cap Events = {}
    /\ \A c \in Configs \ {NoTask} : \A f, g \in c.fires : f < g => f + c.jitter <= g

JitterAssumption == Unjittered \/ Timely

\* Of the fire f under configuration c it is at t not too early for a run.
Reached(c, f, t) ==
    IF Unjittered THEN t >= f ELSE c # NoTask /\ ~IsWatermark(c) => t >= effectiveDue(c, f)

\* The fire awaited is not overdue, and after this instant's tick not even due.
Awaited ==
    nextFire # NoTime /\ cfg.enabled /\ ~paused =>
        now <= effectiveDue(cfg, nextFire) /\ (ticked => now < effectiveDue(cfg, nextFire))

EarlyInv ==
    /\ queued # NoTime => Reached(cfg, queued, now)
    /\ \A i \in 1 .. Len(rows) :
           rows[i].start # NoTime /\ rows[i].outcome # "manual" => Reached(cfg, rows[i].sched, rows[i].start)
    /\ Timely => Awaited

LEMMA EarlyInit == Init => EarlyInv
BY DEF Init, EarlyInv, Awaited

LEMMA DueType ==
    ASSUME NEW c \in TaskConfig, NEW f \in Time
    PROVE  /\ effectiveDue(c, f) \in Int /\ f \in Int /\ f <= effectiveDue(c, f)
           /\ IF c.jitter = 0 THEN effectiveDue(c, f) = f ELSE effectiveDue(c, f) < f + c.jitter
<1>1. c.jitter \in Nat /\ Hash[f] \in Nat /\ f \in Int
  BY EngineAssumption, TimeIsInt DEF TaskConfig
<1>2. \A a, b \in Nat : b # 0 => a % b \in Nat /\ a % b < b
  OBVIOUS
<1> QED
  BY <1>1, <1>2 DEF effectiveDue

\* A fire that is awaited but not yet come has not been reached.
LEMMA AwaitedNext ==
    ASSUME TypeInv, NEW c \in TaskConfig, NEW f, f = NextAfter(c.fires, now), f # NoTime
    PROVE  now < effectiveDue(c, f)
<1>1. c.fires \in SUBSET Time /\ now \in Int
  BY OrderTypes DEF TaskConfig
<1>2. f \in Time /\ f > now
  <2>1. c.fires \in SUBSET Nat
    BY <1>1, TimeFacts
  <2> QED
    BY <1>1, <2>1, NextAfterType
<1>3. effectiveDue(c, f) \in Int /\ f \in Int /\ f <= effectiveDue(c, f)
  BY <1>2, DueType
<1> QED
  BY <1>1, <1>2, <1>3

\* The configuration changes only where the file is edited.
LEMMA SameConfig ==
    ASSUME "edit" \notin Events, Next
    PROVE  cfg' = cfg
<1>1. CASE TickStep \/ Spawn \/ LaunchFail \/ Register \/ RecordFinish \/ ClearFinished
  BY <1>1 DEF TickStep, EnforceOwned, EnforceAdopted, SettleAdopted, NothingDue, FireWatermark, StartFire,
     MissFire, QueueFire, RestartFire, FireCron, Spawn, LaunchFail, Register, RecordFinish, ClearFinished, memory
<1>2. CASE Reload \/ Start
  <2>1. Configure(cfg)
    BY <1>2 DEF Reload, Start, Loadable
  <2> QED
    BY <2>1 DEF Configure, ForgetTask, LoadTask
<1>3. CASE Trigger \/ Pause \/ Resume \/ SecondServe \/ PruneHistory \/ ReleaseAll \/ Drained \/ Crash
  BY <1>3 DEF Trigger, Pause, Resume, SecondServe, PruneHistory, ReleaseAll, Drained, Crash, Die, LoseState, memory
<1>4. CASE ClockAdvance \/ KillTimer \/ Kernel
  BY <1>4 DEF ClockAdvance, KillTimer, Kernel, ProcessExit, PidReused, StrangerExit, memory
<1> QED
  BY <1>1, <1>2, <1>3, <1>4 DEF Next, Request

\* A run that begins now starts now.
LEMMA NewStarts ==
    ASSUME TypeInv, Next
    PROVE  \A i \in Len(rows) + 1 .. Len(rows') : rows'[i].start \in {NoTime, now}
<1>1. MutexStep /\ (\E closed : HistoryStep(closed)) /\ Len(rows) \in Nat
  BY StepMutex, StepHistory, OrderTypes
<1> TAKE i \in Len(rows) + 1 .. Len(rows')
<1>2. CASE rows'[i].start # NoTime
  <2>1. pc' = "spawn" /\ i = job'.id
    BY <1>1, <1>2 DEF HistoryStep
  <2>2. pc # "spawn"
    BY <1>1, <2>1 DEF MutexStep
  <2> QED
    BY <1>1, <2>1, <2>2 DEF HistoryStep
<1> QED
  BY <1>2

\* What has been reached stays so; a row that is new is about a fire that has.
LEMMA EarlySame ==
    ASSUME JitterAssumption, TypeInv, TypeInv', EarlyInv, Next, now' >= now,
           queued' # NoTime => queued' = queued \/ Reached(cfg, queued', now),
           \A i \in Len(rows) + 1 .. Len(rows') :
               \/ rows'[i].outcome = "manual" \/ rows'[i].start = NoTime
               \/ queued # NoTime /\ rows'[i].sched = queued
               \/ Reached(cfg, rows'[i].sched, now),
           Timely => Awaited'
    PROVE  EarlyInv'
<1>1. /\ now \in Int /\ now' \in Int /\ rows \in Seq(Row) /\ rows' \in Seq(Row) /\ Len(rows) \in Nat
      /\ SameFires(rows, rows') /\ Grows(rows, rows')
      /\ cfg \in TaskConfig \cup {NoTask} /\ queued' \in TimeOrNo
  BY OrderTypes, StepFires, StepHistory, TimeIsInt DEF HistoryStep, TypeInv, TypeOK, ClockOK, TablesOK, MemoryOK
<1>2. \A f, t : Reached(cfg, f, t) => Reached(cfg', f, t)
  BY SameConfig DEF Reached, JitterAssumption, Timely
<1>3. \A f \in Time : Reached(cfg', f, now) => Reached(cfg', f, now')
  <2> TAKE f \in Time
  <2>1. cfg' \in TaskConfig \cup {NoTask} /\ f \in Int
    BY TimeIsInt DEF TypeInv, TypeOK, MemoryOK
  <2>2. cfg' # NoTask => effectiveDue(cfg', f) \in Int
    BY <2>1, DueType
  <2> QED
    BY <1>1, <2>1, <2>2 DEF Reached
<1>4. ASSUME queued' # NoTime PROVE Reached(cfg', queued', now')
  <2>1. Reached(cfg, queued', now)
    BY <1>4 DEF EarlyInv
  <2>2. queued' \in Time
    BY <1>1, <1>4 DEF TimeOrNo
  <2> QED
    BY <1>2, <1>3, <2>1, <2>2
<1>5. ASSUME NEW i \in 1 .. Len(rows'), rows'[i].start # NoTime, rows'[i].outcome # "manual"
      PROVE  Reached(cfg', rows'[i].sched, rows'[i].start)
  <2>1. CASE i \in 1 .. Len(rows)
    <3>1. rows'[i].start = rows[i].start /\ rows'[i].sched = rows[i].sched /\ rows'[i].outcome = rows[i].outcome
      BY <1>1, <2>1 DEF SameFires, Grows
    <3>2. Reached(cfg, rows[i].sched, rows[i].start)
      BY <1>5, <2>1, <3>1 DEF EarlyInv
    <3> QED
      BY <1>2, <3>1, <3>2
  <2>2. CASE i \in Len(rows) + 1 .. Len(rows')
    <3>1. rows'[i].start = now
      BY <1>5, <2>2, NewStarts
    <3>2. Reached(cfg, rows'[i].sched, now)
      BY <1>5, <2>2 DEF EarlyInv
    <3> QED
      BY <1>2, <3>1, <3>2
  <2> QED
    BY <1>1, <2>1, <2>2
<1> QED
  BY <1>4, <1>5 DEF EarlyInv

LEMMA LastElapsed ==
    ASSUME TypeInv, CronFires, NEW fires \in Elapsed
    PROVE  Last(fires) \in {nextFire} \cup cfg.fires
<1> DEFINE S == {nextFire} \cup FiresBetween(cfg.fires, nextFire, now, MaxBatch)
<1>1. nextFire \in Time /\ cfg \in TaskConfig /\ cfg.fires \in SUBSET Time
  BY DueNotEarly DEF TaskConfig
<1>2. S \subseteq Time /\ S # {} /\ S \subseteq {nextFire} \cup cfg.fires
  BY <1>1 DEF FiresBetween
<1>3. fires \in Ascending(S)
  BY DEF Elapsed
<1> HIDE DEF S
<1>4. IsFiniteSet(S) /\ S \subseteq Int
  BY <1>2, TimeFacts, TimeIsInt, FS_Subset
<1>5. Last(fires) \in S
  BY <1>2, <1>3, <1>4, AscendingType DEF Last
<1> QED
  BY <1>2, <1>5

\* A tick that is not late finds the fire awaited and none beyond it.
LEMMA DueReached ==
    ASSUME JitterAssumption, TypeInv, OrderInv, EarlyInv, CronFires, NEW fires \in Elapsed
    PROVE  /\ Reached(cfg, Last(fires), now)
           /\ Timely => LET f == NextAfter(cfg.fires, Last(fires))
                        IN  /\ now = effectiveDue(cfg, nextFire) /\ Last(fires) = nextFire
                            /\ f # NoTime => now < effectiveDue(cfg, f)
<1>1. /\ nextFire \in Time /\ cfg \in TaskConfig /\ now \in Int /\ cfg \in Configs \ {NoTask}
      /\ nextFire # NoTime /\ nextFire \in cfg.fires /\ cfg.fires \in SUBSET Time
  <2>1. cfg # NoTask
    BY DEF CronFires, DueStep, Locked, TypeInv, HandlerOK
  <2> QED
    BY <2>1, DueNotEarly, OrderTypes, TimeFacts DEF OrderInv, TaskConfig
<1>2. PICK last : last = Last(fires)
  OBVIOUS
<1>3. last \in Int /\ nextFire <= last /\ last <= now
  BY <1>2, ElapsedOrder DEF Last
<1>4. Unjittered => Reached(cfg, last, now)
  BY <1>3 DEF Reached
<1>5. CASE Timely
  <2>1. /\ effectiveDue(cfg, nextFire) \in Int /\ nextFire \in Int
        /\ IF cfg.jitter = 0 THEN effectiveDue(cfg, nextFire) = nextFire
           ELSE effectiveDue(cfg, nextFire) < nextFire + cfg.jitter
        /\ cfg.jitter \in Nat
    BY <1>1, DueType DEF TaskConfig
  <2>2. now = effectiveDue(cfg, nextFire)
    <3>1. now <= effectiveDue(cfg, nextFire)
      BY <1>1, <1>5 DEF EarlyInv, Awaited, CronFires, Active
    <3> QED
      BY <1>1, <2>1, <3>1 DEF CronFires, CronDue
  <2>3. \A g \in cfg.fires : g \in Int /\ (nextFire < g => now < g)
    <3> TAKE g \in cfg.fires
    <3>1. g \in Int /\ (nextFire < g => nextFire + cfg.jitter <= g)
      BY <1>1, <1>5, TimeIsInt DEF Timely
    <3> QED
      BY <1>1, <2>1, <2>2, <3>1
  <2>4. last = nextFire
    <3>1. last \in {nextFire} \cup cfg.fires
      BY <1>2, LastElapsed
    <3>2. last \in cfg.fires => ~(nextFire < last)
      BY <1>1, <1>3, <2>3
    <3> QED
      BY <1>3, <2>1, <3>1, <3>2
  <2>5. Reached(cfg, last, now)
    BY <1>1, <1>4, <2>1, <2>2, <2>4 DEF Reached
  <2>6. PICK f : f = NextAfter(cfg.fires, last)
    OBVIOUS
  <2>7. ASSUME f # NoTime PROVE now < effectiveDue(cfg, f)
    <3>1. f \in cfg.fires /\ nextFire < f
      <4>1. cfg.fires \in SUBSET Nat
        BY <1>1, TimeFacts
      <4> QED
        BY <2>1, <2>4, <2>6, <2>7, <4>1, NextAfterType
    <3>2. effectiveDue(cfg, f) \in Int /\ f \in Int /\ f <= effectiveDue(cfg, f)
      BY <1>1, <3>1, DueType
    <3> QED
      BY <1>1, <2>3, <3>1, <3>2
  <2> QED
    BY <1>2, <2>2, <2>4, <2>5, <2>6, <2>7
<1> QED
  BY <1>2, <1>4, <1>5 DEF JitterAssumption

LEMMA EarlyFire ==
    ASSUME JitterAssumption, TypeInv, TypeInv', OrderInv, EarlyInv, StartFire \/ MissFire \/ QueueFire \/ RestartFire
    PROVE  EarlyInv'
<1>1. CronFires /\ Next /\ queued \in Int /\ rows \in Seq(Row) /\ Len(rows) \in Nat
  BY OrderTypes DEF StartFire, MissFire, QueueFire, RestartFire, Next, TickStep
<1>2. PICK fires \in Elapsed :
        /\ FireCron(fires)
        /\ \/ /\ queued' = queued
              /\ \E row \in Row :
                    /\ rows' = Append(Backlogged(fires), row)
                    /\ row.sched = Last(fires)
           \/ queued' = Last(fires) /\ rows' = Backlogged(fires)
           \/ /\ queued # NoTime /\ queued' = Last(fires)
              /\ \E row \in Row :
                    /\ rows' = Append(Backlogged(fires), row)
                    /\ row.sched = queued
  BY FiredRows
<1>3. PICK b, last : b = Backlogged(fires) /\ last = Last(fires)
  OBVIOUS
<1>4. /\ b \in Seq(Row) /\ Len(b) \in Nat /\ Len(b) >= Len(rows)
      /\ \A i \in Len(rows) + 1 .. Len(b) : b[i].start = NoTime
  <2>1. b \in Seq(Row) /\ Len(b) >= Len(rows)
    BY <1>1, <1>3, BackloggedType
  <2>2. \A i \in Len(rows) + 1 .. Len(b) : MissedWithin(b[i], nextFire, Last(fires))
    BY <1>1, <1>3, BacklogFires
  <2> QED
    BY <2>1, <2>2 DEF MissedWithin
<1>5. /\ Reached(cfg, last, now)
      /\ Timely => LET f == NextAfter(cfg.fires, last)
                   IN  f # NoTime => now < effectiveDue(cfg, f)
  BY <1>1, <1>3, DueReached
<1>6. now' = now /\ now \in Int /\ cfg' = cfg /\ paused' = paused /\ nextFire' = NextAfter(cfg.fires, last)
  BY <1>2, <1>3, OrderTypes DEF FireCron
<1>7. Timely => Awaited'
  <2>1. CASE Timely
    <3>1. PICK f : f = NextAfter(cfg.fires, last)
      OBVIOUS
    <3>2. f # NoTime => now < effectiveDue(cfg, f)
      BY <1>5, <2>1, <3>1
    <3>3. nextFire' = f /\ cfg' = cfg /\ now' = now /\ cfg' \in TaskConfig \cup {NoTask} /\ f \in TimeOrNo
          /\ cfg # NoTask
      BY <1>1, <1>6, <3>1 DEF TypeInv, TypeOK, MemoryOK, CronFires, DueStep, Locked, HandlerOK
    <3>4. f # NoTime => effectiveDue(cfg, f) \in Int
      BY <3>3, DueType DEF TimeOrNo
    <3>5. f # NoTime => now <= effectiveDue(cfg, f)
      BY <1>6, <3>2, <3>4
    <3> QED
      BY <3>2, <3>3, <3>5 DEF Awaited
  <2> QED
    BY <2>1
<1>8. ASSUME NEW row \in Row, rows' = Append(b, row), NEW i \in Len(rows) + 1 .. Len(rows')
      PROVE  rows'[i].start = NoTime \/ rows'[i] = row
  <2>1. \A j \in 1 .. Len(b) : rows'[j] = b[j]
    BY <1>4, <1>8
  <2>2. rows'[Len(b) + 1] = row /\ (i \in Len(rows) + 1 .. Len(b) \/ i = Len(b) + 1)
    BY <1>1, <1>4, <1>8
  <2> QED
    BY <1>1, <1>4, <2>1, <2>2
<1>9. queued' # NoTime => queued' = queued \/ Reached(cfg, queued', now)
  BY <1>2, <1>3, <1>5
<1>10. \A i \in Len(rows) + 1 .. Len(rows') :
          \/ rows'[i].start = NoTime
          \/ queued # NoTime /\ rows'[i].sched = queued
          \/ Reached(cfg, rows'[i].sched, now)
  BY <1>2, <1>3, <1>4, <1>5, <1>8
<1> QED
  BY <1>1, <1>6, <1>7, <1>9, <1>10, EarlySame

\* What a Configure leaves as the next fire is as far as it was, or ahead.
LEMMA EarlyConfigure ==
    ASSUME JitterAssumption, TypeInv, TypeInv', OrderInv, EarlyInv, Reload \/ Start
    PROVE  EarlyInv'
<1>1. PICK c \in Configs : Configure(c)
  BY DEF Reload, Start, Loadable, OrderInv
<1>2. Next /\ now' = now /\ ticked' = ticked /\ now \in Int /\ Len(rows) \in Nat
  BY OrderTypes DEF Reload, Start, Next, Request
<1>3. Len(rows') = Len(rows) /\ cfg' = c /\ queued' = IF c = NoTask THEN NoTime ELSE queued
  BY <1>1, <1>2, ConfiguredRows
<1>4. \A i : i \notin Len(rows) + 1 .. Len(rows')
  BY <1>2, <1>3
<1>5. CASE ~Timely
  BY <1>2, <1>3, <1>4, <1>5, EarlySame
<1>6. CASE Timely
  <2>1. cfg' = cfg /\ c = cfg
    BY <1>2, <1>3, <1>6, SameConfig DEF Timely
  <2>2. CASE c = NoTask
    <3>1. nextFire' = NoTime
      BY <1>1, <2>2 DEF Configure, ForgetTask, LoseState
    <3>2. Awaited'
      BY <3>1 DEF Awaited
    <3> QED
      BY <1>2, <1>3, <1>4, <3>2, EarlySame
  <2>3. CASE c # NoTask
    <3>1. PICK known \in BOOLEAN : LoadTask(c, known)
      BY <1>1, <2>3 DEF Configure
    <3>2. cfg \in TaskConfig
      BY <2>1, <2>3 DEF TypeInv, TypeOK, MemoryOK
    <3>3. CASE KeptFire(c, known) # NoTime
      <4>1. nextFire' = nextFire /\ paused' = paused
        BY <3>1, <3>3 DEF LoadTask, KeptFire
      <4>2. Awaited
        BY <1>6 DEF EarlyInv
      <4>3. Awaited'
        BY <1>2, <2>1, <4>1, <4>2 DEF Awaited
      <4> QED
        BY <1>2, <1>3, <1>4, <4>3, EarlySame
    <3>4. CASE KeptFire(c, known) = NoTime
      <4>1. nextFire' \in {NoTime, NextAfter(cfg.fires, now)}
        BY <2>1, <3>1, <3>4 DEF LoadTask
      <4>2. CASE nextFire' = NoTime
        <5>1. Awaited'
          BY <4>2 DEF Awaited
        <5> QED
          BY <1>2, <1>3, <1>4, <5>1, EarlySame
      <4>3. CASE nextFire' # NoTime
        <5>1. now < effectiveDue(cfg, nextFire')
          BY <3>2, <4>1, <4>3, AwaitedNext
        <5>2. effectiveDue(cfg, nextFire') \in Int
          <6>1. nextFire' \in Time
            BY <4>3 DEF TypeInv, TypeOK, MemoryOK, TimeOrNo
          <6> QED
            BY <3>2, <6>1, DueType
        <5>3. now <= effectiveDue(cfg, nextFire')
          BY <1>2, <5>1, <5>2
        <5>4. Awaited'
          BY <1>2, <2>1, <5>1, <5>3 DEF Awaited
        <5> QED
          BY <1>2, <1>3, <1>4, <5>4, EarlySame
      <4> QED
        BY <4>2, <4>3
    <3> QED
      BY <3>3, <3>4
  <2> QED
    BY <2>2, <2>3
<1> QED
  BY <1>5, <1>6

\* The clock moves on after a tick only, and the tick takes what is due.
LEMMA EarlyAwait ==
    ASSUME JitterAssumption, TypeInv, TypeInv', OrderInv, EarlyInv, QuietStep
    PROVE  Timely => Awaited'
<1> SUFFICES ASSUME Timely PROVE Awaited'
  OBVIOUS
<1>1. /\ Awaited /\ now \in Int /\ nextFire \in TimeOrNo /\ cfg \in TaskConfig \cup {NoTask} /\ "sleep" \notin Events
      /\ NoTime \notin Time
  BY OrderTypes, TimeFacts DEF EarlyInv, TypeInv, TypeOK, MemoryOK, Timely
<1>2. nextFire # NoTime => effectiveDue(cfg, nextFire) \in Int /\ cfg # NoTask /\ ~IsWatermark(cfg)
  <2>1. nextFire # NoTime => nextFire \in Time /\ cfg # NoTask /\ nextFire \in cfg.fires /\ cfg \in Configs
    BY <1>1 DEF OrderInv, TimeOrNo
  <2>2. nextFire # NoTime => ~IsWatermark(cfg)
    BY <2>1, ScheduleAssumption DEF IsWatermark
  <2> QED
    BY <1>1, <2>1, <2>2, DueType
<1>3. ASSUME UNCHANGED <<now, cfg, nextFire, paused, ticked>> PROVE Awaited'
  BY <1>1, <1>3 DEF Awaited
<1>4. CASE \/ EnforceOwned \/ EnforceAdopted \/ Spawn \/ LaunchFail \/ Register \/ RecordFinish
           \/ (ClearFinished /\ running.id # job.id)
  BY <1>3, <1>4 DEF EnforceOwned, EnforceAdopted, Spawn, LaunchFail, Register, RecordFinish, ClearFinished, memory
<1>5. CASE KillTimer \/ Kernel
  BY <1>3, <1>5 DEF KillTimer, Kernel, ProcessExit, PidReused, StrangerExit, memory
<1>6. CASE Pause
  BY <1>6 DEF Pause, SetPaused, Awaited
<1>7. CASE Resume
  <2>1. UNCHANGED <<now, cfg, ticked>> /\ cfg \in TaskConfig /\ cfg # NoTask
    BY <1>1, <1>7 DEF Resume
  <2>2. CASE paused /\ ~IsWatermark(cfg)
    <3>1. nextFire' = NextAfter(cfg.fires, now)
      BY <1>7, <2>2 DEF Resume
    <3>2. nextFire' # NoTime => now < effectiveDue(cfg, nextFire')
      BY <2>1, <3>1, AwaitedNext
    <3>3. nextFire' # NoTime => effectiveDue(cfg, nextFire') \in Int
      <4>1. nextFire' # NoTime => nextFire' \in Time
        BY DEF TypeInv, TypeOK, MemoryOK, TimeOrNo
      <4> QED
        BY <2>1, <4>1, DueType
    <3>4. nextFire' # NoTime => now <= effectiveDue(cfg, nextFire')
      BY <1>1, <3>2, <3>3
    <3> QED
      BY <2>1, <3>2, <3>4 DEF Awaited
  <2>3. CASE ~(paused /\ ~IsWatermark(cfg))
    <3>1. nextFire' = nextFire
      BY <1>7, <2>3 DEF Resume
    <3>2. nextFire = NoTime \/ ~paused
      BY <1>2, <2>3
    <3> QED
      BY <1>1, <2>1, <3>1, <3>2 DEF Awaited
  <2> QED
    BY <2>2, <2>3
<1>8. CASE NothingDue
  <2>1. UNCHANGED <<now, cfg, nextFire, paused>>
    BY <1>8 DEF NothingDue, memory
  <2>2. nextFire # NoTime /\ cfg.enabled /\ ~paused => ~(now >= effectiveDue(cfg, nextFire))
    BY <1>2, <1>8 DEF NothingDue, Active, CronDue
  <2>3. nextFire # NoTime /\ cfg.enabled /\ ~paused
        => now < effectiveDue(cfg, nextFire) /\ now <= effectiveDue(cfg, nextFire)
    BY <1>1, <1>2, <2>2
  <2> QED
    BY <2>1, <2>3 DEF Awaited
<1>9. CASE ClockAdvance
  <2>1. UNCHANGED <<cfg, nextFire, paused>> /\ now' = now + 1 /\ ticked /\ ~ticked'
    BY <1>1, <1>9 DEF ClockAdvance, Punctual, memory, TypeInv, TypeOK, ClockOK
  <2>2. nextFire # NoTime /\ cfg.enabled /\ ~paused => now + 1 <= effectiveDue(cfg, nextFire)
    <3>1. nextFire # NoTime /\ cfg.enabled /\ ~paused => now < effectiveDue(cfg, nextFire)
      BY <1>1, <2>1 DEF Awaited
    <3> QED
      BY <1>1, <1>2, <3>1
  <2> QED
    BY <2>1, <2>2 DEF Awaited
<1> QED
  BY <1>4, <1>5, <1>6, <1>7, <1>8, <1>9 DEF QuietStep

LEMMA EarlyStep ==
    JitterAssumption /\ TypeInv /\ TypeInv' /\ OrderInv /\ EarlyInv /\ [Next]_vars => EarlyInv'
<1> SUFFICES ASSUME JitterAssumption, TypeInv, TypeInv', OrderInv, EarlyInv, [Next]_vars PROVE EarlyInv'
  OBVIOUS
<1>1. /\ now \in Int /\ Len(rows) \in Nat
      /\ \A r : Len(r) = Len(rows) => \A i : i \notin Len(rows) + 1 .. Len(r)
      /\ \A r : Len(r) = Len(rows) + 1 => \A i \in Len(rows) + 1 .. Len(r) : i = Len(rows) + 1
  BY OrderTypes
<1>2. CASE UNCHANGED vars
  BY <1>2 DEF vars, memory, tables, EarlyInv, Awaited
<1>3. CASE StartFire \/ MissFire \/ QueueFire \/ RestartFire
  BY <1>3, EarlyFire
<1>4. CASE Reload \/ Start
  BY <1>4, EarlyConfigure
<1>5. ASSUME UNCHANGED <<now, cfg, nextFire, paused, ticked>> PROVE Timely => Awaited'
  BY <1>5 DEF EarlyInv, Awaited
<1>6. CASE FireWatermark
  <2>1. UNCHANGED <<now, nextFire, queued, cfg>> /\ Next /\ IsWatermark(cfg)
    BY <1>6 DEF FireWatermark, Next, TickStep
  <2>2. /\ nextFire = NoTime /\ Len(rows') = Len(rows) + 1
        /\ rows'[Len(rows) + 1].sched = rows'[Len(rows) + 1].upto
        /\ rows'[Len(rows) + 1].upto <= now
    BY <1>6, WatermarkRows
  <2>3. PICK sched : sched = rows'[Len(rows) + 1].sched
    OBVIOUS
  <2>4. Reached(cfg, sched, now)
    <3>1. sched <= now
      BY <2>2, <2>3
    <3>2. sched \in Int
      <4>1. rows' \in Seq(Row) /\ Len(rows) + 1 \in 1 .. Len(rows')
        BY <1>1, <2>2 DEF TypeInv, TypeOK, TablesOK
      <4>2. rows'[Len(rows) + 1] \in Row
        BY <4>1
      <4> QED
        BY <2>3, <4>2 DEF Row
    <3>3. now >= sched
      BY <1>1, <3>1, <3>2
    <3> QED
      BY <2>1, <3>3 DEF Reached
  <2>5. Awaited'
    BY <2>1, <2>2 DEF Awaited
  <2>6. \A i \in Len(rows) + 1 .. Len(rows') : Reached(cfg, rows'[i].sched, now)
    BY <1>1, <2>2, <2>3, <2>4
  <2>7. now' >= now
    BY <1>1, <2>1
  <2> QED
    BY <2>1, <2>5, <2>6, <2>7, EarlySame
<1>7. CASE SettleAdopted \/ (ClearFinished /\ running.id = job.id)
  <2>1. PICK rows0 \in Seq(Row), cont \in {"free", "due"} : Len(rows0) = Len(rows) /\ StartQueued(rows0, cont)
    BY <1>7, SettledRows
  <2>2. /\ queued' = NoTime
        /\ queued = NoTime => Len(rows') = Len(rows)
        /\ \A i \in Len(rows) + 1 .. Len(rows') : rows'[i].sched = queued /\ rows'[i].upto = queued
    BY <2>1, QueuedRows
  <2>3. UNCHANGED <<now, cfg, nextFire, paused, ticked>> /\ Next
    BY <1>7 DEF SettleAdopted, ClearFinished, Next, TickStep
  <2>4. now' >= now
    BY <1>1, <2>3
  <2>5. \A i \in Len(rows) + 1 .. Len(rows') : queued # NoTime /\ rows'[i].sched = queued
    BY <1>1, <2>2
  <2> QED
    BY <1>5, <2>2, <2>3, <2>4, <2>5, EarlySame
<1>8. CASE ReleaseAll
  <2>1. /\ queued' = NoTime
        /\ queued = NoTime => Len(rows') = Len(rows)
        /\ \A i \in Len(rows) + 1 .. Len(rows') : rows'[i].sched = queued /\ rows'[i].upto = queued
    BY <1>8, ReleasedRows
  <2>2. UNCHANGED <<now, cfg, nextFire, paused, ticked>> /\ Next /\ now' >= now
    BY <1>1, <1>8 DEF ReleaseAll, Next
  <2>3. \A i \in Len(rows) + 1 .. Len(rows') : queued # NoTime /\ rows'[i].sched = queued
    BY <1>1, <2>1
  <2> QED
    BY <1>5, <2>1, <2>2, <2>3, EarlySame
<1>9. CASE QuietStep
  <2>1. Len(rows') = Len(rows) /\ UNCHANGED queued /\ now' \in {now, now + 1}
    BY <1>9, QuietRows
  <2>2. Next /\ now' >= now
    BY <1>1, <1>9, <2>1 DEF QuietStep, Next, TickStep, Request
  <2>3. Timely => Awaited'
    BY <1>9, EarlyAwait
  <2> QED
    BY <1>1, <2>1, <2>2, <2>3, EarlySame
<1>10. CASE Trigger
  <2>1. Len(rows') = Len(rows) + 1 /\ rows'[Len(rows) + 1].outcome = "manual"
    BY <1>10, TriggeredRows
  <2>2. UNCHANGED <<now, cfg, nextFire, paused, ticked, queued>> /\ Next /\ now' >= now
    BY <1>1, <1>10 DEF Trigger, Next, Request, memory
  <2>3. \A i \in Len(rows) + 1 .. Len(rows') : rows'[i].outcome = "manual"
    BY <1>1, <2>1
  <2> QED
    BY <1>5, <2>2, <2>3, EarlySame
<1>11. CASE Drained \/ Crash
  <2>1. Next /\ UNCHANGED <<now, rows>> /\ nextFire' = NoTime /\ queued' = NoTime /\ now' >= now
    BY <1>1, <1>11 DEF Drained, Crash, Die, LoseState, tables, Next
  <2>2. Awaited'
    BY <2>1 DEF Awaited
  <2> QED
    BY <1>1, <2>1, <2>2, EarlySame
<1>12. CASE SecondServe \/ PruneHistory
  <2>1. Next /\ UNCHANGED <<now, cfg, nextFire, paused, ticked, queued>>
    BY <1>12 DEF SecondServe, PruneHistory, memory, Next
  <2>2. Len(rows') = Len(rows) /\ now' >= now
    BY <1>1, <1>12, <2>1, DatedRows
  <2> QED
    BY <1>1, <1>5, <2>1, <2>2, EarlySame
<1> QED
  BY <1>2, <1>3, <1>4, <1>6, <1>7, <1>8, <1>9, <1>10, <1>11, <1>12
     DEF Next, TickStep, Request, QuietStep

\* jitter_test.go "fires at the jittered time, not the raw cron time": where
\* ticks are punctual and no jitter reaches the next fire, no scheduled run
\* starts before its jitter is over, not one that waited in the queue, or that
\* a restart or a resume finds either; without jitter, none starts before its
\* fire, however late the ticks are and whatever is edited.
THEOREM NeverEarly ==
    ASSUME JitterAssumption
    PROVE  Spec => []NoEarlyStart
<1>1. TypeInv /\ TypeInv' /\ OrderInv /\ EarlyInv /\ [Next]_vars => EarlyInv'
  BY EarlyStep
<1>2. TypeInv /\ OrderInv /\ EarlyInv => NoEarlyStart
  <2> SUFFICES ASSUME TypeInv, OrderInv, EarlyInv, cfg # NoTask, ~IsWatermark(cfg), NEW i \in RunIds,
                      rows[i].outcome # "manual"
               PROVE  rows[i].start >= effectiveDue(cfg, rows[i].sched)
    BY DEF NoEarlyStart
  <2>1. i \in 1 .. Len(rows) /\ rows[i].start # NoTime
    BY OrderTypes DEF RunIds
  <2>2. Reached(cfg, rows[i].sched, rows[i].start)
    BY <2>1 DEF EarlyInv
  <2>3. CASE Unjittered
    <3>1. cfg.jitter = 0
      BY <2>3 DEF Unjittered, OrderInv
    <3> QED
      BY <2>2, <2>3, <3>1 DEF Reached, effectiveDue
  <2>4. CASE ~Unjittered
    BY <2>2, <2>4 DEF Reached
  <2> QED
    BY <2>3, <2>4
<1> QED
  BY <1>1, <1>2, TypeInit, TypeStep, OrderInit, OrderStep, EarlyInit, PTL DEF Spec

-----------------------------------------------------------------------------
(* A watermark's runs are an interval apart *)

\* Every launch starts a process: the kernel has a free pid, either since it
\* never runs out of them or since no process but the task's one takes any.
LaunchAssumption ==
    /\ "launch_failure" \notin Events
    /\ \/ ~IsFiniteSet(Pids)
       \/ SingleAssumption /\ "pid_reuse" \notin Events /\ Pids # {}

\* The file is not edited, no trigger is served in the drain, and what a prune
\* deletes is too old to matter: what a start recovers is the kept history's.
SpacingAssumption ==
    /\ LaunchAssumption
    /\ "edit" \notin Events /\ ~({"late_request", "trigger"} \subseteq Events)
    /\ "prune" \in Events => \A c \in Configs \ {NoTask} : c.interval <= Retention

Taken == {p \in Pids : owner[p] # Free}

PidInv ==
    /\ IsFiniteSet(Taken)
    /\ "pid_reuse" \notin Events => \A p \in Pids : owner[p] # Stranger
    /\ SingleAssumption => TrackInv /\ SingleInv

LEMMA PidInit == Init => PidInv
<1> SUFFICES ASSUME Init PROVE PidInv
  OBVIOUS
<1>1. Taken = {} /\ \A p \in Pids : owner[p] # Stranger
  BY DEF Init, Taken, Free, Stranger
<1> QED
  BY <1>1, FS_EmptySet, TrackInit, SingleInit DEF PidInv

LEMMA PidStep == RunInv /\ PidInv /\ [Next]_vars => PidInv'
<1> SUFFICES ASSUME RunInv, PidInv, [Next]_vars PROVE PidInv'
  OBVIOUS
<1>1. SingleAssumption => TrackInv' /\ SingleInv'
  BY TrackStep, SingleStep DEF PidInv, SingleAssumption
<1>2. owner \in [Pids -> Nat \cup {Stranger}] /\ TypeInv
  BY DEF RunInv, TypeInv, TypeOK, KernelOK
<1>3. CASE Spawn \/ \E p \in Pids : PidReused(p)
  <2>1. PICK p \in Pids : \A q \in Pids : q # p => owner'[q] = owner[q]
    BY <1>2, <1>3 DEF Spawn, PidReused
  <2>2. Taken' \subseteq Taken \cup {p}
    BY <2>1 DEF Taken
  <2>3. IsFiniteSet(Taken \cup {p})
    BY FS_AddElement DEF PidInv
  <2>4. IsFiniteSet(Taken')
    BY <2>2, <2>3, FS_Subset
  <2>5. "pid_reuse" \notin Events => \A q \in Pids : owner'[q] # Stranger
    <3>1. job \in Job
      BY <1>2 DEF TypeInv, TypeOK, MutexOK
    <3>2. job.id \in Nat /\ job.id # Stranger
      BY <3>1 DEF Job, Stranger
    <3> QED
      BY <1>2, <1>3, <3>2 DEF Spawn, PidReused, PidInv
  <2> QED
    BY <1>1, <2>4, <2>5 DEF PidInv
<1>4. CASE UNCHANGED owner \/ \E p \in Pids : owner' = [owner EXCEPT ![p] = Free]
  <2>1. \A p \in Pids : owner'[p] \in {owner[p], Free}
    BY <1>2, <1>4
  <2>2. Taken' \subseteq Taken
    BY <2>1 DEF Taken
  <2>3. IsFiniteSet(Taken')
    BY <2>2, FS_Subset DEF PidInv
  <2> QED
    BY <1>1, <2>1, <2>3 DEF PidInv, Free, Stranger
<1>5. \/ Spawn \/ UNCHANGED owner
      \/ \E p \in Pids : PidReused(p) \/ owner' = [owner EXCEPT ![p] = Free]
  <2>1. CASE TickStep
    BY <2>1 DEF TickStep, EnforceOwned, EnforceAdopted, SettleAdopted, NothingDue, FireWatermark, StartFire,
       MissFire, QueueFire, RestartFire, FireCron, kernel
  <2>2. CASE LaunchFail \/ Register \/ RecordFinish \/ ClearFinished \/ Request \/ Start
    BY <2>2 DEF LaunchFail, Register, RecordFinish, ClearFinished, Request, Trigger, Pause, Resume, Reload,
       Start, kernel
  <2>3. CASE SecondServe \/ PruneHistory \/ ReleaseAll \/ Drained \/ Crash \/ ClockAdvance \/ KillTimer
    BY <2>3 DEF SecondServe, PruneHistory, ReleaseAll, Drained, Crash, Die, ClockAdvance, KillTimer, kernel
  <2>4. CASE Kernel
    BY <2>4 DEF Kernel, ProcessExit, StrangerExit
  <2>5. CASE UNCHANGED vars
    BY <2>5 DEF vars, kernel
  <2> QED
    BY <2>1, <2>2, <2>3, <2>4, <2>5 DEF Next
<1> QED
  BY <1>3, <1>4, <1>5

LEMMA NoLaunchFails == ASSUME LaunchAssumption, RunInv, PidInv PROVE ~LaunchFail
<1> SUFFICES ASSUME LaunchFail PROVE FALSE
  OBVIOUS
<1>1. pc = "spawn" /\ \A p \in Pids : owner[p] # Free
  BY DEF LaunchFail, LaunchAssumption, Locked
<1>2. Taken = Pids
  BY <1>1 DEF Taken
<1>3. CASE ~IsFiniteSet(Pids)
  BY <1>2, <1>3 DEF PidInv
<1>4. CASE SingleAssumption /\ "pid_reuse" \notin Events /\ Pids # {}
  <2>1. Alive = {}
    BY <1>1, <1>4 DEF PidInv, SingleInv
  <2> QED
    BY <1>1, <1>4, <2>1 DEF PidInv, Alive
<1> QED
  BY <1>3, <1>4 DEF LaunchAssumption

Watermarked == cfg # NoTask /\ IsWatermark(cfg)

\* An interval has passed since t.
Passed(t) == t + cfg.interval <= now

\* A run begins and ends in the past; a run that was deleted in a past that
\* does not matter any more.
Dated(row) ==
    /\ 0 <= row.start /\ row.start <= now
    /\ row.finish # NoTime => row.start <= row.finish /\ row.finish <= now
    /\ row.exit = 0 => row.finish # NoTime
    /\ row.pruned => Passed(row.start) /\ (row.exit = 0 => Passed(row.finish))

\* Row s is that of a run after the run of row r: if that exited with 0 it had
\* done so by then, and unless the run is a manual one it is spaced.
Follows(r, s) ==
    /\ r.start <= s.start
    /\ r.exit = 0 => r.finish <= s.start
    /\ s.outcome # "manual" =>
          /\ r.start + cfg.interval <= s.start
          /\ r.exit = 0 /\ r.error = "" => r.finish + cfg.interval <= s.start

SpacedInv ==
    Watermarked =>
        /\ queued = NoTime
        /\ \A i \in 1 .. Len(rows) : Dated(rows[i])
        /\ \A i, j \in 1 .. Len(rows) : i < j => Follows(rows[i], rows[j])

\* A child, and a run that is being started or whose end is being recorded,
\* is the last in the history.
LatestInv ==
    Watermarked =>
        /\ \A h \in handles : h.id = Len(rows)
        /\ pc \in {"spawn", "register", "clear"} => job.id = Len(rows)

\* A run that has its row, but is in lastAttempt, or lastSuccess, only later.
Starting(i) == pc \in {"spawn", "register"} /\ i = job.id
Clearing(i) == pc = "clear" /\ job.success /\ i = job.id /\ running.id = job.id

\* What is remembered of a run that is not long past is a time it was not after.
Remembered(i) ==
    /\ rows[i].start <= lastAttempt \/ Passed(rows[i].start) \/ Starting(i)
    /\ Succeeded(i) => rows[i].finish <= lastSuccess \/ Passed(rows[i].finish) \/ Clearing(i)

MemoryInv == Watermarked /\ up = "up" => \A i \in 1 .. Len(rows) : Remembered(i)

SpacingInv == SpacedInv /\ LatestInv /\ MemoryInv

LEMMA SpacingInit == Init => SpacingInv
BY DEF Init, SpacingInv, SpacedInv, LatestInv, MemoryInv

LEMMA SpacingTypes ==
    ASSUME TypeInv
    PROVE  /\ rows \in Seq(Row) /\ Len(rows) \in Nat /\ now \in Nat /\ now \in Time /\ NoTime = -1
           /\ lastAttempt \in Int /\ lastSuccess \in Int /\ (cfg # NoTask => cfg.interval \in Nat)
           /\ \A i \in 1 .. Len(rows) : /\ rows[i] \in Row /\ rows[i].start \in Int /\ rows[i].finish \in Int
                                        /\ rows[i].exit \in Int /\ rows[i].pruned \in BOOLEAN
<1>1. /\ rows \in Seq(Row) /\ Len(rows) \in Nat /\ now \in Nat /\ now \in Time /\ NoTime = -1
      /\ lastAttempt \in Int /\ lastSuccess \in Int
  BY TimeFacts DEF TypeInv, TypeOK, ClockOK, MemoryOK, TablesOK, NoTime
<1>2. cfg # NoTask => cfg.interval \in Nat
  BY DEF TypeInv, TypeOK, MemoryOK, TaskConfig
<1>3. \A i \in 1 .. Len(rows) : rows[i] \in Row
  BY <1>1
<1> QED
  BY <1>1, <1>2, <1>3, SMTT(30) DEF Row, ExitCodes, NoExit

\* What a step may do to a row: nothing, close it, with exit 0 only for what
\* a child has reported, or delete it when it is past mattering.
Retouched(i) ==
    LET row == rows[i] new == rows'[i]
    IN  /\ new.start = row.start /\ new.outcome = row.outcome
        /\ \/ /\ new.finish = row.finish /\ new.exit = row.exit /\ new.error = row.error
              /\ new.pruned = row.pruned \/ (Passed(row.start) /\ (row.exit = 0 => Passed(row.finish)))
           \/ /\ row.finish = NoTime /\ ~new.pruned /\ new.finish = now
              /\ new.exit = 0 => RecordFinish /\ i = Len(rows)

LEMMA FinishRetouched ==
    ASSUME TypeInv, NEW id, NEW code \in ExitCodes, NEW err \in Errors, rows' = FinishRun(rows, id, code, err, now),
           code = 0 => RecordFinish /\ id = Len(rows)
    PROVE  Len(rows') = Len(rows) /\ \A i \in 1 .. Len(rows) : Retouched(i)
<1>1. rows \in Seq(Row) /\ now \in Int /\ \A i \in 1 .. Len(rows) : rows[i] \in Row
  BY SpacingTypes
<1>2. /\ Len(rows') = Len(rows) /\ rows' \in Seq(Row)
      /\ \A i \in 1 .. Len(rows) : i # id => rows'[i] = rows[i]
  <2>1. FinishRun(rows, id, code, err, now) \in Seq(Row)
    BY <1>1, FinishRunType, Zenon
  <2>2. Len(FinishRun(rows, id, code, err, now)) = Len(rows)
    BY <1>1, FinishRunType, Zenon
  <2>3. \A i \in 1 .. Len(rows) : i # id => FinishRun(rows, id, code, err, now)[i] = rows[i]
    BY ONLY <1>1, code \in ExitCodes, err \in Errors, FinishRunType, ZenonT(30)
  <2> QED
    BY <2>1, <2>2, <2>3
<1>3. ASSUME NEW i \in 1 .. Len(rows) PROVE Retouched(i)
  <2>1. CASE i # id \/ rows' = rows
    BY <1>2, <2>1 DEF Retouched
  <2>2. CASE i = id /\ rows' # rows
    <3>1. /\ rows[i].finish = NoTime /\ ~rows[i].pruned /\ i \in DOMAIN rows
          /\ rows'[i] = [rows EXCEPT ![i] = Closed(@, code, err, now)][i]
      BY <1>1, <2>2 DEF FinishRun
    <3>2. rows'[i] = [rows[i] EXCEPT !.finish = now, !.exit = code, !.error = err]
      BY <3>1 DEF Closed
    <3>3. /\ rows'[i].start = rows[i].start /\ rows'[i].outcome = rows[i].outcome
          /\ rows'[i].pruned = rows[i].pruned /\ rows'[i].finish = now /\ rows'[i].exit = code
      BY <1>1, <3>2 DEF Row
    <3> QED
      BY <2>2, <3>1, <3>3 DEF Retouched
  <2> QED
    BY <2>1, <2>2
<1> QED
  BY <1>2, <1>3

LEMMA FinishAllRetouched ==
    ASSUME TypeInv, NEW ids, rows' = FinishAllUnknown(rows, ids, now)
    PROVE  Len(rows') = Len(rows) /\ \A i \in 1 .. Len(rows) : Retouched(i)
<1>1. rows \in Seq(Row) /\ now \in Int /\ \A i \in 1 .. Len(rows) : rows[i] \in Row
  BY SpacingTypes
<1>2. /\ Len(rows') = Len(rows) /\ rows' \in Seq(Row)
      /\ \A i \in 1 .. Len(rows) : i \notin ids => rows'[i] = rows[i]
  BY <1>1, FinishAllUnknownType
<1>3. ASSUME NEW i \in 1 .. Len(rows) PROVE Retouched(i)
  <2>1. i \in DOMAIN rows
    BY <1>1
  <2>2. CASE i \notin ids \/ rows'[i] = rows[i]
    BY <1>2, <2>2 DEF Retouched
  <2>3. CASE i \in ids /\ rows'[i] # rows[i]
    <3>1. rows'[i] = FinishRun(rows, i, NoExit, "unknown", now)[i]
      BY <2>1, <2>3 DEF FinishAllUnknown, FinishRunUnknownExit
    <3>2. /\ rows[i].finish = NoTime /\ ~rows[i].pruned
          /\ rows'[i] = [rows EXCEPT ![i] = Closed(@, NoExit, "unknown", now)][i]
      BY <2>3, <3>1 DEF FinishRun
    <3>3. rows'[i] = [rows[i] EXCEPT !.finish = now, !.exit = NoExit, !.error = "unknown"]
      BY <2>1, <3>2 DEF Closed
    <3>4. /\ rows'[i].start = rows[i].start /\ rows'[i].outcome = rows[i].outcome
          /\ rows'[i].pruned = rows[i].pruned /\ rows'[i].finish = now /\ rows'[i].exit # 0
      BY <1>1, <3>3 DEF Row, NoExit
    <3> QED
      BY <3>2, <3>4 DEF Retouched
  <2> QED
    BY <2>2, <2>3
<1> QED
  BY <1>2, <1>3

LEMMA PruneRetouched ==
    ASSUME TypeInv, Watermarked, SpacedInv, SpacingAssumption, cfg \in Configs, PruneHistory
    PROVE  Len(rows') = Len(rows) /\ \A i \in 1 .. Len(rows) : Retouched(i)
<1>1. /\ rows \in Seq(Row) /\ now \in Nat /\ cfg.interval \in Nat /\ NoTime = -1
      /\ \A i \in 1 .. Len(rows) : rows[i] \in Row /\ rows[i].start \in Int /\ rows[i].finish \in Int
  BY SpacingTypes DEF Watermarked
<1>2. cfg.interval <= Retention /\ Retention \in Nat /\ now - Retention \in Int
  BY <1>1, EngineAssumption DEF SpacingAssumption, PruneHistory, Watermarked
<1>3. rows' = Prune(rows, now - Retention)
  BY DEF PruneHistory
<1>4. Len(rows') = Len(rows)
  BY <1>1, <1>2, <1>3, PruneType
<1>5. ASSUME NEW i \in 1 .. Len(rows) PROVE Retouched(i)
  <2> DEFINE old == LastTouched(rows[i]) < now - Retention
  <2>1. rows'[i] = [rows[i] EXCEPT !.pruned = @ \/ old]
    <3>1. i \in DOMAIN rows
      BY <1>1
    <3>2. Prune(rows, now - Retention)[i] = [rows[i] EXCEPT !.pruned = @ \/ old]
      BY <3>1 DEF Prune
    <3> QED
      BY <1>3, <3>2
  <2>2. old \in BOOLEAN
    OBVIOUS
  <2> HIDE DEF old
  <2>3. /\ rows'[i].start = rows[i].start /\ rows'[i].outcome = rows[i].outcome
        /\ rows'[i].finish = rows[i].finish /\ rows'[i].exit = rows[i].exit /\ rows'[i].error = rows[i].error
        /\ rows'[i].pruned = (rows[i].pruned \/ old)
    BY <1>1, <2>1, <2>2 DEF Row
  <2>4. CASE ~old
    BY <1>1, <2>3, <2>4 DEF Retouched, Row
  <2>5. CASE old
    <3>1. Dated(rows[i])
      BY DEF SpacedInv
    <3>2. LastTouched(rows[i]) < now - Retention
      BY <2>5 DEF old
    <3>3. Passed(rows[i].start) /\ (rows[i].finish # NoTime => Passed(rows[i].finish))
      BY <1>1, <1>2, <3>1, <3>2 DEF Dated, Passed, LastTouched
    <3>4. rows[i].exit = 0 => Passed(rows[i].finish)
      BY <3>1, <3>3 DEF Dated
    <3> QED
      BY <2>3, <3>3, <3>4 DEF Retouched
  <2> QED
    BY <2>4, <2>5
<1> QED
  BY <1>4, <1>5

\* Time goes on, and rows are closed or deleted.
LEMMA SpacedKept ==
    ASSUME TypeInv, TypeInv', SpacedInv, Watermarked, Len(rows') = Len(rows),
           \A i \in 1 .. Len(rows) : Retouched(i), now' \in {now, now + 1}, cfg' = cfg, queued' = NoTime
    PROVE  SpacedInv'
<1>1. /\ now \in Nat /\ now' \in Nat /\ now' >= now /\ cfg.interval \in Nat /\ Len(rows) \in Nat /\ NoTime = -1
      /\ \A i \in 1 .. Len(rows) : rows[i].start \in Int /\ rows[i].finish \in Int
  BY SpacingTypes DEF Watermarked
<1>2. ASSUME NEW i \in 1 .. Len(rows) PROVE Dated(rows[i])'
  <2>1. Retouched(i) /\ Dated(rows[i])
    BY DEF SpacedInv
  <2> QED
    BY <1>1, <2>1, SMTT(30) DEF Retouched, Dated, Passed
<1>3. ASSUME NEW i \in 1 .. Len(rows), NEW j \in 1 .. Len(rows), i < j PROVE Follows(rows[i], rows[j])'
  <2>1. Retouched(i) /\ Retouched(j) /\ Follows(rows[i], rows[j]) /\ i # Len(rows)
    BY <1>1, <1>3 DEF SpacedInv
  <2> QED
    BY <1>1, <2>1 DEF Retouched, Follows
<1> QED
  BY <1>2, <1>3 DEF SpacedInv

\* No step but the start of a run adds a row, and none changes the task.
LEMMA SpacingRows ==
    ASSUME SpacingAssumption, RunInv, PidInv, OrderInv, SpacingInv, Watermarked, Next, ~FireWatermark, ~Trigger
    PROVE  /\ Len(rows') = Len(rows) /\ \A i \in 1 .. Len(rows) : Retouched(i)
           /\ now' \in {now, now + 1} /\ cfg' = cfg /\ queued' = NoTime
<1>1. /\ TypeInv /\ rows \in Seq(Row) /\ now \in Nat /\ queued = NoTime /\ cfg # NoTask /\ cfg \in Configs
      /\ SpacedInv /\ handles \subseteq Handle
  BY SpacingTypes DEF RunInv, SpacingInv, SpacedInv, Watermarked, OrderInv, TypeInv, TypeOK, MutexOK
<1>2. rows' = rows => Len(rows') = Len(rows) /\ \A i \in 1 .. Len(rows) : Retouched(i)
  BY DEF Retouched
<1>3. CASE \/ EnforceOwned \/ EnforceAdopted \/ NothingDue \/ Spawn \/ Register \/ ClearFinished
           \/ Pause \/ Resume \/ KillTimer \/ Kernel \/ ReleaseAll \/ ClockAdvance \/ Drained \/ Crash
  <2>1. CASE EnforceOwned \/ EnforceAdopted \/ NothingDue \/ Spawn \/ Register \/ Pause \/ Resume \/ KillTimer
    BY <1>1, <1>2, <2>1 DEF EnforceOwned, EnforceAdopted, NothingDue, Spawn, Register, Pause, Resume, KillTimer,
       memory, tables
  <2>2. CASE Kernel \/ ClockAdvance
    BY <1>1, <1>2, <2>2 DEF Kernel, ProcessExit, PidReused, StrangerExit, ClockAdvance, memory, tables
  <2>3. CASE ClearFinished \/ ReleaseAll \/ Drained \/ Crash
    BY <1>1, <1>2, <2>3 DEF ClearFinished, StartQueued, ReleaseAll, DisownQueued, Drained, Crash, Die, LoseState,
       tables
  <2> QED
    BY <1>3, <2>1, <2>2, <2>3
<1>4. CASE SettleAdopted
  <2>1. PICK err \in Errors : StartQueued(FinishRun(rows, released.id, NoExit, err, now), "due")
    BY <1>4 DEF SettleAdopted, FinishRunUnknownExit, Errors
  <2>2. rows' = FinishRun(rows, released.id, NoExit, err, now) /\ UNCHANGED <<now, cfg>> /\ queued' = NoTime
    BY <1>1, <1>4, <2>1 DEF StartQueued, SettleAdopted
  <2>3. NoExit \in ExitCodes /\ NoExit # 0
    BY DEF ExitCodes, NoExit
  <2> QED
    BY <1>1, <2>2, <2>3, FinishRetouched
<1>5. CASE RecordFinish
  <2>1. PICK h \in handles : rows' = FinishRun(rows, h.id, h.result, FinishError(h), now)
    BY <1>5 DEF RecordFinish, Recorded
  <2>2. h.result \in ExitCodes /\ FinishError(h) \in Errors
    BY <1>1 DEF FinishError, KillReason, Errors, Handle
  <2>3. h.id = Len(rows)
    BY DEF SpacingInv, LatestInv
  <2>4. UNCHANGED <<now, cfg, queued>>
    BY <1>5 DEF RecordFinish, memory
  <2> QED
    BY <1>1, <1>5, <2>1, <2>2, <2>3, <2>4, FinishRetouched
<1>6. CASE Reload \/ Start \/ SecondServe
  <2>1. PICK ids : rows' = FinishAllUnknown(rows, ids, now)
    BY <1>6, FinalizingStep
  <2>2. UNCHANGED <<now, cfg, queued>>
    BY <1>1, <1>6 DEF Reload, Start, SecondServe, Configure, LoadTask, Loadable, SpacingAssumption, memory
  <2> QED
    BY <1>1, <2>1, <2>2, FinishAllRetouched
<1>7. CASE PruneHistory
  BY <1>1, <1>7, PruneRetouched DEF PruneHistory, memory
<1>8. ~LaunchFail
  BY NoLaunchFails DEF SpacingAssumption
<1>9. ~CronFires
  BY DEF CronFires, Watermarked
<1> QED
  BY <1>3, <1>4, <1>5, <1>6, <1>7, <1>8, <1>9
     DEF Next, TickStep, Request, StartFire, MissFire, QueueFire, RestartFire

\* A run that is begun when no interval is still running, or by hand.
LEMMA SpacedBegun ==
    ASSUME TypeInv, TypeInv', SpacedInv, Watermarked, NEW sched \in Int, NEW outcome \in Outcomes,
           NEW cont \in {"free", "due"}, BeginRun(rows, sched, outcome, cont), UNCHANGED <<now, cfg, queued>>,
           outcome = "manual" \/ \A i \in 1 .. Len(rows) :
               Passed(rows[i].start) /\ (Succeeded(i) => Passed(rows[i].finish))
    PROVE  /\ SpacedInv' /\ Len(rows') = Len(rows) + 1 /\ job'.id = Len(rows')
           /\ \A i \in 1 .. Len(rows) : rows'[i] = rows[i]
           /\ rows'[Len(rows')].exit # 0
<1>1. /\ rows \in Seq(Row) /\ now \in Nat /\ now \in Time /\ cfg.interval \in Nat /\ Len(rows) \in Nat /\ NoTime = -1
      /\ \A i \in 1 .. Len(rows) : rows[i].start \in Int /\ rows[i].finish \in Int
  BY SpacingTypes DEF Watermarked
<1>2. PICK row \in Row : row = NewRow(sched, now, outcome, "")
  <2>1. now \in Int /\ "" \in Reasons
    BY <1>1 DEF Reasons
  <2> QED
    BY <2>1, NewRowType
<1>3. row.start = now /\ row.finish = NoTime /\ row.exit # 0 /\ row.outcome = outcome /\ ~row.pruned
  <2>1. /\ row.start = now /\ row.finish = NoTime /\ row.exit = NoExit /\ row.outcome = outcome
        /\ row.pruned = FALSE
    BY <1>2 DEF NewRow
  <2> QED
    BY <2>1 DEF NoExit
<1>4. rows' = Append(rows, row) /\ job'.id = Len(rows) + 1
  BY <1>2 DEF BeginRun, StartRun, NoJob
<1>5. /\ Len(rows') = Len(rows) + 1 /\ rows'[Len(rows')] = row
      /\ \A i \in 1 .. Len(rows) : rows'[i] = rows[i]
  BY <1>1, <1>4
<1>6. ASSUME NEW i \in 1 .. Len(rows') PROVE Dated(rows'[i])
  <2>1. CASE i = Len(rows')
    BY <1>1, <1>3, <1>5, <2>1 DEF Dated
  <2>2. CASE i # Len(rows')
    <3>1. i \in 1 .. Len(rows)
      BY <1>1, <1>5, <2>2
    <3> QED
      BY <1>5, <3>1 DEF SpacedInv
  <2> QED
    BY <2>1, <2>2
<1>7. ASSUME NEW i \in 1 .. Len(rows'), NEW j \in 1 .. Len(rows'), i < j PROVE Follows(rows'[i], rows'[j])
  <2>1. i \in 1 .. Len(rows) /\ rows'[i] = rows[i]
    BY <1>1, <1>5, <1>7
  <2>2. CASE j # Len(rows')
    <3>1. j \in 1 .. Len(rows)
      BY <1>1, <1>5, <2>2
    <3> QED
      BY <1>5, <1>7, <2>1, <3>1 DEF SpacedInv
  <2>3. CASE j = Len(rows')
    <3>1. Dated(rows[i])
      BY <2>1 DEF SpacedInv
    <3>2. outcome = "manual" \/ (Passed(rows[i].start) /\ (Succeeded(i) => Passed(rows[i].finish)))
      BY <2>1
    <3> QED
      BY <1>1, <1>3, <1>5, <2>1, <2>3, <3>1, <3>2 DEF Dated, Follows, Passed, Succeeded
  <2> QED
    BY <2>2, <2>3
<1>8. SpacedInv'
  BY <1>6, <1>7 DEF SpacedInv, Dated, Passed, Follows
<1> QED
  BY <1>3, <1>4, <1>5, <1>8

\* A watermark that is ready has no interval still running.
LEMMA ReadyPassed ==
    ASSUME TypeInv, ServedInv, SpacedInv, MemoryInv, Watermarked, FireWatermark, NEW i \in 1 .. Len(rows)
    PROVE  Passed(rows[i].start) /\ (Succeeded(i) => Passed(rows[i].finish))
<1>1. /\ now \in Nat /\ NoTime = -1 /\ lastAttempt \in Int /\ lastSuccess \in Int /\ cfg.interval \in Nat
      /\ rows[i].start \in Int /\ rows[i].finish \in Int
  BY SpacingTypes DEF Watermarked
<1>2. pc = "due" /\ up = "up" /\ (watermarkDue = NoTime \/ now >= watermarkDue)
  BY DEF FireWatermark, DueStep, Locked, ServedInv, WatermarkReady
<1>3. Remembered(i) /\ ~Starting(i) /\ ~Clearing(i)
  BY <1>2 DEF MemoryInv, Starting, Clearing
<1>4. ASSUME NEW t \in Int, t <= lastAttempt \/ t <= lastSuccess, t >= 0 PROVE Passed(t)
  BY <1>1, <1>2, <1>4 DEF watermarkDue, Passed
<1>5. rows[i].start >= 0 /\ (Succeeded(i) => rows[i].finish >= 0)
  <2>1. /\ 0 <= rows[i].start /\ (Succeeded(i) => rows[i].finish # NoTime)
        /\ rows[i].finish # NoTime => rows[i].start <= rows[i].finish
    BY DEF SpacedInv, Dated, Succeeded
  <2> QED
    BY <1>1, <2>1
<1> QED
  BY <1>1, <1>3, <1>4, <1>5 DEF Remembered

\* A run starts when the task is idle and in service.
LEMMA SpacingStarts ==
    ASSUME ServedAssumption, RunInv, TypeInv', ServedInv, SpacingInv, Watermarked, FireWatermark \/ Trigger
    PROVE  SpacingInv'
<1>1. /\ TypeInv /\ SpacedInv /\ MemoryInv /\ now \in Int /\ Len(rows) \in Nat /\ cfg.interval \in Nat
      /\ queued = NoTime
  BY SpacingTypes DEF RunInv, SpacingInv, SpacedInv, Watermarked
<1>2. /\ up = "up" /\ ~busy /\ pc \in {"due", "free"} /\ pc' = "spawn"
      /\ UNCHANGED <<now, up, cfg, queued, handles, lastAttempt, lastSuccess>>
  BY DEF FireWatermark, Trigger, DueStep, Locked, Serving, Idle, ServedAssumption, ServedInv, BeginRun, memory
<1>3. handles = {}
  BY <1>2 DEF ServedInv, RunInv, QueueInv, busy
<1>4. PICK sched \in Int, outcome \in Outcomes, cont \in {"free", "due"} :
        /\ BeginRun(rows, sched, outcome, cont)
        /\ outcome = "manual" \/ FireWatermark
  <2>1. {"on_time", "queued", "manual"} \subseteq Outcomes
    BY DEF Outcomes
  <2>2. watermarkDue \in Int
    <3>1. lastAttempt \in Int /\ lastSuccess \in Int /\ NoTime \in Int
      BY <1>1, SpacingTypes
    <3> QED
      BY <1>1, <3>1 DEF watermarkDue
  <2>3. PICK due \in Int : due = watermarkDue
    BY <2>2
  <2>4. CASE Trigger
    BY <1>1, <2>1, <2>4 DEF Trigger
  <2>5. CASE FireWatermark
    BY <1>1, <2>1, <2>3, <2>5 DEF FireWatermark
  <2> QED
    BY <2>4, <2>5
<1>5. outcome = "manual" \/ \A i \in 1 .. Len(rows) :
          Passed(rows[i].start) /\ (Succeeded(i) => Passed(rows[i].finish))
  BY <1>1, <1>4, ReadyPassed
<1>6. /\ SpacedInv' /\ Len(rows') = Len(rows) + 1 /\ job'.id = Len(rows')
      /\ \A i \in 1 .. Len(rows) : rows'[i] = rows[i]
      /\ rows'[Len(rows')].exit # 0
  BY <1>1, <1>2, <1>4, <1>5, SpacedBegun
<1>7. LatestInv'
  BY <1>2, <1>3, <1>6 DEF LatestInv
<1>8. ASSUME NEW i \in 1 .. Len(rows') PROVE Remembered(i)'
  <2>1. CASE i = Len(rows')
    BY <1>2, <1>6, <2>1 DEF Remembered, Starting, Succeeded
  <2>2. CASE i # Len(rows')
    <3>1. i \in 1 .. Len(rows) /\ rows'[i] = rows[i]
      BY <1>1, <1>6, <2>2
    <3>2. Remembered(i) /\ ~Starting(i) /\ ~Clearing(i)
      BY <1>2, <3>1 DEF SpacingInv, MemoryInv, Starting, Clearing
    <3> QED
      BY <1>2, <3>1, <3>2 DEF Remembered, Succeeded, Passed
  <2> QED
    BY <2>1, <2>2
<1>9. MemoryInv'
  BY <1>8 DEF MemoryInv
<1> QED
  BY <1>6, <1>7, <1>9 DEF SpacingInv

\* The runs that end, or are being started, stay the last in the history.
LEMMA LatestKept ==
    ASSUME RunInv, LatestInv, Watermarked, Next, ~FireWatermark, ~Trigger, Len(rows') = Len(rows), cfg' = cfg
    PROVE  LatestInv'
<1>1. TypeInv /\ MutexStep /\ job \in Job /\ handles \subseteq Handle /\ Len(rows) \in Nat
  BY StepMutex, SpacingTypes DEF RunInv, TypeInv, TypeOK, MutexOK
<1>2. \E closed : HistoryStep(closed)
  BY <1>1, StepHistory
<1>3. CASE Spawn
  <2>1. PICK p \in Pids :
        /\ handles' = handles \cup {[id |-> job.id, pid |-> p, result |-> NoExit, killAt |-> NoTime]}
        /\ job' = [job EXCEPT !.pid = p] /\ pc = "spawn"
    BY <1>3 DEF Spawn, Locked
  <2>2. job'.id = job.id /\ job.id = Len(rows)
    BY <1>1, <2>1 DEF Job, LatestInv
  <2> QED
    BY <2>1, <2>2 DEF LatestInv
<1>4. CASE RecordFinish
  <2>1. PICK h \in handles : handles' = handles \ {h} /\ job'.id = h.id
    BY <1>4 DEF RecordFinish, NoJob
  <2> QED
    BY <2>1 DEF LatestInv
<1>5. CASE ~Spawn /\ ~RecordFinish
  <2>1. \A h \in handles' : \E g \in handles : h.id = g.id
    <3>1. CASE Register
      BY <3>1 DEF Register
    <3> QED
      BY <1>1, <1>5, <3>1, StepFewer DEF Fewer
  <2>2. pc' \in {"spawn", "register", "clear"} => pc = pc' /\ job' = job
    BY <1>1, <1>2, <1>5 DEF MutexStep, HistoryStep
  <2> QED
    BY <2>1, <2>2 DEF LatestInv
<1> QED
  BY <1>3, <1>4, <1>5

LEMMA RememberedKept ==
    ASSUME TypeInv, Watermarked, NEW i \in 1 .. Len(rows), Remembered(i), Retouched(i),
           now' \in {now, now + 1}, UNCHANGED <<cfg, lastAttempt, lastSuccess>>,
           Starting(i) => Starting(i)', Clearing(i) => Clearing(i)',
           rows[i].finish = NoTime /\ Succeeded(i)' => Clearing(i)'
    PROVE  Remembered(i)'
<1>1. now \in Int /\ now' >= now /\ cfg.interval \in Int /\ rows[i].start \in Int /\ rows[i].finish \in Int
  BY SpacingTypes DEF Watermarked
<1>2. rows[i].start <= lastAttempt \/ Passed(rows[i].start)' \/ Starting(i)'
  BY <1>1 DEF Remembered, Retouched, Passed
<1>3. rows'[i].start = rows[i].start
  BY DEF Retouched
<1>4. ASSUME Succeeded(i)', ~Clearing(i)'
      PROVE  rows'[i].finish = rows[i].finish /\ (rows[i].finish <= lastSuccess \/ Passed(rows[i].finish)')
  <2>1. Succeeded(i) /\ rows'[i].finish = rows[i].finish
    BY <1>4 DEF Retouched, Succeeded
  <2> QED
    BY <1>1, <1>4, <2>1 DEF Remembered, Passed
<1> QED
  BY <1>2, <1>3, <1>4 DEF Remembered, Passed

\* What a start recovers from the kept history, it remembers.
LEMMA RecoveredRemembers ==
    ASSUME TypeInv, SpacedInv, Watermarked, NEW i \in 1 .. Len(rows)
    PROVE  /\ rows[i].start <= LastRunStart(rows) \/ Passed(rows[i].start)
           /\ rows[i].exit = 0 => rows[i].finish <= LastSuccess(rows) \/ Passed(rows[i].finish)
<1>1. /\ Len(rows) \in Nat /\ DOMAIN rows = 1 .. Len(rows) /\ Dated(rows[i]) /\ NoTime = -1
      /\ \A j \in 1 .. Len(rows) : rows[j].start \in Int /\ rows[j].finish \in Int
  BY SpacingTypes DEF SpacedInv
<1>2. CASE rows[i].pruned
  BY <1>1, <1>2 DEF Dated
<1>3. CASE ~rows[i].pruned
  <2>1. Kept(rows) \in SUBSET (1 .. Len(rows)) /\ i \in Kept(rows)
    BY <1>1, <1>3 DEF Kept
  <2>2. PICK l : l = Latest(Kept(rows)) /\ l \in 1 .. Len(rows) /\ i <= l
    BY <1>1, <2>1, LatestInSet
  <2>3. LastRunStart(rows) = rows[l].start
    BY <2>1, <2>2 DEF LastRunStart
  <2>4. rows[i].start <= rows[l].start
    <3>1. i < l => rows[i].start <= rows[l].start
      BY <2>2 DEF SpacedInv, Follows
    <3>2. i = l => rows[i].start <= rows[l].start
      BY <1>1
    <3> QED
      BY <1>1, <2>2, <3>1, <3>2
  <2>5. ASSUME rows[i].exit = 0 PROVE rows[i].finish <= LastSuccess(rows)
    <3> DEFINE ok == {j \in Kept(rows) : rows[j].exit = 0}
    <3>1. ok \in SUBSET (1 .. Len(rows)) /\ i \in ok
      BY <2>1, <2>5
    <3>2. PICK m : m = Latest(ok) /\ m \in ok /\ m \in 1 .. Len(rows) /\ i <= m
      BY <1>1, <3>1, LatestInSet
    <3>3. LastSuccess(rows) = rows[m].finish
      BY <3>1, <3>2 DEF LastSuccess
    <3>4. i < m => rows[i].finish <= rows[m].start
      BY <2>5, <3>2 DEF SpacedInv, Follows
    <3>5. rows[m].start <= rows[m].finish
      BY <3>2 DEF SpacedInv, Dated
    <3>6. rows[i].finish <= rows[m].finish
      <4>1. CASE i = m
        BY <1>1, <4>1
      <4>2. CASE i < m
        BY <1>1, <3>2, <3>4, <3>5, <4>2
      <4> QED
        BY <1>1, <3>2, <4>1, <4>2
    <3> QED
      BY <3>3, <3>6
  <2> QED
    BY <2>3, <2>4, <2>5
<1> QED
  BY <1>2, <1>3

\* The end of a run that the engine holds is remembered when it is cleared.
LEMMA MemoryFinish ==
    ASSUME RunInv, ServedInv, SpacingInv, Watermarked, up = "up", cfg' = cfg, RecordFinish,
           \A i \in 1 .. Len(rows) : Retouched(i), NEW i \in 1 .. Len(rows)
    PROVE  Remembered(i)'
<1>1. TypeInv /\ handles \subseteq Handle /\ rows \in Seq(Row) /\ now \in Int /\ i \in DOMAIN rows
  BY SpacingTypes DEF RunInv, TypeInv, TypeOK, MutexOK
<1>2. PICK h \in handles :
        /\ rows' = FinishRun(rows, h.id, h.result, FinishError(h), now) /\ pc = "free" /\ pc' = "clear"
        /\ job' = [NoJob EXCEPT !.id = h.id, !.success = (h.result = 0 /\ FinishError(h) = "")]
        /\ UNCHANGED <<now, running, lastAttempt, lastSuccess>>
  BY DEF RecordFinish, Recorded, Idle, Locked, memory
<1>3. h.id = running.id /\ job'.id = h.id /\ job'.success = (h.result = 0 /\ FinishError(h) = "")
  BY <1>2 DEF ServedInv, NoJob
<1>4. ~Starting(i) /\ ~Clearing(i)
  BY <1>2 DEF Starting, Clearing
<1>5. ASSUME rows[i].finish = NoTime, Succeeded(i)' PROVE Clearing(i)'
  <2>1. Dated(rows[i]) /\ rows'[i] # rows[i]
    BY <1>5 DEF SpacingInv, SpacedInv, Dated, Succeeded
  <2>2. i = h.id /\ rows' = [rows EXCEPT ![i] = Closed(@, h.result, FinishError(h), now)]
    <3>1. rows' # rows
      BY <2>1
    <3>2. rows' = [rows EXCEPT ![h.id] = Closed(@, h.result, FinishError(h), now)]
      BY <1>2, <3>1 DEF FinishRun
    <3> QED
      BY <1>1, <2>1, <3>2
  <2>3. rows'[i] = [rows[i] EXCEPT !.finish = now, !.exit = h.result, !.error = FinishError(h)]
    BY <1>1, <2>2 DEF Closed
  <2>4. rows[i] \in Row
    BY <1>1
  <2>5. rows'[i].exit = h.result /\ rows'[i].error = FinishError(h)
    BY <2>3, <2>4 DEF Row
  <2>6. job'.success
    BY <1>3, <1>5, <2>5, Zenon DEF Succeeded
  <2> QED
    BY <1>2, <1>3, <2>2, <2>6 DEF Clearing
<1>6. Remembered(i) /\ Retouched(i)
  BY DEF SpacingInv, MemoryInv
<1> QED
  BY <1>1, <1>2, <1>4, <1>5, <1>6, RememberedKept

LEMMA MemoryKept ==
    ASSUME SpacingAssumption, RunInv, TypeInv', PidInv, ServedInv, SpacingInv, Watermarked, Next,
           ~FireWatermark, ~Trigger, Len(rows') = Len(rows), \A i \in 1 .. Len(rows) : Retouched(i),
           now' \in {now, now + 1}, cfg' = cfg
    PROVE  MemoryInv'
<1> SUFFICES ASSUME up' = "up", NEW i \in 1 .. Len(rows) PROVE Remembered(i)'
  BY DEF MemoryInv
<1>1. /\ TypeInv /\ job \in Job /\ running \in OwnedRun /\ cfg # NoTask /\ SpacedInv /\ LatestInv /\ Retouched(i)
      /\ up = "up" => Remembered(i)
  BY DEF RunInv, TypeInv, TypeOK, MutexOK, MemoryOK, Watermarked, SpacingInv, MemoryInv
<1>2. /\ now \in Int /\ cfg.interval \in Int /\ Len(rows) \in Nat /\ NoTime = -1
      /\ \A j \in 1 .. Len(rows) : rows[j].start \in Int /\ rows[j].finish \in Int
  BY <1>1, SpacingTypes
<1>3. ASSUME ~RecordFinish, Succeeded(i)' PROVE Succeeded(i) /\ rows'[i].finish = rows[i].finish
  BY <1>1, <1>3 DEF Retouched, Succeeded
<1>4. ASSUME ~RecordFinish, rows[i].finish = NoTime, Succeeded(i)' PROVE FALSE
  <2>1. Succeeded(i) /\ Dated(rows[i])
    BY <1>1, <1>3, <1>4 DEF SpacedInv
  <2> QED
    BY <1>4, <2>1 DEF Succeeded, Dated
<1>5. rows'[i].start = rows[i].start
  BY <1>1 DEF Retouched
<1>6. CASE Start
  <2>1. lastAttempt' = LastRunStart(rows) /\ lastSuccess' = LastSuccess(rows) /\ ~RecordFinish /\ now' = now
    BY <1>1, <1>6 DEF Start, RecordFinish, Idle, Locked, Configure, LoadTask, Loadable, SpacingAssumption, Watermarked
  <2>2. /\ rows[i].start <= LastRunStart(rows) \/ Passed(rows[i].start)
        /\ rows[i].exit = 0 => rows[i].finish <= LastSuccess(rows) \/ Passed(rows[i].finish)
    BY <1>1, RecoveredRemembers
  <2>3. Succeeded(i)' => rows'[i].finish <= LastSuccess(rows) \/ Passed(rows'[i].finish)
    BY <1>3, <2>1, <2>2 DEF Succeeded
  <2> QED
    BY <1>5, <2>1, <2>2, <2>3 DEF Remembered, Passed
<1>7. CASE Register
  <2>1. /\ lastAttempt' = rows[job.id].start /\ lastSuccess' = lastSuccess /\ up = "up" /\ pc = "register"
        /\ UNCHANGED <<now, rows>> /\ job.id = Len(rows)
    BY <1>1, <1>7 DEF Register, Locked, ServedInv, LatestInv
  <2>2. rows[i].start <= rows[job.id].start
    <3>1. CASE i = job.id
      BY <1>2, <3>1
    <3>2. CASE i # job.id
      <4>1. i < job.id /\ job.id \in 1 .. Len(rows)
        BY <1>2, <2>1, <3>2
      <4> QED
        BY <1>1, <4>1 DEF SpacedInv, Follows
    <3> QED
      BY <3>1, <3>2
  <2>3. ~Clearing(i)
    BY <2>1 DEF Clearing
  <2> QED
    BY <1>1, <2>1, <2>2, <2>3 DEF Remembered, Succeeded, Passed
<1>8. CASE ClearFinished /\ running.id = job.id
  <2>1. /\ UNCHANGED <<up, now, rows, lastAttempt>> /\ pc = "clear"
        /\ lastSuccess' = IF job.success THEN now ELSE lastSuccess
    BY <1>1, <1>8 DEF ClearFinished, StartQueued, Locked, SpacedInv
  <2>2. Remembered(i) /\ Dated(rows[i]) /\ ~Starting(i)
    BY <1>1, <2>1 DEF SpacedInv, Starting
  <2>3. Succeeded(i) => rows[i].finish <= lastSuccess' \/ Passed(rows[i].finish)
    <3>1. CASE job.success
      BY <2>1, <2>2, <3>1 DEF Dated, Succeeded
    <3>2. CASE ~job.success
      BY <2>1, <2>2, <3>2 DEF Remembered, Clearing
    <3> QED
      BY <3>1, <3>2
  <2> QED
    BY <2>1, <2>2, <2>3 DEF Remembered, Succeeded, Passed
<1>9. CASE RecordFinish
  <2>1. up = "up"
    BY <1>9 DEF RecordFinish
  <2> QED
    BY <1>9, <2>1, MemoryFinish
<1>10. ASSUME ~RecordFinish, UNCHANGED <<up, lastAttempt, lastSuccess>>,
              pc \in {"spawn", "register"} => pc' \in {"spawn", "register"} /\ job'.id = job.id,
              pc = "clear" => (pc' = "clear" /\ job' = job /\ running'.id = running.id) \/ running.id # job.id
       PROVE  Remembered(i)'
  <2>1. (Starting(i) => Starting(i)') /\ (Clearing(i) => Clearing(i)')
    BY <1>10 DEF Starting, Clearing
  <2> QED
    BY <1>1, <1>4, <1>10, <2>1, RememberedKept
<1>11. CASE Spawn
  <2>1. /\ ~RecordFinish /\ UNCHANGED <<up, lastAttempt, lastSuccess>>
        /\ pc = "spawn" /\ pc' = "register" /\ job'.id = job.id
    BY <1>1, <1>11 DEF Spawn, RecordFinish, Idle, Locked, memory, Job
  <2> QED
    BY <1>10, <2>1
<1>12. CASE TickStep
  <2>1. ~RecordFinish /\ UNCHANGED <<up, lastAttempt, lastSuccess>> /\ pc \in {"free", "due"}
    <3>1. pc \in {"free", "due"} /\ pc' # "clear"
      BY <1>1, <1>12, TickPoint
    <3> QED
      BY <1>12, <3>1 DEF TickStep, EnforceOwned, EnforceAdopted, SettleAdopted, NothingDue, FireWatermark, StartFire,
         MissFire, QueueFire, RestartFire, FireCron, memory, RecordFinish
  <2> QED
    BY <1>10, <2>1, SMTT(30)
<1>13. CASE Pause \/ Resume \/ Reload
  <2>1. ~RecordFinish /\ UNCHANGED <<up, lastAttempt, lastSuccess>> /\ pc = "free"
    <3>1. pc = "free" /\ pc' = "free" /\ up # "down"
      BY <1>13 DEF Pause, Resume, Reload, Serving, Idle, Locked
    <3> QED
      BY <1>1, <1>13, <3>1 DEF Pause, Resume, Reload, Configure, LoadTask, Loadable, SpacingAssumption, RecordFinish
  <2> QED
    BY <1>10, <2>1
<1>14. CASE SecondServe \/ PruneHistory \/ ClockAdvance \/ KillTimer \/ Kernel
  <2>1. UNCHANGED <<up, lastAttempt, lastSuccess, running, pc, job>>
    BY <1>14 DEF SecondServe, PruneHistory, ClockAdvance, KillTimer, Kernel, ProcessExit, PidReused, StrangerExit,
       memory
  <2>2. ~RecordFinish
    BY <2>1 DEF RecordFinish, Idle, Locked
  <2> QED
    BY <1>10, <2>1, <2>2
<1>15. CASE ClearFinished /\ running.id # job.id
  <2>1. ~RecordFinish /\ UNCHANGED <<up, lastAttempt, lastSuccess>> /\ pc = "clear"
    BY <1>15 DEF ClearFinished, Locked, RecordFinish, Idle
  <2> QED
    BY <1>10, <1>15, <2>1
<1>16. ~(ReleaseAll \/ Drained \/ Crash) /\ ~LaunchFail
  <2>1. ~LaunchFail
    BY NoLaunchFails DEF SpacingAssumption
  <2> QED
    BY <2>1 DEF ReleaseAll, Drained, Crash, Die
<1> QED
  BY <1>6, <1>7, <1>8, <1>9, <1>11, <1>12, <1>13, <1>14, <1>15, <1>16 DEF Next, Request

LEMMA SpacingStep ==
    SpacingAssumption /\ RunInv /\ TypeInv' /\ PidInv /\ ServedInv /\ OrderInv /\ SpacingInv /\ [Next]_vars
    => SpacingInv'
<1> SUFFICES ASSUME SpacingAssumption, RunInv, TypeInv', PidInv, ServedInv, OrderInv, SpacingInv, [Next]_vars
             PROVE  SpacingInv'
  OBVIOUS
<1>1. CASE UNCHANGED vars
  BY <1>1 DEF vars, memory, tables, kernel, SpacingInv, SpacedInv, LatestInv, MemoryInv, Watermarked, Dated,
     Passed, Follows, Remembered, Starting, Clearing, Succeeded
<1>2. CASE Next /\ ~Watermarked
  <2>1. Watermarked' => FALSE
    <3>1. cfg' = cfg
      BY <1>2, SameConfig DEF SpacingAssumption
    <3> QED
      BY <1>2, <3>1 DEF Watermarked
  <2> QED
    BY <2>1 DEF SpacingInv, SpacedInv, LatestInv, MemoryInv
<1>3. CASE Next /\ Watermarked /\ (FireWatermark \/ Trigger)
  <2>1. ServedAssumption
    BY DEF SpacingAssumption, ServedAssumption
  <2> QED
    BY <1>3, <2>1, SpacingStarts
<1>4. CASE Next /\ Watermarked /\ ~FireWatermark /\ ~Trigger
  <2>1. /\ Len(rows') = Len(rows) /\ \A i \in 1 .. Len(rows) : Retouched(i)
        /\ now' \in {now, now + 1} /\ cfg' = cfg /\ queued' = NoTime
    BY <1>4, SpacingRows
  <2>2. SpacedInv'
    BY <1>4, <2>1, SpacedKept DEF SpacingInv, RunInv
  <2>3. LatestInv'
    BY <1>4, <2>1, LatestKept DEF SpacingInv
  <2>4. MemoryInv'
    BY <1>4, <2>1, MemoryKept
  <2> QED
    BY <2>2, <2>3, <2>4 DEF SpacingInv
<1> QED
  BY <1>1, <1>2, <1>3, <1>4

\* engine.go "a failing task retries at the same cadence instead of
\* crash-looping": no run of a watermark but a manual one starts within an
\* interval of the attempts before it, or of the successes.  This holds over
\* stops, crashes at any point, ps that fails, a second daemon, deleted rows
\* and triggers, as what a start recovers from the history is enough.
THEOREM AttemptsSpaced ==
    ASSUME SpacingAssumption
    PROVE  Spec => []WatermarkSpacing
<1>1. ServedAssumption
  BY DEF SpacingAssumption, ServedAssumption
<1>2. RunInv /\ ServedInv /\ [Next]_vars => ServedInv'
  BY <1>1, ServedStep
<1>3. RunInv /\ RunInv' /\ OrderInv /\ [Next]_vars => OrderInv'
  BY OrderStep DEF RunInv
<1>4. RunInv /\ RunInv' /\ PidInv /\ ServedInv /\ OrderInv /\ SpacingInv /\ [Next]_vars => SpacingInv'
  BY SpacingStep DEF RunInv
<1>5. RunInv /\ SpacingInv => WatermarkSpacing
  <2> SUFFICES ASSUME RunInv, SpacedInv, Watermarked, NEW i \in RunIds, NEW j \in RunIds, i < j,
                      rows[j].outcome # "manual"
               PROVE  /\ rows[j].start >= rows[i].start + cfg.interval
                      /\ Succeeded(i) => rows[j].start >= rows[i].finish + cfg.interval
    BY DEF WatermarkSpacing, SpacingInv, Watermarked
  <2>1. /\ i \in 1 .. Len(rows) /\ j \in 1 .. Len(rows) /\ cfg.interval \in Int
        /\ rows[i].start \in Int /\ rows[i].finish \in Int /\ rows[j].start \in Int
    BY SpacingTypes DEF RunIds, RunInv, Watermarked
  <2>2. Follows(rows[i], rows[j])
    BY <2>1 DEF SpacedInv
  <2> QED
    BY <2>1, <2>2 DEF Follows, Succeeded
<1> QED
  BY <1>2, <1>3, <1>4, <1>5, RunInvInit, RunInvStep, PidInit, PidStep, ServedInit, OrderInit, SpacingInit,
     PTL DEF Spec

-----------------------------------------------------------------------------
(* The status tells what the engine then does *)

\* No fire waits for a task that is paused, or changed, meanwhile, and what a
\* cron task starts is the awaited fire, at its time.
StatusAssumption ==
    /\ {"edit", "pause"} \cap Events = {}
    /\ Timely \/ \A c \in Configs \ {NoTask} : IsWatermark(c)

ForetoldInv ==
    /\ ~paused /\ ~pausedDb
    /\ queued # NoTime => cfg # NoTask /\ cfg.enabled /\ ~IsWatermark(cfg)
    /\ Timely => EarlyInv

LEMMA ForetoldInit == Init => ForetoldInv
BY EarlyInit DEF Init, ForetoldInv

LEMMA ForetoldStep ==
    StatusAssumption /\ TypeInv /\ TypeInv' /\ OrderInv /\ ForetoldInv /\ [Next]_vars => ForetoldInv'
<1> SUFFICES ASSUME StatusAssumption, TypeInv, TypeInv', OrderInv, ForetoldInv, [Next]_vars PROVE ForetoldInv'
  OBVIOUS
<1>1. Timely => EarlyInv'
  BY EarlyStep DEF ForetoldInv, JitterAssumption
<1>2. CASE UNCHANGED vars
  BY <1>1, <1>2 DEF vars, memory, tables, ForetoldInv
<1>3. CASE Next
  <2>1. cfg' = cfg
    BY <1>3, SameConfig DEF StatusAssumption
  <2>2. ~paused' /\ ~pausedDb'
    <3>1. ~paused /\ ~pausedDb /\ ~Pause /\ ~Resume
      BY DEF ForetoldInv, StatusAssumption, Pause, Resume
    <3>2. CASE TickStep \/ Spawn \/ LaunchFail \/ Register \/ RecordFinish \/ ClearFinished
      <4>1. UNCHANGED <<paused, pausedDb>>
        <5>1. CASE TickStep
          BY <5>1 DEF TickStep, EnforceOwned, EnforceAdopted, SettleAdopted, NothingDue, FireWatermark, StartFire,
             MissFire, QueueFire, RestartFire, FireCron, memory, tables
        <5>2. CASE Spawn \/ LaunchFail \/ Register \/ RecordFinish \/ ClearFinished
          BY <5>2 DEF Spawn, LaunchFail, Register, RecordFinish, ClearFinished, memory, tables
        <5> QED
          BY <3>2, <5>1, <5>2
      <4> QED
        BY <3>1, <4>1
    <3>3. CASE Reload \/ Start
      <4>1. PICK c \in Configs : Configure(c) /\ UNCHANGED pausedDb
        BY <3>3 DEF Reload, Start, Loadable, OrderInv
      <4>2. CASE c = NoTask
        BY <3>1, <4>1, <4>2 DEF Configure, ForgetTask, LoseState
      <4>3. CASE c # NoTask
        <5>1. PICK known \in BOOLEAN : LoadTask(c, known)
          BY <4>1, <4>3 DEF Configure
        <5> QED
          BY <3>1, <4>1, <5>1 DEF LoadTask
      <4> QED
        BY <4>2, <4>3
    <3>4. CASE Trigger \/ SecondServe \/ PruneHistory \/ ReleaseAll \/ Drained \/ Crash
      BY <3>1, <3>4 DEF Trigger, SecondServe, PruneHistory, ReleaseAll, Drained, Crash, Die, LoseState, memory, tables
    <3>5. CASE ClockAdvance \/ KillTimer \/ Kernel
      BY <3>1, <3>5 DEF ClockAdvance, KillTimer, Kernel, ProcessExit, PidReused, StrangerExit, memory, tables
    <3> QED
      BY <1>3, <3>1, <3>2, <3>3, <3>4, <3>5 DEF Next, Request
  <2>3. queued' # NoTime /\ queued' # queued => cfg # NoTask /\ cfg.enabled /\ ~IsWatermark(cfg)
    <3>1. CASE StartFire \/ MissFire \/ QueueFire \/ RestartFire
      BY <3>1 DEF StartFire, MissFire, QueueFire, RestartFire, CronFires, DueStep, Locked, Active, TypeInv, HandlerOK
    <3>2. CASE QuietStep \/ FireWatermark \/ Trigger \/ SecondServe \/ PruneHistory
      <4>1. QuietStep => queued' = queued
        BY QuietRows
      <4> QED
        BY <3>2, <4>1 DEF FireWatermark, Trigger, SecondServe, PruneHistory, memory
    <3>3. CASE SettleAdopted \/ (ClearFinished /\ running.id = job.id) \/ ReleaseAll \/ Drained \/ Crash
      BY <3>3 DEF SettleAdopted, ClearFinished, StartQueued, ReleaseAll, DisownQueued, Drained, Crash, Die, LoseState
    <3>4. CASE Reload \/ Start
      <4>1. PICK c \in Configs : Configure(c) /\ now' = now
        BY <3>4 DEF Reload, Start, Loadable, OrderInv
      <4> QED
        BY <4>1, ConfiguredRows
    <3> QED
      BY <1>3, <3>1, <3>2, <3>3, <3>4 DEF Next, TickStep, Request, QuietStep
  <2> QED
    BY <1>1, <2>1, <2>2, <2>3 DEF ForetoldInv
<1> QED
  BY <1>2, <1>3

\* Where a run that is not a manual one comes from.
LEMMA BegunBy ==
    ASSUME TypeInv, TypeInv', OrderInv, Next, NEW i \in Begun
    PROVE  /\ i = job'.id
           /\ FireWatermark \/ StartFire \/ (queued # NoTime /\ rows'[i].sched = queued)
<1>1. /\ rows \in Seq(Row) /\ rows' \in Seq(Row) /\ Len(rows) \in Nat /\ Len(rows') \in Nat
      /\ rows'[i].start # NoTime /\ rows'[i].outcome # "manual"
  <2>1. rows \in Seq(Row) /\ rows' \in Seq(Row)
    BY DEF TypeInv, TypeOK, TablesOK
  <2> QED
    BY <2>1 DEF Begun
<1>2. i \in Len(rows) + 1 .. Len(rows') /\ (Len(rows') = Len(rows) + 1 => i = Len(rows) + 1)
  BY <1>1 DEF Begun
<1>3. pc' = "spawn" /\ pc # "spawn" /\ i = job'.id
  <2>1. MutexStep /\ \E closed : HistoryStep(closed)
    BY StepMutex, StepHistory
  <2>2. pc' = "spawn" /\ i = job'.id
    BY <1>1, <1>2, <2>1 DEF HistoryStep
  <2>3. pc # "spawn"
    BY <1>1, <1>2, <2>1, <2>2 DEF MutexStep
  <2> QED
    BY <2>2, <2>3
<1>4. ~QuietStep
  BY <1>1, <1>2, QuietRows
<1>5. ~(MissFire \/ QueueFire \/ RestartFire \/ Reload \/ Start \/ SecondServe \/ PruneHistory)
  BY <1>3 DEF MissFire, QueueFire, RestartFire, Reload, Start, SecondServe, PruneHistory
<1>6. ~Trigger
  BY <1>1, <1>2, TriggeredRows
<1>7. ~(Drained \/ Crash)
  BY <1>1, <1>2 DEF Drained, Crash, Die, tables
<1>8. ASSUME SettleAdopted \/ (ClearFinished /\ running.id = job.id)
      PROVE  queued # NoTime /\ rows'[i].sched = queued
  <2>1. PICK rows0 \in Seq(Row), cont \in {"free", "due"} : Len(rows0) = Len(rows) /\ StartQueued(rows0, cont)
    BY <1>8, SettledRows
  <2>2. /\ queued = NoTime => Len(rows') = Len(rows)
        /\ \A j \in Len(rows) + 1 .. Len(rows') : rows'[j].sched = queued
    BY <2>1, QueuedRows
  <2> QED
    BY <1>1, <1>2, <2>2
<1>9. ASSUME ReleaseAll PROVE queued # NoTime /\ rows'[i].sched = queued
  <2>1. /\ queued = NoTime => Len(rows') = Len(rows)
        /\ \A j \in Len(rows) + 1 .. Len(rows') : rows'[j].sched = queued
    BY <1>9, ReleasedRows
  <2> QED
    BY <1>1, <1>2, <2>1
<1> QED
  BY <1>3, <1>4, <1>5, <1>6, <1>7, <1>8, <1>9 DEF Next, TickStep, Request, QuietStep

\* The row of a run that is begun.
LEMMA BegunSched ==
    ASSUME TypeInv, NEW r \in Seq(Row), NEW sched \in Int, NEW outcome \in Outcomes, NEW cont,
           BeginRun(r, sched, outcome, cont)
    PROVE  rows'[job'.id].sched = sched
<1>1. now \in Time
  BY OrderTypes
<1>2. PICK row \in Row : row = NewRow(sched, now, outcome, "") /\ row.sched = sched
  BY <1>1, BegunRow, ZenonT(30)
<1>3. rows' = Append(r, row) /\ job'.id = Len(r) + 1
  BY <1>2 DEF BeginRun, StartRun, NoJob
<1>4. rows'[Len(r) + 1] = row
  BY <1>3
<1> QED
  BY <1>2, <1>3, <1>4

LEMMA WatermarkForetold ==
    ASSUME TypeInv, QueueInv, FireWatermark
    PROVE  NextExpected = At(now) /\ rows'[job'.id].sched # queued
<1>1. /\ now \in Nat /\ now \in Int /\ NoTime = -1 /\ rows \in Seq(Row) /\ lastAttempt \in Int /\ lastSuccess \in Int
      /\ cfg # NoTask => cfg.interval \in Nat
  BY SpacingTypes
<1>2. Active /\ IsWatermark(cfg) /\ ~busy /\ WatermarkReady /\ cfg # NoTask /\ queued = NoTime
  BY DEF FireWatermark, DueStep, Locked, TypeInv, HandlerOK, QueueInv, QueuedBehindARun
<1>3. PICK due : due = watermarkDue
  OBVIOUS
<1>4. due \in Int
  BY <1>1, <1>2, <1>3 DEF watermarkDue
<1>5. {"on_time", "queued"} \subseteq Outcomes
  BY DEF Outcomes
<1>6. PICK sched \in Int, outcome \in Outcomes : BeginRun(rows, sched, outcome, "free") /\ sched # NoTime
  <2>1. CASE due = NoTime
    BY <1>1, <1>3, <1>5, <2>1 DEF FireWatermark
  <2>2. CASE due # NoTime
    BY <1>3, <1>4, <1>5, <2>2 DEF FireWatermark
  <2> QED
    BY <2>1, <2>2
<1>7. rows'[job'.id].sched = sched
  BY <1>1, <1>6, BegunSched
<1>8. ShownDue = now
  <2>1. due = NoTime \/ now >= due
    BY <1>2, <1>3 DEF WatermarkReady
  <2>2. ShownDue = IF due < now THEN now ELSE due
    BY <1>3 DEF ShownDue
  <2> QED
    BY <1>1, <1>4, <2>1, <2>2
<1>9. NextExpected = At(ShownDue)
  BY <1>2 DEF NextExpected
<1> QED
  BY <1>2, <1>6, <1>7, <1>8, <1>9

LEMMA FireForetold ==
    ASSUME Timely, TypeInv, OrderInv, EarlyInv, QueueInv, StartFire
    PROVE  NextExpected = At(now) /\ rows'[job'.id].sched # queued
<1>1. PICK fires \in Elapsed, outcome \in Outcomes :
        CronFires /\ ~busy /\ BeginRun(Backlogged(fires), Last(fires), outcome, "free")
  BY DEF StartFire, Outcomes
<1>2. now = effectiveDue(cfg, nextFire) /\ Last(fires) = nextFire
  BY <1>1, DueReached DEF JitterAssumption
<1>3. nextFire \in Time /\ nextFire \in Int /\ nextFire # NoTime /\ Backlogged(fires) \in Seq(Row)
  BY <1>1, DueNotEarly, TimeIsInt, TimeFacts, BackloggedType, OrderTypes
<1>4. PICK b : b = Backlogged(fires)
  OBVIOUS
<1>5. rows'[job'.id].sched = nextFire
  <2>1. b \in Seq(Row) /\ BeginRun(b, nextFire, outcome, "free")
    BY <1>1, <1>2, <1>3, <1>4
  <2> QED
    BY <1>3, <2>1, BegunSched
<1>6. Active /\ ~IsWatermark(cfg) /\ queued = NoTime
  BY <1>1 DEF CronFires, QueueInv, QueuedBehindARun
<1>7. NextExpected = At(ShownFire) /\ ShownFire = now
  BY <1>2, <1>3, <1>6 DEF NextExpected, ShownFire
<1> QED
  BY <1>3, <1>5, <1>6, <1>7

\* A tick that finds nothing due passes over nothing shown as due.
LEMMA NothingForetold ==
    ASSUME TypeInv, OrderInv, NothingDue
    PROVE  ~(NextExpected.kind = "at" /\ NextExpected.at \in 0 .. now)
<1>1. /\ now \in Nat /\ NoTime = -1 /\ lastAttempt \in Int /\ lastSuccess \in Int /\ nextFire \in Int
      /\ cfg # NoTask /\ cfg \in TaskConfig /\ cfg.interval \in Nat
  BY SpacingTypes, OrderTypes DEF NothingDue, DueStep, Locked, TypeInv, TypeOK, HandlerOK, MemoryOK
<1>2. CASE ~Active
  BY <1>2 DEF NextExpected, Kind
<1>3. CASE Active /\ IsWatermark(cfg)
  <2>1. CASE busy
    BY <1>3, <2>1 DEF NextExpected, Kind
  <2>2. CASE ~busy
    <3>1. NextExpected = At(ShownDue) /\ ~WatermarkReady
      BY <1>3, <2>2 DEF NextExpected, NothingDue
    <3>2. PICK due : due = watermarkDue
      OBVIOUS
    <3>3. due \in Int /\ now < due
      <4>1. due \in Int
        BY <1>1, <3>2 DEF watermarkDue
      <4> QED
        BY <1>1, <3>1, <3>2, <4>1 DEF WatermarkReady
    <3>4. ShownDue = due
      BY <1>1, <3>2, <3>3 DEF ShownDue
    <3>5. NextExpected.at = due
      BY <3>1, <3>4 DEF At
    <3> QED
      BY <1>1, <3>3, <3>5
  <2> QED
    BY <2>1, <2>2
<1>4. CASE Active /\ ~IsWatermark(cfg)
  <2>1. CASE queued # NoTime
    BY <1>4, <2>1 DEF NextExpected, Kind
  <2>2. CASE queued = NoTime
    <3>1. NextExpected = At(ShownFire) /\ ~CronDue
      BY <1>4, <2>2 DEF NextExpected, NothingDue
    <3>2. NextExpected.at = ShownFire
      BY <3>1 DEF At
    <3>3. CASE nextFire = NoTime
      BY <1>1, <3>2, <3>3 DEF ShownFire
    <3>4. CASE nextFire # NoTime
      <4>1. nextFire \in Time
        BY <3>4 DEF TypeInv, TypeOK, MemoryOK, TimeOrNo
      <4>2. effectiveDue(cfg, nextFire) \in Int
        BY <1>1, <4>1, DueType
      <4>3. ~(now >= effectiveDue(cfg, nextFire)) /\ ShownFire = effectiveDue(cfg, nextFire)
        BY <3>1, <3>4 DEF CronDue, ShownFire
      <4> QED
        BY <1>1, <3>2, <4>2, <4>3
    <3> QED
      BY <3>3, <3>4
  <2> QED
    BY <2>1, <2>2
<1> QED
  BY <1>2, <1>3, <1>4

\* status.go "the status must show when the task will actually run": every run
\* but a manual one begins as next_expected_run said, at the time shown or after
\* the current run, and no tick passes over a start shown as due, over stops,
\* crashes, adoptions, reloads and failures of every kind.
THEOREM StatusIsKept ==
    ASSUME StatusAssumption
    PROVE  Spec => StatusForetells
<1>1. RunInv /\ RunInv' /\ OrderInv /\ [Next]_vars => OrderInv'
  BY OrderStep DEF RunInv
<1>2. RunInv /\ RunInv' /\ OrderInv /\ ForetoldInv /\ [Next]_vars => ForetoldInv'
  BY ForetoldStep DEF RunInv
<1> DEFINE AsShown == \A i \in Begun :
                        NextExpected = IF rows'[i].sched = queued THEN Kind("after_current") ELSE At(now)
           NonePassed == NothingDue => ~(NextExpected.kind = "at" /\ NextExpected.at \in 0 .. now)
<1>3. RunInv /\ RunInv' /\ OrderInv /\ ForetoldInv /\ [Next]_vars => [AsShown /\ NonePassed]_vars
  <2> SUFFICES ASSUME RunInv, RunInv', OrderInv, ForetoldInv, Next PROVE AsShown /\ NonePassed
    OBVIOUS
  <2>1. TypeInv /\ TypeInv' /\ QueueInv
    BY DEF RunInv
  <2>2. ASSUME NEW i \in Begun
        PROVE  NextExpected = IF rows'[i].sched = queued THEN Kind("after_current") ELSE At(now)
    <3>1. i = job'.id /\ (FireWatermark \/ StartFire \/ (queued # NoTime /\ rows'[i].sched = queued))
      BY <2>1, BegunBy
    <3>2. CASE FireWatermark
      BY <2>1, <3>1, <3>2, WatermarkForetold
    <3>3. CASE StartFire
      <4>1. Timely
        <5>1. cfg \in Configs \ {NoTask} /\ ~IsWatermark(cfg)
          BY <2>1, <3>3 DEF StartFire, CronFires, DueStep, Locked, TypeInv, HandlerOK, OrderInv
        <5> QED
          BY <5>1 DEF StatusAssumption
      <4> QED
        BY <2>1, <3>1, <3>3, <4>1, FireForetold DEF ForetoldInv
    <3>4. CASE queued # NoTime /\ rows'[i].sched = queued
      <4>1. Active /\ ~IsWatermark(cfg)
        BY <3>4 DEF ForetoldInv, Active
      <4>2. NextExpected = Kind("after_current")
        BY <3>4, <4>1 DEF NextExpected
      <4> QED
        BY <3>4, <4>2
    <3> QED
      BY <3>1, <3>2, <3>3, <3>4
  <2>3. NonePassed
    BY <2>1, NothingForetold
  <2> QED
    BY <2>2, <2>3
<1> QED
  BY <1>1, <1>2, <1>3, RunInvInit, RunInvStep, OrderInit, ForetoldInit, PTL DEF Spec, StatusForetells

-----------------------------------------------------------------------------
(* What a fire adds to the ledger *)

\* The entry of a row that records missed fires.
LEMMA MissedEntry ==
    ASSUME NEW row, NEW first, NEW before, MissedWithin(row, first, before)
    PROVE  LET e == LedgerEntry(row)
           IN  /\ ~e.manual /\ e.state = "missed" /\ e.first = row.sched /\ e.last = row.upto
               /\ first <= e.first /\ e.first <= e.last /\ e.last < before
BY DEF LedgerEntry, MissedWithin

\* The backlog and then the last of the elapsed fires are taken in their turn.
LEMMA TakenFires ==
    ASSUME TypeInv, OrderInv, CronFires, NEW fires \in Elapsed, NEW b, b = Backlogged(fires),
           NEW n \in Nat, Len(b) = Len(rows) + n,
           NEW new, new \in Seq(Ledger!Entry), Len(new) = n + 1,
           \A k \in 1 .. n : new[k] = LedgerEntry(b[Len(rows) + k]),
           new[n + 1].first = Last(fires), new[n + 1].last = Last(fires), ~new[n + 1].manual
    PROVE  Ledger!Taken(new)
<1>1. /\ now \in Int /\ queued \in Int /\ Len(rows) \in Nat /\ rows \in Seq(Row)
      /\ \A i \in 1 .. Len(rows) : rows[i].sched \in Int /\ rows[i].upto \in Int
  BY OrderTypes
<1>2. nextFire \in Int /\ nextFire # NoTime
  BY DueNotEarly, TimeIsInt, TimeFacts
<1>3. Last(fires) \in Int /\ nextFire <= Last(fires)
  BY ElapsedOrder DEF Last
<1>4. ASSUME NEW k \in 1 .. n
      PROVE  /\ ~new[k].manual /\ new[k].state = "missed" /\ new[k].first \in Int /\ new[k].last \in Int
             /\ nextFire <= new[k].first /\ new[k].first <= new[k].last /\ new[k].last < Last(fires)
  <2>1. Len(rows) + k \in Len(rows) + 1 .. Len(b)
    BY <1>1
  <2>2. MissedWithin(b[Len(rows) + k], nextFire, Last(fires))
    BY <2>1, BacklogFires
  <2>3. new[k] \in Ledger!Entry
    BY <1>1
  <2>4. new[k].first \in Int /\ new[k].last \in Int
    BY <2>3 DEF Ledger!Entry
  <2> QED
    BY <2>2, <2>4, MissedEntry
<1>5. \A k \in 1 .. n + 1 : /\ ~new[k].manual /\ new[k].first \in Int /\ new[k].last \in Int
                            /\ nextFire <= new[k].first /\ new[k].first <= new[k].last
  <2> TAKE k \in 1 .. n + 1
  <2>1. k \in 1 .. n \/ k = n + 1
    OBVIOUS
  <2> QED
    BY <1>3, <1>4, <2>1
<1>6. \A k \in 1 .. n : new[k].last < new[k + 1].first
  <2> TAKE k \in 1 .. n
  <2>1. CASE k = n
    BY <1>4, <2>1
  <2>2. CASE k # n
    <3>1. k + 1 \in 1 .. n
      BY <2>2
    <3>2. Len(rows) + k \in Len(rows) + 1 .. Len(b) /\ Len(rows) + (k + 1) \in Len(rows) + 1 .. Len(b)
      BY <1>1, <3>1
    <3>3. b[Len(rows) + k].upto < b[Len(rows) + (k + 1)].sched
      BY <1>1, <3>2, BacklogFires, SMTT(30)
    <3>4. new[k] = LedgerEntry(b[Len(rows) + k]) /\ new[k + 1] = LedgerEntry(b[Len(rows) + (k + 1)])
      BY <3>1
    <3>5. new[k].last = b[Len(rows) + k].upto /\ new[k + 1].first = b[Len(rows) + (k + 1)].sched
      BY <3>4 DEF LedgerEntry
    <3> QED
      BY <3>3, <3>5
  <2> QED
    BY <2>1, <2>2
<1>7. Ledger!Fresh(new[1].first)
  <2>1. queued < new[1].first
    BY <1>1, <1>2, <1>5 DEF OrderInv
  <2>2. \A i \in 1 .. Len(rows) :
            LedgerEntry(rows[i]).manual \/ LedgerEntry(rows[i]).last < new[1].first
    <3> TAKE i \in 1 .. Len(rows)
    <3>1. InOrder(rows[i])
      BY DEF OrderInv
    <3>2. rows[i].outcome # "manual" => rows[i].upto < new[1].first
      BY <1>1, <1>2, <1>5, <3>1 DEF InOrder
    <3> QED
      BY <3>2 DEF LedgerEntry
  <2>3. DOMAIN Entries(rows) = 1 .. Len(rows)
    BY <1>1 DEF Entries
  <2>4. \A i \in DOMAIN Entries(rows) : Entries(rows)[i].manual \/ Entries(rows)[i].last < new[1].first
    BY <1>1, <2>2, <2>3, EntriesType
  <2> QED
    BY <2>1, <2>4 DEF Ledger!Fresh, Entries
<1>8. new # <<>> /\ DOMAIN new = 1 .. n + 1 /\ 1 .. Len(new) - 1 = 1 .. n
  OBVIOUS
<1>9. \A k \in DOMAIN new : ~new[k].manual /\ new[k].first <= new[k].last
  BY <1>5, <1>8
<1>10. \A k \in 1 .. Len(new) - 1 : new[k].state = "missed" /\ new[k].last < new[k + 1].first
  BY <1>4, <1>6, <1>8, SMTT(30)
<1> QED
  BY <1>7, <1>8, <1>9, <1>10, Zenon DEF Ledger!Taken

\* The ledger gains the entries of the backlog and of the row behind it.
LEMMA AddedRows ==
    ASSUME TypeInv, CronFires, NEW fires \in Elapsed, NEW b, b = Backlogged(fires),
           NEW row \in Row, rows' = Append(b, row), Grows(rows, rows'), SameFires(rows, rows')
    PROVE  \E n \in Nat, new \in Seq(Ledger!Entry) :
               /\ Len(b) = Len(rows) + n /\ new = Added(rows, rows') /\ Len(new) = n + 1
               /\ \A k \in 1 .. n : new[k] = LedgerEntry(b[Len(rows) + k])
               /\ new[n + 1] = LedgerEntry(row)
<1>1. /\ rows \in Seq(Row) /\ rows' \in Seq(Row) /\ Len(rows) \in Nat
      /\ b \in Seq(Row) /\ Len(b) >= Len(rows) /\ Len(b) \in Nat
  BY BackloggedType, ElapsedType, OrderTypes DEF Grows, CronFires
<1>2. PICK n \in Nat : n = Len(b) - Len(rows) /\ Len(b) = Len(rows) + n
  BY <1>1
<1>3. PICK new : new = Added(rows, rows')
  OBVIOUS
<1>4. /\ Len(rows') = Len(b) + 1 /\ rows'[Len(b) + 1] = row
      /\ \A i \in 1 .. Len(b) : rows'[i] = b[i]
  BY <1>1
<1>5. /\ new \in Seq(Ledger!Entry) /\ Len(new) = Len(rows') - Len(rows)
      /\ \A k \in 1 .. Len(rows') - Len(rows) : new[k] = LedgerEntry(rows'[Len(rows) + k])
  BY <1>1, <1>3, LedgerGrows, ZenonT(30)
<1>6. Len(rows') - Len(rows) = n + 1
  BY <1>1, <1>2, <1>4
<1>7. ASSUME NEW k \in 1 .. n PROVE new[k] = LedgerEntry(b[Len(rows) + k])
  <2>1. k \in 1 .. n + 1 /\ Len(rows) + k \in 1 .. Len(b)
    BY <1>1, <1>2
  <2> QED
    BY <1>4, <1>5, <1>6, <2>1
<1>8. new[n + 1] = LedgerEntry(row)
  <2>1. n + 1 \in 1 .. n + 1 /\ Len(rows) + (n + 1) = Len(b) + 1
    BY <1>1, <1>2
  <2> QED
    BY <1>4, <1>5, <1>6, <2>1
<1> QED
  BY <1>2, <1>3, <1>5, <1>6, <1>7, <1>8

\* A fire that is queued is taken behind its backlog.
LEMMA TakenQueued ==
    ASSUME TypeInv, OrderInv, CronFires, NEW fires \in Elapsed, NEW b, b = Backlogged(fires),
           NEW n \in Nat, Len(b) = Len(rows) + n,
           NEW front \in Seq(Ledger!Entry), Len(front) = n,
           \A k \in 1 .. n : front[k] = LedgerEntry(b[Len(rows) + k])
    PROVE  Ledger!Taken(Append(front, Ledger!Missed(Last(fires))))
<1>1. PICK f : f = Last(fires)
  OBVIOUS
<1>2. PICK x : x = Ledger!Missed(f)
  OBVIOUS
<1>3. f \in Int
  BY <1>1, ElapsedOrder DEF Last
<1>4. x \in Ledger!Entry /\ x.first = f /\ x.last = f /\ ~x.manual
  BY <1>2, <1>3 DEF Ledger!Missed, Ledger!Entry
<1>5. PICK new : new = Append(front, x)
  OBVIOUS
<1>6. /\ new \in Seq(Ledger!Entry) /\ Len(new) = n + 1 /\ new[n + 1] = x
      /\ \A k \in 1 .. n : new[k] = front[k]
  BY <1>4, <1>5
<1>7. \A k \in 1 .. n : new[k] = LedgerEntry(b[Len(rows) + k])
  BY <1>6
<1>8. new[n + 1].first = Last(fires) /\ new[n + 1].last = Last(fires) /\ ~new[n + 1].manual
  BY <1>1, <1>4, <1>6
<1>9. Ledger!Taken(new)
  BY <1>6, <1>7, <1>8, TakenFires
<1> QED
  BY <1>1, <1>2, <1>5, <1>9

\* An idle task starts the fire; or it is missed.
LEMMA LedgerFires ==
    RunInv /\ AloneInv /\ OrderInv /\ (StartFire \/ MissFire) => Ledger!Next
<1> SUFFICES ASSUME RunInv, AloneInv, OrderInv, StartFire \/ MissFire PROVE Ledger!Next
  OBVIOUS
<1>1. /\ TypeInv /\ now \in Time /\ rows \in Seq(Row) /\ CronFires /\ HistoryStep({}) /\ Grows(rows, rows')
      /\ rows' \in Seq(Row) /\ up # "down" /\ cfg # NoTask /\ pc = "due"
  BY OrderTypes, DueHistory DEF RunInv, StartFire, MissFire, CronFires, DueStep, Locked, TypeInv, HandlerOK,
     HistoryStep, Grows
<1>2. SameFires(rows, rows')
  BY <1>1, StepFires DEF StartFire, MissFire, Next, TickStep, Idle, Locked
<1>3. \A fires \in Elapsed : Last(fires) \in Int /\ Backlogged(fires) \in Seq(Row)
  BY <1>1, ElapsedType, BackloggedType, TimeIsInt
<1>4. ASSUME NEW fires \in Elapsed, NEW row \in Row, rows' = Append(Backlogged(fires), row),
             LedgerEntry(row) \in {Ledger!Run(Last(fires)), Ledger!Missed(Last(fires))}
      PROVE  /\ Ledger!Taken(Added(rows, rows'))
             /\ Added(rows, rows')[Len(Added(rows, rows'))] = LedgerEntry(row)
  <2>1. PICK b : b = Backlogged(fires)
    OBVIOUS
  <2>2. PICK n \in Nat, new \in Seq(Ledger!Entry) :
            /\ Len(b) = Len(rows) + n /\ new = Added(rows, rows') /\ Len(new) = n + 1
            /\ \A k \in 1 .. n : new[k] = LedgerEntry(b[Len(rows) + k])
            /\ new[n + 1] = LedgerEntry(row)
    BY <1>1, <1>2, <1>4, <2>1, AddedRows, SMTT(30)
  <2>3. new[n + 1].first = Last(fires) /\ new[n + 1].last = Last(fires) /\ ~new[n + 1].manual
    BY <1>4, <2>2, EntryFields
  <2>4. Ledger!Taken(new)
    BY <1>1, <2>1, <2>2, <2>3, TakenFires
  <2> QED
    BY <2>2, <2>4
<1>5. CASE StartFire
  <2>1. PICK fires \in Elapsed, outcome \in Outcomes :
          /\ BeginRun(Backlogged(fires), Last(fires), outcome, "free") /\ UNCHANGED queued /\ ~busy
          /\ outcome # "manual"
    BY <1>5 DEF StartFire, Outcomes
  <2>2. PICK row \in Row : /\ row = NewRow(Last(fires), now, outcome, "")
                           /\ LedgerEntry(row) = Ledger!Run(Last(fires))
    <3>1. PICK f : f = Last(fires)
      OBVIOUS
    <3>2. f \in Int
      BY <1>3, <3>1
    <3>3. PICK row \in Row : /\ row = NewRow(f, now, outcome, "")
                             /\ outcome # "manual" => LedgerEntry(row) = Ledger!Run(f)
      BY <1>1, <3>2, BegunRow, ZenonT(30)
    <3> QED
      BY <2>1, <3>1, <3>3
  <2>3. rows' = Append(Backlogged(fires), row)
    BY <2>1, <2>2 DEF BeginRun, StartRun
  <2>4. /\ Ledger!Taken(Added(rows, rows'))
        /\ Added(rows, rows')[Len(Added(rows, rows'))].state = "running"
    <3>1. /\ Ledger!Taken(Added(rows, rows'))
          /\ Added(rows, rows')[Len(Added(rows, rows'))] = LedgerEntry(row)
      BY <1>4, <2>2, <2>3
    <3>2. LedgerEntry(row).state = "running"
      BY <2>2, EntryFields, ZenonT(30)
    <3> QED
      BY <3>1, <3>2
  <2>5. queued = NoTime /\ queued' = NoTime
    BY <2>1 DEF RunInv, QueueInv, QueuedBehindARun
  <2>6. Ledger!Running(Ending(rows, rows')) = {}
    <3>1. up = "up"
      BY <1>1 DEF AloneInv
    <3>2. OpenRuns(rows) = {}
      BY <1>1, <2>1, <3>1, IdleSettled
    <3> QED
      BY <1>1, <1>2, <3>2, LedgerGrows
  <2>7. Ledger!StartFire(Ending(rows, rows'), Added(rows, rows'))
    BY <1>1, <2>4, <2>5, <2>6 DEF Ledger!StartFire
  <2> QED
    BY <1>1, <1>2, <2>7, LedgerNext DEF LedgerAction
<1>6. CASE MissFire
  <2>1. PICK fires \in Elapsed, reason \in Reasons :
          rows' = RecordMissed(Backlogged(fires), Last(fires), reason) /\ UNCHANGED queued
    BY <1>6 DEF MissFire, Reasons
  <2>2. PICK row \in Row : /\ \A r : RecordMissed(r, Last(fires), reason) = Append(r, row)
                           /\ LedgerEntry(row) = Ledger!Missed(Last(fires))
    BY <1>3, MissedRow
  <2>3. rows' = Append(Backlogged(fires), row)
    BY <2>1, <2>2
  <2>4. /\ Ledger!Taken(Added(rows, rows'))
        /\ Added(rows, rows')[Len(Added(rows, rows'))].state = "missed"
    <3>1. /\ Ledger!Taken(Added(rows, rows'))
          /\ Added(rows, rows')[Len(Added(rows, rows'))] = LedgerEntry(row)
      BY <1>4, <2>2, <2>3
    <3>2. LedgerEntry(row).state = "missed"
      BY <2>2, EntryFields
    <3> QED
      BY <3>1, <3>2
  <2>5. Ledger!MissFire(Ending(rows, rows'), Added(rows, rows'))
    BY <1>1, <2>1, <2>4 DEF Ledger!MissFire
  <2> QED
    BY <1>1, <1>2, <2>5, LedgerNext DEF LedgerAction
<1> QED
  BY <1>5, <1>6

\* A busy task queues the fire; under kill-and-restart a fire that waits
\* already gives way to it.
LEMMA LedgerQueues ==
    RunInv /\ BusyInv /\ OrderInv /\ (QueueFire \/ RestartFire) => Ledger!Next
<1> SUFFICES ASSUME RunInv, BusyInv, OrderInv, QueueFire \/ RestartFire PROVE Ledger!Next
  OBVIOUS
<1>1. /\ TypeInv /\ rows \in Seq(Row) /\ CronFires /\ HistoryStep({}) /\ Grows(rows, rows')
      /\ rows' \in Seq(Row) /\ up # "down" /\ cfg # NoTask /\ pc = "due" /\ queued \in Int
      /\ busy /\ MutexStep /\ Len(rows) \in Nat
  BY OrderTypes, DueHistory, StepMutex DEF RunInv, QueueFire, RestartFire, CronFires, DueStep, Locked,
     TypeInv, HandlerOK, HistoryStep, Grows, Next, TickStep
<1>2. SameFires(rows, rows')
  BY <1>1, StepFires DEF QueueFire, RestartFire, Next, TickStep, Idle, Locked
<1>3. PICK fires \in Elapsed :
        /\ queued' = Last(fires)
        /\ \/ rows' = Backlogged(fires) /\ queued = NoTime
           \/ rows' = RecordMissed(Backlogged(fires), queued, "overlap") /\ queued # NoTime
  BY DEF QueueFire, RestartFire
<1>4. PICK b : b = Backlogged(fires)
  OBVIOUS
<1>5. b \in Seq(Row) /\ Len(b) \in Nat /\ Len(b) >= Len(rows)
  BY <1>1, <1>4, BackloggedType
<1>6. queued' # NoTime
  BY <1>1, <1>3, ElapsedType, TimeFacts
<1>7. CASE rows' = b /\ queued = NoTime
  <2>1. PICK new : new = Added(rows, rows')
    OBVIOUS
  <2>2. PICK n \in Nat : n = Len(b) - Len(rows) /\ Len(b) = Len(rows) + n
    BY <1>1, <1>5
  <2>3. /\ new \in Seq(Ledger!Entry) /\ Len(new) = n
        /\ \A k \in 1 .. n : new[k] = LedgerEntry(b[Len(rows) + k])
    BY <1>1, <1>2, <1>7, <2>1, <2>2, LedgerGrows
  <2>4. Ledger!Taken(Append(new, Ledger!Missed(queued')))
    <3>1. Ledger!Taken(Append(new, Ledger!Missed(Last(fires))))
      BY <1>1, <1>4, <2>2, <2>3, TakenQueued
    <3> QED
      BY <1>3, <3>1, Zenon
  <2>5. Ledger!Running(Ending(rows, rows')) # {}
    <3>1. \E i : i \in OpenRuns(rows)
      BY <1>1 DEF BusyInv, busy
    <3>2. OpenRuns(rows) \subseteq OpenRuns(rows')
      BY <1>1, OpenRunsStep
    <3> QED
      BY <1>1, <1>2, <3>1, <3>2, LedgerGrows
  <2>6. Ledger!QueueFire(Ending(rows, rows'), new)
    BY <1>1, <1>6, <1>7, <2>4, <2>5 DEF Ledger!QueueFire
  <2> QED
    BY <1>1, <1>2, <2>1, <2>6, LedgerNext DEF LedgerAction
<1>8. CASE rows' = RecordMissed(b, queued, "overlap") /\ queued # NoTime
  <2>1. "overlap" \in Reasons
    BY DEF Reasons
  <2>2. PICK row \in Row : /\ RecordMissed(b, queued, "overlap") = Append(b, row)
                           /\ LedgerEntry(row) = Ledger!Missed(queued)
    BY <1>1, <2>1, MissedRow, ZenonT(30)
  <2>3. rows' = Append(b, row)
    BY <1>8, <2>2
  <2>4. PICK n \in Nat, new \in Seq(Ledger!Entry) :
            /\ Len(b) = Len(rows) + n /\ new = Added(rows, rows') /\ Len(new) = n + 1
            /\ \A k \in 1 .. n : new[k] = LedgerEntry(b[Len(rows) + k])
            /\ new[n + 1] = LedgerEntry(row)
    <3>1. /\ TypeInv /\ CronFires /\ fires \in Elapsed /\ b = Backlogged(fires) /\ row \in Row
          /\ rows' = Append(b, row) /\ Grows(rows, rows') /\ SameFires(rows, rows')
      BY <1>1, <1>2, <1>4, <2>3
    <3> QED
      BY ONLY <3>1, AddedRows
  <2>5. PICK front : front = SubSeq(new, 1, Len(new) - 1)
    OBVIOUS
  <2>6. /\ front \in Seq(Ledger!Entry) /\ Len(front) = n
        /\ \A k \in 1 .. n : front[k] = new[k]
    <3>1. Len(new) - 1 = n /\ Len(new) >= 1
      BY <2>4
    <3>2. Len(front) = n /\ \A k \in 1 .. n : front[k] = new[k]
      BY <2>5, <3>1, FrontElements
    <3>3. front \in Seq(Ledger!Entry)
      BY <2>5, FrontType
    <3> QED
      BY <3>2, <3>3
  <2>7. Ledger!Taken(Append(front, Ledger!Missed(queued')))
    <3>1. Ledger!Taken(Append(front, Ledger!Missed(Last(fires))))
      BY <1>1, <1>4, <2>4, <2>6, TakenQueued, SMTT(30)
    <3> QED
      BY <1>3, <3>1, Zenon
  <2>8. new # <<>> /\ new[Len(new)] = Ledger!Missed(queued)
    BY <2>2, <2>4
  <2>9. Ledger!ReplaceFire(Ending(rows, rows'), new)
    BY <1>1, <1>6, <1>8, <2>5, <2>7, <2>8 DEF Ledger!ReplaceFire
  <2> QED
    BY <1>1, <1>2, <2>4, <2>9, LedgerNext DEF LedgerAction
<1> QED
  BY <1>3, <1>4, <1>7, <1>8

-----------------------------------------------------------------------------
(* Every step is one of the ledger *)

LEMMA OneAdded ==
    ASSUME rows \in Seq(Row), Grows(rows, rows'), SameFires(rows, rows'), Len(rows') = Len(rows) + 1
    PROVE  LET new == Added(rows, rows')
           IN  /\ Len(new) = 1 /\ new[1] = LedgerEntry(rows'[Len(rows) + 1])
               /\ new = <<LedgerEntry(rows'[Len(rows) + 1])>>
<1>1. PICK new : new = Added(rows, rows')
  OBVIOUS
<1>2. rows' \in Seq(Row) /\ Len(rows) \in Nat /\ Len(rows') - Len(rows) = 1
  BY DEF Grows
<1>3. /\ new \in Seq(Ledger!Entry) /\ Len(new) = 1
      /\ \A k \in 1 .. 1 : new[k] = LedgerEntry(rows'[Len(rows) + k])
  BY <1>1, <1>2, LedgerGrows
<1>4. new[1] = LedgerEntry(rows'[Len(rows) + 1])
  BY <1>3
<1>5. new = <<new[1]>>
  BY <1>3
<1> QED
  BY <1>1, <1>3, <1>4, <1>5

\* The run that ends makes room for the fire that waits.
LEMMA LedgerSettles ==
    LedgerAssumption /\ RunInv /\ OpenInv /\ AloneInv
    /\ (SettleAdopted \/ (ClearFinished /\ running.id = job.id))
    => Ledger!Next
<1> SUFFICES ASSUME LedgerAssumption, RunInv, OpenInv, AloneInv,
                    SettleAdopted \/ (ClearFinished /\ running.id = job.id)
             PROVE  Ledger!Next
  OBVIOUS
<1>1. /\ TypeInv /\ Next /\ rows \in Seq(Row) /\ \E closed : HistoryStep(closed)
  BY SettleHistory, ClearFinishedHistory, OrderTypes DEF LedgerAssumption, RunInv, Next, TickStep
<1>2. SameFires(rows, rows') /\ Grows(rows, rows') /\ rows' \in Seq(Row)
  BY <1>1, StepFires DEF HistoryStep, Grows
<1>3. PICK rows0 \in Seq(Row), cont \in {"free", "due"} : Len(rows0) = Len(rows) /\ StartQueued(rows0, cont)
  BY <1>1, SettledRows
<1>4. /\ queued' = NoTime
      /\ queued = NoTime => Len(rows') = Len(rows)
      /\ queued # NoTime => /\ Len(rows') = Len(rows) + 1
                            /\ LedgerEntry(rows'[Len(rows) + 1]) = Ledger!Run(queued)
  BY <1>1, <1>3, QueuedRows
<1>5. CASE queued = NoTime
  BY <1>1, <1>2, <1>4, <1>5, RestStep
<1>6. CASE queued # NoTime
  <2>1. Added(rows, rows') = <<Ledger!Run(queued)>>
    BY <1>1, <1>2, <1>4, <1>6, OneAdded
  <2>2. up # "down" /\ cfg # NoTask /\ OpenRuns(rows) \cap OpenRuns(rows') = {}
    <3>1. CASE SettleAdopted
      BY <3>1, SettleLast DEF SettleAdopted, TickStarts
    <3>2. CASE ClearFinished /\ running.id = job.id
      BY <3>2, ClearLast
    <3> QED
      BY <3>1, <3>2
  <2>3. Ledger!Running(Ending(rows, rows')) = {}
    BY <1>1, <1>2, <2>2, LedgerGrows
  <2>4. Ledger!StartWaiting(Ending(rows, rows'), Added(rows, rows'))
    BY <1>4, <1>6, <2>1, <2>2, <2>3 DEF Ledger!StartWaiting
  <2> QED
    BY <1>1, <1>2, <2>4, LedgerNext DEF LedgerAction
<1> QED
  BY <1>5, <1>6

\* A stop drops the fire that waits, and says so.
LEMMA LedgerReleases == RunInv /\ ReleaseAll => Ledger!Next
<1> SUFFICES ASSUME RunInv, ReleaseAll PROVE Ledger!Next
  OBVIOUS
<1>1. TypeInv /\ Next /\ rows \in Seq(Row) /\ HistoryStep({}) /\ up = "up"
  BY OtherHistory, OrderTypes DEF RunInv, Next, ReleaseAll
<1>2. SameFires(rows, rows') /\ Grows(rows, rows')
  BY <1>1, StepFires DEF HistoryStep
<1>3. /\ queued' = NoTime
      /\ queued = NoTime => Len(rows') = Len(rows)
      /\ queued # NoTime => /\ Len(rows') = Len(rows) + 1
                            /\ LedgerEntry(rows'[Len(rows) + 1]) = Ledger!Missed(queued)
  BY <1>1, ReleasedRows
<1>4. CASE queued = NoTime
  BY <1>1, <1>2, <1>3, <1>4, RestStep
<1>5. CASE queued # NoTime
  <2>1. Added(rows, rows') = <<Ledger!Missed(queued)>>
    BY <1>1, <1>2, <1>3, <1>5, OneAdded
  <2>2. cfg # NoTask
    BY <1>5 DEF RunInv, QueueInv, QueuedBehindARun, HeldInv
  <2>3. Ledger!DropWaiting(Ending(rows, rows'), Added(rows, rows'))
    BY <1>1, <1>3, <1>5, <2>1, <2>2 DEF Ledger!DropWaiting
  <2> QED
    BY <1>1, <1>2, <2>3, LedgerNext DEF LedgerAction
<1> QED
  BY <1>4, <1>5

\* A trigger begins a run of an idle task.
LEMMA LedgerTriggers == LedgerAssumption /\ RunInv /\ AloneInv /\ Trigger => Ledger!Next
<1> SUFFICES ASSUME LedgerAssumption, RunInv, AloneInv, Trigger PROVE Ledger!Next
  OBVIOUS
<1>1. /\ TypeInv /\ Next /\ rows \in Seq(Row) /\ HistoryStep({})
      /\ up = "up" /\ pc = "free" /\ cfg # NoTask /\ ~busy /\ queued' = queued
  BY OtherHistory, OrderTypes DEF RunInv, Next, Request, Trigger, BeginRun, Serving, Idle, Locked,
     LedgerAssumption, memory
<1>2. SameFires(rows, rows') /\ Grows(rows, rows') /\ rows' \in Seq(Row)
  BY <1>1, StepFires DEF HistoryStep, Grows
<1>3. /\ Len(rows') = Len(rows) + 1
      /\ LedgerEntry(rows'[Len(rows) + 1]).manual
      /\ LedgerEntry(rows'[Len(rows) + 1]).state = "running"
  BY <1>1, TriggeredRows
<1>4. PICK new : new = Added(rows, rows')
  OBVIOUS
<1>5. Len(new) = 1 /\ new[1].manual /\ new[1].state = "running"
  BY <1>1, <1>2, <1>3, <1>4, OneAdded
<1>6. Ledger!Running(Ending(rows, rows')) = {}
  <2>1. OpenRuns(rows) = {}
    BY <1>1, IdleSettled
  <2> QED
    BY <1>1, <1>2, <2>1, LedgerGrows
<1>7. queued = NoTime
  BY <1>1 DEF RunInv, QueueInv, QueuedBehindARun
<1>8. Ledger!StartManual(Ending(rows, rows'), new)
  BY <1>1, <1>5, <1>6, <1>7 DEF Ledger!StartManual
<1> QED
  BY <1>1, <1>2, <1>4, <1>8, LedgerNext DEF LedgerAction

\* The rest deals with no fire; a fire that waits goes with its daemon or
\* its task.
LEMMA LedgerRests ==
    LedgerAssumption /\ RunInv /\ OrderInv /\ (QuietStep \/ Reload \/ Start \/ Drained \/ Crash)
    => Ledger!Next
<1> SUFFICES ASSUME LedgerAssumption, RunInv, OrderInv, QuietStep \/ Reload \/ Start \/ Drained \/ Crash
             PROVE  Ledger!Next
  OBVIOUS
<1>1. TypeInv /\ Next /\ rows \in Seq(Row)
  BY OrderTypes DEF RunInv, Next, QuietStep, TickStep, Request
<1>2. Grows(rows, rows') /\ Len(rows) \in Nat
  BY <1>1, StepHistory DEF HistoryStep
<1>3. queued # NoTime => up # "down" /\ cfg # NoTask
  BY DEF RunInv, QueueInv, QueuedBehindARun, HeldInv
<1>4. CASE QuietStep
  BY <1>1, <1>2, <1>4, StepFires, QuietRows, RestStep
<1>5. CASE Reload \/ Start
  <2>1. PICK c \in Configs : Configure(c)
    BY <1>5 DEF Reload, Start, Loadable, OrderInv
  <2>2. Len(rows') = Len(rows) /\ cfg' = c /\ queued' = IF c = NoTask THEN NoTime ELSE queued
    <3>1. now' = now
      BY <1>5 DEF Reload, Start
    <3> QED
      BY <1>1, <2>1, <3>1, ConfiguredRows
  <2>3. SameFires(rows, rows')
    <3>1. \E ids : rows' = FinishAllUnknown(rows, ids, now)
      BY <2>1 DEF Configure
    <3>2. now \in Int
      BY <1>1, OrderTypes
    <3> QED
      BY <1>1, <3>1, <3>2, FiresFinishAll
  <2> QED
    BY <1>1, <1>2, <1>3, <2>2, <2>3, RestStep
<1>6. CASE Drained \/ Crash
  <2>1. rows' = rows /\ queued' = NoTime /\ up' = "down"
    BY <1>6 DEF Drained, Crash, Die, LoseState, tables
  <2>2. SameFires(rows, rows') /\ Len(rows') = Len(rows)
    BY <2>1 DEF SameFires
  <2> QED
    BY <1>1, <1>2, <1>3, <2>1, <2>2, RestStep
<1> QED
  BY <1>4, <1>5, <1>6

LEMMA LedgerInit == Init => Ledger!Init
BY DEF Init, Ledger!Init

LEMMA LedgerStep ==
    LedgerAssumption /\ RunInv /\ OpenInv /\ AloneInv /\ BusyInv /\ OrderInv /\ [Next]_vars
    => [Ledger!Next]_(Ledger!ledgerVars)
<1> SUFFICES ASSUME LedgerAssumption, RunInv, OpenInv, AloneInv, BusyInv, OrderInv, [Next]_vars
             PROVE  Ledger!Next \/ UNCHANGED Ledger!ledgerVars
  OBVIOUS
<1>1. CASE UNCHANGED vars
  BY <1>1 DEF vars, memory, tables, Ledger!ledgerVars
<1>2. CASE StartFire \/ MissFire
  BY <1>2, LedgerFires
<1>3. CASE QueueFire \/ RestartFire
  BY <1>3, LedgerQueues
<1>4. CASE SettleAdopted \/ (ClearFinished /\ running.id = job.id)
  BY <1>4, LedgerSettles
<1>5. CASE QuietStep \/ Reload \/ Start \/ Drained \/ Crash
  BY <1>5, LedgerRests
<1>6. CASE ReleaseAll
  BY <1>6, LedgerReleases
<1>7. CASE Trigger
  BY <1>7, LedgerTriggers
<1>8. ~FireWatermark
  <2>1. cfg \in Configs /\ (FireWatermark => cfg # NoTask /\ IsWatermark(cfg))
    BY DEF OrderInv, FireWatermark, DueStep, Locked, RunInv, TypeInv, HandlerOK
  <2> QED
    BY <2>1 DEF LedgerAssumption
<1>9. ~PruneHistory /\ ~SecondServe
  BY DEF LedgerAssumption, PruneHistory, SecondServe
<1> QED
  BY <1>1, <1>2, <1>3, <1>4, <1>5, <1>6, <1>7, <1>8, <1>9 DEF Next, TickStep, Request, QuietStep

\* store.go "Every planned fire ends up as exactly one row", README "a task
\* cannot double-run across a restart": for every history, whichever daemons
\* come and go, the engine's steps on its table of runs and its queue are steps
\* of FireLedger, for a cron task.
THEOREM LedgerImplemented ==
    ASSUME LedgerAssumption
    PROVE  Spec => ImplementsFireLedger
<1>1. RunInv => TypeInv
  BY DEF RunInv
<1>2. RunInv /\ OpenInv /\ [Next]_vars => OpenInv'
  BY OpenStep DEF LedgerAssumption
<1>3. RunInv /\ OpenInv /\ AloneInv /\ BusyInv /\ [Next]_vars => AloneInv' /\ BusyInv'
  BY AloneStep, BusyStep
<1>4. TypeInv /\ TypeInv' /\ OrderInv /\ [Next]_vars => OrderInv'
  BY OrderStep
<1>5. RunInv /\ OpenInv /\ AloneInv /\ BusyInv /\ OrderInv /\ [Next]_vars
      => [Ledger!Next]_(Ledger!ledgerVars)
  BY LedgerStep
<1> QED
  BY <1>1, <1>2, <1>3, <1>4, <1>5, LedgerInit, RunInvInit, RunInvStep, OpenInit, AloneInit, OrderInit, PTL
     DEF Spec, ImplementsFireLedger, Ledger!Spec
=============================================================================

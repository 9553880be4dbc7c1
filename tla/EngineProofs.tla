---------------------------- MODULE EngineProofs ----------------------------
(***************************************************************************)
(* Theorems about Engine, for every value of its constants: its types, the *)
(* queue, the history and the pause flag.                                  *)
(***************************************************************************)
EXTENDS Engine, RunStoreProofs

-----------------------------------------------------------------------------
(* Type correctness *)

\* What a handler holding the mutex relies on at the point it has reached.
HandlerOK ==
    /\ pc \in {"spawn", "register"} => job.id \in DOMAIN rows
    /\ pc = "register" => job.pid \in Pids
    /\ pc = "due" => cfg # NoTask
    /\ job.cont = "due" => cfg # NoTask /\ pc \notin {"free", "due"}
    /\ up = "down" => pc = "free"

TypeInv == TypeOK /\ HandlerOK

LEMMA TimeIsInt == \A t \in Time : t \in Int
BY DEF Time

LEMMA TimeFacts ==
    /\ Time \subseteq Nat /\ IsFiniteSet(Time) /\ NoTime \notin Time /\ NoTime \in Int
    /\ now \in Time => now \in Int /\ now # NoTime
<1> USE EngineAssumption
<1>1. IsFiniteSet(Time)
  BY FS_Interval DEF Time
<1> QED
  BY <1>1 DEF Time, NoTime

LEMMA SignalType ==
    ASSUME sig \in [Pids -> Signals], NEW p, NEW s \in {"term", "kill"}
    PROVE  Signal(p, s) \in [Pids -> Signals]
BY DEF Signal, Signals

LEMMA ArmKillType ==
    ASSUME handles \subseteq Handle, now \in Int, NEW id
    PROVE  ArmKill(id) \subseteq Handle
BY DEF ArmKill, Handle

LEMMA NothingTypes == NoRun \in OwnedRun /\ NoReleased \in AdoptedRun /\ NoJob \in Job
BY DEF NoRun, NoReleased, NoJob, OwnedRun, AdoptedRun, Job, NoId, NoTime

\* The marks a tick sets on the run it kills.
LEMMA OwnedMarks ==
    ASSUME NEW r \in OwnedRun, NEW a \in BOOLEAN, NEW b \in BOOLEAN
    PROVE  /\ [r EXCEPT !.timedOut = @ \/ a, !.logCap = @ \/ b] \in OwnedRun
           /\ [r EXCEPT !.timedOut = @ \/ a, !.logCap = @ \/ b].id = r.id
BY DEF OwnedRun

\* What the history's inserts and updates return, at the engine's arguments.
LEMMA BeginRunType ==
    ASSUME NEW rows0 \in Seq(Row), NEW sched \in Int, NEW outcome \in Outcomes,
           NEW cont \in {"free", "due"}, now \in Time,
           BeginRun(rows0, sched, outcome, cont)
    PROVE  /\ rows' \in Seq(Row) /\ Len(rows') = Len(rows0) + 1
           /\ \A i \in 1 .. Len(rows0) : rows'[i] = rows0[i]
           /\ job' \in Job
           /\ job'.id \in DOMAIN rows' /\ job'.id # NoId /\ job'.cont = cont /\ pc' = "spawn"
<1>1. now \in Int
  BY TimeFacts
<1>2. /\ rows' \in Seq(Row) /\ Len(rows') = Len(rows0) + 1
      /\ \A i \in 1 .. Len(rows0) : rows'[i] = rows0[i]
  BY <1>1, StartRunType, Zenon DEF BeginRun
<1>3. job' = [id |-> Len(rows0) + 1, pid |-> NoPid, cont |-> cont, success |-> FALSE]
  BY DEF BeginRun, NoJob
<1>4. pc' = "spawn"
  BY DEF BeginRun
<1> QED
  BY <1>2, <1>3, <1>4 DEF NoId, Job

LEMMA StartQueuedType ==
    ASSUME NEW rows0 \in Seq(Row), NEW cont \in {"free", "due"}, now \in Time, queued \in TimeOrNo,
           StartQueued(rows0, cont)
    PROVE  /\ rows' \in Seq(Row) /\ Len(rows') >= Len(rows0)
           /\ \A i \in 1 .. Len(rows0) : rows'[i] = rows0[i]
           /\ job' \in Job
           /\ queued' = NoTime
           /\ \/ queued = NoTime /\ pc' = cont /\ job' = NoJob
              \/ pc' = "spawn" /\ job'.id \in DOMAIN rows' /\ job'.id # NoId /\ job'.cont = cont
<1>1. CASE queued = NoTime
  BY <1>1, NothingTypes DEF StartQueued
<1>2. CASE queued # NoTime
  <2>1. queued \in Int /\ "queued" \in Outcomes
    BY TimeFacts DEF TimeOrNo, Outcomes
  <2>2. BeginRun(rows0, queued, "queued", cont) /\ queued' = NoTime
    BY <1>2 DEF StartQueued
  <2> QED
    BY <2>1, <2>2, BeginRunType
<1> QED
  BY <1>1, <1>2

\* The elapsed fires are a nonempty sequence of times.
LEMMA ElapsedType ==
    ASSUME TypeInv, CronFires, NEW fires \in Elapsed
    PROVE  /\ Last(fires) \in Time /\ SubSeq(fires, 1, Len(fires) - 1) \in Seq(Time)
<1> DEFINE S == {nextFire} \cup FiresBetween(cfg.fires, nextFire, now, MaxBatch)
<1>1. cfg \in TaskConfig /\ nextFire \in Time
  BY DEF CronFires, DueStep, Locked, CronDue, TypeInv, TypeOK, MemoryOK, HandlerOK, TimeOrNo
<1>2. S \subseteq Time /\ S # {}
  BY <1>1 DEF FiresBetween, TaskConfig
<1>3. IsFiniteSet(S)
  BY <1>2, TimeFacts, FS_Subset
<1> HIDE DEF S
<1>4. fires \in Ascending(S)
  BY DEF Elapsed, S
<1>5. fires \in Seq(S) /\ Len(fires) >= 1 /\ fires[Len(fires)] \in S /\ Len(fires) \in Nat
  BY <1>2, <1>3, <1>4, AscendingType
<1>6. fires \in Seq(Time)
  BY <1>2, <1>5
<1> QED
  BY <1>2, <1>5, <1>6, FrontType DEF Last

LEMMA BackloggedType ==
    ASSUME TypeInv, CronFires, NEW fires \in Elapsed
    PROVE  /\ Backlogged(fires) \in Seq(Row) /\ Len(Backlogged(fires)) >= Len(rows)
           /\ \A i \in 1 .. Len(rows) : Backlogged(fires)[i] = rows[i]
<1> DEFINE backlog == SubSeq(fires, 1, Len(fires) - 1)
<1>1. backlog \in Seq(Time) /\ rows \in Seq(Row)
  BY ElapsedType DEF TypeInv, TypeOK, TablesOK
<1>2. Backlogged(fires) = RecordBacklog(backlog)
  BY DEF Backlogged
<1> HIDE DEF backlog
<1>3. \A i \in 1 .. Len(backlog) : backlog[i] \in Int
  <2>1. \A i \in 1 .. Len(backlog) : backlog[i] \in Time
    BY <1>1, ElementType
  <2> QED
    BY <2>1, TimeIsInt
<1>4. "missed" \in Outcomes /\ "coalesced" \in Reasons /\ NoTime \in Int
  BY DEF Outcomes, Reasons, NoTime
<1>5. CASE Len(backlog) > CoalescedDetailLimit
  <2>1. 1 \in 1 .. Len(backlog) /\ Len(backlog) \in 1 .. Len(backlog)
    <3>1. CoalescedDetailLimit \in Nat /\ Len(backlog) \in Nat
      BY <1>1, EngineAssumption
    <3> QED
      BY <1>5, <3>1
  <2>2. PICK row \in Row : row = NewRow(backlog[1], NoTime, "missed", "coalesced")
    BY <1>3, <1>4, <2>1, NewRowType
  <2> DEFINE summary == [row EXCEPT !.finish = backlog[1], !.exit = -1, !.error = "summary",
                                    !.upto = backlog[Len(backlog)]]
  <2>3. summary \in Row
    BY <1>3, <2>1 DEF Row, ExitCodes, Errors
  <2>4. RecordBacklog(backlog) = Append(rows, summary)
    BY <1>5, <2>2 DEF RecordBacklog
  <2> QED
    BY <1>1, <1>2, <2>3, <2>4, AppendRow
<1>6. CASE ~(Len(backlog) > CoalescedDetailLimit)
  <2> DEFINE R(i) == NewRow(backlog[i], NoTime, "missed", "coalesced")
             more == [i \in DOMAIN backlog |-> R(i)]
  <2>1. \A i \in 1 .. Len(backlog) : R(i) \in Row
    BY <1>3, <1>4, NewRowType
  <2>2. RecordBacklog(backlog) = rows \o more
    BY <1>6 DEF RecordBacklog
  <2> HIDE DEF R
  <2>3. more \in Seq(Row)
    BY <1>1, <2>1
  <2> HIDE DEF more
  <2> QED
    BY <1>1, <1>2, <2>2, <2>3
<1> QED
  BY <1>5, <1>6

LEMMA TypeInit == Init => TypeInv
<1> SUFFICES ASSUME Init PROVE TypeInv
  OBVIOUS
<1>1. ClockOK
  <2>1. 0 \in Time
    BY EngineAssumption DEF Time
  <2> QED
    BY <2>1 DEF Init, ClockOK
<1>2. MemoryOK
  <2>1. cfg \in TaskConfig \cup {NoTask}
    BY EngineAssumption DEF Init
  <2>2. NoTime \in TimeOrNo /\ NoTime \in Int /\ 0 \in Nat
    BY DEF TimeOrNo, NoTime
  <2> QED
    BY <2>1, <2>2, NothingTypes DEF Init, MemoryOK
<1>3. TablesOK
  <2>1. <<>> \in Seq(Row)
    OBVIOUS
  <2> QED
    BY <2>1 DEF Init, TablesOK
<1>4. KernelOK
  BY DEF Init, KernelOK, Free, Signals
<1>5. MutexOK
  BY NothingTypes DEF Init, MutexOK, Points
<1>6. HandlerOK
  BY DEF Init, HandlerOK, NoJob
<1> QED
  BY <1>1, <1>2, <1>3, <1>4, <1>5, <1>6 DEF TypeInv, TypeOK

\* A tick's first half.
LEMMA TypeEnforce == TypeInv /\ (EnforceOwned \/ EnforceAdopted \/ SettleAdopted) => TypeInv'
<1> SUFFICES ASSUME TypeInv, EnforceOwned \/ EnforceAdopted \/ SettleAdopted PROVE TypeInv'
  OBVIOUS
<1> USE DEF TypeInv, TypeOK
<1>1. now \in Int /\ rows \in Seq(Row)
  BY TimeFacts DEF ClockOK, TablesOK
<1>2. pc = "free" /\ up = "up" /\ cfg # NoTask /\ job.cont # "due"
  BY DEF EnforceOwned, EnforceAdopted, SettleAdopted, TickStarts, Idle, Locked, HandlerOK
<1>3. CASE EnforceOwned
  <2>1. ClockOK'
    BY <1>3 DEF EnforceOwned, ClockOK
  <2>2. PICK hit \in BOOLEAN, big \in BOOLEAN :
          /\ running' = [running EXCEPT !.timedOut = @ \/ hit, !.logCap = @ \/ big]
          /\ IF hit \/ big
             THEN sig' = Signal(running.pid, "term") /\ handles' = ArmKill(running.id)
             ELSE UNCHANGED <<sig, handles>>
    BY <1>3 DEF EnforceOwned, TimeoutHit, LogCapHit
  <2>3. MemoryOK'
    BY <1>3, <2>2, OwnedMarks DEF EnforceOwned, MemoryOK
  <2>4. TablesOK'
    BY <1>3 DEF EnforceOwned, TablesOK, tables
  <2>5. KernelOK'
    BY <1>3, <2>2, SignalType DEF EnforceOwned, KernelOK
  <2>6. MutexOK'
    BY <1>1, <1>3, <2>2, ArmKillType DEF EnforceOwned, MutexOK, Points
  <2>7. HandlerOK'
    BY <1>2, <1>3 DEF EnforceOwned, HandlerOK
  <2> QED
    BY <2>1, <2>3, <2>4, <2>5, <2>6, <2>7
<1>4. CASE EnforceAdopted
  <2>1. ClockOK' /\ TablesOK'
    BY <1>4 DEF EnforceAdopted, ClockOK, TablesOK, tables
  <2>2. PICK hit \in BOOLEAN, big \in BOOLEAN, last \in BOOLEAN, killAt \in Int :
          /\ released' = [released EXCEPT !.timedOut = @ \/ hit, !.logCap = @ \/ big,
                                          !.killedAt = killAt, !.escalated = @ \/ last]
          /\ sig' \in {sig, Signal(released.pid, "kill"), Signal(released.pid, "term")}
    <3>1. released.killedAt \in Int
      BY DEF MemoryOK, AdoptedRun
    <3> QED
      BY <1>1, <1>4, <3>1, ZenonT(30) DEF EnforceAdopted, TimeoutHit, LogCapHit, GraceOver
  <2>3. MemoryOK'
    <3>1. released' \in AdoptedRun
      <4>1. released \in AdoptedRun
        BY DEF MemoryOK
      <4>2. released' = [released EXCEPT !.timedOut = @ \/ hit, !.logCap = @ \/ big,
                                         !.killedAt = killAt, !.escalated = @ \/ last]
        BY <2>2
      <4> QED
        BY ONLY <4>1, <4>2, hit \in BOOLEAN, big \in BOOLEAN, last \in BOOLEAN, killAt \in Int
           DEF AdoptedRun
    <3> QED
      BY <1>4, <3>1 DEF EnforceAdopted, MemoryOK
  <2>5. KernelOK'
    BY <1>4, <2>2, SignalType DEF EnforceAdopted, KernelOK
  <2>6. MutexOK' /\ HandlerOK'
    BY <1>2, <1>4 DEF EnforceAdopted, HandlerOK, MutexOK, Points
  <2> QED
    BY <2>1, <2>3, <2>5, <2>6
<1>5. CASE SettleAdopted
  <2>1. ClockOK' /\ KernelOK'
    BY <1>5 DEF SettleAdopted, ClockOK, KernelOK, kernel
  <2>2. PICK rows0 \in Seq(Row) : StartQueued(rows0, "due")
    <3>1. {"timeout", "log_cap", "unknown"} \subseteq Errors
      BY DEF Errors
    <3> QED
      BY <1>1, <1>5, <3>1, FinishRunUnknownExitType DEF SettleAdopted
  <2>3. /\ rows' \in Seq(Row) /\ job' \in Job /\ queued' = NoTime
        /\ \/ pc' = "due" /\ job' = NoJob
           \/ pc' = "spawn" /\ job'.id \in DOMAIN rows'
    BY <2>2, StartQueuedType DEF ClockOK, MemoryOK
  <2>4. MemoryOK'
    BY <1>5, <2>3, NothingTypes DEF SettleAdopted, MemoryOK, TimeOrNo
  <2>5. TablesOK'
    BY <1>5, <2>3 DEF SettleAdopted, TablesOK
  <2>6. MutexOK' /\ HandlerOK'
    BY <1>2, <1>5, <2>3 DEF SettleAdopted, MutexOK, HandlerOK, Points, NoJob
  <2> QED
    BY <2>1, <2>4, <2>5, <2>6
<1> QED
  BY <1>3, <1>4, <1>5

LEMMA NextFireType ==
    ASSUME NEW F \in SUBSET Time, NEW t \in Int
    PROVE  NextAfter(F, t) \in TimeOrNo
BY NextAfterType, TimeFacts DEF TimeOrNo

\* A tick's second half.
LEMMA TypeDue ==
    TypeInv /\ (NothingDue \/ FireWatermark \/ StartFire \/ MissFire \/ QueueFire \/ RestartFire)
    => TypeInv'
<1> SUFFICES ASSUME TypeInv,
                    NothingDue \/ FireWatermark \/ StartFire \/ MissFire \/ QueueFire \/ RestartFire
             PROVE  TypeInv'
  OBVIOUS
<1> USE DEF TypeInv, TypeOK
<1>1. now \in Time /\ now \in Int /\ rows \in Seq(Row)
  BY TimeFacts DEF ClockOK, TablesOK
<1>2. pc = "due" /\ ticked' = TRUE /\ cfg \in TaskConfig
  BY DEF NothingDue, FireWatermark, StartFire, MissFire, QueueFire, RestartFire, CronFires, DueStep,
     Locked, HandlerOK, MemoryOK
<1>3. /\ cfg.fires \in SUBSET Time /\ cfg.interval \in Nat
      /\ \A onTime : noteFireOutcome(onTime) => streak' \in Nat
  BY <1>2 DEF TaskConfig, noteFireOutcome, MemoryOK
<1>4. job.cont # "due"
  BY <1>2 DEF HandlerOK
<1>5. CASE NothingDue
  BY <1>2, <1>4, <1>5 DEF NothingDue, memory, tables, kernel, ClockOK, MemoryOK, TablesOK, KernelOK,
     MutexOK, HandlerOK, Points
<1>6. CASE FireWatermark
  <2>1. watermarkDue \in Int
    BY <1>3 DEF watermarkDue, MemoryOK, NoTime
  <2>2. streak' \in Nat /\ \E sched \in Int, outcome \in {"on_time", "queued"} :
                               BeginRun(rows, sched, outcome, "free")
    BY <1>1, <1>3, <1>6, <2>1 DEF FireWatermark, MemoryOK
  <2>3. /\ rows' \in Seq(Row) /\ job' \in Job /\ pc' = "spawn"
        /\ job'.id \in DOMAIN rows' /\ job'.cont = "free"
    BY <1>1, <2>2, BeginRunType DEF Outcomes
  <2> QED
    BY <1>2, <1>6, <2>2, <2>3 DEF FireWatermark, kernel, ClockOK, MemoryOK, TablesOK, KernelOK,
       MutexOK, HandlerOK, Points
<1>7. ASSUME NEW fires \in Elapsed, CronFires, FireCron(fires)
      PROVE  /\ Last(fires) \in Int /\ Last(fires) \in TimeOrNo /\ nextFire' \in TimeOrNo
             /\ Backlogged(fires) \in Seq(Row)
  <2>1. Last(fires) \in Time
    BY <1>7, ElapsedType
  <2>2. Last(fires) \in Int /\ Last(fires) \in TimeOrNo
    BY <2>1, TimeIsInt DEF TimeOrNo
  <2>3. nextFire' \in TimeOrNo
    BY <1>3, <1>7, <2>2, NextFireType DEF FireCron
  <2> QED
    BY <1>7, <2>2, <2>3, BackloggedType
<1>8. CASE StartFire
  <2>1. PICK fires \in Elapsed : /\ FireCron(fires) /\ streak' \in Nat
                                 /\ \E outcome \in {"queued", "on_time"} :
                                      BeginRun(Backlogged(fires), Last(fires), outcome, "free")
                                 /\ UNCHANGED <<running, released, queued, sig, handles>>
    BY <1>3, <1>8 DEF StartFire
  <2>2. CronFires
    BY <1>8 DEF StartFire
  <2>3. /\ rows' \in Seq(Row) /\ job' \in Job /\ pc' = "spawn"
        /\ job'.id \in DOMAIN rows' /\ job'.cont = "free"
    BY <1>1, <1>7, <2>1, <2>2, BeginRunType DEF Outcomes
  <2> QED
    BY <1>2, <1>7, <2>1, <2>2, <2>3 DEF FireCron, ClockOK, MemoryOK, TablesOK, KernelOK, MutexOK,
       HandlerOK, Points
<1>9. CASE MissFire
  <2>1. PICK fires \in Elapsed, reason \in {"catch_up_disabled", "overlap"} :
          /\ FireCron(fires) /\ streak' \in Nat /\ pc' = "free"
          /\ rows' = RecordMissed(Backlogged(fires), Last(fires), reason)
          /\ UNCHANGED <<running, released, queued, sig, handles, job>>
    BY <1>3, <1>9 DEF MissFire
  <2>2. CronFires /\ reason \in Reasons
    BY <1>9 DEF MissFire, Reasons
  <2>3. rows' \in Seq(Row)
    BY <1>7, <2>1, <2>2, RecordMissedType
  <2> QED
    BY <1>2, <1>4, <1>7, <2>1, <2>2, <2>3 DEF FireCron, ClockOK, MemoryOK, TablesOK, KernelOK,
       MutexOK, HandlerOK, Points
<1>10. CASE QueueFire
  <2>1. PICK fires \in Elapsed :
          /\ FireCron(fires) /\ streak' \in Nat /\ pc' = "free"
          /\ queued' = Last(fires) /\ rows' = Backlogged(fires)
          /\ UNCHANGED <<running, released, sig, handles, job>>
    BY <1>3, <1>10 DEF QueueFire
  <2>2. CronFires
    BY <1>10 DEF QueueFire
  <2> QED
    BY <1>2, <1>4, <1>7, <2>1, <2>2 DEF FireCron, ClockOK, MemoryOK, TablesOK, KernelOK, MutexOK,
       HandlerOK, Points
<1>11. CASE RestartFire
  <2>1. CronFires
    BY <1>11 DEF RestartFire
  <2>2. PICK fires \in Elapsed :
          /\ FireCron(fires) /\ streak' \in Nat /\ pc' = "free" /\ job' = job
          /\ queued' = Last(fires)
          /\ rows' \in {Backlogged(fires), RecordMissed(Backlogged(fires), queued, "overlap")}
    BY <1>3, <1>11 DEF RestartFire
  <2>3. /\ sig' \in {sig, Signal(running.pid, "term"), Signal(released.pid, "term")}
        /\ handles' \in {handles, ArmKill(running.id)}
        /\ running' \in {running, [running EXCEPT !.restart = TRUE]}
        /\ released' \in {released, [released EXCEPT !.killedAt = now]}
    BY <1>11 DEF RestartFire
  <2>4. rows' \in Seq(Row)
    <3>1. "overlap" \in Reasons /\ queued \in Int
      BY TimeFacts DEF Reasons, MemoryOK, TimeOrNo
    <3> QED
      BY <1>7, <2>1, <2>2, <3>1, RecordMissedType
  <2>5. running' \in OwnedRun /\ released' \in AdoptedRun
    BY <1>1, <2>3 DEF MemoryOK, OwnedRun, AdoptedRun
  <2>6. sig' \in [Pids -> Signals] /\ handles' \subseteq Handle
    BY <1>1, <2>3, SignalType, ArmKillType DEF KernelOK, MutexOK
  <2> QED
    BY <1>2, <1>4, <1>7, <2>1, <2>2, <2>4, <2>5, <2>6 DEF FireCron, ClockOK, MemoryOK, TablesOK,
       KernelOK, MutexOK, HandlerOK, Points
<1> QED
  BY <1>5, <1>6, <1>8, <1>9, <1>10, <1>11

\* Runs: started, registered, recorded and cleared.
LEMMA TypeRun ==
    TypeInv /\ (Spawn \/ LaunchFail \/ Register \/ RecordFinish \/ ClearFinished) => TypeInv'
<1> SUFFICES ASSUME TypeInv, Spawn \/ LaunchFail \/ Register \/ RecordFinish \/ ClearFinished
             PROVE  TypeInv'
  OBVIOUS
<1> USE DEF TypeInv, TypeOK
<1>1. now \in Time /\ now \in Int /\ rows \in Seq(Row) /\ NoTime \in Int
  BY TimeFacts DEF ClockOK, TablesOK
<1>2. job.id \in Nat /\ job.pid \in Pids \cup {NoPid} /\ job.cont \in {"free", "due"}
  BY DEF MutexOK, Job
<1>3. CASE Spawn
  <2>1. PICK p \in Pids :
          /\ pc = "spawn" /\ pc' = "register"
          /\ owner' = [owner EXCEPT ![p] = job.id] /\ sig' = [sig EXCEPT ![p] = "none"]
          /\ handles' = handles \cup {[id |-> job.id, pid |-> p, result |-> NoExit, killAt |-> NoTime]}
          /\ job' = [job EXCEPT !.pid = p]
    BY <1>3 DEF Spawn, Locked
  <2>2. KernelOK'
    BY <1>2, <2>1 DEF KernelOK, Signals
  <2>3. handles' \subseteq Handle
    <3>1. [id |-> job.id, pid |-> p, result |-> NoExit, killAt |-> NoTime] \in Handle
      BY <1>1, <1>2 DEF Handle, ExitCodes
    <3> QED
      BY <2>1, <3>1 DEF MutexOK
  <2>4. job' \in Job /\ job'.id = job.id /\ job'.pid \in Pids /\ job'.cont = job.cont
    BY <2>1 DEF MutexOK, Job
  <2> QED
    BY <1>3, <2>1, <2>2, <2>3, <2>4 DEF Spawn, memory, tables, ClockOK, MemoryOK, TablesOK, MutexOK,
       HandlerOK, Points
<1>4. CASE LaunchFail
  <2>1. rows' \in Seq(Row)
    BY <1>1, <1>4, FinishRunType DEF LaunchFail, FailedLaunch, ExitCodes, Errors
  <2>2. pc = "spawn" /\ pc' = job.cont /\ job' = NoJob
    BY <1>4 DEF LaunchFail, Locked
  <2>3. MutexOK' /\ HandlerOK'
    BY <1>2, <1>4, <2>2, NothingTypes DEF LaunchFail, FailedLaunch, memory, MutexOK, HandlerOK, Points, NoJob
  <2> QED
    BY <1>4, <2>1, <2>3 DEF LaunchFail, FailedLaunch, memory, kernel, ClockOK, MemoryOK, TablesOK, KernelOK
<1>5. CASE Register
  <2>1. pc = "register" /\ pc' = job.cont /\ job' = NoJob
    BY <1>5 DEF Register, Locked
  <2>2. rows[job.id].start \in Int /\ job.pid \in Pids
    <3>1. rows[job.id] \in Row /\ job.pid \in Pids
      BY <1>1, <2>1 DEF HandlerOK
    <3> QED
      BY <3>1 DEF Row
  <2>3. running' \in OwnedRun /\ lastAttempt' \in Int
    <3>1. /\ running' = [id |-> job.id, pid |-> job.pid, start |-> rows[job.id].start,
                         timedOut |-> FALSE, logCap |-> FALSE, restart |-> FALSE]
          /\ lastAttempt' = rows[job.id].start
      BY <1>5 DEF Register, NoRun
    <3> QED
      BY <1>2, <2>2, <3>1 DEF OwnedRun
  <2>4. live' \subseteq LiveEntry
    <3>1. PICK ident \in {job.id, NoId} :
            live' = live \cup {[id |-> job.id, pid |-> job.pid, ident |-> ident,
                                start |-> rows[job.id].start]}
      BY <1>5 DEF Register
    <3> QED
      BY <1>2, <2>2, <3>1 DEF TablesOK, LiveEntry, NoId
  <2>5. MutexOK' /\ HandlerOK'
    BY <1>2, <1>5, <2>1, NothingTypes DEF Register, MutexOK, HandlerOK, Points, NoJob
  <2> QED
    BY <1>5, <2>3, <2>4, <2>5 DEF Register, kernel, ClockOK, MemoryOK, TablesOK, KernelOK
<1>6. CASE RecordFinish
  <2>1. PICK h \in handles :
          /\ rows' = Recorded(h) /\ handles' = handles \ {h} /\ pc' = "clear"
          /\ job' = [NoJob EXCEPT !.id = h.id, !.success = (h.result = 0 /\ FinishError(h) = "")]
    BY <1>6 DEF RecordFinish
  <2>2. h.id \in Nat /\ h.result \in ExitCodes
    BY DEF MutexOK, Handle
  <2>3. FinishError(h) \in Errors
    BY DEF FinishError, KillReason, Errors
  <2>4. rows' \in Seq(Row)
    BY <1>1, <2>1, <2>2, <2>3, FinishRunType DEF Recorded
  <2>5. job' \in Job /\ job'.cont = "free"
    BY <2>1, <2>2 DEF NoJob, Job
  <2>6. MutexOK' /\ HandlerOK'
    BY <1>6, <2>1, <2>5 DEF RecordFinish, Idle, Locked, MutexOK, HandlerOK, Points
  <2> QED
    BY <1>6, <2>4, <2>6 DEF RecordFinish, memory, kernel, ClockOK, MemoryOK, TablesOK, KernelOK
<1>7. CASE ClearFinished
  <2>1. ClockOK' /\ KernelOK' /\ live' \subseteq live /\ UNCHANGED <<pausedDb, handles>>
    BY <1>7 DEF ClearFinished, ClockOK, KernelOK, kernel
  <2>2. UNCHANGED <<cfg, nextFire, released, lastAttempt, streak, paused, armed, born>>
    BY <1>7 DEF ClearFinished
  <2>3. CASE running.id # job.id
    <3>1. pc' = "free" /\ job' = NoJob /\ UNCHANGED <<running, lastSuccess, queued, rows>>
      BY <1>7, <2>3 DEF ClearFinished
    <3> QED
      BY <2>1, <2>2, <3>1, NothingTypes DEF MemoryOK, TablesOK, MutexOK, HandlerOK, Points, NoJob
  <2>4. CASE running.id = job.id
    <3>1. running' = NoRun /\ lastSuccess' \in {now, lastSuccess} /\ StartQueued(rows, "free")
      BY <1>7, <2>4 DEF ClearFinished
    <3>2. /\ rows' \in Seq(Row) /\ job' \in Job /\ queued' = NoTime
          /\ \/ pc' = "free" /\ job' = NoJob
             \/ pc' = "spawn" /\ job'.id \in DOMAIN rows' /\ job'.cont = "free"
      BY <1>1, <3>1, StartQueuedType DEF MemoryOK
    <3>3. MemoryOK'
      BY <1>1, <2>2, <3>1, <3>2, NothingTypes DEF MemoryOK, TimeOrNo
    <3>4. MutexOK' /\ HandlerOK'
      BY <1>7, <2>1, <3>2 DEF ClearFinished, Locked, MutexOK, HandlerOK, Points, NoJob
    <3> QED
      BY <2>1, <3>2, <3>3, <3>4 DEF TablesOK
  <2> QED
    BY <2>3, <2>4
<1> QED
  BY <1>3, <1>4, <1>5, <1>6, <1>7

\* An adoption picks one of the entries there are.
LEMMA OldestType ==
    ASSUME NEW E \in SUBSET LiveEntry, E # {}
    PROVE  Oldest(E) \in E /\ \A f \in E : Oldest(E).id <= f.id
<1> DEFINE ids == {e.id : e \in E}
<1>1. ids \in SUBSET Nat /\ ids # {}
  BY DEF LiveEntry
<1>2. Earliest(ids) \in ids /\ \A i \in ids : Earliest(ids) <= i
  BY <1>1, EarliestInSet
<1>3. PICK e \in E : e.id = Earliest(ids)
  BY <1>2
<1>4. \A f \in E : e.id <= f.id
  BY <1>2, <1>3
<1> QED
  BY <1>4 DEF Oldest

\* Requests, and what the daemon does when it starts, stops or dies.
LEMMA TypeConfigure ==
    ASSUME TypeInv, NEW c \in TaskConfig \cup {NoTask}, Configure(c)
    PROVE  MemoryOK' /\ rows' \in Seq(Row) /\ live' \subseteq LiveEntry
<1> USE DEF TypeInv, TypeOK
<1>1. now \in Time /\ now \in Int /\ rows \in Seq(Row) /\ Len(rows) \in Nat
  BY TimeFacts DEF ClockOK, TablesOK
<1>3. rows' \in Seq(Row) /\ live' \subseteq LiveEntry
  BY <1>1, FinishAllUnknownType DEF Configure, TablesOK
<1>4. CASE c = NoTask
  <2>1. ForgetTask
    BY <1>4 DEF Configure
  <2>2. NoTime \in TimeOrNo /\ NoTime \in Int /\ 0 \in Nat
    BY TimeFacts DEF TimeOrNo
  <2> QED
    BY <1>3, <2>1, <2>2, NothingTypes DEF ForgetTask, LoseState, MemoryOK
<1>5. CASE c # NoTask
  <2>1. c \in TaskConfig /\ c.fires \in SUBSET Time
    BY <1>5 DEF TaskConfig
  <2>2. PICK known \in BOOLEAN : LoadTask(c, known)
    BY <1>5 DEF Configure
  <2>3. KeptFire(c, known) \in TimeOrNo /\ NextAfter(c.fires, now) \in TimeOrNo /\ now \in TimeOrNo
        /\ NoTime \in TimeOrNo
    BY <1>1, <2>1, NextFireType DEF KeptFire, MemoryOK, TimeOrNo
  <2>4. nextFire' \in TimeOrNo /\ armed' \in TimeOrNo
    BY <2>2, <2>3 DEF LoadTask, MemoryOK
  <2>5. lastSuccess' \in Int /\ lastAttempt' \in Int
    BY <1>1, <2>2, RecoveredType DEF LoadTask, MemoryOK
  <2>6. released' \in AdoptedRun
    <3>1. \A e \in LiveEntry : Adopted(e) \in AdoptedRun
      <4> TAKE e \in LiveEntry
      <4>1. \A r \in AdoptedRun : [r EXCEPT !.id = e.id, !.pid = e.pid, !.ident = e.ident,
                                            !.start = e.start] \in AdoptedRun
        BY DEF AdoptedRun, LiveEntry
      <4> QED
        BY <4>1, NothingTypes, Zenon DEF Adopted
    <3>2. PICK E \in SUBSET live : released' = released \/ (E # {} /\ released' = Adopted(Oldest(E)))
      <4>1. PICK untracked \in SUBSET live, dead \in SUBSET live :
              /\ dead \subseteq untracked
              /\ released' = IF busy \/ dead = untracked THEN released
                             ELSE Adopted(Oldest(untracked \ dead))
        BY <1>5 DEF Configure, Finalized
      <4> QED
        BY <4>1
    <3>3. E # {} => Oldest(E) \in LiveEntry
      BY OldestType DEF TablesOK
    <3> QED
      BY <3>1, <3>2, <3>3 DEF MemoryOK
  <2>7. cfg' = c /\ streak' = 0 /\ UNCHANGED <<running, queued>> /\ born' \in Nat /\ paused' \in BOOLEAN
    BY <1>1, <2>2 DEF LoadTask, MemoryOK, TablesOK
  <2> QED
    BY <1>3, <2>4, <2>5, <2>6, <2>7 DEF MemoryOK
<1> QED
  BY <1>3, <1>4, <1>5

LEMMA TypeRequest ==
    TypeInv /\ (Request \/ Start \/ SecondServe \/ PruneHistory \/ ReleaseAll \/ Drained \/ Crash) => TypeInv'
<1> SUFFICES ASSUME TypeInv, \/ Request \/ Start \/ SecondServe \/ PruneHistory
                             \/ ReleaseAll \/ Drained \/ Crash
             PROVE  TypeInv'
  OBVIOUS
<1> USE DEF TypeInv, TypeOK
<1>1. now \in Time /\ now \in Int /\ rows \in Seq(Row) /\ NoTime \in Int /\ NoTime \in TimeOrNo
      /\ now \in TimeOrNo
  BY TimeFacts DEF ClockOK, TablesOK, TimeOrNo
<1>2. CASE Trigger
  <2>1. BeginRun(rows, now, "manual", "free") /\ up # "down" /\ up' = up
    BY <1>2 DEF Trigger, Serving, Idle, Locked, HandlerOK
  <2>2. /\ rows' \in Seq(Row) /\ job' \in Job /\ pc' = "spawn"
        /\ job'.id \in DOMAIN rows' /\ job'.cont = "free"
    BY <1>1, <2>1, BeginRunType DEF Outcomes
  <2>3. MutexOK' /\ HandlerOK'
    BY <1>2, <2>1, <2>2 DEF Trigger, MutexOK, HandlerOK, Points
  <2> QED
    BY <1>2, <2>2, <2>3 DEF Trigger, memory, kernel, ClockOK, MemoryOK, TablesOK, KernelOK
<1>3. CASE Pause
  BY <1>3 DEF Pause, SetPaused, Serving, Idle, Locked, kernel, ClockOK, MemoryOK, TablesOK, KernelOK, MutexOK,
     HandlerOK
<1>4. CASE Resume
  <2>1. nextFire' \in TimeOrNo /\ armed' \in TimeOrNo
    <3>1. cfg.fires \in SUBSET Time
      BY <1>4 DEF Resume, SetPaused, MemoryOK, TaskConfig
    <3>2. NextAfter(cfg.fires, now) \in TimeOrNo
      BY <1>1, <3>1, NextFireType
    <3> QED
      BY <1>1, <1>4, <3>2 DEF Resume, SetPaused, MemoryOK
  <2> QED
    BY <1>4, <2>1 DEF Resume, SetPaused, kernel, ClockOK, MemoryOK, TablesOK, KernelOK, MutexOK, HandlerOK
<1>5. Loadable \subseteq TaskConfig \cup {NoTask}
  BY EngineAssumption DEF Loadable, MemoryOK
<1>6. CASE Reload
  <2>1. PICK c \in Loadable : Configure(c)
    BY <1>6 DEF Reload
  <2>2. pc = "free" /\ job.cont # "due"
    BY <1>6 DEF Reload, Serving, Idle, Locked, HandlerOK
  <2>3. MemoryOK' /\ rows' \in Seq(Row) /\ live' \subseteq LiveEntry
    BY <1>5, <2>1, <2>2, TypeConfigure
  <2> QED
    BY <1>6, <2>2, <2>3 DEF Reload, kernel, ClockOK, TablesOK, KernelOK, MutexOK, HandlerOK
<1>7. CASE Start
  <2>1. PICK c \in Loadable : Configure(c)
    BY <1>7 DEF Start
  <2>2. up = "down" /\ up' = "up" /\ starts' = starts + 1
        /\ UNCHANGED <<now, pausedDb, kernel, handles, pc, job, ticked>>
    BY <1>7 DEF Start
  <2>3. MemoryOK' /\ rows' \in Seq(Row) /\ live' \subseteq LiveEntry
    BY <1>5, <2>1, TypeConfigure
  <2> QED
    BY <2>2, <2>3 DEF kernel, ClockOK, TablesOK, KernelOK, MutexOK, HandlerOK
<1>8. CASE ReleaseAll
  <2>1. rows' \in Seq(Row)
    <3>1. "daemon_stop" \in Reasons /\ queued \in Int
      BY TimeFacts DEF Reasons, MemoryOK, TimeOrNo
    <3> QED
      BY <1>1, <1>8, <3>1, RecordMissedType DEF ReleaseAll, DisownQueued
  <2> QED
    BY <1>1, <1>8, <2>1, NothingTypes DEF ReleaseAll, DisownQueued, Idle, Locked, kernel, ClockOK, MemoryOK,
       TablesOK, KernelOK, MutexOK, HandlerOK
<1>9. ASSUME Die PROVE TypeInv'
  <2>1. ClockOK' /\ TablesOK' /\ KernelOK'
    BY <1>9 DEF Die, LoseState, tables, kernel, ClockOK, TablesOK, KernelOK
  <2>2. MemoryOK'
    BY <1>1, <1>9, NothingTypes DEF Die, LoseState, MemoryOK
  <2>3. MutexOK' /\ HandlerOK'
    BY <1>9, NothingTypes DEF Die, LoseState, MutexOK, HandlerOK, Points, NoJob
  <2> QED
    BY <2>1, <2>2, <2>3
<1>10. ASSUME NEW r, rows' = r, r \in Seq(Row), Len(r) = Len(rows), live' \subseteq live,
              UNCHANGED <<now, starts, up, memory, pausedDb, kernel, handles, pc, job, ticked>>
       PROVE  TypeInv'
  BY <1>10 DEF memory, kernel, ClockOK, MemoryOK, TablesOK, KernelOK, MutexOK, HandlerOK
<1>11. CASE SecondServe
  <2>1. PICK ids : rows' = FinishAllUnknown(rows, ids, now) /\ live' \subseteq live
    BY <1>11 DEF SecondServe
  <2>2. FinishAllUnknown(rows, ids, now) \in Seq(Row) /\ Len(FinishAllUnknown(rows, ids, now)) = Len(rows)
    BY <1>1, FinishAllUnknownType
  <2> QED
    BY <1>10, <1>11, <2>1, <2>2 DEF SecondServe
<1>12. CASE PruneHistory
  <2>1. now - Retention \in Int
    BY <1>1, EngineAssumption
  <2>2. Prune(rows, now - Retention) \in Seq(Row) /\ Len(Prune(rows, now - Retention)) = Len(rows)
    BY <1>1, <2>1, PruneType
  <2> QED
    BY <1>10, <1>12, <2>2 DEF PruneHistory
<1> QED
  BY <1>2, <1>3, <1>4, <1>6, <1>7, <1>8, <1>9, <1>11, <1>12 DEF Request, Drained, Crash

\* Reaping a child gives its handle the exit code and may end its kill timer.
LEMMA ReapedFields ==
    ASSUME NEW h \in Handle, NEW code \in {0, 1, -1}
    PROVE  LET g == Reaped(h, code)
           IN  /\ g \in Handle /\ g.id = h.id /\ g.pid = h.pid /\ g.result = code
               /\ g.killAt \in {h.killAt, NoTime}
<1> DEFINE k == IF GraceOver(h.killAt) THEN h.killAt ELSE NoTime
<1>1. k \in Int /\ k \in {h.killAt, NoTime}
  BY DEF Handle, NoTime
<1>2. Reaped(h, code) = [h EXCEPT !.result = code, !.killAt = k]
  BY DEF Reaped, Handle
<1> HIDE DEF k
<1> QED
  BY <1>1, <1>2 DEF Handle, ExitCodes

\* Around the daemon: time, signals, processes.
LEMMA TypeAround == TypeInv /\ (ClockAdvance \/ KillTimer \/ Kernel) => TypeInv'
<1> SUFFICES ASSUME TypeInv, ClockAdvance \/ KillTimer \/ Kernel PROVE TypeInv'
  OBVIOUS
<1> USE DEF TypeInv, TypeOK
<1>1. CASE ClockAdvance
  <2>1. now' \in Time
    BY <1>1, EngineAssumption DEF ClockAdvance, ClockOK, Time
  <2> QED
    BY <1>1, <2>1 DEF ClockAdvance, memory, tables, kernel, ClockOK, MemoryOK, TablesOK, KernelOK,
       MutexOK, HandlerOK
<1>2. CASE KillTimer
  <2>1. sig' \in [Pids -> Signals]
    BY <1>2, SignalType DEF KillTimer, KernelOK
  <2> QED
    BY <1>2, <2>1 DEF KillTimer, memory, tables, ClockOK, MemoryOK, TablesOK, KernelOK, MutexOK,
       HandlerOK
<1>3. CASE Kernel
  <2>1. PICK p \in Pids : ProcessExit(p) \/ PidReused(p) \/ StrangerExit(p)
    BY <1>3 DEF Kernel
  <2>2. ClockOK' /\ MemoryOK' /\ TablesOK' /\ UNCHANGED <<pc, job>>
    BY <2>1 DEF ProcessExit, PidReused, StrangerExit, memory, tables, ClockOK, MemoryOK, TablesOK
  <2>3. KernelOK'
    BY <2>1 DEF ProcessExit, PidReused, StrangerExit, KernelOK, Free, Stranger, Signals
  <2>4. handles' \subseteq Handle
    <3>1. \A h \in Handle, code \in {0, 1, -1} : Reaped(h, code) \in Handle
      BY ReapedFields
    <3>2. CASE ProcessExit(p)
      <4>1. PICK code \in ExitsUnder(sig[p]) :
              handles' = {IF h.id = owner[p] THEN Reaped(h, code) ELSE h : h \in handles}
        BY <3>2 DEF ProcessExit
      <4>2. code \in {0, 1, -1}
        <5>1. sig[p] \in Signals /\ Exits \subseteq {0, 1}
          BY EngineAssumption DEF KernelOK
        <5> QED
          BY <5>1 DEF ExitsUnder, Signals
      <4> QED
        BY <3>1, <4>1, <4>2 DEF MutexOK
    <3> QED
      BY <2>1, <3>2 DEF PidReused, StrangerExit, MutexOK
  <2> QED
    BY <2>1, <2>2, <2>3, <2>4 DEF ProcessExit, PidReused, StrangerExit, tables, MutexOK, HandlerOK,
       memory
<1> QED
  BY <1>1, <1>2, <1>3

LEMMA TypeStep == TypeInv /\ [Next]_vars => TypeInv'
<1> SUFFICES ASSUME TypeInv, [Next]_vars PROVE TypeInv'
  OBVIOUS
<1>1. CASE UNCHANGED vars
  BY <1>1 DEF vars, memory, tables, kernel, TypeInv, TypeOK, ClockOK, MemoryOK, TablesOK, KernelOK,
     MutexOK, HandlerOK
<1> QED
  BY <1>1, TypeEnforce, TypeDue, TypeRun, TypeRequest, TypeAround DEF Next, TickStep

\* Every reachable state is well typed, whatever the task's configuration, the
\* faults that may occur and the bounds.
THEOREM TypeCorrect == Spec => []TypeOK
<1>1. TypeInv => TypeOK
  BY DEF TypeInv
<1> QED
  BY <1>1, TypeInit, TypeStep, PTL DEF Spec

-----------------------------------------------------------------------------
(* The queue *)

\* A run being started is the only one, and nothing waits behind it: what
\* makes it impossible that a fire is queued with no run to wait for.
QueueInv ==
    /\ OneHolder
    /\ QueuedBehindARun
    /\ pc \in {"spawn", "register"} => ~busy /\ queued = NoTime
    /\ pc \in {"spawn", "register", "clear"} => job.id # NoId
    /\ \A h \in handles : h.id # NoId

LEMMA QueueInit == Init => QueueInv
BY DEF Init, QueueInv, OneHolder, QueuedBehindARun, NoRun

\* Nothing that leaves the runs, the queue and the mutex alone matters.
LEMMA QueueSame ==
    ASSUME QueueInv, running'.id = running.id, released'.id = released.id,
           UNCHANGED <<queued, pc, job>>, \A h \in handles' : \E g \in handles : h.id = g.id
    PROVE  QueueInv'
BY DEF QueueInv, OneHolder, QueuedBehindARun, busy

\* An idle task begins a run.
LEMMA QueueBegin ==
    ASSUME QueueInv, pc' = "spawn", job'.id # NoId, running'.id = NoId, released'.id = NoId,
           queued' = NoTime, UNCHANGED handles
    PROVE  QueueInv'
BY DEF QueueInv, OneHolder, QueuedBehindARun, busy

LEMMA ArmKillIds ==
    ASSUME handles \subseteq Handle, NEW id
    PROVE  \A h \in ArmKill(id) : \E g \in handles : h.id = g.id
BY DEF ArmKill, Handle

LEMMA QueueTick == TypeInv /\ QueueInv /\ TickStep => QueueInv'
<1> SUFFICES ASSUME TypeInv, QueueInv, TickStep PROVE QueueInv'
  OBVIOUS
<1>1. /\ now \in Time /\ rows \in Seq(Row) /\ queued \in TimeOrNo /\ handles \subseteq Handle
      /\ running \in OwnedRun /\ released \in AdoptedRun
  BY DEF TypeInv, TypeOK, ClockOK, MemoryOK, TablesOK, MutexOK
<1>2. CASE EnforceOwned
  <2>1. running'.id = running.id
    BY <1>1, <1>2 DEF EnforceOwned, OwnedRun
  <2>2. \A h \in handles' : \E g \in handles : h.id = g.id
    BY <1>1, <1>2, ArmKillIds DEF EnforceOwned
  <2>3. pc = "free" /\ pc' = "due" /\ UNCHANGED <<queued, released, job>>
    BY <1>2 DEF EnforceOwned, TickStarts, Idle, Locked
  <2> QED
    BY <2>1, <2>2, <2>3 DEF QueueInv, OneHolder, QueuedBehindARun, busy
<1>3. CASE EnforceAdopted
  <2>1. released'.id = released.id
    BY <1>1, <1>3 DEF EnforceAdopted, AdoptedRun
  <2>2. pc' = "due" /\ UNCHANGED <<queued, running, handles>>
    BY <1>3 DEF EnforceAdopted
  <2> QED
    BY <2>1, <2>2 DEF QueueInv, OneHolder, QueuedBehindARun, busy
<1>4. CASE SettleAdopted
  <2>1. released' = NoReleased /\ running.id = NoId /\ UNCHANGED <<running, handles>>
    BY <1>4 DEF SettleAdopted, QueueInv, OneHolder
  <2>2. PICK rows0 \in Seq(Row) : StartQueued(rows0, "due")
    <3>1. {"timeout", "log_cap", "unknown"} \subseteq Errors /\ now \in Int
      BY <1>1, TimeFacts DEF Errors
    <3> QED
      BY <1>1, <1>4, <3>1, FinishRunUnknownExitType DEF SettleAdopted
  <2>3. queued' = NoTime /\ (pc' = "due" \/ (pc' = "spawn" /\ job'.id # NoId))
    BY <1>1, <2>2, StartQueuedType
  <2> QED
    BY <2>1, <2>3 DEF QueueInv, OneHolder, QueuedBehindARun, busy, NoReleased
<1>5. CASE NothingDue
  BY <1>5 DEF NothingDue, memory, QueueInv, OneHolder, QueuedBehindARun, busy
<1>6. CASE FireWatermark
  <2>1. watermarkDue \in Int
    BY <1>6 DEF FireWatermark, DueStep, Locked, watermarkDue, TypeInv, TypeOK, MemoryOK, HandlerOK,
       TaskConfig, NoTime
  <2>2. \E sched \in Int, outcome \in {"on_time", "queued"} : BeginRun(rows, sched, outcome, "free")
    BY <1>1, <1>6, <2>1, TimeFacts DEF FireWatermark
  <2>3. job'.id # NoId /\ pc' = "spawn"
    BY <1>1, <2>2, BeginRunType DEF Outcomes
  <2> QED
    BY <1>6, <2>3, QueueBegin DEF FireWatermark, busy, QueueInv, QueuedBehindARun
<1>7. CASE StartFire
  <2>1. PICK fires \in Elapsed, outcome \in Outcomes :
           BeginRun(Backlogged(fires), Last(fires), outcome, "free")
    BY <1>7 DEF StartFire, Outcomes
  <2>2. Last(fires) \in Int /\ Backlogged(fires) \in Seq(Row)
    BY <1>7, ElapsedType, BackloggedType, TimeIsInt DEF StartFire
  <2>3. job'.id # NoId /\ pc' = "spawn"
    BY <1>1, <2>1, <2>2, BeginRunType
  <2> QED
    BY <1>7, <2>3, QueueBegin DEF StartFire, busy, QueueInv, QueuedBehindARun
<1>8. CASE MissFire
  BY <1>8 DEF MissFire, QueueInv, OneHolder, QueuedBehindARun, busy
<1>9. CASE QueueFire
  BY <1>9 DEF QueueFire, QueueInv, OneHolder, QueuedBehindARun, busy
<1>10. CASE RestartFire
  <2>1. /\ running' \in {running, [running EXCEPT !.restart = TRUE]}
        /\ released' \in {released, [released EXCEPT !.killedAt = now]}
        /\ handles' \in {handles, ArmKill(running.id)}
        /\ busy /\ pc' = "free"
    BY <1>10 DEF RestartFire
  <2>2. running'.id = running.id /\ released'.id = released.id
    BY <1>1, <2>1 DEF OwnedRun, AdoptedRun
  <2>3. \A h \in handles' : \E g \in handles : h.id = g.id
    BY <1>1, <2>1, ArmKillIds
  <2> QED
    BY <2>1, <2>2, <2>3 DEF QueueInv, OneHolder, QueuedBehindARun, busy
<1> QED
  BY <1>2, <1>3, <1>4, <1>5, <1>6, <1>7, <1>8, <1>9, <1>10 DEF TickStep

LEMMA QueueRun ==
    TypeInv /\ QueueInv /\ (Spawn \/ LaunchFail \/ Register \/ RecordFinish \/ ClearFinished)
    => QueueInv'
<1> SUFFICES ASSUME TypeInv, QueueInv,
                    Spawn \/ LaunchFail \/ Register \/ RecordFinish \/ ClearFinished
             PROVE  QueueInv'
  OBVIOUS
<1>1. /\ now \in Time /\ rows \in Seq(Row) /\ queued \in TimeOrNo /\ handles \subseteq Handle
      /\ job \in Job
  BY DEF TypeInv, TypeOK, ClockOK, MemoryOK, TablesOK, MutexOK
<1>2. CASE Spawn
  <2>1. job'.id = job.id /\ \A h \in handles' : h \in handles \/ h.id = job.id
    BY <1>1, <1>2 DEF Spawn, Job
  <2> QED
    BY <1>2, <2>1 DEF Spawn, Locked, memory, QueueInv, OneHolder, QueuedBehindARun, busy
<1>3. CASE LaunchFail
  BY <1>1, <1>3 DEF LaunchFail, Locked, memory, QueueInv, OneHolder, QueuedBehindARun, busy, Job
<1>4. CASE Register
  BY <1>1, <1>4 DEF Register, Locked, QueueInv, OneHolder, QueuedBehindARun, busy, Job
<1>5. CASE RecordFinish
  BY <1>1, <1>5 DEF RecordFinish, NoJob, memory, QueueInv, OneHolder, QueuedBehindARun, busy, Handle
<1>6. CASE ClearFinished
  <2>1. CASE running.id # job.id
    BY <1>6, <2>1 DEF ClearFinished, QueueInv, OneHolder, QueuedBehindARun, busy
  <2>2. CASE running.id = job.id
    <3>1. running' = NoRun /\ StartQueued(rows, "free") /\ UNCHANGED <<released, handles>>
      BY <1>6, <2>2 DEF ClearFinished
    <3>2. released.id = NoId
      BY <1>6, <2>2 DEF ClearFinished, Locked, QueueInv, OneHolder
    <3>3. queued' = NoTime /\ (pc' = "free" \/ (pc' = "spawn" /\ job'.id # NoId))
      BY <1>1, <3>1, StartQueuedType
    <3> QED
      BY <3>1, <3>2, <3>3 DEF QueueInv, OneHolder, QueuedBehindARun, busy, NoRun
  <2> QED
    BY <2>1, <2>2
<1> QED
  BY <1>2, <1>3, <1>4, <1>5, <1>6

LEMMA QueueConfigure ==
    ASSUME QueueInv, NEW c, Configure(c), pc = "free", UNCHANGED <<pc, job, handles>>
    PROVE  QueueInv'
<1>1. CASE c = NoTask
  BY <1>1 DEF Configure, ForgetTask, LoseState, QueueInv, OneHolder, QueuedBehindARun, busy, NoRun, NoReleased
<1>2. CASE c # NoTask
  <2>1. UNCHANGED <<running, queued>> /\ (busy => UNCHANGED released)
    BY <1>2 DEF Configure, LoadTask
  <2> QED
    BY <2>1 DEF QueueInv, OneHolder, QueuedBehindARun, busy
<1> QED
  BY <1>1, <1>2

LEMMA QueueAround ==
    TypeInv /\ QueueInv /\ (\/ Request \/ Start \/ SecondServe \/ PruneHistory \/ ReleaseAll \/ Drained \/ Crash
                            \/ ClockAdvance \/ KillTimer \/ Kernel)
    => QueueInv'
<1> SUFFICES ASSUME TypeInv, QueueInv,
                    \/ Request \/ Start \/ SecondServe \/ PruneHistory
                    \/ ReleaseAll \/ Drained \/ Crash
                    \/ ClockAdvance \/ KillTimer \/ Kernel
             PROVE  QueueInv'
  OBVIOUS
<1>1. now \in Time /\ now \in Int /\ rows \in Seq(Row) /\ handles \subseteq Handle
  BY TimeFacts DEF TypeInv, TypeOK, ClockOK, TablesOK, MutexOK
<1>2. CASE Trigger
  <2>1. job'.id # NoId /\ pc' = "spawn"
    BY <1>1, <1>2, BeginRunType DEF Trigger, Outcomes
  <2> QED
    BY <1>2, <2>1, QueueBegin DEF Trigger, memory, busy, QueueInv, QueuedBehindARun
<1>3. CASE Pause \/ Resume
  BY <1>3 DEF Pause, Resume, SetPaused, QueueInv, OneHolder, QueuedBehindARun, busy
<1>4. CASE Reload
  BY <1>4, QueueConfigure DEF Reload, Serving, Idle, Locked
<1>5. CASE Start
  <2>1. pc = "free"
    BY <1>5 DEF Start, TypeInv, HandlerOK
  <2> QED
    BY <1>5, <2>1, QueueConfigure DEF Start
<1>6. CASE ReleaseAll
  BY <1>6 DEF ReleaseAll, DisownQueued, Idle, Locked, QueueInv, OneHolder, QueuedBehindARun, busy, NoRun, NoReleased
<1>7. CASE Drained \/ Crash
  BY <1>7 DEF Drained, Crash, Die, LoseState, QueueInv, OneHolder, QueuedBehindARun, busy, NoRun, NoReleased
<1>8. CASE ClockAdvance \/ KillTimer \/ SecondServe \/ PruneHistory
  BY <1>8, QueueSame DEF ClockAdvance, KillTimer, SecondServe, PruneHistory, memory
<1>9. CASE Kernel
  <2>1. PICK p \in Pids : ProcessExit(p) \/ PidReused(p) \/ StrangerExit(p)
    BY <1>9 DEF Kernel
  <2>2. UNCHANGED <<memory, pc, job>>
    BY <2>1 DEF ProcessExit, PidReused, StrangerExit
  <2>3. \A h \in handles' : \E g \in handles : h.id = g.id
    <3>1. \A g \in Handle : \A code : Reaped(g, code).id = g.id
      BY DEF Handle, Reaped
    <3>2. ASSUME ProcessExit(p) PROVE \A h \in handles' : \E g \in handles : h.id = g.id
      <4>1. PICK code : handles' = {IF g.id = owner[p] THEN Reaped(g, code) ELSE g
                                    : g \in handles}
        BY <3>2 DEF ProcessExit
      <4> TAKE h \in handles'
      <4>2. PICK g \in handles : h = IF g.id = owner[p] THEN Reaped(g, code) ELSE g
        BY <4>1
      <4>3. Reaped(g, code).id = g.id
        BY <1>1, <3>1
      <4> QED
        BY <4>2, <4>3
    <3> QED
      BY <2>1, <3>2 DEF PidReused, StrangerExit
  <2> QED
    BY <2>2, <2>3, QueueSame DEF memory
<1> QED
  BY <1>2, <1>3, <1>4, <1>5, <1>6, <1>7, <1>8, <1>9 DEF Request

LEMMA QueueStep == TypeInv /\ QueueInv /\ [Next]_vars => QueueInv'
<1>1. ASSUME QueueInv, UNCHANGED vars PROVE QueueInv'
  BY <1>1, QueueSame DEF vars, memory
<1> QED
  BY <1>1, QueueTick, QueueRun, QueueAround DEF Next

\* A fire waits in the queue only while a run is there to end: no schedule of
\* ticks, requests, reloads, stops and crashes strands it.
THEOREM QueueBehindRun == Spec => []QueuedBehindARun
<1>1. QueueInv => QueuedBehindARun
  BY DEF QueueInv
<1> QED
  BY <1>1, TypeInit, TypeStep, QueueInit, QueueStep, PTL DEF Spec

-----------------------------------------------------------------------------
(* Closed rows *)

\* History s has every closed row of history r, unchanged and at its place.
Keeps(r, s) == s \in Seq(Row) /\ \A i \in 1 .. Len(r) : r[i].finish # NoTime => i \in 1 .. Len(s) /\ s[i] = r[i]

LEMMA KeepsRefl == ASSUME NEW r \in Seq(Row) PROVE Keeps(r, r)
BY DEF Keeps

LEMMA KeepsTrans ==
    ASSUME NEW r \in Seq(Row), NEW s, NEW u, Keeps(r, s), Keeps(s, u)
    PROVE  Keeps(r, u)
BY DEF Keeps

\* A longer history with the same beginning keeps.
LEMMA KeepsPrefix ==
    ASSUME NEW r \in Seq(Row), NEW s \in Seq(Row), Len(s) >= Len(r),
           \A i \in 1 .. Len(r) : s[i] = r[i]
    PROVE  Keeps(r, s)
BY DEF Keeps

LEMMA KeepsFinish ==
    ASSUME NEW r \in Seq(Row), NEW id, NEW code \in ExitCodes, NEW err \in Errors, NEW t \in Int
    PROVE  Keeps(r, FinishRun(r, id, code, err, t))
<1> DEFINE s == FinishRun(r, id, code, err, t)
<1>1. s \in Seq(Row) /\ Len(s) = Len(r) /\ \A i \in 1 .. Len(r) : r[i].finish # NoTime => s[i] = r[i]
  BY FinishRunType
<1> HIDE DEF s
<1>2. Keeps(r, s)
  BY <1>1 DEF Keeps
<1> QED
  BY <1>2 DEF s

LEMMA KeepsMissed ==
    ASSUME NEW r \in Seq(Row), NEW fire \in Int, NEW reason \in Reasons
    PROVE  Keeps(r, RecordMissed(r, fire, reason))
<1> DEFINE s == RecordMissed(r, fire, reason)
<1>1. s \in Seq(Row) /\ Len(s) = Len(r) + 1 /\ \A i \in 1 .. Len(r) : s[i] = r[i]
  BY RecordMissedType
<1> HIDE DEF s
<1>2. Keeps(r, s)
  BY <1>1 DEF Keeps
<1> QED
  BY <1>2 DEF s

LEMMA KeepsTick == TypeInv /\ TickStep => Keeps(rows, rows')
<1> SUFFICES ASSUME TypeInv, TickStep PROVE Keeps(rows, rows')
  OBVIOUS
<1>1. /\ now \in Time /\ now \in Int /\ rows \in Seq(Row) /\ queued \in TimeOrNo /\ queued \in Int
      /\ Keeps(rows, rows)
  BY TimeFacts, KeepsRefl DEF TypeInv, TypeOK, ClockOK, MemoryOK, TablesOK, TimeOrNo
<1>2. CASE EnforceOwned \/ EnforceAdopted \/ NothingDue
  BY <1>1, <1>2 DEF EnforceOwned, EnforceAdopted, NothingDue, tables
<1>3. CASE SettleAdopted
  <2>1. PICK rows0 \in Seq(Row) : StartQueued(rows0, "due") /\ Keeps(rows, rows0)
    <3>1. {"timeout", "log_cap", "unknown"} \subseteq Errors /\ NoExit \in ExitCodes
      BY DEF Errors, ExitCodes
    <3>2. PICK err \in Errors : StartQueued(FinishRun(rows, released.id, NoExit, err, now), "due")
      BY <1>3, <3>1 DEF SettleAdopted, FinishRunUnknownExit
    <3> QED
      BY <1>1, <3>1, <3>2, KeepsFinish DEF Keeps
  <2>2. Keeps(rows0, rows')
    BY <1>1, <2>1, StartQueuedType, KeepsPrefix
  <2> QED
    BY <1>1, <2>1, <2>2, KeepsTrans
<1>4. CASE FireWatermark
  <2>1. watermarkDue \in Int
    BY <1>4 DEF FireWatermark, DueStep, Locked, watermarkDue, TypeInv, TypeOK, MemoryOK, HandlerOK,
       TaskConfig, NoTime
  <2>2. \E sched \in Int, outcome \in {"on_time", "queued"} : BeginRun(rows, sched, outcome, "free")
    BY <1>1, <1>4, <2>1 DEF FireWatermark
  <2> QED
    BY <1>1, <2>2, BeginRunType, KeepsPrefix DEF Outcomes
<1>5. ASSUME CronFires, NEW fires \in Elapsed
      PROVE  Last(fires) \in Int /\ Backlogged(fires) \in Seq(Row) /\ Keeps(rows, Backlogged(fires))
  BY <1>1, <1>5, ElapsedType, BackloggedType, TimeIsInt, KeepsPrefix
<1>6. CASE StartFire
  <2>1. PICK fires \in Elapsed, outcome \in Outcomes :
           BeginRun(Backlogged(fires), Last(fires), outcome, "free")
    BY <1>6 DEF StartFire, Outcomes
  <2>2. CronFires
    BY <1>6 DEF StartFire
  <2>3. Keeps(Backlogged(fires), rows')
    BY <1>1, <1>5, <2>1, <2>2, BeginRunType, KeepsPrefix
  <2> QED
    BY <1>1, <1>5, <2>2, <2>3, KeepsTrans
<1>7. CASE MissFire \/ RestartFire
  <2>1. PICK fires \in Elapsed, fire \in Int, reason \in Reasons :
           rows' \in {Backlogged(fires), RecordMissed(Backlogged(fires), fire, reason)}
    <3>1. {"catch_up_disabled", "overlap"} \subseteq Reasons
      BY DEF Reasons
    <3> QED
      BY <1>1, <1>5, <1>7, <3>1 DEF MissFire, RestartFire
  <2>2. CronFires
    BY <1>7 DEF MissFire, RestartFire
  <2> QED
    BY <1>1, <1>5, <2>1, <2>2, KeepsMissed, KeepsTrans
<1>8. CASE QueueFire
  BY <1>5, <1>8 DEF QueueFire
<1> QED
  BY <1>2, <1>3, <1>4, <1>6, <1>7, <1>8 DEF TickStep

LEMMA KeepsOther ==
    TypeInv /\ (\/ Spawn \/ LaunchFail \/ Register \/ RecordFinish \/ ClearFinished
                \/ Request \/ Start \/ SecondServe \/ ReleaseAll \/ Drained \/ Crash
                \/ ClockAdvance \/ KillTimer \/ Kernel)
    => Keeps(rows, rows')
<1> SUFFICES ASSUME TypeInv, \/ Spawn \/ LaunchFail \/ Register \/ RecordFinish \/ ClearFinished
                             \/ Request \/ Start \/ SecondServe \/ ReleaseAll \/ Drained \/ Crash
                             \/ ClockAdvance \/ KillTimer \/ Kernel
             PROVE  Keeps(rows, rows')
  OBVIOUS
<1>1. /\ now \in Time /\ now \in Int /\ rows \in Seq(Row) /\ queued \in TimeOrNo /\ queued \in Int
      /\ handles \subseteq Handle /\ Keeps(rows, rows)
  BY TimeFacts, KeepsRefl DEF TypeInv, TypeOK, ClockOK, MemoryOK, TablesOK, MutexOK, TimeOrNo
<1>2. CASE \/ Spawn \/ Register \/ Pause \/ Resume \/ Drained \/ Crash
           \/ ClockAdvance \/ KillTimer \/ Kernel
  <2>1. UNCHANGED rows
    BY <1>2 DEF Spawn, Register, Pause, Resume, SetPaused, Drained, Crash, Die, LoseState, ClockAdvance, KillTimer, Kernel,
       ProcessExit, PidReused, StrangerExit, tables
  <2> QED
    BY <1>1, <2>1
<1>3. CASE LaunchFail
  BY <1>1, <1>3, KeepsFinish DEF LaunchFail, FailedLaunch, ExitCodes, Errors
<1>4. CASE RecordFinish
  <2>1. PICK h \in handles : rows' = Recorded(h)
    BY <1>4 DEF RecordFinish
  <2>2. h.result \in ExitCodes /\ FinishError(h) \in Errors
    BY <1>1 DEF FinishError, KillReason, Errors, Handle
  <2> QED
    BY <1>1, <2>1, <2>2, KeepsFinish DEF Recorded
<1>5. CASE ClearFinished
  <2>1. CASE running.id # job.id
    BY <1>1, <1>5, <2>1 DEF ClearFinished
  <2>2. CASE running.id = job.id
    <3>1. StartQueued(rows, "free")
      BY <1>5, <2>2 DEF ClearFinished
    <3> QED
      BY <1>1, <3>1, StartQueuedType, KeepsPrefix
  <2> QED
    BY <2>1, <2>2
<1>6. CASE Trigger
  BY <1>1, <1>6, BeginRunType, KeepsPrefix DEF Trigger, Outcomes
<1>7. CASE Reload \/ Start \/ SecondServe
  <2>1. PICK ids : rows' = FinishAllUnknown(rows, ids, now)
    BY <1>7 DEF Reload, Start, SecondServe, Configure
  <2> QED
    BY <1>1, <2>1, FinishAllUnknownType DEF Keeps
<1>8. CASE ReleaseAll
  <2>1. rows' \in {rows, RecordMissed(rows, queued, "daemon_stop")}
    BY <1>8 DEF ReleaseAll, DisownQueued
  <2> QED
    BY <1>1, <2>1, KeepsMissed DEF Reasons
<1> QED
  BY <1>2, <1>3, <1>4, <1>5, <1>6, <1>7, <1>8 DEF Request

\* No tick, watcher, request, reload, restart or second daemon rewrites a row
\* that has its finish: a recorded exit is never turned into an unknown one,
\* and only a row past the retention is deleted.
THEOREM ClosedRowsKept == Spec => ClosedRowsStay
<1> DEFINE Stays == \A i \in DOMAIN rows : ~Open(i) =>
          /\ i \in DOMAIN rows'
          /\ \/ rows'[i] = rows[i]
             \/ rows'[i] = [rows[i] EXCEPT !.pruned = TRUE] /\ rows[i].finish < now - Retention
<1>1. TypeInv /\ [Next]_vars => [Stays]_vars
  <2> SUFFICES ASSUME TypeInv, Next, NEW i \in DOMAIN rows, ~Open(i)
               PROVE  /\ i \in DOMAIN rows'
                      /\ \/ rows'[i] = rows[i]
                         \/ /\ rows'[i] = [rows[i] EXCEPT !.pruned = TRUE]
                            /\ rows[i].finish < now - Retention
    OBVIOUS
  <2>1. rows \in Seq(Row) /\ i \in 1 .. Len(rows) /\ now \in Int /\ rows[i].finish # NoTime
    BY TimeFacts DEF TypeInv, TypeOK, TablesOK, ClockOK, Open
  <2>2. CASE PruneHistory
    <3>1. now - Retention \in Int
      BY <2>1, EngineAssumption
    <3>2. rows' = Prune(rows, now - Retention)
      BY <2>2 DEF PruneHistory
    <3>3. rows' \in Seq(Row) /\ Len(rows') = Len(rows)
      BY <2>1, <3>1, <3>2, PruneType
    <3>4. \/ rows'[i] = rows[i]
          \/ rows'[i] = [rows[i] EXCEPT !.pruned = TRUE] /\ rows[i].finish < now - Retention
      BY <2>1, <3>1, <3>2, PruneType, Zenon
    <3> QED
      BY <2>1, <3>3, <3>4
  <2>3. CASE ~PruneHistory
    <3>1. Keeps(rows, rows')
      BY <2>3, KeepsTick, KeepsOther DEF Next
    <3> QED
      BY <2>1, <3>1 DEF Keeps
  <2> QED
    BY <2>2, <2>3
<1> QED
  BY <1>1, TypeInit, TypeStep, PTL DEF Spec, ClosedRowsStay

-----------------------------------------------------------------------------
(* Pauses *)

\* While the daemon runs, and so until its drain is over, memory and table agree.
PauseInv == up # "down" /\ cfg # NoTask => paused = pausedDb

LEMMA PauseConfigure ==
    ASSUME PauseInv, NEW c, Configure(c), UNCHANGED pausedDb
    PROVE  PauseInv'
<1>1. CASE c = NoTask
  BY <1>1 DEF Configure, ForgetTask, PauseInv
<1>2. CASE c # NoTask
  <2>1. paused' = IF up # "down" /\ cfg # NoTask THEN paused ELSE pausedDb
    BY <1>2 DEF Configure, LoadTask
  <2> QED
    BY <2>1 DEF PauseInv
<1> QED
  BY <1>1, <1>2

LEMMA PauseStep == TypeInv /\ PauseInv /\ [Next]_vars => PauseInv'
<1> SUFFICES ASSUME TypeInv, PauseInv, [Next]_vars PROVE PauseInv'
  OBVIOUS
<1>1. CASE UNCHANGED vars \/ Spawn \/ LaunchFail \/ Register \/ RecordFinish \/ ClearFinished
  BY <1>1 DEF vars, Spawn, LaunchFail, Register, RecordFinish, ClearFinished, memory, tables, PauseInv
<1>2. CASE TickStep
  <2>1. UNCHANGED <<up, cfg, paused, pausedDb>>
    BY <1>2 DEF TickStep, EnforceOwned, EnforceAdopted, SettleAdopted, NothingDue, FireWatermark, StartFire,
       MissFire, QueueFire, RestartFire, FireCron, memory, tables
  <2> QED
    BY <2>1 DEF PauseInv
<1>3. CASE Pause \/ Resume
  BY <1>3 DEF Pause, Resume, SetPaused, PauseInv
<1>4. CASE Reload \/ Start
  BY <1>4, PauseConfigure DEF Reload, Start
<1>5. CASE Trigger \/ SecondServe \/ PruneHistory \/ ClockAdvance \/ KillTimer
  BY <1>5 DEF Trigger, SecondServe, PruneHistory, ClockAdvance, KillTimer, memory, tables, PauseInv
<1>6. CASE ReleaseAll
  BY <1>6 DEF ReleaseAll, Idle, Locked, PauseInv
<1>7. CASE Drained \/ Crash
  BY <1>7 DEF Drained, Crash, Die, PauseInv
<1>8. CASE Kernel
  BY <1>8 DEF Kernel, ProcessExit, PidReused, StrangerExit, memory, tables, PauseInv
<1> QED
  BY <1>1, <1>2, <1>3, <1>4, <1>5, <1>6, <1>7, <1>8 DEF Next, Request

\* A pause survives reloads, an entry of tasks.d that goes and comes back, a
\* stop and a crash; so does a resume.
THEOREM PauseKept == Spec => []PauseRemembered
<1>1. Init => PauseInv
  BY DEF Init, PauseInv
<1>2. PauseInv => PauseRemembered
  BY DEF PauseInv, PauseRemembered
<1> QED
  BY <1>1, <1>2, TypeInit, TypeStep, PauseStep, PTL DEF Spec
=============================================================================

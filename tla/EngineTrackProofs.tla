--------------------------- MODULE EngineTrackProofs ---------------------------
(***************************************************************************)
(* Safety theorems of Engine about runs across ticks, reloads, restarts    *)
(* and crashes.  Each states the constants it needs: the events and crash  *)
(* points that, as the violation runs and the hazards in the project's     *)
(* list show, break the property.  The invariants build on RunInv:         *)
(*   TrackInv     the registry leads to every live process                 *)
(*   SingleInv    the engine holds the one process that lives              *)
(*   OpenInv      the registry has every open run                          *)
(*   StartInv     what is remembered of a run's start is its row's         *)
(*   ServedInv    a daemon's one child is the run it holds                 *)
(*   ChildPids    a child's pid is never another run's                     *)
(*   KillInv      who is to be killed has given a reason                   *)
(*   ReapInv      an exit that is still to be recorded finds its row open  *)
(***************************************************************************)
EXTENDS EngineRunProofs

-----------------------------------------------------------------------------
(* Live processes *)

\* The daemon does not die between runner.Start and RecordLiveRun, and ps
\* tells a live process from a dead one.
TrackAssumption == "register" \notin CrashPoints /\ "ps_failure" \notin Events

\* Process p is the one that registry entry e is about.
Leads(e, p) == e.id = owner[p] /\ e.pid = p /\ e.ident = e.id

\* The row of a live process is open, and the registry leads to the process,
\* or will when the handler that has started it is done.
TrackInv ==
    /\ pc = "spawn" => Open(job.id)
    /\ \A p \in Alive : /\ Open(owner[p])
                        /\ (pc = "register" /\ owner[p] = job.id) \/ \E e \in live : Leads(e, p)

LEMMA TrackInit == Init => TrackInv
BY DEF Init, TrackInv, Alive

\* What ps says of the process that a registry entry leads to.
LEMMA LeadsAlive ==
    ASSUME TrackAssumption, NEW p \in Alive, NEW e, Leads(e, p)
    PROVE  Verdicts(e.pid, e.ident) = {TRUE}
BY DEF TrackAssumption, Leads, Verdicts, sameLiveProcess, Alive, Free, NoId

\* A process that the registry leads to is not found dead.
LEMMA FinalizedDead ==
    ASSUME TrackAssumption, RegistryInv, NEW E \in SUBSET live, NEW dead \in Finalized(E),
           NEW p \in Alive, NEW e \in live, Leads(e, p)
    PROVE  e \notin dead /\ \A d \in dead : d.id # owner[p]
<1>1. dead \subseteq E /\ \A f \in E : (f \notin dead) \in Verdicts(f.pid, f.ident)
  BY DEF Finalized
<1>2. e \notin dead
  BY <1>1, LeadsAlive
<1>3. \A d \in dead : d.id = e.id => d = e
  BY <1>1 DEF RegistryInv
<1> QED
  BY <1>2, <1>3 DEF Leads

\* The run that a tick settles has no process.
LEMMA SettledDead ==
    ASSUME TrackAssumption, RunInv, TrackInv, SettleAdopted
    PROVE  \A p \in Alive : owner[p] # released.id
<1> SUFFICES ASSUME NEW p \in Alive, owner[p] = released.id PROVE FALSE
  OBVIOUS
<1>1. pc = "free" /\ released.id # NoId /\ FALSE \in Verdicts(released.pid, released.ident)
  BY DEF SettleAdopted, TickStarts, Idle, Locked
<1>2. PICK e \in live : Leads(e, p)
  BY <1>1 DEF TrackInv
<1>3. e.pid = released.pid /\ e.ident = released.ident
  BY <1>1, <1>2 DEF Leads, RunInv, RegistryInv
<1>4. Verdicts(e.pid, e.ident) = {TRUE}
  BY <1>2, LeadsAlive
<1> QED
  BY <1>1, <1>3, <1>4

\* The history step closes no live process's row, the registry keeps its
\* entry, and no process is new.
LEMMA TrackSame ==
    ASSUME RunInv, TrackInv, NEW closed, HistoryStep(closed), Fewer,
           \A p \in Alive : owner[p] \notin closed,
           \A p \in Alive, e \in live : Leads(e, p) => e \in live',
           pc = "register" => pc' = "register" /\ job' = job,
           pc' = "spawn" /\ pc = "spawn" => job' = job /\ job.id \notin closed
    PROVE  TrackInv'
<1>1. \A p \in Alive' : p \in Alive /\ owner'[p] = owner[p]
  BY DEF Fewer, Alive
<1>2. \A p \in Alive : owner[p] \in 1 .. Len(rows)
  BY DEF RunInv, IdsInv, Named
<1>3. \A p \in Alive : rows'[owner[p]] = rows[owner[p]]
  BY <1>2 DEF HistoryStep
<1>4. ASSUME pc' = "spawn" PROVE Open(job.id)'
  <2>1. CASE pc = "spawn"
    <3>1. job.id \in 1 .. Len(rows)
      BY <2>1 DEF RunInv, TypeInv, TypeOK, TablesOK, HandlerOK
    <3> QED
      BY <1>4, <2>1, <3>1 DEF TrackInv, HistoryStep, Open
  <2>2. CASE pc # "spawn"
    BY <1>4, <2>2 DEF HistoryStep, Open
  <2> QED
    BY <2>1, <2>2
<1>5. ASSUME NEW p \in Alive' PROVE Open(owner[p])'
  BY <1>1, <1>3, <1>5 DEF TrackInv, Open
<1>6. ASSUME NEW p \in Alive'
      PROVE  (pc' = "register" /\ owner'[p] = job'.id) \/ \E e \in live' : Leads(e, p)'
  BY <1>1, <1>6 DEF TrackInv, Leads
<1> QED
  BY <1>4, <1>5, <1>6 DEF TrackInv

LEMMA TickPoint == TickStep => pc \in {"free", "due"} /\ up # "down" /\ pc' # "register" /\ pc' # "clear"
BY DEF TickStep, EnforceOwned, EnforceAdopted, SettleAdopted, NothingDue, FireWatermark, StartFire, MissFire,
   QueueFire, RestartFire, CronFires, DueStep, TickStarts, Idle, Locked, StartQueued, BeginRun

\* A tick that settles no adopted run leaves the registry and the daemon alone.
LEMMA TickTables ==
    TickStep => SettleAdopted \/ UNCHANGED <<live, owner, up, cfg>>
BY DEF TickStep, EnforceOwned, EnforceAdopted, NothingDue, FireWatermark, StartFire, MissFire,
   QueueFire, RestartFire, FireCron, memory, tables, kernel

LEMMA TrackTick == TrackAssumption /\ RunInv /\ TrackInv /\ TickStep => TrackInv'
<1> SUFFICES ASSUME TrackAssumption, RunInv, TrackInv, TickStep PROVE TrackInv'
  OBVIOUS
<1>1. pc \in {"free", "due"} /\ Fewer
  <2>1. pc \in {"free", "due"} /\ Next
    BY TickPoint DEF Next
  <2> QED
    BY <2>1, StepFewer DEF Spawn, Register, Locked, RunInv
<1>2. CASE SettleAdopted
  <2>1. \A p \in Alive : owner[p] # released.id
    BY <1>2, SettledDead
  <2>2. live' = {e \in live : e.id # released.id}
    BY <1>2 DEF SettleAdopted
  <2>3. HistoryStep({released.id})
    BY <1>2, SettleHistory DEF RunInv
  <2> QED
    BY <1>1, <2>1, <2>2, <2>3, TrackSame DEF Leads
<1>3. CASE ~SettleAdopted
  <2>1. HistoryStep({}) /\ UNCHANGED live
    BY <1>3, DueHistory, TickTables DEF RunInv, TickStep
  <2> QED
    BY <1>1, <2>1, TrackSame
<1> QED
  BY <1>2, <1>3

LEMMA TrackSpawn == RunInv /\ TrackInv /\ Spawn => TrackInv'
<1> SUFFICES ASSUME RunInv, TrackInv, Spawn PROVE TrackInv'
  OBVIOUS
<1>1. job \in Job /\ owner \in [Pids -> Nat \cup {Stranger}]
  BY DEF RunInv, TypeInv, TypeOK, MutexOK, KernelOK
<1>2. PICK p \in Pids :
        /\ owner' = [owner EXCEPT ![p] = job.id] /\ job' = [job EXCEPT !.pid = p]
        /\ pc = "spawn" /\ pc' = "register" /\ UNCHANGED <<rows, live>>
  BY DEF Spawn, Locked, tables
<1>3. job'.id = job.id /\ owner'[p] = job.id /\ \A q \in Pids : q # p => owner'[q] = owner[q]
  BY <1>1, <1>2 DEF Job
<1>4. ASSUME NEW q \in Alive'
      PROVE  /\ Open(owner[q])'
             /\ (pc' = "register" /\ owner'[q] = job'.id) \/ \E e \in live' : Leads(e, q)'
  <2>1. CASE q = p
    BY <1>2, <1>3, <2>1 DEF TrackInv, Open
  <2>2. CASE q # p
    <3>1. q \in Alive /\ owner'[q] = owner[q]
      BY <1>3, <1>4, <2>2 DEF Alive
    <3> QED
      BY <1>2, <3>1 DEF TrackInv, Open, Leads
  <2> QED
    BY <2>1, <2>2
<1> QED
  BY <1>2, <1>4 DEF TrackInv

\* The process being registered is the one that has been spawned.
LEMMA RegisteredProcess ==
    ASSUME RunInv, pc = "register", NEW p \in Alive, owner[p] = job.id
    PROVE  job.pid = p
<1>1. PICK h \in handles : h.id = job.id /\ h.pid = job.pid
  BY DEF RunInv, ChildInv
<1>2. h.result = NoExit /\ owner[h.pid] = h.id
  BY <1>1 DEF RunInv, ChildInv, Alive
<1>3. job.pid \in Alive
  BY <1>1, <1>2 DEF Alive, RunInv, TypeInv, HandlerOK
<1> QED
  BY <1>1, <1>2, <1>3 DEF RunInv, ChildInv

LEMMA TrackRegister == TrackAssumption /\ RunInv /\ TrackInv /\ Register => TrackInv'
<1> SUFFICES ASSUME TrackAssumption, RunInv, TrackInv, Register PROVE TrackInv'
  OBVIOUS
<1>1. PICK same \in Verdicts(job.pid, job.id) :
        /\ live' = live \cup {[id |-> job.id, pid |-> job.pid, ident |-> IF same THEN job.id ELSE NoId,
                               start |-> rows[job.id].start]}
        /\ pc = "register" /\ pc' # "spawn" /\ UNCHANGED <<rows, owner>>
  BY DEF Register, Locked, kernel, RunInv, TypeInv, TypeOK, MutexOK, Job
<1>2. ASSUME NEW p \in Alive', owner[p] = job.id PROVE \E e \in live' : Leads(e, p)'
  <2>1. p \in Alive /\ job.pid = p
    BY <1>1, <1>2, RegisteredProcess DEF Alive
  <2>2. same = TRUE
    BY <1>1, <1>2, <2>1 DEF TrackAssumption, Verdicts, sameLiveProcess, Alive, Free, NoId
  <2>3. PICK e \in live' : e = [id |-> job.id, pid |-> job.pid, ident |-> job.id, start |-> rows[job.id].start]
    BY <1>1, <2>2
  <2> QED
    BY <1>1, <1>2, <2>1, <2>3 DEF Leads
<1>3. ASSUME NEW p \in Alive', owner[p] # job.id PROVE \E e \in live' : Leads(e, p)'
  BY <1>1, <1>3 DEF TrackInv, Alive, Leads
<1>4. ASSUME NEW p \in Alive' PROVE Open(owner[p])'
  BY <1>1, <1>4 DEF TrackInv, Alive, Open
<1> QED
  BY <1>1, <1>2, <1>3, <1>4 DEF TrackInv

LEMMA TrackFinish ==
    RunInv /\ TrackInv /\ (LaunchFail \/ RecordFinish \/ ClearFinished) => TrackInv'
<1> SUFFICES ASSUME RunInv, TrackInv, LaunchFail \/ RecordFinish \/ ClearFinished PROVE TrackInv'
  OBVIOUS
<1>1. TypeInv /\ Next
  BY DEF RunInv, Next
<1>2. pc \in {"spawn", "free", "clear"} /\ pc' # "register"
  BY <1>1 DEF LaunchFail, RecordFinish, ClearFinished, Idle, Locked, StartQueued, BeginRun, TypeInv, TypeOK, MutexOK, Job
<1>3. CASE LaunchFail
  <2>1. HistoryStep({job.id}) /\ UNCHANGED live /\ pc = "spawn" /\ pc' # "spawn" /\ Fewer
    BY <1>1, <1>3, LaunchFailHistory, StepFewer DEF LaunchFail, Locked, Spawn, Register, TypeInv, TypeOK, MutexOK, Job
  <2>2. \A p \in Alive : owner[p] # job.id
    BY <2>1 DEF RunInv, IdsInv, Named
  <2> QED
    BY <2>1, <2>2, TrackSame
<1>4. CASE RecordFinish
  <2>1. PICK h \in handles : h.result # NoExit /\ job'.id = h.id
    BY <1>4 DEF RecordFinish, NoJob
  <2>2. \A p \in Alive : owner[p] # job'.id
    BY <2>1 DEF RunInv, ChildInv, Alive
  <2>3. HistoryStep({job'.id}) /\ UNCHANGED live /\ pc = "free" /\ pc' = "clear" /\ Fewer
    BY <1>1, <1>4, RecordFinishHistory, StepFewer DEF RecordFinish, Idle, Locked, Spawn, Register
  <2> QED
    BY <2>2, <2>3, TrackSame
<1>5. CASE ClearFinished
  <2>1. HistoryStep({}) /\ live' = {e \in live : e.id # job.id} /\ pc = "clear" /\ Fewer
    BY <1>1, <1>5, ClearFinishedHistory, StepFewer DEF ClearFinished, Locked, Spawn, Register
  <2>2. \A p \in Alive : owner[p] # job.id
    BY <2>1 DEF RunInv, ChildInv, Alive
  <2> QED
    BY <2>1, <2>2, TrackSame DEF Leads
<1> QED
  BY <1>3, <1>4, <1>5

\* Registry entries that are found dead are closed and removed.
LEMMA TrackFinalized ==
    ASSUME TrackAssumption, RunInv, TrackInv, NEW E \in SUBSET live, NEW dead \in Finalized(E),
           rows' = FinishAllUnknown(rows, {e.id : e \in dead}, now), live' = live \ dead,
           UNCHANGED <<owner, pc, job, handles>>
    PROVE  TrackInv'
<1> DEFINE closed == {e.id : e \in dead}
<1>1. HistoryStep(closed)
  BY FinalizedHistory DEF RunInv
<1>2. dead \subseteq live
  BY DEF Finalized
<1>3. \A p \in Alive : owner[p] \notin closed
  <2> TAKE p \in Alive
  <2>1. CASE pc = "register" /\ owner[p] = job.id
    BY <1>2, <2>1 DEF RunInv, IdsInv
  <2>2. CASE \E e \in live : Leads(e, p)
    BY <2>2, FinalizedDead DEF RunInv
  <2> QED
    BY <2>1, <2>2 DEF TrackInv
<1>4. \A p \in Alive, e \in live : Leads(e, p) => e \in live'
  BY FinalizedDead DEF RunInv
<1>5. pc = "spawn" => job.id \notin closed
  BY <1>2 DEF RunInv, IdsInv, Named
<1>6. Fewer
  BY DEF Fewer
<1> HIDE DEF closed
<1> QED
  BY <1>1, <1>3, <1>4, <1>5, <1>6, TrackSame

\* Configure and a second serve both close what they find dead.
LEMMA FinalizingStep ==
    ASSUME Reload \/ Start \/ SecondServe
    PROVE  \E E \in SUBSET live : \E dead \in Finalized(E) :
               rows' = FinishAllUnknown(rows, {e.id : e \in dead}, now) /\ live' = live \ dead
<1>1. CASE SecondServe
  <2>1. \E dead \in Finalized(live) :
           rows' = FinishAllUnknown(rows, {e.id : e \in dead}, now) /\ live' = live \ dead
    BY <1>1 DEF SecondServe
  <2> QED
    BY <2>1
<1>2. ASSUME NEW c, Configure(c)
      PROVE  \E F \in SUBSET live : \E dead \in Finalized(F) :
                rows' = FinishAllUnknown(rows, {e.id : e \in dead}, now) /\ live' = live \ dead
  <2>1. PICK tracked : \E dead \in Finalized({e \in live : e.id \notin tracked}) :
                rows' = FinishAllUnknown(rows, {e.id : e \in dead}, now) /\ live' = live \ dead
    BY <1>2 DEF Configure
  <2> QED
    BY <2>1
<1> QED
  BY <1>1, <1>2 DEF Reload, Start

LEMMA TrackAround ==
    TrackAssumption /\ RunInv /\ TrackInv
    /\ (\/ Request \/ Start \/ SecondServe \/ PruneHistory \/ ReleaseAll \/ Drained \/ Crash
        \/ ClockAdvance \/ KillTimer \/ Kernel)
    => TrackInv'
<1> SUFFICES ASSUME TrackAssumption, RunInv, TrackInv,
                    \/ Request \/ Start \/ SecondServe \/ PruneHistory \/ ReleaseAll \/ Drained \/ Crash
                    \/ ClockAdvance \/ KillTimer \/ Kernel
             PROVE  TrackInv'
  OBVIOUS
<1>1. TypeInv /\ Next
  BY DEF RunInv, Next
<1>2. CASE Reload \/ Start \/ SecondServe
  <2>1. PICK E \in SUBSET live : \E dead \in Finalized(E) :
          rows' = FinishAllUnknown(rows, {e.id : e \in dead}, now) /\ live' = live \ dead
    BY <1>2, FinalizingStep
  <2>2. UNCHANGED <<owner, pc, job, handles>>
    BY <1>2 DEF Reload, Start, SecondServe, kernel
  <2> QED
    BY <2>1, <2>2, TrackFinalized
<1>3. CASE PruneHistory
  <2>1. now - Retention \in Int /\ rows \in Seq(Row)
    BY <1>1, EngineAssumption, TimeFacts DEF TypeInv, TypeOK, ClockOK, TablesOK
  <2>2. rows' = Prune(rows, now - Retention) /\ pc = "free" /\ UNCHANGED <<owner, pc, live>>
    BY <1>3 DEF PruneHistory, Idle, Locked, kernel
  <2>3. \A i \in 1 .. Len(rows) : rows'[i].finish = rows[i].finish
    BY <2>1, <2>2, PrunedRows
  <2>4. \A p \in Alive : owner[p] \in 1 .. Len(rows)
    BY DEF RunInv, IdsInv, Named
  <2> QED
    BY <2>2, <2>3, <2>4 DEF TrackInv, Alive, Open, Leads
<1>4. CASE \/ Trigger \/ Pause \/ Resume \/ ReleaseAll \/ Drained \/ Crash
           \/ ClockAdvance \/ KillTimer \/ Kernel
  <2>1. HistoryStep({})
    BY <1>1, <1>4, OtherHistory
  <2>2. /\ Fewer /\ UNCHANGED live
        /\ pc = "register" => pc' = "register" /\ job' = job
        /\ pc' = "spawn" /\ pc = "spawn" => job' = job
    <3>1. CASE Trigger \/ Pause \/ Resume \/ ReleaseAll \/ ClockAdvance
      <4>1. pc = "free" /\ UNCHANGED live
        BY <3>1 DEF Trigger, Pause, Resume, ReleaseAll, ClockAdvance, Serving, Idle, Locked, tables
      <4> QED
        BY <1>1, <4>1, StepFewer DEF Spawn, Register, Locked
    <3>2. CASE Drained \/ Crash
      <4>1. pc # "register" /\ pc' = "free" /\ UNCHANGED <<live, owner>> /\ handles' = {}
        BY <3>2 DEF Drained, Crash, Die, Idle, Locked, TrackAssumption, tables, kernel
      <4> QED
        BY <4>1 DEF Fewer
    <3>3. CASE KillTimer \/ Kernel
      <4>1. UNCHANGED <<live, pc, job>>
        BY <3>3 DEF KillTimer, Kernel, ProcessExit, PidReused, StrangerExit, tables
      <4>2. ~Spawn /\ ~Register
        BY <4>1 DEF Spawn, Register, Locked, RunInv, TypeInv, TypeOK, MutexOK, Job
      <4> QED
        BY <1>1, <4>1, <4>2, StepFewer
    <3> QED
      BY <1>4, <3>1, <3>2, <3>3
  <2> QED
    BY <2>1, <2>2, TrackSame
<1> QED
  BY <1>2, <1>3, <1>4 DEF Request

LEMMA TrackStep == TrackAssumption /\ RunInv /\ TrackInv /\ [Next]_vars => TrackInv'
<1>1. ASSUME TrackInv, UNCHANGED vars PROVE TrackInv'
  BY <1>1 DEF vars, tables, kernel, TrackInv, Alive, Open, Leads
<1> QED
  BY <1>1, TrackTick, TrackSpawn, TrackRegister, TrackFinish, TrackAround DEF Next

\* Every live process can be found by the next daemon, whichever step the
\* present one dies in; only a crash right after the fork, or a ps that does
\* not answer, could lose it.
THEOREM LiveRunTracked ==
    ASSUME TrackAssumption
    PROVE  Spec => []LiveRunIsTracked
<1>1. TrackInv => LiveRunIsTracked
  BY DEF TrackInv, LiveRunIsTracked, Leads
<1>2. RunInv /\ TrackInv /\ [Next]_vars => TrackInv'
  BY TrackStep
<1> QED
  BY <1>1, <1>2, RunInvInit, RunInvStep, TrackInit, PTL DEF Spec

\* No row is closed while the run's process lives: neither a tick, nor a
\* reload, nor the next daemon takes a live run for a dead one.
THEOREM ClosedRunDead ==
    ASSUME TrackAssumption
    PROVE  Spec => []ClosedRunIsDead
<1>1. TrackInv => ClosedRunIsDead
  BY DEF TrackInv, ClosedRunIsDead
<1>2. RunInv /\ TrackInv /\ [Next]_vars => TrackInv'
  BY TrackStep
<1> QED
  BY <1>1, <1>2, RunInvInit, RunInvStep, TrackInit, PTL DEF Spec

-----------------------------------------------------------------------------
(* One process *)

\* Besides, no trigger is served while the HTTP server drains: the run
\* EngineDrain shows that such a trigger starts a second process.
SingleAssumption == TrackAssumption /\ ~({"late_request", "trigger"} \subseteq Events)

\* When a run is being started no process lives, and as soon as the handler
\* is done the one that lives is the one the engine holds.
SingleInv ==
    /\ NoDoubleRun
    /\ pc = "spawn" => Alive = {}
    /\ pc = "register" => \A p \in Alive : owner[p] = job.id
    /\ pc \in {"spawn", "register", "due"} => up = "up"
    /\ up = "draining" => running.id = NoId
    /\ up = "up" /\ cfg # NoTask /\ pc \notin {"spawn", "register"} =>
          \A p \in Alive : owner[p] \in {running.id, released.id}

LEMMA SingleInit == Init => SingleInv
BY DEF Init, SingleInv, NoDoubleRun, Alive

\* An idle task has no process.
LEMMA IdleDead ==
    ASSUME SingleInv, up = "up", cfg # NoTask, pc \notin {"spawn", "register"}, ~busy
    PROVE  Alive = {}
BY DEF SingleInv, Alive, busy, NoId, Free

\* No process is new, the runs held are the same, and no run is begun.
LEMMA SingleSame ==
    ASSUME SingleInv, Fewer, running'.id = running.id, released'.id = released.id, UNCHANGED <<up, cfg>>,
           pc \notin {"spawn", "register"},
           pc' \notin {"spawn", "register"}, pc' = "due" => up = "up"
    PROVE  SingleInv'
<1>1. \A p \in Alive' : p \in Alive /\ owner'[p] = owner[p]
  BY DEF Fewer, Alive
<1> QED
  BY <1>1 DEF SingleInv, NoDoubleRun

\* The task becomes or is idle, and perhaps begins a run.
LEMMA SingleIdle ==
    ASSUME Alive = {}, Fewer, up' = "up", pc' # "register"
    PROVE  SingleInv'
<1>1. Alive' = {}
  BY DEF Fewer, Alive
<1> QED
  BY <1>1 DEF SingleInv, NoDoubleRun

LEMMA SingleTick == TrackAssumption /\ RunInv /\ TrackInv /\ SingleInv /\ TickStep => SingleInv'
<1> SUFFICES ASSUME TrackAssumption, RunInv, TrackInv, SingleInv, TickStep PROVE SingleInv'
  OBVIOUS
<1>1. /\ running \in OwnedRun /\ released \in AdoptedRun /\ TypeInv
      /\ pc \in {"free", "due"} /\ pc' # "register"
  BY TickPoint DEF RunInv, TypeInv, TypeOK, MemoryOK
<1>2. Fewer
  <2>1. Next
    BY DEF Next
  <2> QED
    BY <1>1, <2>1, StepFewer DEF Spawn, Register, Locked
<1>3. CASE EnforceOwned \/ EnforceAdopted \/ NothingDue \/ MissFire \/ QueueFire \/ RestartFire
  <2>1. running'.id = running.id /\ released'.id = released.id
    BY <1>1, <1>3 DEF EnforceOwned, EnforceAdopted, NothingDue, MissFire, QueueFire, RestartFire, memory,
       OwnedRun, AdoptedRun
  <2>2. UNCHANGED <<up, cfg>> /\ pc' \in {"free", "due"} /\ (pc' = "due" => up = "up")
    BY <1>3 DEF EnforceOwned, EnforceAdopted, NothingDue, MissFire, QueueFire, RestartFire, FireCron,
       TickStarts, memory
  <2> QED
    BY <1>1, <1>2, <2>1, <2>2, SingleSame
<1>4. CASE FireWatermark \/ StartFire
  <2>1. pc = "due" /\ ~busy /\ up' = up
    BY <1>4 DEF FireWatermark, StartFire, CronFires, DueStep, Locked, FireCron
  <2>2. up = "up" /\ cfg # NoTask
    BY <1>1, <2>1 DEF SingleInv, TypeInv, HandlerOK
  <2> QED
    BY <1>1, <1>2, <2>1, <2>2, IdleDead, SingleIdle
<1>5. CASE SettleAdopted
  <2>1. /\ up = "up" /\ up' = up /\ cfg # NoTask /\ released.id # NoId
        /\ \A p \in Alive : owner[p] # released.id
    BY <1>5, SettledDead DEF SettleAdopted, TickStarts
  <2>2. running.id = NoId
    BY <2>1 DEF RunInv, QueueInv, OneHolder
  <2>3. Alive = {}
    BY <1>1, <2>1, <2>2 DEF SingleInv, Alive, NoId, Free
  <2> QED
    BY <1>1, <1>2, <2>1, <2>3, SingleIdle
<1> QED
  BY <1>3, <1>4, <1>5 DEF TickStep

LEMMA SingleRun ==
    RunInv /\ SingleInv /\ (Spawn \/ LaunchFail \/ Register \/ RecordFinish \/ ClearFinished) => SingleInv'
<1> SUFFICES ASSUME RunInv, SingleInv, Spawn \/ LaunchFail \/ Register \/ RecordFinish \/ ClearFinished
             PROVE  SingleInv'
  OBVIOUS
<1>1. TypeInv /\ Next /\ job \in Job /\ owner \in [Pids -> Nat \cup {Stranger}]
  BY DEF RunInv, TypeInv, TypeOK, MutexOK, KernelOK, Next
<1>2. CASE Spawn
  <2>1. PICK p \in Pids :
        /\ owner' = [owner EXCEPT ![p] = job.id] /\ job' = [job EXCEPT !.pid = p]
        /\ pc = "spawn" /\ pc' = "register" /\ UNCHANGED <<up, running>>
    BY <1>2 DEF Spawn, Locked, memory
  <2>2. Alive = {} /\ job'.id = job.id
    BY <1>1, <2>1 DEF SingleInv, Job
  <2>3. \A q \in Alive' : q = p /\ owner'[q] = job.id
    BY <1>1, <2>1, <2>2 DEF Alive
  <2> QED
    BY <2>1, <2>2, <2>3 DEF SingleInv, NoDoubleRun
<1>3. CASE LaunchFail
  <2>1. pc = "spawn" /\ up' = up /\ pc' # "register" /\ Fewer
    BY <1>1, <1>3, StepFewer DEF LaunchFail, Locked, Spawn, Register, Job
  <2> QED
    BY <2>1, SingleIdle DEF SingleInv
<1>4. CASE Register
  <2>1. /\ pc = "register" /\ pc' \in {"free", "due"} /\ UNCHANGED <<up, owner>>
        /\ running' = [NoRun EXCEPT !.id = job.id, !.pid = job.pid, !.start = rows[job.id].start]
    BY <1>1, <1>4 DEF Register, Locked, kernel, Job
  <2>2. running'.id = job.id /\ up = "up"
    BY <2>1 DEF NoRun, SingleInv
  <2> QED
    BY <2>1, <2>2 DEF SingleInv, NoDoubleRun, Alive
<1>5. CASE RecordFinish
  <2>1. pc = "free" /\ pc' = "clear" /\ UNCHANGED <<up, cfg, running, released>>
    BY <1>5 DEF RecordFinish, Idle, Locked, memory
  <2>2. Fewer
    BY <1>1, <2>1, StepFewer DEF Spawn, Register, Locked
  <2> QED
    BY <2>1, <2>2, SingleSame
<1>6. CASE ClearFinished
  <2>1. pc = "clear" /\ up # "down" /\ UNCHANGED <<up, cfg, released>>
    BY <1>6 DEF ClearFinished, Locked
  <2>2. Fewer
    BY <1>1, <2>1, StepFewer DEF Spawn, Register, Locked
  <2>3. CASE running.id # job.id
    <3>1. pc' = "free" /\ UNCHANGED running
      BY <1>6, <2>3 DEF ClearFinished
    <3> QED
      BY <2>1, <2>2, <3>1, SingleSame
  <2>4. CASE running.id = job.id
    <3>1. pc' \in {"free", "spawn"}
      BY <1>6, <2>4 DEF ClearFinished, StartQueued, BeginRun
    <3>2. running.id # NoId /\ released.id = NoId
      BY <2>1, <2>4 DEF RunInv, QueueInv, OneHolder
    <3>3. up = "up" /\ cfg # NoTask
      BY <1>1, <2>1, <3>2 DEF SingleInv, RunInv, HeldInv, busy, TypeInv, TypeOK, ClockOK
    <3>4. \A p \in Alive : owner[p] = job.id /\ owner[p] # job.id
      BY <2>1, <2>4, <3>2, <3>3 DEF SingleInv, RunInv, ChildInv, Alive, NoId, Free
    <3>5. Alive = {}
      BY <3>4
    <3> QED
      BY <2>1, <2>2, <3>1, <3>3, <3>5, SingleIdle
  <2> QED
    BY <2>3, <2>4
<1> QED
  BY <1>2, <1>3, <1>4, <1>5, <1>6

\* The registry entry that Configure adopts is the live process's own.
LEMMA SingleAdopted ==
    ASSUME TrackAssumption, RunInv, TrackInv, SingleInv, pc = "free", NEW p \in Alive,
           NEW E \in SUBSET live, \A e \in live \ E : e.id = NoId, NEW dead \in Finalized(E)
    PROVE  dead # E /\ Adopted(Oldest(E \ dead)).id = owner[p]
<1>1. E \subseteq LiveEntry /\ owner \in [Pids -> Nat \cup {Stranger}]
  BY DEF RunInv, TypeInv, TypeOK, TablesOK, KernelOK
<1>2. PICK e \in live : Leads(e, p)
  BY DEF TrackInv
<1>3. e \in E \ dead
  BY <1>2, FinalizedDead DEF Leads, Alive, Free, NoId, RunInv
<1>4. PICK o \in E \ dead : o = Oldest(E \ dead)
  BY <1>1, <1>3, OldestType
<1>5. TRUE \in Verdicts(o.pid, o.ident)
  BY <1>4 DEF Finalized
<1>6. owner[o.pid] = o.ident /\ o.ident # NoId
  BY <1>5 DEF Verdicts, sameLiveProcess
<1>7. o.ident = o.id /\ o.pid \in Pids /\ o.ident \in Nat
  BY <1>1, <1>4, <1>6 DEF RunInv, RegistryInv, LiveEntry
<1>8. o.pid \in Alive
  BY <1>6, <1>7 DEF Alive, Free, Stranger, NoId
<1>9. o.pid = p
  BY <1>8 DEF SingleInv, NoDoubleRun
<1>10. Adopted(o).id = o.id
  BY DEF Adopted, NoReleased
<1> QED
  BY <1>3, <1>4, <1>6, <1>7, <1>9, <1>10

LEMMA SingleConfigure ==
    ASSUME TrackAssumption, RunInv, TrackInv, SingleInv, NEW c, Configure(c), UNCHANGED <<owner, handles, pc>>,
           pc = "free", up' = up \/ (up = "down" /\ up' = "up")
    PROVE  SingleInv'
<1>1. Alive' = Alive
  BY DEF Alive
<1>2. up' = "draining" => running'.id = NoId
  BY DEF SingleInv, Configure, ForgetTask, LoseState, LoadTask, NoRun
<1>3. ASSUME up' = "up", cfg' # NoTask, NEW p \in Alive PROVE owner[p] \in {running'.id, released'.id}
  <2>1. c # NoTask /\ UNCHANGED running
    BY <1>3 DEF Configure, ForgetTask, LoadTask
  <2> DEFINE E == {e \in live : e.id \notin {running.id, released.id}}
  <2>2. PICK dead \in Finalized(E) :
          released' = IF busy \/ dead = E THEN released ELSE Adopted(Oldest(E \ dead))
    BY <2>1 DEF Configure, Tracked
  <2>3. CASE busy
    <3>1. up = "up" /\ cfg # NoTask
      BY <1>3, <2>3 DEF RunInv, HeldInv
    <3> QED
      BY <2>1, <2>2, <2>3, <3>1 DEF SingleInv
  <2>4. CASE ~busy
    <3>1. \A e \in live \ E : e.id = NoId
      BY <2>4 DEF busy
    <3>2. dead # E /\ Adopted(Oldest(E \ dead)).id = owner[p]
      <4> HIDE DEF E
      <4> QED
        BY <1>3, <3>1, SingleAdopted DEF E
    <3> QED
      BY <2>2, <2>4, <3>2
  <2> QED
    BY <2>3, <2>4
<1> QED
  BY <1>1, <1>2, <1>3 DEF SingleInv, NoDoubleRun

LEMMA SingleAround ==
    SingleAssumption /\ RunInv /\ TrackInv /\ SingleInv
    /\ (\/ Request \/ Start \/ SecondServe \/ PruneHistory \/ ReleaseAll \/ Drained \/ Crash
        \/ ClockAdvance \/ KillTimer \/ Kernel)
    => SingleInv'
<1> SUFFICES ASSUME SingleAssumption, RunInv, TrackInv, SingleInv,
                    \/ Request \/ Start \/ SecondServe \/ PruneHistory \/ ReleaseAll \/ Drained \/ Crash
                    \/ ClockAdvance \/ KillTimer \/ Kernel
             PROVE  SingleInv'
  OBVIOUS
<1>1. TypeInv /\ Next
  BY DEF RunInv, Next
<1>2. CASE Reload \/ Start
  <2>1. PICK c : Configure(c)
    BY <1>2 DEF Reload, Start
  <2>2. pc = "free" /\ UNCHANGED <<owner, handles, pc>> /\ (up' = up \/ (up = "down" /\ up' = "up"))
    BY <1>1, <1>2 DEF Reload, Start, Serving, Idle, Locked, kernel, TypeInv, HandlerOK
  <2> QED
    BY <2>1, <2>2, SingleConfigure DEF SingleAssumption
<1>3. CASE Trigger
  <2>1. up = "up" /\ up' = up /\ pc = "free" /\ cfg # NoTask /\ ~busy /\ pc' = "spawn"
    BY <1>3 DEF Trigger, Serving, Idle, Locked, SingleAssumption, BeginRun
  <2>2. Fewer
    BY <1>1, <2>1, StepFewer DEF Spawn, Register, Locked
  <2> QED
    BY <2>1, <2>2, IdleDead, SingleIdle
<1>4. CASE Pause \/ Resume \/ PruneHistory
  <2>1. pc = "free" /\ UNCHANGED <<pc, up, cfg, running, released>>
    BY <1>4 DEF Pause, Resume, PruneHistory, Serving, Idle, Locked, memory
  <2>2. Fewer
    BY <1>1, <2>1, StepFewer DEF Spawn, Register, Locked
  <2> QED
    BY <2>1, <2>2, SingleSame
<1>5. CASE ReleaseAll \/ Drained \/ Crash
  <2>1. pc' = "free" /\ up' # "up" /\ running' = NoRun /\ UNCHANGED owner
    BY <1>5 DEF ReleaseAll, Drained, Crash, Die, LoseState, Idle, Locked, kernel
  <2> QED
    BY <2>1 DEF SingleInv, NoDoubleRun, Alive, NoRun
<1>6. CASE SecondServe \/ ClockAdvance \/ KillTimer \/ Kernel
  <2>1. UNCHANGED <<pc, job, up, cfg, running, released>>
    BY <1>6 DEF SecondServe, ClockAdvance, KillTimer, Kernel, ProcessExit, PidReused, StrangerExit, memory
  <2>2. Fewer
    BY <1>1, <2>1, StepFewer DEF Spawn, Register, Locked, TypeInv, TypeOK, MutexOK, Job
  <2>3. \A p \in Alive' : p \in Alive /\ owner'[p] = owner[p]
    BY <2>2 DEF Fewer, Alive
  <2> QED
    BY <2>1, <2>3 DEF SingleInv, NoDoubleRun
<1> QED
  BY <1>2, <1>3, <1>4, <1>5, <1>6 DEF Request

LEMMA SingleStep == SingleAssumption /\ RunInv /\ TrackInv /\ SingleInv /\ [Next]_vars => SingleInv'
<1>1. ASSUME SingleInv, UNCHANGED vars PROVE SingleInv'
  BY <1>1 DEF vars, memory, kernel, SingleInv, NoDoubleRun, Alive
<1> QED
  BY <1>1, SingleTick, SingleRun, SingleAround DEF Next, SingleAssumption

\* A task cannot double-run: across ticks, triggers, reloads, restarts and
\* crashes at every other point, at most one process of its runs lives.
THEOREM NeverTwoRuns ==
    ASSUME SingleAssumption
    PROVE  Spec => []NoDoubleRun
<1>1. SingleInv => NoDoubleRun
  BY DEF SingleInv
<1>2. RunInv /\ TrackInv /\ [Next]_vars => TrackInv'
  BY TrackStep DEF SingleAssumption
<1>3. RunInv /\ TrackInv /\ SingleInv /\ [Next]_vars => SingleInv'
  BY SingleStep
<1> QED
  BY <1>1, <1>2, <1>3, RunInvInit, RunInvStep, TrackInit, SingleInit, PTL DEF Spec

-----------------------------------------------------------------------------
(* Open runs *)

\* The daemon dies neither between StartRun and runner.Start, which leaves a
\* row no process belongs to, nor between runner.Start and RecordLiveRun.
OpenAssumption == {"spawn", "register"} \cap CrashPoints = {}

\* Row i of the history r is closed, or deleted.
Settled(r, i) == r[i].finish # NoTime \/ r[i].pruned

\* When finishRun clears a run from the registry, its row is settled.
OpenInv ==
    /\ OpenRunIsTracked
    /\ pc = "clear" => job.id \in 1 .. Len(rows) /\ Settled(rows, job.id)

LEMMA OpenInit == Init => OpenInv
BY DEF Init, OpenInv, OpenRunIsTracked, RunIds

LEMMA FinishRunSettles ==
    ASSUME NEW r \in Seq(Row), NEW id \in 1 .. Len(r), NEW code, NEW err, NEW t, t # NoTime
    PROVE  Settled(FinishRun(r, id, code, err, t), id)
<1>1. r[id] \in Row
  OBVIOUS
<1> QED
  BY <1>1 DEF Settled, FinishRun, Closed, Row

LEMMA FinishAllSettles ==
    ASSUME NEW r \in Seq(Row), NEW ids, NEW i \in ids, i \in 1 .. Len(r), NEW t \in Int, t # NoTime
    PROVE  Settled(FinishAllUnknown(r, ids, t), i)
<1>1. FinishAllUnknown(r, ids, t)[i] = FinishRunUnknownExit(r, i, "unknown", t)[i]
  BY DEF FinishAllUnknown
<1> QED
  BY <1>1, FinishRunSettles DEF Settled, FinishRunUnknownExit

LEMMA GrowsSettled ==
    ASSUME NEW r, NEW s, Grows(r, s), NEW i \in 1 .. Len(r), Settled(r, i)
    PROVE  Settled(s, i)
BY DEF Grows, Settled

\* What leaves the registry is settled, and so is the run whose handler ends.
LEMMA OpenSame ==
    ASSUME RunInv, OpenInv, NEW closed, HistoryStep(closed),
           \A e \in live \ live' : Settled(rows', e.id),
           \/ job'.id = job.id \/ job.id = NoId
           \/ Settled(rows', job.id) \/ \E e \in live' : e.id = job.id,
           pc' = "clear" => job'.id \in 1 .. Len(rows') /\ Settled(rows', job'.id)
    PROVE  OpenInv'
<1>1. rows \in Seq(Row) /\ rows' \in Seq(Row) /\ Grows(rows, rows')
  BY DEF HistoryStep, Grows, RunInv, TypeInv, TypeOK, TablesOK
<1> SUFFICES ASSUME NEW i \in RunIds', ~Settled(rows', i)
             PROVE  i = job'.id \/ \E e \in live' : e.id = i
  BY DEF OpenInv, OpenRunIsTracked, Settled, Open
<1>2. i \in 1 .. Len(rows') /\ rows'[i].start # NoTime
  BY <1>1 DEF RunIds
<1>3. CASE i \in 1 .. Len(rows)
  <2>1. i \in RunIds /\ ~Settled(rows, i)
    BY <1>1, <1>2, <1>3 DEF Grows, RunIds, Settled
  <2>2. i = job.id \/ \E e \in live : e.id = i
    BY <2>1 DEF OpenInv, OpenRunIsTracked, Settled, Open
  <2>3. CASE i = job.id
    BY <1>3, <2>3 DEF NoId
  <2>4. CASE \E e \in live : e.id = i
    BY <2>4
  <2> QED
    BY <2>2, <2>3, <2>4
<1>4. CASE i \notin 1 .. Len(rows)
  <2>1. i \in Len(rows) + 1 .. Len(rows')
    BY <1>1, <1>2, <1>4
  <2> QED
    BY <1>2, <2>1 DEF HistoryStep
<1> QED
  BY <1>3, <1>4

LEMMA OpenTick == RunInv /\ OpenInv /\ TickStep => OpenInv'
<1> SUFFICES ASSUME RunInv, OpenInv, TickStep PROVE OpenInv'
  OBVIOUS
<1>1. job.id = NoId /\ pc' # "clear"
  BY TickPoint DEF RunInv, IdsInv, NoJob
<1>2. rows \in Seq(Row) /\ now \in Int /\ now # NoTime /\ now \in Time /\ queued \in TimeOrNo
  BY TimeFacts DEF RunInv, TypeInv, TypeOK, TablesOK, ClockOK, MemoryOK
<1>3. CASE SettleAdopted
  <2>1. PICK error \in {"timeout", "log_cap", "unknown"} :
          StartQueued(FinishRunUnknownExit(rows, released.id, error, now), "due")
    BY <1>3 DEF SettleAdopted
  <2>2. error \in Errors /\ NoExit \in ExitCodes
    BY DEF Errors, ExitCodes
  <2> DEFINE rows0 == FinishRunUnknownExit(rows, released.id, error, now)
  <2>3. rows0 \in Seq(Row) /\ Len(rows0) = Len(rows)
    BY <1>2, <2>2, FinishRunUnknownExitType
  <2>4. StartQueued(rows0, "due")
    BY <2>1
  <2>5. \A i \in 1 .. Len(rows0) : rows'[i] = rows0[i]
    <3> HIDE DEF rows0
    <3> QED
      BY <1>2, <2>3, <2>4, StartQueuedRow
  <2>6. ASSUME NEW e \in live \ live' PROVE Settled(rows', e.id)
    <3>1. e.id = released.id /\ e.id \in 1 .. Len(rows)
      BY <1>3 DEF SettleAdopted, RunInv, IdsInv, Named
    <3>2. Settled(rows0, e.id)
      BY <1>2, <2>2, <3>1, FinishRunSettles DEF FinishRunUnknownExit
    <3> QED
      BY <2>3, <2>5, <3>1, <3>2 DEF Settled
  <2>7. HistoryStep({released.id})
    BY <1>3, SettleHistory DEF RunInv
  <2> QED
    BY <1>1, <2>6, <2>7, OpenSame
<1>4. CASE ~SettleAdopted
  <2>1. HistoryStep({}) /\ UNCHANGED live
    BY <1>4, DueHistory, TickTables DEF RunInv, TickStep
  <2> QED
    BY <1>1, <2>1, OpenSame
<1> QED
  BY <1>3, <1>4

LEMMA OpenRun ==
    RunInv /\ OpenInv /\ (Spawn \/ LaunchFail \/ Register \/ RecordFinish \/ ClearFinished) => OpenInv'
<1> SUFFICES ASSUME RunInv, OpenInv, Spawn \/ LaunchFail \/ Register \/ RecordFinish \/ ClearFinished
             PROVE  OpenInv'
  OBVIOUS
<1>1. TypeInv /\ rows \in Seq(Row) /\ now \in Int /\ now # NoTime /\ job \in Job /\ handles \subseteq Handle
  BY TimeFacts DEF RunInv, TypeInv, TypeOK, TablesOK, ClockOK, MutexOK
<1>2. CASE Spawn
  <2>1. \E p \in Pids : job' = [job EXCEPT !.pid = p] /\ pc' = "register" /\ UNCHANGED live
    BY <1>2 DEF Spawn, tables
  <2>2. job'.id = job.id
    BY <1>1, <2>1 DEF Job
  <2> QED
    BY <1>1, <1>2, <2>1, <2>2, OtherHistory, OpenSame
<1>3. CASE LaunchFail
  <2>1. pc = "spawn" /\ pc' # "clear" /\ UNCHANGED live /\ rows' = FailedLaunch
    BY <1>1, <1>3 DEF LaunchFail, Locked, Job
  <2>2. job.id \in 1 .. Len(rows)
    BY <1>1, <2>1 DEF TypeInv, HandlerOK
  <2>3. Settled(rows', job.id)
    BY <1>1, <2>1, <2>2, FinishRunSettles DEF FailedLaunch
  <2> QED
    BY <1>1, <1>3, <2>1, <2>3, LaunchFailHistory, OpenSame
<1>4. CASE Register
  <2>1. PICK i : live' = live \cup {[id |-> job.id, pid |-> job.pid, ident |-> i, start |-> rows[job.id].start]}
    BY <1>4 DEF Register
  <2>2. \E e \in live' : e.id = job.id
    <3>1. PICK e \in live' : e = [id |-> job.id, pid |-> job.pid, ident |-> i, start |-> rows[job.id].start]
      BY <2>1
    <3> QED
      BY <3>1
  <2>3. live \ live' = {} /\ pc' # "clear"
    BY <1>1, <1>4, <2>1 DEF Register, Job
  <2> QED
    BY <1>1, <1>4, <2>2, <2>3, OtherHistory, OpenSame
<1>5. CASE RecordFinish
  <2>1. PICK h \in handles : /\ rows' = Recorded(h) /\ pc = "free" /\ UNCHANGED live
                             /\ job' = [NoJob EXCEPT !.id = h.id, !.success = (h.result = 0 /\ FinishError(h) = "")]
    BY <1>5 DEF RecordFinish, Idle, Locked
  <2>2. job'.id = h.id /\ job.id = NoId /\ h.id \in 1 .. Len(rows)
    BY <2>1 DEF NoJob, RunInv, IdsInv, Named
  <2>3. Settled(rows', h.id)
    BY <1>1, <2>1, <2>2, FinishRunSettles DEF Recorded
  <2>4. HistoryStep({job'.id})
    BY <1>1, <1>5, RecordFinishHistory
  <2>5. Len(rows') >= Len(rows) /\ Len(rows') \in Nat
    BY <1>1, <2>4 DEF HistoryStep, Grows
  <2> QED
    BY <1>1, <2>1, <2>2, <2>3, <2>4, <2>5, OpenSame
<1>6. CASE ClearFinished
  <2>1. pc = "clear" /\ pc' # "clear" /\ live' = {e \in live : e.id # job.id}
    BY <1>6 DEF ClearFinished, Locked, StartQueued, BeginRun
  <2>2. HistoryStep({})
    BY <1>1, <1>6, ClearFinishedHistory
  <2>3. Settled(rows', job.id)
    BY <2>1, <2>2, GrowsSettled DEF OpenInv, HistoryStep
  <2> QED
    BY <2>1, <2>2, <2>3, OpenSame
<1> QED
  BY <1>2, <1>3, <1>4, <1>5, <1>6

LEMMA OpenFinalized ==
    ASSUME RunInv, OpenInv, NEW E \in SUBSET live, NEW dead \in Finalized(E),
           rows' = FinishAllUnknown(rows, {e.id : e \in dead}, now), live' = live \ dead,
           UNCHANGED <<pc, job>>
    PROVE  OpenInv'
<1> DEFINE closed == {e.id : e \in dead}
<1>1. rows \in Seq(Row) /\ now \in Int /\ now # NoTime
  BY TimeFacts DEF RunInv, TypeInv, TypeOK, TablesOK, ClockOK
<1>2. HistoryStep(closed)
  BY FinalizedHistory DEF RunInv
<1>3. ASSUME NEW e \in live \ live' PROVE Settled(rows', e.id)
  <2>1. e.id \in closed /\ e.id \in 1 .. Len(rows)
    BY <1>3 DEF RunInv, IdsInv, Named
  <2> QED
    BY <1>1, <2>1, FinishAllSettles
<1>4. pc' = "clear" => job'.id \in 1 .. Len(rows') /\ Settled(rows', job'.id)
  BY <1>1, <1>2, GrowsSettled DEF OpenInv, HistoryStep, Grows
<1> HIDE DEF closed
<1> QED
  BY <1>2, <1>3, <1>4, OpenSame

LEMMA OpenAround ==
    OpenAssumption /\ RunInv /\ OpenInv
    /\ (\/ Request \/ Start \/ SecondServe \/ PruneHistory \/ ReleaseAll \/ Drained \/ Crash
        \/ ClockAdvance \/ KillTimer \/ Kernel)
    => OpenInv'
<1> SUFFICES ASSUME OpenAssumption, RunInv, OpenInv,
                    \/ Request \/ Start \/ SecondServe \/ PruneHistory \/ ReleaseAll \/ Drained \/ Crash
                    \/ ClockAdvance \/ KillTimer \/ Kernel
             PROVE  OpenInv'
  OBVIOUS
<1>1. TypeInv /\ rows \in Seq(Row)
  BY DEF RunInv, TypeInv, TypeOK, TablesOK
<1>2. CASE Reload \/ Start \/ SecondServe
  <2>1. UNCHANGED <<pc, job>>
    BY <1>2 DEF Reload, Start, SecondServe
  <2>2. \E E \in SUBSET live : \E dead \in Finalized(E) :
          rows' = FinishAllUnknown(rows, {e.id : e \in dead}, now) /\ live' = live \ dead
    BY <1>2, FinalizingStep
  <2> QED
    BY <2>1, <2>2, OpenFinalized
<1>3. CASE PruneHistory
  <2>1. pc = "free" /\ UNCHANGED <<pc, job, live>>
    BY <1>3 DEF PruneHistory, Idle, Locked
  <2>2. \E closed : HistoryStep(closed)
    BY <1>1, <1>3, StepHistory DEF Next
  <2> QED
    BY <2>1, <2>2, OpenSame
<1>4. CASE \/ Trigger \/ Pause \/ Resume \/ ReleaseAll \/ Drained \/ Crash
           \/ ClockAdvance \/ KillTimer \/ Kernel
  <2>1. HistoryStep({})
    BY <1>1, <1>4, OtherHistory
  <2>2. pc = "clear" => Settled(rows', job.id) /\ job.id \in 1 .. Len(rows')
    BY <1>1, <2>1, GrowsSettled DEF OpenInv, HistoryStep, Grows
  <2>3. CASE Trigger \/ Pause \/ Resume \/ ReleaseAll \/ ClockAdvance
    <3>1. pc = "free" /\ pc' # "clear" /\ UNCHANGED live
      BY <2>3 DEF Trigger, Pause, Resume, ReleaseAll, ClockAdvance, Serving, Idle, Locked, tables, BeginRun
    <3>2. job.id = NoId
      BY <3>1 DEF RunInv, IdsInv, NoJob
    <3> QED
      BY <2>1, <3>1, <3>2, OpenSame
  <2>4. CASE Drained \/ Crash
    <3>1. pc \in {"free", "due", "clear"} /\ pc' = "free" /\ UNCHANGED live
      BY <1>1, <2>4 DEF Drained, Crash, Die, Idle, Locked, OpenAssumption, tables,
         TypeInv, TypeOK, MutexOK, Points
    <3>2. pc # "clear" => job.id = NoId
      BY <3>1 DEF RunInv, IdsInv, NoJob
    <3> QED
      BY <2>1, <2>2, <3>1, <3>2, OpenSame
  <2>5. CASE KillTimer \/ Kernel
    <3>1. UNCHANGED <<pc, job, live>>
      BY <2>5 DEF KillTimer, Kernel, ProcessExit, PidReused, StrangerExit, tables
    <3> QED
      BY <2>1, <2>2, <3>1, OpenSame
  <2> QED
    BY <1>4, <2>3, <2>4, <2>5
<1> QED
  BY <1>2, <1>3, <1>4 DEF Request

LEMMA OpenStep == OpenAssumption /\ RunInv /\ OpenInv /\ [Next]_vars => OpenInv'
<1>1. ASSUME OpenInv, UNCHANGED vars PROVE OpenInv'
  BY <1>1 DEF vars, tables, OpenInv, OpenRunIsTracked, RunIds, Open, Settled
<1> QED
  BY <1>1, OpenTick, OpenRun, OpenAround DEF Next

\* No row stays open for ever: whoever dies and wherever, the row of an
\* unfinished run is being started or is one the next Configure finds.
THEOREM OpenRunTracked ==
    ASSUME OpenAssumption
    PROVE  Spec => []OpenRunIsTracked
<1>1. OpenInv => OpenRunIsTracked
  BY DEF OpenInv
<1>2. RunInv /\ OpenInv /\ [Next]_vars => OpenInv'
  BY OpenStep
<1> QED
  BY <1>1, <1>2, RunInvInit, RunInvStep, OpenInit, PTL DEF Spec

-----------------------------------------------------------------------------
(* Starts *)

\* What the engine and the registry say of a run's start is what its row says.
StartInv ==
    /\ running.id # NoId => running.id \in 1 .. Len(rows) /\ running.start = rows[running.id].start
    /\ released.id # NoId => released.id \in 1 .. Len(rows) /\ released.start = rows[released.id].start
    /\ \A e \in live : e.start = rows[e.id].start

LEMMA StartInit == Init => StartInv
BY DEF Init, StartInv, NoRun, NoReleased

\* A run the engine holds is the one it held, but for Register.
LEMMA StepRunning ==
    TypeInv /\ Next => \/ running'.id = NoId \/ Register
                       \/ running'.id = running.id /\ running'.start = running.start
<1> SUFFICES ASSUME TypeInv, Next, ~Register
             PROVE  running'.id = NoId \/ (running'.id = running.id /\ running'.start = running.start)
  OBVIOUS
<1>1. running \in OwnedRun
  BY DEF TypeInv, TypeOK, MemoryOK
<1>2. CASE EnforceOwned \/ RestartFire
  BY <1>1, <1>2 DEF EnforceOwned, RestartFire, OwnedRun
<1>3. CASE \/ EnforceAdopted \/ SettleAdopted \/ NothingDue \/ FireWatermark
           \/ StartFire \/ MissFire \/ QueueFire
  BY <1>3 DEF EnforceAdopted, SettleAdopted, NothingDue, FireWatermark, StartFire, MissFire, QueueFire, memory
<1>4. CASE ClearFinished \/ ReleaseAll \/ Drained \/ Crash
  <2>1. running' = NoRun \/ running' = running
    BY <1>4 DEF ClearFinished, ReleaseAll, Drained, Crash, Die, LoseState
  <2> QED
    BY <2>1 DEF NoRun
<1>5. CASE Spawn \/ LaunchFail \/ RecordFinish
  BY <1>5 DEF Spawn, LaunchFail, RecordFinish, memory
<1>6. CASE Trigger \/ Pause \/ Resume \/ SecondServe \/ PruneHistory \/ ClockAdvance \/ KillTimer
  BY <1>6 DEF Trigger, Pause, Resume, SecondServe, PruneHistory, ClockAdvance, KillTimer, memory
<1>7. CASE Kernel
  BY <1>7 DEF Kernel, ProcessExit, PidReused, StrangerExit, memory
<1>8. CASE Reload \/ Start
  <2>1. running' = NoRun \/ running' = running
    BY <1>8 DEF Reload, Start, Configure, ForgetTask, LoseState, LoadTask
  <2> QED
    BY <2>1 DEF NoRun
<1> QED
  BY <1>2, <1>3, <1>4, <1>5, <1>6, <1>7, <1>8 DEF Next, TickStep, Request

\* An adopted run is the one that was adopted, but for Configure; a tick alone
\* notes that it has been told to stop.
LEMMA StepReleased ==
    TypeInv /\ Next =>
        \/ released'.id = NoId
        \/ /\ released'.id = released.id /\ released'.pid = released.pid /\ released'.start = released.start
           /\ released'.killedAt = released.killedAt \/ EnforceAdopted \/ RestartFire
        \/ \E c : Configure(c) /\ (Reload \/ Start)
<1> SUFFICES ASSUME TypeInv, Next, released'.id # NoId, ~\E c : Configure(c) /\ (Reload \/ Start)
             PROVE  /\ released'.id = released.id /\ released'.pid = released.pid /\ released'.start = released.start
                    /\ released'.killedAt = released.killedAt \/ EnforceAdopted \/ RestartFire
  OBVIOUS
<1>1. released \in AdoptedRun
  BY DEF TypeInv, TypeOK, MemoryOK
<1>2. CASE EnforceAdopted \/ RestartFire
  BY <1>1, <1>2 DEF EnforceAdopted, RestartFire, AdoptedRun
<1>3. CASE \/ EnforceOwned \/ NothingDue \/ FireWatermark \/ StartFire \/ MissFire \/ QueueFire
  BY <1>3 DEF EnforceOwned, NothingDue, FireWatermark, StartFire, MissFire, QueueFire, memory
<1>4. CASE SettleAdopted \/ ReleaseAll \/ Drained \/ Crash
  <2>1. released' = NoReleased
    BY <1>4 DEF SettleAdopted, ReleaseAll, Drained, Crash, Die, LoseState
  <2> QED
    BY <2>1 DEF NoReleased
<1>5. CASE Spawn \/ LaunchFail \/ Register \/ RecordFinish \/ ClearFinished
  BY <1>5 DEF Spawn, LaunchFail, Register, RecordFinish, ClearFinished, memory
<1>6. CASE Trigger \/ Pause \/ Resume \/ SecondServe \/ PruneHistory \/ ClockAdvance \/ KillTimer
  BY <1>6 DEF Trigger, Pause, Resume, SecondServe, PruneHistory, ClockAdvance, KillTimer, memory
<1>7. CASE Kernel
  BY <1>7 DEF Kernel, ProcessExit, PidReused, StrangerExit, memory
<1>8. CASE Reload \/ Start
  BY <1>8 DEF Reload, Start
<1> QED
  BY <1>2, <1>3, <1>4, <1>5, <1>6, <1>7, <1>8 DEF Next, TickStep, Request

LEMMA StartStep == RunInv /\ StartInv /\ [Next]_vars => StartInv'
<1>1. ASSUME StartInv, UNCHANGED vars PROVE StartInv'
  BY <1>1 DEF vars, memory, tables, StartInv
<1> SUFFICES ASSUME RunInv, StartInv, Next PROVE StartInv'
  BY <1>1
<1>2. TypeInv /\ live \subseteq LiveEntry
  BY DEF RunInv, TypeInv, TypeOK, TablesOK
<1>3. rows \in Seq(Row) /\ rows' \in Seq(Row) /\ Len(rows') >= Len(rows)
      /\ \A i \in 1 .. Len(rows) : rows'[i].start = rows[i].start
  BY <1>2, StepHistory DEF HistoryStep, Grows, TypeInv, TypeOK, TablesOK
<1>4. \A e \in live : e.id \in 1 .. Len(rows)
  BY DEF RunInv, IdsInv, Named
<1>5. ASSUME running'.id # NoId
      PROVE  running'.id \in 1 .. Len(rows') /\ running'.start = rows'[running'.id].start
  <2>1. CASE Register
    <3>1. running'.id = job.id /\ running'.start = rows[job.id].start /\ rows' = rows /\ pc = "register"
      BY <2>1 DEF Register, NoRun, Locked
    <3> QED
      BY <1>2, <3>1 DEF TypeInv, HandlerOK
  <2>2. CASE ~Register
    <3>1. running'.id = running.id /\ running'.start = running.start
      BY <1>2, <1>5, <2>2, StepRunning
    <3> QED
      BY <1>3, <1>5, <3>1 DEF StartInv
  <2> QED
    BY <2>1, <2>2
<1>6. ASSUME released'.id # NoId
      PROVE  released'.id \in 1 .. Len(rows') /\ released'.start = rows'[released'.id].start
  <2>1. CASE \E c : Configure(c)
    <3>1. \/ released' = released
          \/ \E e \in live' : released'.id = e.id /\ released'.start = e.start
      BY <1>2, <1>6, <2>1, ConfigureAdopts
    <3>2. live' \subseteq live
      BY <1>2, <2>1, ConfigureAdopts
    <3> QED
      BY <1>3, <1>4, <1>6, <3>1, <3>2 DEF StartInv
  <2>2. CASE ~\E c : Configure(c)
    <3>1. released'.id = released.id /\ released'.start = released.start
      BY <1>2, <1>6, <2>2, StepReleased
    <3> QED
      BY <1>3, <1>6, <3>1 DEF StartInv
  <2> QED
    BY <2>1, <2>2
<1>7. ASSUME NEW e \in live' PROVE e.start = rows'[e.id].start
  <2>1. CASE e \in live
    BY <1>3, <1>4, <2>1 DEF StartInv
  <2>2. CASE e \notin live
    <3>1. Register
      BY <1>2, <1>7, <2>2, StepFewer DEF Fewer, Spawn, tables
    <3>2. \E i : e = [id |-> job.id, pid |-> job.pid, ident |-> i, start |-> rows[job.id].start]
      BY <1>7, <2>2, <3>1 DEF Register
    <3>3. rows' = rows
      BY <3>1 DEF Register
    <3> QED
      BY <3>2, <3>3
  <2> QED
    BY <2>1, <2>2
<1> QED
  BY <1>5, <1>6, <1>7 DEF StartInv

-----------------------------------------------------------------------------
(* The children of a daemon in service *)

\* No trigger is served while HTTP drains, and no reload drops the task from the
\* files: either would part the engine from a child it has yet to hear of.
ServedAssumption ==
    /\ ~({"late_request", "trigger"} \subseteq Events)
    /\ "reload" \in Events => "edit" \notin Events \/ NoTask \notin Configs

\* The children a daemon in service has are the run it holds.
ServedInv ==
    /\ pc \in {"due", "spawn", "register"} => up = "up"
    /\ up = "draining" => running.id = NoId
    /\ up = "up" => \A h \in handles : h.id = running.id \/ (pc = "register" /\ h.id = job.id)
    /\ handles # {} => cfg # NoTask

LEMMA ServedInit == Init => ServedInv
BY DEF Init, ServedInv

\* The run held is the same, and no child is new.
LEMMA ServedSame ==
    ASSUME ServedInv, \A h \in handles' : \E g \in handles : h.id = g.id,
           running'.id = running.id, UNCHANGED <<up, cfg>>,
           pc' \in {"due", "spawn", "register"} => up = "up",
           pc = "register" => (pc' = "register" /\ job' = job)
    PROVE  ServedInv'
BY DEF ServedInv

LEMMA ServedTick == RunInv /\ ServedInv /\ TickStep => ServedInv'
<1> SUFFICES ASSUME RunInv, ServedInv, TickStep PROVE ServedInv'
  OBVIOUS
<1>1. running \in OwnedRun /\ TypeInv /\ Next /\ pc \in {"free", "due"} /\ pc' # "register"
  BY TickPoint DEF RunInv, TypeInv, TypeOK, MemoryOK, Next
<1>2. \A h \in handles' : \E g \in handles : h.id = g.id
  BY <1>1, StepFewer DEF Fewer, Spawn, Register, Locked
<1>3. running'.id = running.id
  <2>1. CASE EnforceOwned \/ RestartFire
    BY <1>1, <2>1 DEF EnforceOwned, RestartFire, OwnedRun
  <2>2. CASE \/ EnforceAdopted \/ SettleAdopted \/ NothingDue \/ FireWatermark
             \/ StartFire \/ MissFire \/ QueueFire
    BY <2>2 DEF EnforceAdopted, SettleAdopted, NothingDue, FireWatermark, StartFire, MissFire, QueueFire, memory
  <2> QED
    BY <2>1, <2>2 DEF TickStep
<1>4. up = "up" /\ UNCHANGED <<up, cfg>>
  BY DEF TickStep, EnforceOwned, EnforceAdopted, SettleAdopted, NothingDue, FireWatermark, StartFire,
     MissFire, QueueFire, RestartFire, FireCron, CronFires, DueStep, Locked, TickStarts, memory, ServedInv
<1> QED
  BY <1>1, <1>2, <1>3, <1>4, ServedSame

LEMMA ServedRun ==
    RunInv /\ ServedInv /\ (Spawn \/ LaunchFail \/ Register \/ RecordFinish \/ ClearFinished) => ServedInv'
<1> SUFFICES ASSUME RunInv, ServedInv, Spawn \/ LaunchFail \/ Register \/ RecordFinish \/ ClearFinished
             PROVE  ServedInv'
  OBVIOUS
<1>1. job \in Job /\ UNCHANGED <<up, cfg>> /\ up # "down"
  BY DEF RunInv, TypeInv, TypeOK, MutexOK, Spawn, LaunchFail, Register, RecordFinish, ClearFinished, Idle, Locked, memory
<1>2. CASE Spawn
  <2>1. PICK p \in Pids :
        /\ handles' = handles \cup {[id |-> job.id, pid |-> p, result |-> NoExit, killAt |-> NoTime]}
        /\ job' = [job EXCEPT !.pid = p] /\ pc = "spawn" /\ pc' = "register" /\ UNCHANGED running
    BY <1>2 DEF Spawn, Locked, memory
  <2>2. up = "up" /\ cfg # NoTask /\ running.id = NoId
    BY <2>1 DEF ServedInv, RunInv, HeldInv, QueueInv, busy
  <2>3. handles = {}
    BY <2>1, <2>2 DEF ServedInv, RunInv, QueueInv
  <2>4. job'.id = job.id
    BY <1>1, <2>1 DEF Job
  <2>5. \A h \in handles' : h.id = job'.id
    BY <2>1, <2>3, <2>4
  <2> QED
    BY <1>1, <2>1, <2>2, <2>5 DEF ServedInv
<1>3. CASE LaunchFail
  <2>1. UNCHANGED <<running, handles>> /\ pc = "spawn" /\ pc' \in {"free", "due"}
    BY <1>1, <1>3 DEF LaunchFail, Locked, memory, Job
  <2> QED
    BY <1>1, <2>1 DEF ServedInv
<1>4. CASE Register
  <2>1. /\ running' = [NoRun EXCEPT !.id = job.id, !.pid = job.pid, !.start = rows[job.id].start]
        /\ UNCHANGED handles /\ pc = "register" /\ pc' \in {"free", "due"}
    BY <1>1, <1>4 DEF Register, Locked, Job
  <2>2. running'.id = job.id /\ running.id = NoId /\ up = "up"
    BY <2>1 DEF NoRun, RunInv, QueueInv, busy, ServedInv
  <2>3. \A h \in handles : h.id = job.id
    BY <2>1, <2>2 DEF ServedInv, RunInv, QueueInv
  <2> QED
    BY <1>1, <2>1, <2>2, <2>3 DEF ServedInv
<1>5. CASE RecordFinish
  <2>1. handles' \subseteq handles /\ UNCHANGED running /\ pc = "free" /\ pc' = "clear"
    BY <1>5 DEF RecordFinish, Idle, Locked, memory
  <2> QED
    BY <1>1, <2>1 DEF ServedInv
<1>6. CASE ClearFinished
  <2>1. /\ UNCHANGED handles /\ pc = "clear" /\ pc' \in {"free", "spawn"}
        /\ IF running.id # job.id THEN UNCHANGED running /\ pc' = "free" ELSE running' = NoRun
    BY <1>6 DEF ClearFinished, Locked, StartQueued, BeginRun
  <2>2. CASE running.id # job.id
    BY <1>1, <2>1, <2>2 DEF ServedInv
  <2>3. CASE running.id = job.id
    <3>1. up = "up" /\ running'.id = NoId
      BY <1>1, <2>1, <2>3 DEF ServedInv, RunInv, QueueInv, TypeInv, TypeOK, ClockOK, NoRun
    <3>2. handles = {}
      BY <2>1, <2>3, <3>1 DEF ServedInv, RunInv, ChildInv
    <3> QED
      BY <1>1, <2>1, <3>1, <3>2 DEF ServedInv
  <2> QED
    BY <2>2, <2>3
<1> QED
  BY <1>2, <1>3, <1>4, <1>5, <1>6

\* A reload that finds children keeps the task and the run it holds.
LEMMA ServedReload ==
    ASSUME ServedAssumption, ServedInv, Reload, NEW c \in Loadable, Configure(c), handles # {}
    PROVE  c # NoTask /\ cfg' = c /\ UNCHANGED running
<1>1. up # "down" /\ "reload" \in Events
  BY DEF Reload, Serving, Idle, Locked
<1>2. c # NoTask
  BY <1>1 DEF Loadable, ServedAssumption, ServedInv
<1> QED
  BY <1>1, <1>2 DEF Configure, LoadTask

LEMMA ServedAround ==
    ServedAssumption /\ RunInv /\ ServedInv
    /\ (\/ Request \/ Start \/ SecondServe \/ PruneHistory \/ ReleaseAll \/ Drained \/ Crash
        \/ ClockAdvance \/ KillTimer \/ Kernel)
    => ServedInv'
<1> SUFFICES ASSUME ServedAssumption, RunInv, ServedInv,
                    \/ Request \/ Start \/ SecondServe \/ PruneHistory \/ ReleaseAll \/ Drained \/ Crash
                    \/ ClockAdvance \/ KillTimer \/ Kernel
             PROVE  ServedInv'
  OBVIOUS
<1>1. TypeInv /\ Next
  BY DEF RunInv, Next
<1>2. CASE Reload
  <2>1. UNCHANGED <<up, pc, job, handles>> /\ pc = "free"
    BY <1>2 DEF Reload, Serving, Idle, Locked
  <2>2. PICK c \in Loadable : Configure(c)
    BY <1>2 DEF Reload
  <2>3. handles # {} => cfg' # NoTask /\ UNCHANGED running
    BY <1>2, <2>2, ServedReload
  <2>4. running' \in {running, NoRun}
    BY <2>2 DEF Configure, LoadTask, ForgetTask, LoseState
  <2> QED
    BY <2>1, <2>3, <2>4 DEF ServedInv, NoRun
<1>3. CASE Start
  <2>1. up' = "up" /\ UNCHANGED <<pc, handles>> /\ up = "down"
    BY <1>3 DEF Start
  <2>2. handles = {} /\ pc = "free"
    BY <1>1, <2>1 DEF RunInv, HeldInv, TypeInv, HandlerOK
  <2> QED
    BY <2>1, <2>2 DEF ServedInv
<1>4. CASE Trigger \/ Pause \/ Resume
  <2>1. /\ UNCHANGED <<up, cfg, running, handles>> /\ pc = "free"
        /\ pc' \in {"due", "spawn", "register"} => up = "up"
    BY <1>4 DEF Trigger, Pause, Resume, Serving, Idle, Locked, ServedAssumption, memory
  <2> QED
    BY <2>1, ServedSame
<1>5. CASE SecondServe \/ PruneHistory \/ ClockAdvance \/ KillTimer \/ Kernel
  <2>1. UNCHANGED <<up, cfg, running, pc, job>>
    BY <1>5 DEF SecondServe, PruneHistory, ClockAdvance, KillTimer, Kernel, ProcessExit, PidReused,
       StrangerExit, memory
  <2>2. Fewer
    BY <1>1, <2>1, StepFewer DEF Spawn, Register, Locked, TypeInv, TypeOK, MutexOK, Job
  <2> QED
    BY <2>1, <2>2, ServedSame DEF Fewer, ServedInv
<1>6. CASE ReleaseAll
  <2>1. up' = "draining" /\ running' = NoRun /\ UNCHANGED <<cfg, handles, pc>> /\ pc = "free"
    BY <1>6 DEF ReleaseAll, Idle, Locked
  <2> QED
    BY <2>1 DEF ServedInv, NoRun
<1>7. CASE Drained \/ Crash
  <2>1. up' = "down" /\ handles' = {} /\ pc' = "free"
    BY <1>7 DEF Drained, Crash, Die
  <2> QED
    BY <2>1 DEF ServedInv
<1> QED
  BY <1>2, <1>3, <1>4, <1>5, <1>6, <1>7 DEF Request

LEMMA ServedStep == ServedAssumption /\ RunInv /\ ServedInv /\ [Next]_vars => ServedInv'
<1>1. ASSUME ServedInv, UNCHANGED vars PROVE ServedInv'
  BY <1>1 DEF vars, memory, ServedInv
<1> QED
  BY <1>1, ServedTick, ServedRun, ServedAround DEF Next

\* The pid of a child, reaped or not, is not another run's.
ChildPids == \A h \in handles : owner[h.pid] \in {Free, Stranger, h.id}

LEMMA ChildPidsInit == Init => ChildPids
BY DEF Init, ChildPids

LEMMA ChildPidsStep == RunInv /\ ServedInv /\ ChildPids /\ [Next]_vars => ChildPids'
<1>1. ASSUME ChildPids, UNCHANGED vars PROVE ChildPids'
  BY <1>1 DEF vars, kernel, ChildPids
<1>2. ASSUME RunInv, ServedInv, ChildPids, Next PROVE ChildPids'
  <2>1. TypeInv /\ handles \subseteq Handle /\ owner \in [Pids -> Nat \cup {Stranger}]
    BY <1>2 DEF RunInv, TypeInv, TypeOK, MutexOK, KernelOK
  <2>2. CASE Spawn
    <3>1. PICK p \in Pids :
          /\ owner' = [owner EXCEPT ![p] = job.id] /\ pc = "spawn" /\ up # "down"
          /\ handles' = handles \cup {[id |-> job.id, pid |-> p, result |-> NoExit, killAt |-> NoTime]}
      BY <2>2 DEF Spawn, Locked
    <3>2. up = "up" /\ running.id = NoId
      BY <1>2, <3>1 DEF ServedInv, RunInv, QueueInv, busy
    <3>3. handles = {}
      BY <1>2, <3>1, <3>2 DEF ServedInv, RunInv, QueueInv
    <3>4. \A h \in handles' : h.id = job.id /\ h.pid = p
      BY <3>1, <3>3
    <3> QED
      BY <2>1, <3>1, <3>4 DEF ChildPids
  <2>3. CASE Register
    BY <1>2, <2>3 DEF Register, kernel, ChildPids
  <2>4. CASE ~Spawn /\ ~Register
    <3>1. Fewer
      BY <1>2, <2>1, <2>4, StepFewer
    <3> QED
      BY <1>2, <2>1, <3>1 DEF Fewer, ChildPids, Handle
  <2> QED
    BY <2>2, <2>3, <2>4
<1> QED
  BY <1>1, <1>2

-----------------------------------------------------------------------------
(* Kills *)

\* The files say the same throughout: an edit may lengthen a timeout, or
\* remove the one thing that a past kill was about.  And no late trigger starts
\* a run that gets the pid of a reaped child Kill's timer still waits for.
KillAssumption == "edit" \notin Events /\ ServedAssumption

\* The configuration gives a reason to kill run i now.
Justified(i) == \/ cfg.timeout > 0 /\ now - rows[i].start >= cfg.timeout
                \/ cfg.logMax \/ cfg.overlap = "kill-and-restart"

\* Nobody has been told to stop, or waits to be killed, without a reason.
KillInv ==
    /\ ServedInv /\ ChildPids
    /\ cfg # NoTask =>
          /\ \A p \in Alive : sig[p] # "none" => Justified(owner[p])
          /\ \A h \in handles : h.killAt # NoTime => Justified(h.id)
          /\ released.id # NoId /\ released.killedAt # NoTime => Justified(released.id)

LEMMA KillInit == Init => KillInv
BY ServedInit, ChildPidsInit DEF Init, KillInv, Alive, NoReleased

\* Time goes on, and the task stays what it is.
LEMMA StepClock ==
    KillAssumption /\ TypeInv /\ Next => now \in Int /\ now' \in Int /\ now' >= now /\ cfg' = cfg
<1> SUFFICES ASSUME KillAssumption, TypeInv, Next PROVE now \in Int /\ now' \in Int /\ now' >= now /\ cfg' = cfg
  OBVIOUS
<1>1. now \in Int
  BY TimeFacts DEF TypeInv, TypeOK, ClockOK
<1>2. CASE TickStep
  <2>1. UNCHANGED <<now, cfg>>
    BY <1>2 DEF TickStep, EnforceOwned, EnforceAdopted, SettleAdopted, NothingDue, FireWatermark, StartFire,
       MissFire, QueueFire, RestartFire, FireCron, memory
  <2> QED
    BY <1>1, <2>1
<1>3. CASE Spawn \/ LaunchFail \/ Register \/ RecordFinish \/ ClearFinished
  <2>1. UNCHANGED <<now, cfg>>
    BY <1>3 DEF Spawn, LaunchFail, Register, RecordFinish, ClearFinished, memory
  <2> QED
    BY <1>1, <2>1
<1>4. CASE Trigger \/ Pause \/ Resume \/ SecondServe \/ PruneHistory \/ ReleaseAll
  <2>1. UNCHANGED <<now, cfg>>
    BY <1>4 DEF Trigger, Pause, Resume, SecondServe, PruneHistory, ReleaseAll, memory
  <2> QED
    BY <1>1, <2>1
<1>5. CASE Reload \/ Start
  <2>1. now' = now /\ Configure(cfg)
    BY <1>5 DEF Reload, Start, Loadable, KillAssumption
  <2> QED
    BY <1>1, <2>1 DEF Configure, ForgetTask, LoadTask
<1>6. CASE Drained \/ Crash \/ KillTimer
  BY <1>1, <1>6 DEF Drained, Crash, Die, KillTimer, memory
<1>7. CASE ClockAdvance
  BY <1>1, <1>7 DEF ClockAdvance, memory
<1>8. CASE Kernel
  BY <1>1, <1>8 DEF Kernel, ProcessExit, PidReused, StrangerExit, memory
<1> QED
  BY <1>2, <1>3, <1>4, <1>5, <1>6, <1>7, <1>8 DEF Next, Request

\* A reason stays one.
LEMMA JustifiedStays ==
    ASSUME KillAssumption, TypeInv, Next, NEW i \in 1 .. Len(rows), cfg # NoTask, Justified(i)
    PROVE  Justified(i)'
<1>1. now \in Int /\ now' \in Int /\ now' >= now /\ cfg' = cfg
  BY StepClock
<1>2. rows'[i].start = rows[i].start
  BY StepHistory DEF HistoryStep, Grows
<1>3. rows[i].start \in Int /\ cfg.timeout \in Nat
  <2>1. rows[i] \in Row /\ cfg \in TaskConfig
    BY DEF TypeInv, TypeOK, TablesOK, MemoryOK
  <2> QED
    BY <2>1 DEF Row, TaskConfig
<1>4. CASE cfg.timeout > 0 /\ now - rows[i].start >= cfg.timeout
  <2>1. now' - rows[i].start >= cfg.timeout
    BY <1>1, <1>3, <1>4
  <2> QED
    BY <1>1, <1>2, <1>4, <2>1 DEF Justified
<1> QED
  BY <1>1, <1>4 DEF Justified

\* A step that signals, arms and marks only with a reason.
LEMMA KillSame ==
    ASSUME KillAssumption, RunInv, StartInv, KillInv, Next,
           \A p \in Pids : \/ owner'[p] \in {Free, Stranger} \/ sig'[p] = "none"
                           \/ owner'[p] = owner[p] /\ (sig'[p] = sig[p] \/ (cfg # NoTask => Justified(owner[p]))),
           \A h \in handles' : \/ h.killAt = NoTime
                               \/ \E g \in handles : /\ g.id = h.id
                                                     /\ g.killAt # NoTime \/ (cfg # NoTask => Justified(g.id)),
           \/ released'.id = NoId \/ released'.killedAt = NoTime
           \/ /\ released'.id = released.id
              /\ released'.killedAt = released.killedAt \/ (cfg # NoTask => Justified(released.id))
    PROVE  KillInv'
<1>0. ServedInv' /\ ChildPids'
  BY ServedStep, ChildPidsStep DEF KillInv, KillAssumption
<1>1. TypeInv /\ cfg' = cfg
  BY StepClock DEF RunInv
<1> SUFFICES ASSUME cfg # NoTask
             PROVE  /\ \A p \in Alive' : sig'[p] # "none" => Justified(owner[p])'
                    /\ \A h \in handles' : h.killAt # NoTime => Justified(h.id)'
                    /\ released'.id # NoId /\ released'.killedAt # NoTime => Justified(released.id)'
  BY <1>0, <1>1 DEF KillInv
<1>2. ASSUME NEW p \in Alive', sig'[p] # "none" PROVE Justified(owner[p])'
  <2>1. p \in Alive /\ owner'[p] = owner[p]
    BY <1>2 DEF Alive
  <2>2. Justified(owner[p]) /\ owner[p] \in 1 .. Len(rows)
    BY <1>2, <2>1 DEF Alive, KillInv, RunInv, IdsInv, Named
  <2>3. PICK i \in 1 .. Len(rows) : i = owner[p]
    BY <2>2
  <2>4. Justified(i)'
    BY <1>1, <2>2, <2>3, JustifiedStays
  <2> QED
    BY <2>1, <2>3, <2>4 DEF Justified
<1>3. ASSUME NEW h \in handles', h.killAt # NoTime PROVE Justified(h.id)'
  <2>1. Justified(h.id) /\ h.id \in 1 .. Len(rows)
    BY <1>3 DEF KillInv, RunInv, IdsInv, Named
  <2> QED
    BY <1>1, <2>1, JustifiedStays
<1>4. ASSUME released'.id # NoId, released'.killedAt # NoTime PROVE Justified(released.id)'
  <2>1. Justified(released.id) /\ released.id \in 1 .. Len(rows) /\ released'.id = released.id
    BY <1>4 DEF KillInv, StartInv
  <2>2. PICK i \in 1 .. Len(rows) : i = released.id
    BY <2>1
  <2>3. Justified(i)'
    BY <1>1, <2>1, <2>2, JustifiedStays
  <2> QED
    BY <2>1, <2>2, <2>3 DEF Justified
<1> QED
  BY <1>2, <1>3, <1>4

\* A signal reaches the process of the run it is meant for, and no other.
LEMMA SignalOnly ==
    ASSUME TypeInv, NEW pid, NEW s, NEW p \in Pids, p # pid
    PROVE  Signal(pid, s)[p] = sig[p]
BY DEF Signal, TypeInv, TypeOK, KernelOK

LEMMA ArmKillOnly ==
    ASSUME TypeInv, NEW id, NEW h \in ArmKill(id)
    PROVE  \E g \in handles : g.id = h.id /\ (g.killAt = h.killAt \/ g.id = id)
<1>1. PICK g \in handles : h = IF g.id = id /\ g.killAt = NoTime /\ g.result = NoExit
                             THEN [g EXCEPT !.killAt = now] ELSE g
  BY DEF ArmKill
<1>2. g \in Handle
  BY DEF TypeInv, TypeOK, MutexOK
<1> QED
  BY <1>1, <1>2 DEF Handle

\* A run past its timeout, or over its cap, is killed for a reason.
LEMMA LimitJustified ==
    ASSUME NEW run, NEW over \in {FALSE, cfg.logMax}, run.start = rows[run.id].start,
           TimeoutHit(run) \/ LogCapHit(run, over)
    PROVE  Justified(run.id)
BY DEF TimeoutHit, LogCapHit, Justified

LEMMA KillEnforceOwned ==
    KillAssumption /\ RunInv /\ StartInv /\ KillInv /\ EnforceOwned => KillInv'
<1> SUFFICES ASSUME KillAssumption, RunInv, StartInv, KillInv, EnforceOwned PROVE KillInv'
  OBVIOUS
<1>1. TypeInv /\ Next
  BY DEF RunInv, Next, TickStep
<1>2. PICK over \in {FALSE, cfg.logMax} :
        LET hit == running.id # NoId /\ TimeoutHit(running)
            big == running.id # NoId /\ LogCapHit(running, over)
        IN  IF hit \/ big
            THEN sig' = Signal(running.pid, "term") /\ handles' = ArmKill(running.id)
            ELSE UNCHANGED <<sig, handles>>
  BY DEF EnforceOwned
<1>3. UNCHANGED <<owner, released>> /\ released.id = NoId
  BY DEF EnforceOwned
<1>4. CASE running.id # NoId /\ (TimeoutHit(running) \/ LogCapHit(running, over))
  <2>1. Justified(running.id)
    BY <1>4, LimitJustified DEF StartInv
  <2>2. sig' = Signal(running.pid, "term") /\ handles' = ArmKill(running.id)
    BY <1>2, <1>4
  <2>3. owner[running.pid] \in {Free, Stranger, running.id}
    BY <1>4 DEF EnforceOwned, TickStarts, Idle, Locked, RunInv, HeldInv, KillInv, ChildPids
  <2>4. \A p \in Pids : owner[p] \in {Free, Stranger} \/ sig'[p] = sig[p] \/ Justified(owner[p])
    BY <1>1, <2>1, <2>2, <2>3, SignalOnly
  <2>5. ASSUME NEW h \in handles' PROVE \E g \in handles : g.id = h.id /\ (g.killAt = h.killAt \/ Justified(g.id))
    <3>1. PICK g \in handles : g.id = h.id /\ (g.killAt = h.killAt \/ g.id = running.id)
      BY <1>1, <2>2, ArmKillOnly
    <3> QED
      BY <2>1, <3>1
  <2> QED
    BY <1>1, <1>3, <2>4, <2>5, KillSame
<1>5. CASE ~(running.id # NoId /\ (TimeoutHit(running) \/ LogCapHit(running, over)))
  <2>1. UNCHANGED <<sig, handles>>
    BY <1>2, <1>5
  <2> QED
    BY <1>1, <1>3, <2>1, KillSame
<1> QED
  BY <1>4, <1>5

LEMMA KillEnforceAdopted ==
    KillAssumption /\ RunInv /\ StartInv /\ KillInv /\ EnforceAdopted => KillInv'
<1> SUFFICES ASSUME KillAssumption, RunInv, StartInv, KillInv, EnforceAdopted PROVE KillInv'
  OBVIOUS
<1>1. TypeInv /\ Next /\ released \in AdoptedRun /\ cfg # NoTask /\ released.id # NoId
  BY DEF RunInv, Next, TickStep, TypeInv, TypeOK, MemoryOK, EnforceAdopted, TickStarts
<1>2. PICK over \in {FALSE, cfg.logMax} :
        LET hit    == TimeoutHit(released)
            big    == LogCapHit(released, over)
            first  == (hit \/ big) /\ released.killedAt = NoTime
            killAt == IF first THEN now ELSE released.killedAt
            last   == GraceOver(killAt) /\ ~released.escalated
        IN  /\ released' = [released EXCEPT !.timedOut = @ \/ hit, !.logCap = @ \/ big,
                                            !.killedAt = killAt, !.escalated = @ \/ last]
            /\ sig' = IF last THEN Signal(released.pid, "kill")
                      ELSE IF first THEN Signal(released.pid, "term") ELSE sig
  BY DEF EnforceAdopted
<1>3. UNCHANGED <<owner, handles>> /\ TRUE \in Verdicts(released.pid, released.ident)
  BY DEF EnforceAdopted
<1>4. owner[released.pid] = released.id
  BY <1>1, <1>3 DEF Verdicts, sameLiveProcess, RunInv, RegistryInv
<1> DEFINE first == (TimeoutHit(released) \/ LogCapHit(released, over)) /\ released.killedAt = NoTime
<1>5. first => Justified(released.id)
  BY <1>1, LimitJustified DEF StartInv
<1>6. released.killedAt # NoTime => Justified(released.id)
  BY <1>1 DEF KillInv
<1>7. /\ released'.id = released.id /\ released'.pid = released.pid
      /\ released'.killedAt = IF first THEN now ELSE released.killedAt
  BY <1>1, <1>2 DEF AdoptedRun
<1>8. sig' = sig \/ ((first \/ released.killedAt # NoTime) /\ \E s : sig' = Signal(released.pid, s))
  BY <1>2 DEF GraceOver
<1>9. \A p \in Pids : sig'[p] = sig[p] \/ Justified(owner[p])
  BY <1>1, <1>4, <1>5, <1>6, <1>8, SignalOnly
<1>10. released'.killedAt = released.killedAt \/ Justified(released.id)
  BY <1>5, <1>7
<1> HIDE DEF first
<1> QED
  BY <1>1, <1>3, <1>7, <1>9, <1>10, KillSame

LEMMA KillRestartFire ==
    KillAssumption /\ RunInv /\ StartInv /\ KillInv /\ RestartFire => KillInv'
<1> SUFFICES ASSUME KillAssumption, RunInv, StartInv, KillInv, RestartFire PROVE KillInv'
  OBVIOUS
<1>1. TypeInv /\ Next /\ released \in AdoptedRun
  BY DEF RunInv, Next, TickStep, TypeInv, TypeOK, MemoryOK
<1>2. cfg.overlap = "kill-and-restart" /\ UNCHANGED owner /\ pc = "due" /\ pc' = "free"
  BY DEF RestartFire, FireCron, CronFires, DueStep, Locked
<1>3. \A i : Justified(i)
  BY <1>2 DEF Justified
<1>4. handles' = handles \/ handles' = ArmKill(running.id)
  BY DEF RestartFire
<1>5. \A h \in handles' : \E g \in handles : g.id = h.id
  BY <1>1, <1>4, ArmKillOnly
<1>6. released'.id = released.id
  BY <1>1 DEF RestartFire, AdoptedRun
<1> QED
  BY <1>1, <1>2, <1>3, <1>5, <1>6, KillSame

LEMMA KillTick ==
    KillAssumption /\ RunInv /\ StartInv /\ KillInv /\ TickStep => KillInv'
<1> SUFFICES ASSUME KillAssumption, RunInv, StartInv, KillInv,
                    SettleAdopted \/ NothingDue \/ FireWatermark \/ StartFire \/ MissFire \/ QueueFire
             PROVE  KillInv'
  BY KillEnforceOwned, KillEnforceAdopted, KillRestartFire DEF TickStep
<1>1. Next
  BY DEF Next, TickStep
<1>2. UNCHANGED <<owner, sig, handles>>
  BY DEF SettleAdopted, NothingDue, FireWatermark, StartFire, MissFire, QueueFire, FireCron, kernel
<1>3. released'.id = NoId \/ (released' = released /\ pc' # "due")
  <2>1. CASE SettleAdopted
    BY <2>1 DEF SettleAdopted, NoReleased
  <2>2. CASE NothingDue \/ FireWatermark
    BY <2>2 DEF NothingDue, FireWatermark, memory, BeginRun
  <2>3. CASE StartFire \/ MissFire \/ QueueFire
    BY <2>3 DEF StartFire, MissFire, QueueFire, BeginRun
  <2> QED
    BY <2>1, <2>2, <2>3
<1> QED
  BY <1>1, <1>2, <1>3, KillSame

LEMMA KillRun ==
    KillAssumption /\ RunInv /\ StartInv /\ KillInv
    /\ (Spawn \/ LaunchFail \/ Register \/ RecordFinish \/ ClearFinished) => KillInv'
<1> SUFFICES ASSUME KillAssumption, RunInv, StartInv, KillInv,
                    Spawn \/ LaunchFail \/ Register \/ RecordFinish \/ ClearFinished
             PROVE  KillInv'
  OBVIOUS
<1>1. Next /\ UNCHANGED released /\ owner \in [Pids -> Nat \cup {Stranger}] /\ sig \in [Pids -> Signals]
  BY DEF Next, Spawn, LaunchFail, Register, RecordFinish, ClearFinished, memory, RunInv, TypeInv, TypeOK, KernelOK
<1>2. CASE Spawn
  <2>1. PICK p \in Pids :
        /\ owner' = [owner EXCEPT ![p] = job.id] /\ sig' = [sig EXCEPT ![p] = "none"]
        /\ handles' = handles \cup {[id |-> job.id, pid |-> p, result |-> NoExit, killAt |-> NoTime]}
        /\ pc' = "register"
    BY <1>2 DEF Spawn
  <2>2. \A q \in Pids : sig'[q] = "none" \/ (owner'[q] = owner[q] /\ sig'[q] = sig[q])
    BY <1>1, <2>1
  <2>3. \A h \in handles' : h.killAt = NoTime \/ h \in handles
    BY <2>1
  <2> QED
    BY <1>1, <2>1, <2>2, <2>3, KillSame
<1>3. CASE LaunchFail \/ Register
  <2>1. UNCHANGED <<owner, sig, handles>> /\ pc \in {"spawn", "register"}
    BY <1>3 DEF LaunchFail, Register, Locked, kernel
  <2>2. released.id = NoId
    BY <2>1 DEF RunInv, QueueInv, busy
  <2> QED
    BY <1>1, <2>1, <2>2, KillSame
<1>4. CASE RecordFinish
  <2>1. UNCHANGED <<owner, sig>> /\ handles' \subseteq handles /\ pc' = "clear"
    BY <1>4 DEF RecordFinish, kernel
  <2> QED
    BY <1>1, <2>1, KillSame
<1>5. CASE ClearFinished
  <2>1. UNCHANGED <<owner, sig, handles>> /\ pc' \in {"free", "spawn"}
    BY <1>5 DEF ClearFinished, StartQueued, BeginRun, kernel
  <2> QED
    BY <1>1, <2>1, KillSame
<1> QED
  BY <1>2, <1>3, <1>4, <1>5

LEMMA KillKernel ==
    KillAssumption /\ RunInv /\ StartInv /\ KillInv /\ (KillTimer \/ Kernel) => KillInv'
<1> SUFFICES ASSUME KillAssumption, RunInv, StartInv, KillInv, KillTimer \/ Kernel PROVE KillInv'
  OBVIOUS
<1>1. /\ Next /\ TypeInv /\ UNCHANGED <<released, pc>> /\ handles \subseteq Handle
      /\ owner \in [Pids -> Nat \cup {Stranger}] /\ sig \in [Pids -> Signals]
  BY DEF Next, KillTimer, Kernel, ProcessExit, PidReused, StrangerExit, memory, RunInv, TypeInv, TypeOK,
     KernelOK, MutexOK
<1>2. CASE KillTimer
  <2>1. PICK h \in handles : h.killAt # NoTime /\ sig' = Signal(h.pid, "kill")
    BY <1>2 DEF KillTimer, KillDue, GraceOver
  <2>2. UNCHANGED <<owner, handles>>
    BY <1>2 DEF KillTimer
  <2>3. owner[h.pid] \in {Free, Stranger, h.id} /\ (cfg # NoTask => Justified(h.id))
    BY <2>1 DEF ChildPids, KillInv
  <2>4. \A p \in Pids : owner[p] \in {Free, Stranger} \/ sig'[p] = sig[p] \/ (cfg # NoTask => Justified(owner[p]))
    BY <1>1, <2>1, <2>3, SignalOnly
  <2> QED
    BY <1>1, <2>2, <2>4, KillSame
<1>3. ASSUME NEW p \in Pids, ProcessExit(p) \/ StrangerExit(p) PROVE KillInv'
  <2>1. owner' = [owner EXCEPT ![p] = Free] /\ sig' = [sig EXCEPT ![p] = "none"]
    BY <1>3 DEF ProcessExit, StrangerExit
  <2>2. \A h \in handles' : \E g \in handles : g.id = h.id /\ h.killAt \in {g.killAt, NoTime}
    BY <1>1, <1>3, ReapedHandles DEF StrangerExit
  <2>3. \A q \in Pids : sig'[q] = "none" \/ (owner'[q] = owner[q] /\ sig'[q] = sig[q])
    BY <1>1, <2>1
  <2>4. \A h \in handles' : h.killAt = NoTime \/ \E g \in handles : g.id = h.id /\ g.killAt # NoTime
    BY <2>2
  <2> QED
    BY <1>1, <2>3, <2>4, KillSame
<1>4. ASSUME NEW p \in Pids, PidReused(p) PROVE KillInv'
  <2>1. owner' = [owner EXCEPT ![p] = Stranger] /\ UNCHANGED <<sig, handles>>
    BY <1>4 DEF PidReused
  <2>2. \A q \in Pids : owner'[q] \in {Free, Stranger} \/ (owner'[q] = owner[q] /\ sig'[q] = sig[q])
    BY <1>1, <2>1
  <2> QED
    BY <1>1, <2>1, <2>2, KillSame
<1> QED
  BY <1>2, <1>3, <1>4 DEF Kernel

LEMMA KillAround ==
    KillAssumption /\ RunInv /\ StartInv /\ KillInv
    /\ (\/ Request \/ Start \/ SecondServe \/ PruneHistory \/ ReleaseAll \/ Drained \/ Crash \/ ClockAdvance)
    => KillInv'
<1> SUFFICES ASSUME KillAssumption, RunInv, StartInv, KillInv,
                    \/ Request \/ Start \/ SecondServe \/ PruneHistory \/ ReleaseAll \/ Drained \/ Crash
                    \/ ClockAdvance
             PROVE  KillInv'
  OBVIOUS
<1>1. Next /\ TypeInv
  BY DEF Next, RunInv
<1>2. CASE Reload \/ Start
  <2>1. UNCHANGED <<owner, sig, handles, pc>> /\ \E c : Configure(c)
    BY <1>2 DEF Reload, Start, kernel
  <2>2. pc = "free"
    BY <1>1, <1>2 DEF Reload, Start, Serving, Idle, Locked, TypeInv, HandlerOK
  <2>3. released'.id = NoId \/ released' = released \/ released'.killedAt = NoTime
    BY <1>1, <2>1, ConfigureAdopts
  <2> QED
    BY <1>1, <2>1, <2>2, <2>3, KillSame
<1>3. CASE Trigger \/ Pause \/ Resume
  <2>1. UNCHANGED <<owner, sig, handles, released>> /\ pc' # "due"
    BY <1>3 DEF Trigger, Pause, Resume, Serving, Idle, Locked, BeginRun, memory, kernel
  <2> QED
    BY <1>1, <2>1, KillSame
<1>4. CASE SecondServe \/ PruneHistory \/ ClockAdvance
  <2>1. UNCHANGED <<owner, sig, handles, released, pc>>
    BY <1>4 DEF SecondServe, PruneHistory, ClockAdvance, memory, kernel
  <2> QED
    BY <1>1, <2>1, KillSame
<1>5. CASE ReleaseAll \/ Drained \/ Crash
  <2>1. UNCHANGED <<owner, sig>> /\ released' = NoReleased /\ handles' \in {handles, {}}
    BY <1>5 DEF ReleaseAll, Drained, Crash, Die, LoseState, kernel
  <2>2. released'.id = NoId
    BY <2>1 DEF NoReleased
  <2> QED
    BY <1>1, <2>1, <2>2, KillSame
<1> QED
  BY <1>2, <1>3, <1>4, <1>5 DEF Request

LEMMA KillStep == KillAssumption /\ RunInv /\ StartInv /\ KillInv /\ [Next]_vars => KillInv'
<1>1. ASSUME KillInv, UNCHANGED vars PROVE KillInv'
  <2>1. UNCHANGED <<now, up, cfg, running, released, rows, owner, sig, handles, pc, job>>
    BY <1>1 DEF vars, memory, tables, kernel
  <2> QED
    BY <1>1, <2>1 DEF KillInv, ServedInv, ChildPids, Alive, Justified
<1> QED
  BY <1>1, KillTick, KillRun, KillKernel, KillAround DEF Next

\* Kills happen only where they are configured, also when the daemon that
\* started the run is gone and another has adopted it.
THEOREM KillsAreConfigured ==
    ASSUME KillAssumption
    PROVE  Spec => []KilledAsConfigured
<1>1. KillInv => KilledAsConfigured
  BY DEF KillInv, KilledAsConfigured, Justified
<1>2. RunInv /\ StartInv /\ KillInv /\ [Next]_vars => KillInv'
  BY KillStep
<1> QED
  BY <1>1, <1>2, RunInvInit, RunInvStep, StartInit, StartStep, KillInit, PTL DEF Spec

-----------------------------------------------------------------------------
(* Reaped exits *)

\* Nobody else closes or deletes rows: no second serve finalizes what looks
\* dead to it, no prune deletes a run that is still open, and a reload comes
\* before the drain and meets its children as ServedAssumption says.
ReapAssumption ==
    /\ {"second_daemon", "prune"} \cap Events = {}
    /\ "reload" \in Events => "late_request" \notin Events /\ ServedAssumption

\* The row of a child whose exit is to be recorded is open, and the child is
\* not the adopted run.
ReapInv ==
    /\ "reload" \in Events => ServedInv
    /\ \A h \in handles : ~Settled(rows, h.id) /\ h.id # released.id
    /\ pc = "spawn" => ~Settled(rows, job.id)

LEMMA ReapInit == Init => ReapInv
BY ServedInit DEF Init, ReapInv

\* What the step closes is no child's row.
LEMMA ReapSame ==
    ASSUME RunInv, ReapInv, "reload" \in Events => ServedInv', NEW closed, HistoryStep(closed),
           \A h \in handles' : \E g \in handles : h.id = g.id /\ g.id \notin closed,
           \A h \in handles' : released'.id \in {released.id, NoId} \/ h.id # released'.id,
           pc' = "spawn" /\ pc = "spawn" => job' = job /\ job.id \notin closed
    PROVE  ReapInv'
<1>1. ASSUME NEW h \in handles' PROVE ~Settled(rows', h.id) /\ h.id # released'.id
  <2>1. PICK g \in handles : h.id = g.id /\ g.id \notin closed
    BY <1>1
  <2>2. g.id \in 1 .. Len(rows) /\ g.id # NoId
    BY DEF RunInv, IdsInv, Named, QueueInv
  <2>3. rows'[g.id] = rows[g.id]
    BY <2>1, <2>2 DEF HistoryStep
  <2> QED
    BY <1>1, <2>1, <2>2, <2>3 DEF ReapInv, Settled
<1>2. ASSUME pc' = "spawn" PROVE ~Settled(rows', job'.id)
  <2>1. CASE pc = "spawn"
    <3>1. job.id \in 1 .. Len(rows)
      BY <2>1 DEF RunInv, TypeInv, TypeOK, TablesOK, HandlerOK
    <3> QED
      BY <1>2, <2>1, <3>1 DEF ReapInv, HistoryStep, Settled
  <2>2. CASE pc # "spawn"
    BY <1>2, <2>2 DEF HistoryStep, Settled
  <2> QED
    BY <2>1, <2>2
<1> QED
  BY <1>1, <1>2 DEF ReapInv

LEMMA ReapTick == RunInv /\ ReapInv /\ TickStep => ReapInv'
<1> SUFFICES ASSUME RunInv, ReapInv, TickStep PROVE ReapInv'
  OBVIOUS
<1>1. "reload" \in Events => ServedInv'
  BY ServedTick DEF ReapInv
<1>2. pc \in {"free", "due"} /\ TypeInv /\ Next
  BY TickPoint DEF Next, RunInv
<1>3. \A h \in handles' : \E g \in handles : h.id = g.id
  BY <1>2, StepFewer DEF Fewer, Spawn, Register, Locked
<1>4. CASE SettleAdopted
  <2>1. HistoryStep({released.id}) /\ released' = NoReleased
    BY <1>2, <1>4, SettleHistory DEF SettleAdopted
  <2> QED
    BY <1>1, <1>2, <1>3, <2>1, ReapSame DEF ReapInv, NoReleased
<1>5. CASE ~SettleAdopted
  <2>1. HistoryStep({})
    BY <1>2, <1>5, DueHistory DEF TickStep
  <2>2. released'.id \in {released.id, NoId}
    <3>1. ~\E c : Configure(c) /\ (Reload \/ Start)
      BY <1>5 DEF TickStep, Reload, Start, EnforceOwned, EnforceAdopted, NothingDue, FireWatermark, StartFire,
         MissFire, QueueFire, RestartFire, CronFires, DueStep, TickStarts, Locked, BeginRun, Serving, Idle
    <3> QED
      BY <1>2, <3>1, StepReleased
  <2> QED
    BY <1>1, <1>2, <1>3, <2>1, <2>2, ReapSame
<1> QED
  BY <1>4, <1>5

LEMMA ReapRun ==
    RunInv /\ ReapInv /\ (Spawn \/ LaunchFail \/ Register \/ RecordFinish \/ ClearFinished) => ReapInv'
<1> SUFFICES ASSUME RunInv, ReapInv, Spawn \/ LaunchFail \/ Register \/ RecordFinish \/ ClearFinished
             PROVE  ReapInv'
  OBVIOUS
<1>1. "reload" \in Events => ServedInv'
  BY ServedRun DEF ReapInv
<1>2. TypeInv /\ job \in Job /\ UNCHANGED released
  BY DEF RunInv, TypeInv, TypeOK, MutexOK, Spawn, LaunchFail, Register, RecordFinish, ClearFinished, memory
<1>3. CASE Spawn
  <2>1. PICK p \in Pids :
        /\ handles' = handles \cup {[id |-> job.id, pid |-> p, result |-> NoExit, killAt |-> NoTime]}
        /\ pc = "spawn" /\ pc' = "register" /\ UNCHANGED rows
    BY <1>3 DEF Spawn, Locked, tables
  <2>2. ~Settled(rows, job.id) /\ job.id # released.id
    BY <2>1 DEF ReapInv, RunInv, QueueInv, busy
  <2>3. \A h \in handles' : h \in handles \/ h.id = job.id
    BY <2>1
  <2> QED
    BY <1>1, <1>2, <2>1, <2>2, <2>3 DEF ReapInv
<1>4. CASE LaunchFail
  <2>1. HistoryStep({job.id}) /\ UNCHANGED handles /\ pc = "spawn" /\ pc' # "spawn"
    BY <1>2, <1>4, LaunchFailHistory DEF LaunchFail, Locked, Job
  <2>2. \A h \in handles : h.id # job.id
    BY <2>1 DEF RunInv, IdsInv, Named
  <2> QED
    BY <1>1, <1>2, <2>1, <2>2, ReapSame
<1>5. CASE Register
  <2>1. HistoryStep({}) /\ UNCHANGED handles /\ pc' # "spawn"
    BY <1>2, <1>5, OtherHistory DEF Register, Job
  <2> QED
    BY <1>1, <1>2, <2>1, ReapSame
<1>6. CASE RecordFinish
  <2>1. PICK h \in handles : handles' = handles \ {h} /\ job'.id = h.id /\ pc' = "clear"
    BY <1>6 DEF RecordFinish, NoJob
  <2>2. HistoryStep({h.id})
    BY <1>2, <1>6, <2>1, RecordFinishHistory
  <2>3. \A g \in handles' : g \in handles /\ g.id # h.id
    BY <2>1 DEF RunInv, ChildInv
  <2> QED
    BY <1>1, <1>2, <2>1, <2>2, <2>3, ReapSame
<1>7. CASE ClearFinished
  <2>1. HistoryStep({}) /\ UNCHANGED handles /\ pc = "clear"
    BY <1>2, <1>7, ClearFinishedHistory DEF ClearFinished, Locked
  <2> QED
    BY <1>1, <1>2, <2>1, ReapSame
<1> QED
  BY <1>3, <1>4, <1>5, <1>6, <1>7

\* Configure finalizes no child: at a start there is none, and a reload finds
\* the one there is in the engine's hands.
LEMMA ReapConfigure ==
    ReapAssumption /\ RunInv /\ ReapInv /\ (Reload \/ Start) => ReapInv'
<1> SUFFICES ASSUME ReapAssumption, RunInv, ReapInv, Reload \/ Start PROVE ReapInv'
  OBVIOUS
<1>1. UNCHANGED <<pc, job, handles>> /\ TypeInv
  BY DEF Reload, Start, RunInv
<1>2. PICK c \in Loadable : Configure(c)
  BY DEF Reload, Start
<1>3. "reload" \in Events => ServedInv'
  BY ServedAround DEF ReapInv, ReapAssumption, Request
<1>4. CASE handles = {}
  <2>1. \E closed : HistoryStep(closed)
    BY <1>1, StepHistory DEF Next, Request
  <2>2. pc # "spawn"
    BY <1>1 DEF Reload, Start, Serving, Idle, Locked, TypeInv, HandlerOK
  <2> QED
    BY <1>1, <1>3, <1>4, <2>1, <2>2, ReapSame
<1>5. CASE handles # {}
  <2>1. Reload /\ "reload" \in Events /\ pc = "free"
    BY <1>5 DEF Start, Reload, RunInv, HeldInv, Serving, Idle, Locked
  <2>2. ServedInv /\ up = "up" /\ c # NoTask
    BY <1>2, <1>5, <2>1, ServedReload DEF ReapInv, ReapAssumption, Reload, Serving
  <2>3. \A h \in handles : h.id = running.id
    BY <2>1, <2>2 DEF ServedInv
  <2>4. busy
    BY <1>5, <2>3 DEF busy, RunInv, QueueInv
  <2>5. PICK dead \in Finalized({e \in live : e.id \notin {running.id, released.id}}) :
          rows' = FinishAllUnknown(rows, {e.id : e \in dead}, now) /\ released' = released
    BY <1>2, <2>2, <2>4 DEF Configure, Tracked
  <2> DEFINE closed == {e.id : e \in dead}
  <2>6. HistoryStep(closed)
    BY <1>1, <2>5, FinalizedHistory
  <2>7. running.id \notin closed
    BY DEF Finalized
  <2> HIDE DEF closed
  <2> QED
    BY <1>1, <1>3, <2>1, <2>3, <2>5, <2>6, <2>7, ReapSame
<1> QED
  BY <1>4, <1>5

LEMMA ReapAround ==
    ReapAssumption /\ RunInv /\ ReapInv
    /\ (\/ Request \/ Start \/ SecondServe \/ PruneHistory \/ ReleaseAll \/ Drained \/ Crash
        \/ ClockAdvance \/ KillTimer \/ Kernel)
    => ReapInv'
<1> SUFFICES ASSUME ReapAssumption, RunInv, ReapInv,
                    \/ Trigger \/ Pause \/ Resume \/ ReleaseAll \/ Drained \/ Crash
                    \/ ClockAdvance \/ KillTimer \/ Kernel
             PROVE  ReapInv'
  BY ReapConfigure DEF Request, SecondServe, PruneHistory, ReapAssumption
<1>1. TypeInv /\ Next
  BY DEF RunInv, Next, Request
<1>2. HistoryStep({})
  BY <1>1, OtherHistory
<1>3. "reload" \in Events => ServedInv'
  BY ServedAround DEF ReapInv, ReapAssumption, Request
<1>4. \A h \in handles' : \E g \in handles : h.id = g.id
  <2>1. CASE KillTimer \/ Kernel
    <3>1. UNCHANGED <<pc, job>>
      BY <2>1 DEF KillTimer, Kernel, ProcessExit, PidReused, StrangerExit
    <3> QED
      BY <1>1, <3>1, StepFewer DEF Fewer, Spawn, Register, Locked, TypeInv, TypeOK, MutexOK, Job
  <2>2. CASE Trigger \/ Pause \/ Resume \/ ReleaseAll \/ Drained \/ Crash \/ ClockAdvance
    <3>1. handles' \in {handles, {}}
      BY <2>2 DEF Trigger, Pause, Resume, ReleaseAll, Drained, Crash, Die, ClockAdvance
    <3> QED
      BY <3>1
  <2> QED
    BY <2>1, <2>2
<1>5. released'.id \in {released.id, NoId}
  <2>1. released' \in {released, NoReleased}
    BY DEF Trigger, Pause, Resume, ReleaseAll, Drained, Crash, Die, LoseState, ClockAdvance, KillTimer,
       Kernel, ProcessExit, PidReused, StrangerExit, memory
  <2> QED
    BY <2>1 DEF NoReleased
<1>6. pc' = "spawn" /\ pc = "spawn" => job' = job
  BY DEF Trigger, Pause, Resume, ReleaseAll, Drained, Crash, Die, ClockAdvance, KillTimer,
     Kernel, ProcessExit, PidReused, StrangerExit, Serving, Idle, Locked
<1> QED
  BY <1>2, <1>3, <1>4, <1>5, <1>6, ReapSame

LEMMA ReapStep == ReapAssumption /\ RunInv /\ ReapInv /\ [Next]_vars => ReapInv'
<1>1. ASSUME ReapInv, UNCHANGED vars PROVE ReapInv'
  BY <1>1 DEF vars, memory, tables, ReapInv, ServedInv, Settled
<1> QED
  BY <1>1, ReapTick, ReapRun, ReapAround DEF Next

\* A living daemon loses no child of its own but by recording its exit.
LEMMA HandlesKept ==
    ASSUME TypeInv, Next, up' # "down", ~RecordFinish, NEW h \in handles
    PROVE  \E g \in handles' : g.id = h.id
<1>1. handles \subseteq Handle
  BY DEF TypeInv, TypeOK, MutexOK
<1>2. CASE Armed
  BY <1>1, <1>2, ArmedHandles
<1>3. CASE Spawn
  BY <1>3 DEF Spawn
<1>4. CASE Drained \/ Crash
  BY <1>4 DEF Drained, Crash, Die
<1>5. CASE Kernel
  BY <1>1, <1>5, ReapedKeepsHandles DEF Kernel, PidReused, StrangerExit
<1> QED
  BY <1>2, <1>3, <1>4, <1>5, StepArmed DEF Disturbs

LEMMA ReapRecorded ==
    ASSUME RunInv, ReapInv, Next, NEW h \in handles, h.result # NoExit, up' # "down",
           \A g \in handles' : g.id # h.id
    PROVE  rows'[h.id].exit = h.result
<1>1. RecordFinish /\ TypeInv
  BY HandlesKept DEF RunInv
<1>2. PICK f \in handles : rows' = Recorded(f) /\ handles' = handles \ {f}
  BY <1>1 DEF RecordFinish
<1>3. f = h
  BY <1>2
<1>4. h.id \in 1 .. Len(rows) /\ rows \in Seq(Row) /\ ~Settled(rows, h.id)
  BY <1>1 DEF RunInv, IdsInv, Named, TypeInv, TypeOK, TablesOK, ReapInv
<1>5. rows' = [rows EXCEPT ![h.id] = Closed(@, h.result, FinishError(h), now)]
  <2>1. h.id \in DOMAIN rows /\ rows[h.id].finish = NoTime /\ ~rows[h.id].pruned
    BY <1>4 DEF Settled
  <2>2. rows' = FinishRun(rows, h.id, h.result, FinishError(h), now)
    BY <1>2, <1>3 DEF Recorded
  <2>3. FinishRun(rows, h.id, h.result, FinishError(h), now)
        = [rows EXCEPT ![h.id] = Closed(@, h.result, FinishError(h), now)]
    BY ONLY <2>1 DEF FinishRun
  <2> QED
    BY <2>2, <2>3
<1>6. rows[h.id] \in Row /\ rows'[h.id] = Closed(rows[h.id], h.result, FinishError(h), now)
  BY <1>4, <1>5
<1> QED
  BY <1>6 DEF Closed, Row

\* The exit a daemon has reaped is the exit the history shows: no tick, no
\* reload and no later start closes the row first.
THEOREM ReapedExitKept ==
    ASSUME ReapAssumption
    PROVE  Spec => ReapedExitRecorded
<1>1. RunInv /\ ReapInv /\ [Next]_vars => ReapInv'
  BY ReapStep
<1>2. RunInv /\ ReapInv /\ [Next]_vars =>
        [\A h \in handles :
            h.result # NoExit /\ up' # "down" /\ (\A g \in handles' : g.id # h.id)
            => rows'[h.id].exit = h.result]_vars
  BY ReapRecorded
<1> QED
  BY <1>1, <1>2, RunInvInit, RunInvStep, ReapInit, PTL DEF Spec, ReapedExitRecorded
=============================================================================

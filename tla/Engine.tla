------------------------------- MODULE Engine -------------------------------
(***************************************************************************)
(* The scheduler core of task-clock: internal/engine/engine.go, with the   *)
(* process runner (runner_exec.go), the history and live-run registry      *)
(* (store.go, see RunStore) and the daemon's life cycle (cmd/serve.go).    *)
(*                                                                         *)
(* One task is modelled.  Tasks share the engine's mutex, the clock and    *)
(* the id sequence, and nothing a task does reads another task's state.    *)
(*                                                                         *)
(* The engine's mutex e.mu is `pc`: it is "free" or names the point a      *)
(* handler holding it has reached.  A handler is cut where a crash, or a   *)
(* process that exits meanwhile, can be told apart:                        *)
(*    "due"       tickTask has enforced limits and settled an adopted run  *)
(*    "spawn"     startRunLocked has inserted the row, nothing runs yet    *)
(*    "register"  the process runs, the registry does not know it yet      *)
(*    "clear"     finishRun has closed the row, the registry entry remains *)
(* Nothing else takes time while the mutex is held.                        *)
(*                                                                         *)
(* Simplifications: store writes succeed; a handler's consecutive writes   *)
(* not listed above are one step; the time a tick carries is the clock's.  *)
(* README.md gives the reasons.                                            *)
(***************************************************************************)
EXTENDS Integers, Sequences, FiniteSets, RunStore

CONSTANTS
    Configs,               \* what tasks.d may say of the task (see TaskConfig)
    NoTask,                \* tasks.d does not mention the task
    Hash,                  \* the FNV hash of (task name, fire), by fire
    Pids, NoPid,           \* process ids
    Events,                \* what may happen around the daemon, see AllEvents
    CrashPoints,           \* the pcs at which the daemon may crash
    OnTimeSlack,           \* engine.Options.OnTimeSlack
    KillGrace,             \* runner_exec.go: killGrace
    CoalescedDetailLimit,  \* engine.go: coalescedDetailLimit
    MaxBatch,              \* the 10000 of tickTask's FiresBetween
    Exits,                 \* the exit codes of an undisturbed process
    Retention,             \* retention_days, in the unit of the clock
    MaxTime, MaxRows,      \* bounds: the clock, the rows of the history,
    MaxStarts              \* and how often the daemon is started

Time     == 0 .. MaxTime
TimeOrNo == Time \cup {NoTime}

\* cron's fires, or a watermark's interval (> 0), and the task's policies.
\* timeout = 0 is "none"; logMax tells whether log_max_mb is set.
TaskConfig == [fires : SUBSET Time, interval : Nat,
               overlap : {"skip", "queue-one", "kill-and-restart"},
               catchUp : BOOLEAN, timeout : Nat, logMax : BOOLEAN,
               jitter : Nat, enabled : BOOLEAN]

\* Which of the environment's moves a model includes.
AllEvents == {"sleep",           \* the machine sleeps: ticks come late
              "trigger",         \* POST /trigger
              "pause",           \* POST /pause and /resume
              "edit",            \* tasks.d changes before a reload or a start
              "reload",          \* SIGHUP or POST /reload
              "stop",            \* SIGTERM
              "late_request",    \* an HTTP request in flight during the drain
              "launch_failure",  \* the command cannot be resolved or started
              "prune",           \* the daily prune comes due
              "second_daemon",   \* somebody runs serve beside the daemon
              "pid_reuse",       \* the kernel reuses a free pid
              "ps_failure"}      \* ps cannot be run: identity ""

Points == {"free", "due", "spawn", "register", "clear"}

ASSUME EngineAssumption ==
    /\ Configs \subseteq TaskConfig \cup {NoTask}
    /\ NoTask \notin TaskConfig
    /\ NoPid \notin Pids
    /\ Events \subseteq AllEvents
    /\ CrashPoints \subseteq Points /\ Exits \subseteq {0, 1}
    /\ MaxTime \in Nat /\ MaxRows \in Nat /\ MaxStarts \in Nat
    /\ OnTimeSlack \in Nat /\ KillGrace \in Nat /\ Retention \in Nat \ {0}
    /\ CoalescedDetailLimit \in Nat /\ MaxBatch \in Nat
    /\ Hash \in [Time -> Nat]

\* config.go Validate: "cron and watermark are mutually exclusive".
ASSUME ScheduleAssumption == \A c \in Configs \ {NoTask} : c.interval > 0 => c.fires = {}

VARIABLES
    now,        \* the clock
    starts,     \* how often the daemon has been started
    up,         \* the daemon: "up", "draining" (HTTP shutdown) or "down"
    cfg,        \* taskState.cfg; NoTask: e.tasks has no entry
    nextFire, running, released, queued, lastSuccess, lastAttempt,
    streak, paused,                         \* the rest of taskState
    rows, live, pausedDb,                   \* tables runs, live_runs, paused_tasks
    owner, sig, \* the kernel: whose process a pid is, the signal it has got
    handles,    \* the execHandles of this daemon whose result is not recorded
    pc, job,    \* the mutex, and the locals of the handler holding it
    ticked,     \* auxiliary: a tick has completed at this instant
    armed,      \* auxiliary: when nextFire was last computed from the clock
    born        \* auxiliary: rows older than the present taskState

memory  == <<cfg, nextFire, running, released, queued, lastSuccess,
             lastAttempt, streak, paused, armed, born>>
tables  == <<rows, live, pausedDb>>
kernel  == <<owner, sig>>
vars    == <<now, starts, up, memory, tables, kernel, handles, pc, job, ticked>>

-----------------------------------------------------------------------------
(* Processes and runs *)

Free     == 0       \* owner: no process has the pid
Stranger == -1      \* owner: not one of our runs; else the run's id
NoId     == 0

\* taskState.running and .released, a live_runs row, an execHandle, and the
\* locals of the handler that holds the mutex.
OwnedRun   == [id : Nat, pid : Pids \cup {NoPid}, start : Int,
               timedOut : BOOLEAN, logCap : BOOLEAN, restart : BOOLEAN]
AdoptedRun == [id : Nat, pid : Pids \cup {NoPid}, ident : Nat, start : Int,
               timedOut : BOOLEAN, logCap : BOOLEAN, killedAt : Int, escalated : BOOLEAN]
LiveEntry  == [id : Nat, pid : Pids, ident : Nat, start : Int]
Handle     == [id : Nat, pid : Pids, result : ExitCodes, killAt : Int]
Job        == [id : Nat, pid : Pids \cup {NoPid}, cont : {"free", "due"}, success : BOOLEAN]
Signals    == {"none", "term", "kill"}

NoRun      == [id |-> NoId, pid |-> NoPid, start |-> NoTime,
               timedOut |-> FALSE, logCap |-> FALSE, restart |-> FALSE]
NoReleased == [id |-> NoId, pid |-> NoPid, ident |-> NoId, start |-> NoTime,
               timedOut |-> FALSE, logCap |-> FALSE,
               killedAt |-> NoTime, escalated |-> FALSE]
NoJob      == [id |-> NoId, pid |-> NoPid, cont |-> "free", success |-> FALSE]

busy_OwnedOnly == running.id # NoId
busy == running.id # NoId \/ released.id # NoId

sameLiveProcess_AnyProcess(pid, ident) == ident # NoId /\ owner[pid] # Free

\* alive AND still the process whose start time was recorded at spawn.
sameLiveProcess(pid, ident) == ident # NoId /\ owner[pid] = ident

Verdicts_GivesUp(pid, ident) == {FALSE}

\* What ps lets the engine conclude about a recorded process.
Verdicts(pid, ident) ==
    IF ~sameLiveProcess(pid, ident) THEN {FALSE}
    ELSE IF "ps_failure" \in Events THEN BOOLEAN ELSE {TRUE}

\* kill(-pgid, s): a no-op on a free pid; KILL is not weakened by TERM.
Signal(pid, s) == [sig EXCEPT ![pid] = IF owner[pid] = Free \/ @ = "kill" THEN @ ELSE s]

\* execHandle.Kill: TERM now; the goroutine it starts waits from killAt, unless
\* the process has been reaped.
ArmKill(id) == {IF h.id = id /\ h.killAt = NoTime /\ h.result = NoExit
                THEN [h EXCEPT !.killAt = now] ELSE h : h \in handles}

\* A TERM sent at this time has had its grace; KILL follows.
GraceOver_Never(killAt) == FALSE
GraceOver(killAt)       == killAt # NoTime /\ now - killAt >= KillGrace

IsWatermark(c) == c.interval > 0

effectiveDue(c, fire) == IF c.jitter = 0 THEN fire ELSE fire + (Hash[fire] % c.jitter)

watermarkDue_FromSuccess == IF lastSuccess = NoTime THEN NoTime ELSE lastSuccess + cfg.interval

\* NoTime: never ran, due immediately.
watermarkDue ==
    LET base == IF lastAttempt > lastSuccess THEN lastAttempt ELSE lastSuccess
    IN  IF base = NoTime THEN NoTime ELSE base + cfg.interval

\* The history keeps room for n more rows and for the queued fire's.
Room(n) == Len(rows) + n + (IF queued = NoTime THEN 0 ELSE 1) <= MaxRows

Locked(point) == pc = point /\ up # "down"
Idle          == Locked("free")

-----------------------------------------------------------------------------
(* startRunLocked: row, process, registry *)

\* Inserts the row in rows0 (rows as the handler has left it); `cont` is
\* where the handler goes on once the run is started or has failed to.
BeginRun(rows0, sched, outcome, cont) ==
    /\ rows' = StartRun(rows0, sched, outcome, now)
    /\ job'  = [NoJob EXCEPT !.id = Len(rows0) + 1, !.cont = cont]
    /\ pc'   = "spawn"

\* A task that has become idle starts the fire that waited for it.
StartQueued_Forgets(rows0, cont) ==
    queued' = queued /\ rows' = rows0 /\ pc' = cont /\ job' = NoJob

StartQueued(rows0, cont) ==
    /\ queued' = NoTime
    /\ IF queued = NoTime THEN rows' = rows0 /\ pc' = cont /\ job' = NoJob
       ELSE BeginRun(rows0, queued, "queued", cont)

\* runner.Start has forked the process, and its Wait goroutine runs.
Spawn == \E p \in Pids :
    /\ Locked("spawn")
    /\ owner[p] = Free
    /\ owner'   = [owner EXCEPT ![p] = job.id]
    /\ sig'     = [sig EXCEPT ![p] = "none"]
    /\ handles' = handles \cup {[id |-> job.id, pid |-> p, result |-> NoExit, killAt |-> NoTime]}
    /\ job'     = [job EXCEPT !.pid = p]
    /\ pc'      = "register"
    /\ UNCHANGED <<now, starts, up, memory, tables, ticked>>

FailedLaunch_LeftOpen == rows
FailedLaunch          == FinishRun(rows, job.id, -1, "launch", now)

\* The command or workdir does not resolve, or runner.Start fails.
LaunchFail ==
    /\ Locked("spawn")
    /\ "launch_failure" \in Events \/ \A p \in Pids : owner[p] # Free
    /\ rows' = FailedLaunch
    /\ pc'   = job.cont
    /\ job'  = NoJob
    /\ UNCHANGED <<now, starts, up, memory, live, pausedDb, kernel, handles, ticked>>

\* st.running, lastAttemptStart and RecordLiveRun, with the identity ps gives
\* now: "" for a process that is gone already.
Register ==
    /\ Locked("register")
    /\ running'     = [NoRun EXCEPT !.id = job.id, !.pid = job.pid, !.start = rows[job.id].start]
    /\ lastAttempt' = rows[job.id].start
    /\ \E same \in Verdicts(job.pid, job.id) :
          live' = live \cup {[id |-> job.id, pid |-> job.pid,
                             ident |-> IF same THEN job.id ELSE NoId, start |-> rows[job.id].start]}
    /\ pc'   = job.cont
    /\ job'  = NoJob
    /\ UNCHANGED <<now, starts, up, cfg, nextFire, released, queued, lastSuccess, streak, paused,
                   armed, born, rows, pausedDb, kernel, handles, ticked>>

-----------------------------------------------------------------------------
(* finishRun, fed by the watch goroutine of a run of this daemon *)

KillReason(run) == IF run.timedOut THEN "timeout"
                   ELSE IF run.logCap THEN "log_cap"
                   ELSE IF run.restart THEN "restart" ELSE ""

\* The reason the engine had to kill the run overrides the runner's message.
FinishError(h) ==
    IF running.id = h.id /\ KillReason(running) # "" THEN KillReason(running)
    ELSE IF h.result = -1 THEN "signal" ELSE ""

Recorded(h) == FinishRun(rows, h.id, h.result, FinishError(h), now)

RecordFinish == \E h \in handles :
    /\ Idle
    /\ h.result # NoExit
    /\ rows'    = Recorded(h)
    /\ handles' = handles \ {h}
    /\ job'     = [NoJob EXCEPT !.id = h.id, !.success = (h.result = 0 /\ FinishError(h) = "")]
    /\ pc'      = "clear"
    /\ UNCHANGED <<now, starts, up, memory, live, pausedDb, kernel, ticked>>

\* ClearLiveRun; a run the engine no longer holds ends here, otherwise the
\* task becomes idle and the queued fire starts.
ClearFinished ==
    /\ Locked("clear")
    /\ live' = {e \in live : e.id # job.id}
    /\ IF running.id # job.id
       THEN /\ pc' = "free" /\ job' = NoJob
            /\ UNCHANGED <<running, lastSuccess, queued, rows>>
       ELSE /\ running'     = NoRun
            /\ lastSuccess' = IF job.success THEN now ELSE lastSuccess
            /\ StartQueued(rows, "free")
    /\ UNCHANGED <<now, starts, up, cfg, nextFire, released, lastAttempt, streak, paused,
                   armed, born, pausedDb, kernel, handles, ticked>>

-----------------------------------------------------------------------------
(* tickTask, first half: limits, and the death of an adopted run.  A task  *)
(* never holds both an owned and an adopted run (invariant OneHolder), so  *)
(* exactly one of the three actions below is a tick's first half.          *)

\* The unit of time is tick_interval: an instant sees one tick at most.  The
\* model's history must hold the rows a tick can write.
TickStarts == Idle /\ up = "up" /\ ~ticked /\ cfg # NoTask /\ Room(CoalescedDetailLimit + 1)

TimeoutHit_Early(run) == cfg.timeout > 0 /\ ~run.timedOut /\ now - run.start >= cfg.timeout - 1
TimeoutHit(run)       == cfg.timeout > 0 /\ ~run.timedOut /\ now - run.start >= cfg.timeout

\* `over`: os.Stat finds the log above log_max_mb.
LogCapHit(run, over) == over /\ ~run.timedOut /\ ~TimeoutHit(run) /\ ~run.logCap

EnforceOwned ==
    /\ TickStarts
    /\ released.id = NoId
    /\ \E over \in {FALSE, cfg.logMax} :
       LET hit == running.id # NoId /\ TimeoutHit(running)
           big == running.id # NoId /\ LogCapHit(running, over)
       IN  /\ running' = [running EXCEPT !.timedOut = @ \/ hit, !.logCap = @ \/ big]
           /\ IF hit \/ big
              THEN sig' = Signal(running.pid, "term") /\ handles' = ArmKill(running.id)
              ELSE UNCHANGED <<sig, handles>>
    /\ pc' = "due"
    /\ UNCHANGED <<now, starts, up, cfg, nextFire, released, queued, lastSuccess, lastAttempt, streak,
                   paused, armed, born, tables, owner, job, ticked>>

\* The adopted process is verified, then timed out, capped or, once its
\* grace is over, killed for good.
EnforceAdopted ==
    /\ TickStarts
    /\ released.id # NoId
    /\ TRUE \in Verdicts(released.pid, released.ident)
    /\ \E over \in {FALSE, cfg.logMax} :
       LET hit    == TimeoutHit(released)
           big    == LogCapHit(released, over)
           first  == (hit \/ big) /\ released.killedAt = NoTime
           killAt == IF first THEN now ELSE released.killedAt
           last   == GraceOver(killAt) /\ ~released.escalated
       IN  /\ released' = [released EXCEPT !.timedOut = @ \/ hit, !.logCap = @ \/ big,
                                           !.killedAt = killAt, !.escalated = @ \/ last]
           /\ sig' = IF last THEN Signal(released.pid, "kill")
                     ELSE IF first THEN Signal(released.pid, "term") ELSE sig
    /\ pc' = "due"
    /\ UNCHANGED <<now, starts, up, cfg, nextFire, running, queued, lastSuccess, lastAttempt, streak,
                   paused, armed, born, tables, owner, handles, job, ticked>>

\* The adopted process is gone, or is no longer the one that was adopted.
SettleAdopted ==
    /\ TickStarts
    /\ released.id # NoId
    /\ FALSE \in Verdicts(released.pid, released.ident)
    /\ released' = NoReleased
    /\ live'     = {e \in live : e.id # released.id}
    /\ LET error == IF released.timedOut THEN "timeout"
                    ELSE IF released.logCap THEN "log_cap" ELSE "unknown"
       IN  StartQueued(FinishRunUnknownExit(rows, released.id, error, now), "due")
    /\ UNCHANGED <<now, starts, up, cfg, nextFire, running, lastSuccess, lastAttempt, streak,
                   paused, armed, born, pausedDb, kernel, handles, ticked>>

-----------------------------------------------------------------------------
(* tickTask, second half: what is due *)

DueStep == Locked("due") /\ ticked' = TRUE

Active == cfg.enabled /\ ~paused

\* nextFire, and the fires FiresBetween finds after it up to now.
Elapsed == Ascending({nextFire} \cup FiresBetween(cfg.fires, nextFire, now, MaxBatch))

CronDue_Unjittered == nextFire # NoTime /\ now >= nextFire

CronDue == nextFire # NoTime /\ now >= effectiveDue(cfg, nextFire)

WatermarkReady == watermarkDue = NoTime \/ now >= watermarkDue

NothingDue ==
    /\ DueStep
    /\ \/ ~Active
       \/ IsWatermark(cfg) /\ (busy \/ ~WatermarkReady)
       \/ ~IsWatermark(cfg) /\ ~CronDue
    /\ pc' = "free"
    /\ UNCHANGED <<now, starts, up, memory, tables, kernel, handles, job>>

late(due) == now - due > OnTimeSlack

noteFireOutcome_Decays(onTime) == streak' = IF onTime THEN streak - 1 ELSE streak + 1
noteFireOutcome_Grows(onTime)  == streak' = streak + 1
noteFireOutcome(onTime) == streak' = IF onTime THEN 0 ELSE streak + 1

\* A task that never ran does not touch the streak.
FireWatermark ==
    /\ DueStep
    /\ Active /\ IsWatermark(cfg) /\ ~busy /\ WatermarkReady
    /\ IF watermarkDue = NoTime
       THEN BeginRun(rows, now, "on_time", "free") /\ streak' = streak
       ELSE /\ BeginRun(rows, watermarkDue, IF late(watermarkDue) THEN "queued" ELSE "on_time",
                        "free")
            /\ noteFireOutcome(~late(watermarkDue))
    /\ UNCHANGED <<now, starts, up, cfg, nextFire, running, released, queued, lastSuccess, lastAttempt,
                   paused, armed, born, live, pausedDb, kernel, handles>>

\* All elapsed fires but the latest are backlog: one row each, or one summary
\* row for all of them, closed on the spot.
RecordBacklog(backlog) ==
    IF Len(backlog) > CoalescedDetailLimit
    THEN Append(rows, [NewRow(backlog[1], NoTime, "missed", "coalesced")
                       EXCEPT !.finish = backlog[1], !.exit = -1, !.error = "summary",
                              !.upto = backlog[Len(backlog)]])
    ELSE rows \o [i \in DOMAIN backlog |-> NewRow(backlog[i], NoTime, "missed", "coalesced")]

Last(fires)       == fires[Len(fires)]
Backlogged(fires) == RecordBacklog(SubSeq(fires, 1, Len(fires) - 1))
FireLate(fires)   == late(effectiveDue(cfg, Last(fires)))

CronFires == DueStep /\ Active /\ ~IsWatermark(cfg) /\ CronDue

\* What the outcomes of handleFire have in common: the last of the elapsed
\* fires is handled, and the next one is awaited.
FireCron(fires) ==
    /\ nextFire' = NextAfter(cfg.fires, Last(fires))
    /\ UNCHANGED <<now, starts, up, cfg, lastSuccess, lastAttempt, paused, armed, born,
                   live, pausedDb, owner>>

StartFire == CronFires /\ \E fires \in Elapsed :
    /\ FireCron(fires)
    /\ ~busy /\ (cfg.catchUp \/ ~FireLate(fires))
    /\ noteFireOutcome(~FireLate(fires))
    /\ BeginRun(Backlogged(fires), Last(fires),
                IF FireLate(fires) THEN "queued" ELSE "on_time", "free")
    /\ UNCHANGED <<running, released, queued, sig, handles>>

\* A late fire of an idle task with catch-up off; a fire of a busy one under
\* "skip", or when another fire waits already.
MissFire == CronFires /\ \E fires \in Elapsed, reason \in {"catch_up_disabled", "overlap"} :
    /\ FireCron(fires)
    /\ \/ ~busy /\ reason = "catch_up_disabled" /\ FireLate(fires) /\ ~cfg.catchUp
       \/ /\ busy /\ reason = "overlap"
          /\ cfg.overlap = "skip" \/ (cfg.overlap = "queue-one" /\ queued # NoTime)
    /\ rows' = RecordMissed(Backlogged(fires), Last(fires), reason)
    /\ noteFireOutcome(FALSE)
    /\ pc' = "free"
    /\ UNCHANGED <<running, released, queued, sig, handles, job>>

QueueFire == CronFires /\ \E fires \in Elapsed :
    /\ FireCron(fires)
    /\ busy /\ cfg.overlap = "queue-one" /\ queued = NoTime
    /\ queued' = Last(fires)
    /\ rows' = Backlogged(fires)
    /\ noteFireOutcome(FALSE)
    /\ pc' = "free"
    /\ UNCHANGED <<running, released, sig, handles, job>>

\* kill-and-restart: the run is killed once, the latest fire takes the queue.
RestartFire == CronFires /\ \E fires \in Elapsed :
    /\ FireCron(fires)
    /\ busy /\ cfg.overlap = "kill-and-restart"
    /\ IF running.id # NoId /\ ~running.restart
       THEN sig' = Signal(running.pid, "term") /\ handles' = ArmKill(running.id)
       ELSE /\ handles' = handles
            /\ sig' = IF released.id # NoId /\ released.killedAt = NoTime
                      THEN Signal(released.pid, "term") ELSE sig
    /\ running'  = IF running.id = NoId THEN running ELSE [running EXCEPT !.restart = TRUE]
    /\ released' = IF released.id = NoId \/ released.killedAt # NoTime
                   THEN released ELSE [released EXCEPT !.killedAt = now]
    /\ rows'     = IF queued = NoTime THEN Backlogged(fires)
                   ELSE RecordMissed(Backlogged(fires), queued, "overlap")
    /\ queued'   = Last(fires)
    /\ noteFireOutcome(FALSE)
    /\ pc' = "free" /\ job' = job

-----------------------------------------------------------------------------
(* Requests *)

\* HTTP is served until the drain of the shutdown is over.
Serving == Idle /\ (up = "up" \/ "late_request" \in Events)

\* Unknown, disabled and busy tasks are refused; a paused one is not.
Trigger ==
    /\ Serving /\ "trigger" \in Events
    /\ cfg # NoTask /\ cfg.enabled /\ ~busy
    /\ Room(1)
    /\ BeginRun(rows, now, "manual", "free")
    /\ UNCHANGED <<now, starts, up, memory, live, pausedDb, kernel, handles, ticked>>

SetPaused_InMemory(flag) == paused' = flag /\ pausedDb' = pausedDb
SetPaused(flag)          == paused' = flag /\ pausedDb' = flag

Pause ==
    /\ Serving /\ "pause" \in Events
    /\ cfg # NoTask
    /\ SetPaused(TRUE)
    /\ UNCHANGED <<now, starts, up, cfg, nextFire, running, released, queued, lastSuccess, lastAttempt,
                   streak, armed, born, rows, live, kernel, handles, pc, job, ticked>>

\* Fires skipped during the pause of a cron task are no backlog.
Resume ==
    /\ Serving /\ "pause" \in Events
    /\ cfg # NoTask
    /\ IF paused /\ ~IsWatermark(cfg)
       THEN nextFire' = NextAfter(cfg.fires, now) /\ armed' = now
       ELSE UNCHANGED <<nextFire, armed>>
    /\ SetPaused(FALSE)
    /\ UNCHANGED <<now, starts, up, cfg, running, released, queued, lastSuccess, lastAttempt,
                   streak, born, rows, live, kernel, handles, pc, job, ticked>>

-----------------------------------------------------------------------------
(* Configure, at a start and at a reload *)

Loadable == IF "edit" \in Events THEN Configs ELSE {cfg}

\* nextFire survives only while the cron expression is unchanged.
KeptFire_Always(c, known) == IF known THEN nextFire ELSE NoTime
KeptFire(c, known)        == IF known /\ cfg.fires = c.fires THEN nextFire ELSE NoTime

\* The taskState of a task e.tasks has no entry for yet, or the one it had.
LoadTask(c, known) ==
    LET kept  == KeptFire(c, known)
        clock == ~IsWatermark(c) /\ kept = NoTime /\ c.enabled
        fresh == ~known /\ IsWatermark(c)
    IN  /\ cfg'         = c
        /\ nextFire'    = IF clock THEN NextAfter(c.fires, now) ELSE kept
        /\ armed'       = IF clock THEN now ELSE IF kept = NoTime THEN NoTime ELSE armed
        /\ born'        = IF known THEN born ELSE Len(rows)
        /\ paused'      = IF known THEN paused ELSE pausedDb
        /\ lastSuccess' = IF fresh THEN LastSuccess(rows) ELSE lastSuccess
        /\ lastAttempt' = IF fresh THEN LastRunStart(rows) ELSE lastAttempt
        /\ streak'      = 0
        /\ UNCHANGED <<running, queued>>

\* A taskState is gone, its queued fire included.
LoseState ==
    /\ nextFire' = NoTime /\ running' = NoRun /\ released' = NoReleased /\ queued' = NoTime
    /\ lastSuccess' = NoTime /\ lastAttempt' = NoTime /\ streak' = 0 /\ paused' = FALSE
    /\ armed' = NoTime /\ born' = 0

ForgetTask == cfg' = NoTask /\ LoseState

Oldest(entries) == CHOOSE e \in entries : \A f \in entries : e.id <= f.id

Adopted_Nothing(e) == NoReleased
Adopted(e) == [NoReleased EXCEPT !.id = e.id, !.pid = e.pid, !.ident = e.ident, !.start = e.start]

\* The sets of registry entries that the probes may find dead.
Finalized(entries) == {dead \in SUBSET entries :
                         \A e \in entries : (e \notin dead) \in Verdicts(e.pid, e.ident)}

Tracked_AdoptedOnly(c) == IF c = NoTask THEN {} ELSE {released.id}
Tracked(c)             == IF c = NoTask THEN {} ELSE {running.id, released.id}

\* Registry entries of runs nobody holds: a dead one is closed with an
\* unknown exit, the oldest live one is adopted by an idle task, and any
\* other stays for a later Configure.
Configure(c) == LET untracked == {e \in live : e.id \notin Tracked(c)} IN
    \E dead \in Finalized(untracked) :
    /\ rows' = FinishAllUnknown(rows, {e.id : e \in dead}, now)
    /\ live' = live \ dead
    /\ IF c = NoTask THEN ForgetTask
       ELSE /\ LoadTask(c, up # "down" /\ cfg # NoTask)
            /\ released' = IF busy \/ dead = untracked THEN released
                           ELSE Adopted(Oldest(untracked \ dead))

Reload ==
    /\ Serving /\ "reload" \in Events
    /\ \E c \in Loadable : Configure(c)
    /\ UNCHANGED <<now, starts, up, pausedDb, kernel, handles, pc, job, ticked>>

-----------------------------------------------------------------------------
(* The daemon's life cycle *)

\* runServe: the engine is configured before anything else runs.
Start ==
    /\ up = "down"
    /\ up' = "up" /\ starts' = starts + 1
    /\ \E c \in Loadable : Configure(c)
    /\ UNCHANGED <<now, pausedDb, kernel, handles, pc, job, ticked>>

\* A second serve finalizes what looks dead to it, the entries of the first
\* daemon's runs included, before it finds the port taken and exits.
SecondServe ==
    /\ up = "up" /\ "second_daemon" \in Events
    /\ \E dead \in Finalized(live) :
          /\ rows' = FinishAllUnknown(rows, {e.id : e \in dead}, now)
          /\ live' = live \ dead
    /\ UNCHANGED <<now, starts, up, memory, pausedDb, kernel, handles, pc, job, ticked>>

\* The serve loop prunes at its start and after a tick, outside the mutex; it
\* commutes with every step of a handler other than a tick.
PruneHistory ==
    /\ Idle /\ up = "up" /\ "prune" \in Events
    /\ rows' = Prune(rows, now - Retention)
    /\ UNCHANGED <<now, starts, up, memory, live, pausedDb, kernel, handles, pc, job, ticked>>

DisownQueued_Silently == queued' = NoTime /\ rows' = rows

\* A queued fire cannot survive in memory; the drop is recorded.
DisownQueued ==
    /\ queued' = NoTime
    /\ rows' = IF queued = NoTime THEN rows ELSE RecordMissed(rows, queued, "daemon_stop")

\* ReleaseAll: runs are disowned, never killed; then HTTP drains.
ReleaseAll ==
    /\ Idle /\ up = "up" /\ "stop" \in Events /\ starts < MaxStarts
    /\ up' = "draining"
    /\ running' = NoRun /\ released' = NoReleased
    /\ DisownQueued
    /\ UNCHANGED <<now, starts, cfg, nextFire, lastSuccess, lastAttempt, streak, paused, armed, born,
                   live, pausedDb, kernel, handles, pc, job, ticked>>

\* The process ends and its memory with it.  cfg stays as the file last read.
Die ==
    /\ up' = "down"
    /\ LoseState
    /\ handles' = {} /\ pc' = "free" /\ job' = NoJob
    /\ UNCHANGED <<now, starts, cfg, tables, kernel, ticked>>

Drained == Idle /\ up = "draining" /\ Die

Crash == up # "down" /\ pc \in CrashPoints /\ starts < MaxStarts /\ Die

-----------------------------------------------------------------------------
(* Around the daemon *)

\* execHandle.Kill's goroutine, which lives and dies with the daemon: when the
\* process is reaped after the grace, its select may still take the timer,
\* whosever the pid is by then.  On a free pid the KILL does nothing.
KillDue(h) == GraceOver(h.killAt) /\ owner[h.pid] # Free /\ sig[h.pid] # "kill"

KillTimer == \E h \in handles :
    /\ up # "down"
    /\ KillDue(h)
    /\ sig' = Signal(h.pid, "kill")
    /\ UNCHANGED <<now, starts, up, memory, tables, owner, handles, pc, job, ticked>>

\* Without "sleep" every instant sees the daemon up and a whole tick, and no
\* KILL that is due or sent is still pending at the next one.
Punctual == /\ up = "up" /\ ticked
            /\ \A p \in Pids : sig[p] # "kill"
            /\ \A h \in handles : ~KillDue(h)

ClockAdvance ==
    /\ now < MaxTime /\ pc = "free"
    /\ "sleep" \in Events \/ Punctual
    /\ now' = now + 1 /\ ticked' = FALSE
    /\ UNCHANGED <<starts, up, memory, tables, kernel, handles, pc, job>>

\* TERM may be caught (any exit code) or ignored (no exit); KILL may not.
ExitsUnder(s) == CASE s = "none" -> Exits [] s = "term" -> {0, -1} [] s = "kill" -> {-1}

\* A run's process ends; a child of this daemon is reaped by its Wait, which
\* ends a goroutine of Kill that is still within the grace.
Reaped(h, code) == [h EXCEPT !.result = code, !.killAt = IF GraceOver(@) THEN @ ELSE NoTime]

ProcessExit(p) == \E code \in ExitsUnder(sig[p]) :
    /\ owner[p] \notin {Free, Stranger}
    /\ owner'   = [owner EXCEPT ![p] = Free]
    /\ sig'     = [sig EXCEPT ![p] = "none"]
    /\ handles' = {IF h.id = owner[p] THEN Reaped(h, code) ELSE h : h \in handles}
    /\ UNCHANGED <<now, starts, up, memory, tables, pc, job, ticked>>

\* The kernel hands a free pid to a process that is none of ours, whatever the
\* daemon is doing and although the exit that freed it is not recorded yet.
\* It comes too late only for the ps that follows a fork.
PidReused(p) ==
    /\ "pid_reuse" \in Events
    /\ owner[p] = Free /\ p # job.pid
    /\ owner' = [owner EXCEPT ![p] = Stranger]
    /\ UNCHANGED <<now, starts, up, memory, tables, sig, handles, pc, job, ticked>>

StrangerExit(p) ==
    /\ owner[p] = Stranger
    /\ owner' = [owner EXCEPT ![p] = Free]
    /\ sig'   = [sig EXCEPT ![p] = "none"]
    /\ UNCHANGED <<now, starts, up, memory, tables, handles, pc, job, ticked>>

-----------------------------------------------------------------------------
Init ==
    /\ now = 0 /\ starts = 0 /\ up = "down"
    /\ cfg \in Configs
    /\ nextFire = NoTime /\ running = NoRun /\ released = NoReleased /\ queued = NoTime
    /\ lastSuccess = NoTime /\ lastAttempt = NoTime /\ streak = 0 /\ paused = FALSE
    /\ armed = NoTime /\ born = 0
    /\ rows = <<>> /\ live = {} /\ pausedDb = FALSE
    /\ owner = [p \in Pids |-> Free] /\ sig = [p \in Pids |-> "none"]
    /\ handles = {} /\ pc = "free" /\ job = NoJob /\ ticked = FALSE

TickStep == \/ EnforceOwned \/ EnforceAdopted \/ SettleAdopted
            \/ NothingDue \/ FireWatermark
            \/ StartFire \/ MissFire \/ QueueFire \/ RestartFire

Request == Trigger \/ Pause \/ Resume \/ Reload

Kernel == \E p \in Pids : ProcessExit(p) \/ PidReused(p) \/ StrangerExit(p)

Next == \/ TickStep
        \/ Spawn \/ LaunchFail \/ Register
        \/ RecordFinish \/ ClearFinished
        \/ Request
        \/ Start \/ SecondServe \/ PruneHistory \/ ReleaseAll \/ Drained \/ Crash
        \/ ClockAdvance \/ KillTimer \/ Kernel

Spec == Init /\ [][Next]_vars

\* The serve loop, the mutex and the goroutines go on, launchd restarts the
\* daemon, time passes, and KILL works.  A task need never end by itself.
Fairness ==
    /\ WF_vars(Start) /\ WF_vars(Drained)
    /\ WF_vars(TickStep)
    /\ WF_vars(Spawn \/ LaunchFail) /\ WF_vars(Register)
    /\ WF_vars(RecordFinish) /\ WF_vars(ClearFinished)
    /\ WF_vars(ClockAdvance) /\ WF_vars(KillTimer)
    /\ \A p \in Pids : WF_vars(sig[p] = "kill" /\ ProcessExit(p))

FairSpec == Spec /\ Fairness

-----------------------------------------------------------------------------
(* Properties *)

\* Every variable has its type; the nulls are the code's nil values.
ClockOK  == now \in Time /\ starts \in Nat /\ up \in {"up", "draining", "down"} /\ ticked \in BOOLEAN
MemoryOK == /\ cfg \in TaskConfig \cup {NoTask}
            /\ nextFire \in TimeOrNo /\ queued \in TimeOrNo /\ armed \in TimeOrNo
            /\ lastSuccess \in Int /\ lastAttempt \in Int
            /\ running \in OwnedRun /\ released \in AdoptedRun
            /\ streak \in Nat /\ paused \in BOOLEAN /\ born \in Nat
TablesOK == rows \in Seq(Row) /\ live \subseteq LiveEntry /\ pausedDb \in BOOLEAN
KernelOK == owner \in [Pids -> Nat \cup {Stranger}] /\ sig \in [Pids -> Signals]
MutexOK  == handles \subseteq Handle /\ pc \in Points /\ job \in Job

TypeOK == ClockOK /\ MemoryOK /\ TablesOK /\ KernelOK /\ MutexOK

OneHolder == running.id = NoId \/ released.id = NoId

Alive == {p \in Pids : owner[p] \notin {Free, Stranger}}

\* README "a task cannot double-run across a restart": at no time do two
\* processes of the task's runs live, whoever started or holds them.
NoDoubleRun == \A p, q \in Alive : p = q

\* A fire waits only behind a run: engine.go starts or records the queued
\* fire in the very step that ends or disowns the run it waits for.
QueuedBehindARun == queued # NoTime => busy

RunIds == {i \in DOMAIN rows : rows[i].start # NoTime}

Open(i) == rows[i].finish = NoTime

\* store.go "Every planned fire ends up as exactly one row": of the fires
\* since nextFire was last computed from the clock, each one before nextFire
\* is the queued one or is in exactly one row, its own or a summary's.
Accounts(f) == Cardinality({i \in DOMAIN rows : /\ rows[i].outcome # "manual"
                                                /\ rows[i].sched <= f /\ f <= rows[i].upto})
               + (IF queued = f THEN 1 ELSE 0)

FiresAccounted ==
    cfg # NoTask /\ up # "down" /\ armed # NoTime =>
        \A f \in cfg.fires : f > armed /\ (nextFire = NoTime \/ f < nextFire) => Accounts(f) = 1

\* The streak the overrun hook fires on is what the history says: the fires
\* since the last one on time that were late, missed or are queued.
NotOnTime(i) == \/ rows[i].outcome = "queued"
                \/ rows[i].reason \in {"overlap", "catch_up_disabled"}

StreakCounts ==
    LET onTime == {i \in DOMAIN rows : i > born /\ rows[i].outcome = "on_time"}
        since  == IF onTime = {} THEN born ELSE Latest(onTime)
    IN  up = "up" /\ cfg # NoTask =>
            streak = Cardinality({i \in DOMAIN rows : i > since /\ NotOnTime(i)})
                     + (IF queued = NoTime THEN 0 ELSE 1)

\* FinishRun's "a real recorded exit status must never be overwritten": once
\* a row is closed, no later tick, watcher or daemon changes it, until it is
\* deleted as a whole for being older than the retention.
ClosedRowsStay ==
    [][\A i \in DOMAIN rows : ~Open(i) =>
          /\ i \in DOMAIN rows'
          /\ \/ rows'[i] = rows[i]
             \/ rows'[i] = [rows[i] EXCEPT !.pruned = TRUE] /\ rows[i].finish < now - Retention]_vars

\* The exit a daemon reaped is the exit the row shows: nobody, no reload of
\* this daemon either, closes the row of a run whose watcher is still to report.
ReapedExitRecorded ==
    [][\A h \in handles :
          h.result # NoExit /\ up' # "down" /\ (\A g \in handles' : g.id # h.id)
          => rows'[h.id].exit = h.result]_vars

\* A run shown as finished has no process left that could still do work.
ClosedRunIsDead == \A p \in Alive : Open(owner[p])

\* A run shown as unfinished is one somebody will close: it is in the
\* registry, or being started.
OpenRunIsTracked ==
    \A i \in RunIds : Open(i) /\ ~rows[i].pruned => i = job.id \/ \E e \in live : e.id = i

\* A live run is one the next daemon will find, by the registry, once its
\* start is over, also when the daemon died in a tick, in finishRun or between
\* row and fork.  Of a daemon that dies between the fork and RecordLiveRun, a
\* crash at "register", it is false, although engine.go:683-687 and
\* README.md:228-233 promise it of "ANY daemon end".
LiveRunIsTracked == \A p \in Alive : owner[p] = job.id \/ \E e \in live : e.id = owner[p]

\* engine.go:115-116 "a pid reused after mid-flight death must be finalized,
\* never killed": a process that is none of ours is signalled only
\*   - on the pid of a child that Wait has reaped and finishRun has not yet
\*     recorded (handle.Kill does not look; Kill's own timer may still fire),
\*   - or on the pid of an adopted run that this very tick has found alive.
\* So it is safe from whatever the registry, an adoption or a restart has
\* kept of a pid.  CHANGELOG.md:36 ("can never be adopted or signalled") and
\* README.md:230-231 except neither case.  That EnforceAdopted looks at the
\* process and signals it in one step hides a window of the second kind.
StrangerSpared ==
    [][\A p \in Pids :
          owner[p] = Stranger /\ owner'[p] = Stranger /\ sig'[p] # sig[p] =>
              \/ \E h \in handles : h.pid = p /\ h.result # NoExit
              \/ pc = "due" /\ released.pid = p]_vars

\* README "Kills happen only where you configured them": a run has got a signal
\* only past its timeout, over its log cap, or under kill-and-restart, also
\* when its daemon has been stopped and another has adopted it.
KilledAsConfigured ==
    cfg # NoTask => \A p \in Alive : sig[p] # "none" =>
        \/ cfg.timeout > 0 /\ now - rows[owner[p]].start >= cfg.timeout
        \/ cfg.logMax \/ cfg.overlap = "kill-and-restart"

\* engine.go:771 Pause "survives daemon restarts", and reloads: what the
\* engine acts on is what was last requested.  The comment on the field,
\* engine.go:152-154 ("runtime-only", "does not survive a daemon restart"),
\* says the opposite of what SetPaused and Configure do.
PauseRemembered == up = "up" /\ cfg # NoTask => paused = pausedDb

\* "A failing task retries at the same cadence instead of crash-looping": a
\* watermark starts nothing within its interval of the last attempt or the
\* last success, whichever daemon made them.
Succeeded(i) == rows[i].exit = 0 /\ rows[i].error = ""

WatermarkSpacing ==
    cfg # NoTask /\ IsWatermark(cfg) =>
        \A i, j \in RunIds : i < j /\ rows[j].outcome # "manual" =>
            /\ rows[j].start >= rows[i].start + cfg.interval
            /\ Succeeded(i) => rows[j].start >= rows[i].finish + cfg.interval

\* jitter_test.go "fires at the jittered time, not the raw cron time": no
\* scheduled run of a cron task starts before its fire is due.
NoEarlyStart ==
    cfg # NoTask /\ ~IsWatermark(cfg) =>
        \A i \in RunIds : rows[i].outcome # "manual" =>
            rows[i].start >= effectiveDue(cfg, rows[i].sched)

\* store.go "Every planned fire ends up as exactly one row": the queued fire
\* leaves the queue only into a new row.
QueuedFireKept ==
    [][queued # NoTime /\ queued' # queued =>
          \E i \in DOMAIN rows' \ DOMAIN rows : rows'[i].sched = queued]_vars

\* Bounded-time liveness: what starts by LastChance has, within the horizon,
\* time for the timeout and, per daemon, for a TERM and its grace.
LastChance == MaxTime - (cfg.timeout + MaxStarts * (KillGrace + 1) + 1)

\* With a timeout set, every run ends and its row is closed, also when its
\* process ignores TERM and when the daemon is replaced meanwhile.
LimitedRunCloses ==
    \A i \in 1 .. MaxRows :
        (i \in RunIds /\ Open(i) /\ rows[i].start <= LastChance) ~> (i \in RunIds /\ ~Open(i))

\* With a timeout set, a queued fire gets its row: it runs, it gives way to a
\* later fire under kill-and-restart, or it is dropped by a stop.
QueuedFireSettles ==
    \A f \in Time : (queued = f /\ f <= LastChance) ~>
        (\E i \in DOMAIN rows : rows[i].sched = f /\ rows[i].outcome # "manual")
=============================================================================

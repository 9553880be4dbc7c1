# task-clock: a TLA+ verification project

task-clock is a per-user task scheduler for macOS: a daemon that reads task
definitions from `tasks.d/*.toml`, starts processes by cron expression or by
"watermark" interval, records every fire in a SQLite history, and leaves its
own residency to launchd. This directory holds TLA+ models of its core, the TLC
configurations that check them on small instances, and proofs, checked by
TLAPS, of theorems about them for all values of the constants.

    tlc -workers 2 -config EngineCron.cfg EngineMC     one run
    tlapm EngineTrackProofs.tla                        one module's proofs

`PROJECT.json` lists the components, the runs, for every property a mutant of
the code that breaks it, the source lines each definition stands for, the
hazards, the findings and the theorems.

## 1. Inventory

### Components

| Component | State it keeps | Operations |
|---|---|---|
| Scheduler engine, `internal/engine/engine.go` | per task (`taskState`): configuration, `nextFire`, the owned run (`running`), the adopted run (`released`), at most one queued fire, the watermark (`lastSuccess`, `lastAttemptStart`), the overrun streak, the pause flag; one mutex for all of it | `Configure`, `Tick`, `finishRun`, `Trigger`, `Pause`, `Resume`, `ReleaseAll` |
| Process runner, `runner_exec.go` | per owned run: process group, exit result, the goroutine between TERM and KILL | `Start`, `Wait`, `Kill` |
| Schedule, `internal/schedule` | none | `Spec.Next`, `FiresBetween` |
| Store, `internal/store` | tables `runs`, `live_runs`, `paused_tasks` | `StartRun`, `FinishRun`, `FinishRunUnknownExit`, `RecordMissed`, the live-run registry, `LastRun`, `LastSuccess`, `Prune`, … |
| Daemon life cycle, `cmd/serve.go` | the serve loop, the listener | start, reload, tick, daily prune, shutdown with an HTTP drain |
| HTTP API, `internal/api` | none (the engine's and the store's) | trigger, pause, resume, reload, reads |
| LaunchAgent management, `cmd/install.go` | the plist, the copied binary; launchd's registration and disable record | `install`, `start`, `stop`, `uninstall` |
| Notification hooks, `cmd/hooks.go` | the hooks of the last successful load | run a hook command per event |
| Status view, `engine/status.go` | none | next start, state, overlap figures |
| Log rotation, `internal/logrotate` | the log file, its size, numbered old files | `Write`, rotate |
| Configuration, `internal/config` | none (the files; the daemon keeps what it loaded) | load, expand, validate, locate |
| CLI, `cmd/*.go` | none | argument parsing, HTTP client, tables |

### How they interact

* The serve loop, every HTTP handler and the `watch` goroutine of each owned run
  call the engine; `e.mu` serialises them. What a handler saw before it took
  the mutex may be stale: a run's result waits in a channel while a tick or a
  `Configure` holds the mutex.
* The engine writes the store inside its critical sections, one autocommitted
  statement at a time. A crash falls between any two of them.
* Run processes outlive the daemon. A stopped or crashed daemon leaves them to
  the next one, which finds them through `live_runs` by pid *and* process start
  time, because the kernel reuses pids.
* `execHandle.Kill` sends TERM and a goroutine sends KILL after a grace; that
  goroutine dies with the daemon, whereas the escalation for an adopted run is
  driven by ticks.
* A reload runs in the serve loop (SIGHUP) or in an HTTP handler; `reloadMu`
  serialises them with each other and with the read of `retentionDays` by the
  prune, and `e.mu` is taken and released twice inside (`Configure`,
  `SetNotifier`). Files may be edited while they are read.
* Each event runs its hook on a goroutine of its own, which logs how it ended;
  the log is shared with the serve loop under a mutex of its own.
* launchd acts on its own between any two launchctl calls of a CLI command.

### What is hard, and what makes each component correct

* *Engine and store*: one process per task at a time over any number of
  daemons; every fire ends up in one row; no fire waits for ever; no closed row
  changes; the row of a live process is open and somebody will close it; a
  signal reaches a process that is not a run only in two windows that the engine
  leaves open, and never a run nobody asked to kill;
  the watermark's spacing holds whichever daemon made the last attempt; pause
  and streak agree with their persistent or historical counterparts.
* *Runner*: a process that ignores TERM ends all the same.
* *Daemon life cycle*: the stop, the HTTP drain and the next start, in any
  interleaving with requests and exits, keep the properties above.
* *LaunchAgent*: a stop survives logins, whatever fails leaves something that
  can be booted or nothing, and a command that reports success is right.
* *Configuration, reload, hooks, rotation, retention*: what is in force comes
  from one load, is valid, and is at least as new as the last reload that was
  answered with success; an overrun alert comes once per undisturbed streak; no row
  goes before its time; the log stays in order and, unless a single rename fails,
  loses only its oldest lines; a stop ends the daemon.
* *Status*: a run begins when the outlook said it would.

`PROJECT.json` gives the hazards one by one, with the line where each bites and
the property that would catch it, or the reason why none does. Where the code
does not do what the repository says of it, section 3 says so, under "Findings"
and "Further disagreements".

## 2. The modules

| Module | Models |
|---|---|
| `Schedule` | `schedule.go`: a cron expression is the set of instants it fires at |
| `RunStore` | the table `runs` as a sequence of rows (the id is the position) and the statements on it, as operators |
| `Engine` | the engine, the runner with the kernel's pid table, the registry and the daemon's life cycle; extends `RunStore` |
| `FireLedger` | abstract: a ledger of runs and missed fires to which entries are only added, in which a run ends once and runs alone, and at most one waiting fire |
| `EngineLedger` | the refinement mapping from `Engine` to `FireLedger` |
| `Status` | the outlook of `engine/status.go`, computed from `Engine`'s state |
| `Config` | `internal/config`: `Load`, defaults, effective values, `Validate`, as operators on decoded files |
| `LogRotate` | `internal/logrotate`: the log files and what a write does to them, as operators |
| `Daemon` | `cmd/serve.go` and `cmd/hooks.go`: load and reload, signals, ticks, prune, hooks, log, stop and crash; extends `Config` and `LogRotate` |
| `DaemonMC` | contents of the configuration files for TLC |
| `DaemonProofs` | seven safety theorems of `Daemon` |
| `LogRotateProofs` | lemmas on what a write and a rotation do to the log |
| `EngineMC` | task configurations for TLC, the hash for jitter, symmetry of pids |
| `RunStoreProofs` | lemmas on the fire sets, the history and its updates |
| `EngineProofs` | types, queue, history and pause flag of `Engine`: four theorems |
| `EngineRunProofs` | ids, handles, registry and signals of `Engine`: what a step can do, and a theorem |
| `EngineTrackProofs` | runs across ticks, reloads, restarts and crashes: six theorems |
| `EngineLedgerProofs` | fires, streak, start times, the status shown and the refinement of `FireLedger`: six theorems |
| `LaunchAgent` | the four CLI commands of `install.go` against launchd |
| `LaunchAgentMC` | the symmetry of homes, for TLC |
| `LaunchAgentProofs` | type correctness and three safety theorems of `LaunchAgent` |

A definition whose name has a suffix after an underscore (`SetPaused_InMemory`) is a
mutant: what a plausible bug would make of the definition without the suffix.
No specification uses it.

### Engine: state and atomicity

One task is modelled. Tasks share the mutex, the clock and the id sequence;
nothing the engine does for one reads another's `taskState`. `cfg` is what
`tasks.d` says of the task (`NoTask` when it does not mention it); the fields of
`taskState` are variables of their own; `rows`, `live`, `pausedDb` are the
tables; `owner` and `sig` are the kernel's side (whose process has a pid, the
strongest signal it has got); `handles` are the `execHandle`s of the running
daemon. Values of `owner` double as process start times: the identity recorded
in `live_runs` is the id of the run the process was spawned for, and `NoId` is
the empty string `processStartTime` returns when `ps` says nothing.

The mutex is `pc`. A handler that holds it is cut into steps where a crash or an
exiting process can be told apart, and only there:

| `pc` | reached by | has happened | has not |
|---|---|---|---|
| `free` | | | |
| `due` | first half of `tickTask` | limits enforced, adopted run settled | the fire |
| `spawn` | `startRunLocked` | the row is inserted | the fork |
| `register` | `startRunLocked` | the process runs | the registry row |
| `clear` | `finishRun` | the row is closed | the registry row is gone, the queued fire started |

| Actions | Code |
|---|---|
| `EnforceOwned`, `EnforceAdopted`, `SettleAdopted` | `tickTask`, first half; exactly one of them is possible in a tick |
| `NothingDue`, `FireWatermark`, `StartFire`, `MissFire`, `QueueFire`, `RestartFire` | `tickTask`, second half, with `handleFire` and the backlog rows |
| `Spawn`, `LaunchFail`, `Register` | `startRunLocked` and `ExecRunner.Start` |
| `RecordFinish`, `ClearFinished` | `finishRun`, called by a run's watcher |
| `Trigger`, `Pause`, `Resume`, `Reload` | the requests; `Reload` is `Configure` |
| `Start`, `ReleaseAll`, `Drained`, `Crash` | `runServe`: `Configure` before all else, `ReleaseAll` before the HTTP drain, the end |
| `KillTimer` | the goroutine of `execHandle.Kill`, also on a pid that `Wait` has reaped: its `select` may take the timer |
| `ProcessExit`, `PidReused`, `StrangerExit`, `ClockAdvance` | the kernel and the clock (external) |

`Wait` frees a pid as soon as it returns, before `finishRun` gets the mutex: a
handle with a result (`Reaped`) keeps its pid, which may by then be anybody's.
`PidReused` may come at any moment at which a pid is free, inside a handler too,
except for the pid of a process that has just been forked and looked at by no `ps`
yet. Of the kill goroutine a reaped handle keeps the timer only if the grace is
over, when both cases of the `select` are ready.

`ticked`, `armed` and `born` are auxiliary: no action's effect on the other
variables depends on `armed` or `born`; `ticked` makes the unit of time the
tick interval.

Simplifications, each deliberate:

* Store writes succeed. The code carries on after a failed one, or logs it.
* `Configure` and `RecordBacklog` write several rows in one step; a crash
  between two of them is not told apart.
* The time a tick carries is the time at which it runs. The scheduler blocks on
  the mutex for at most the length of another handler.
* `EnforceAdopted` looks at the adopted process and signals it in one step; the
  code runs `ps` in between. That another process can get the pid there is
  the same window as between the look and `RestartFire`, which is modelled (`due`).
* Several fires of one instant collapse, as in the code, whose cron resolution
  is the minute.
* A summary row keeps the interval of the fires it stands for (`upto`); the
  code keeps it as text.
* A pruned row keeps its place in `rows`, marked `pruned`; every query of the
  history passes over it. The prune of a start and the daily one are the action
  `PruneHistory`.
* A second daemon (`SecondServe`) does what `serve` does before its `Listen`
  fails: `Configure` with an engine of its own, of which only the changes to
  the tables outlive it.
* Log paths, hooks and the rest of the views are left out; hooks are `Daemon`'s.

### Daemon: state and atomicity

`Daemon` has the side of `runServe` that `Engine` has not: of the engine it keeps
the tasks in force, the notifier, the threshold and the streak, and which
events it emits. A caller of `reload()` (the serve loop or a request) is at one
of the `Points` between its statements; `got` is its local `ncfg`, `held` is
`reloadMu`. A load reads `config.toml` in one step and the files of `tasks.d` in
another, so that an edit may fall between them. `inForce` has the three things
a reload replaces, one statement each, by the load they came from; `edition`
counts the edits, and a load is as old as the edition it began to read.

| Actions | Code |
|---|---|
| `LoadDaemon`, `LoadTasks` | `loadValidated`, for the start and for a reload |
| `Start`, `Serve` | `runServe` up to the serve loop |
| `AskReload`, `Hangup`, `Lock`, `InstallTasks`, `SetNotifier`, `Finish` | the two ways into `reload()`, and its statements |
| `Tick`, `ReadDays`, `Prune` | the ticker's branch, with the streak of `noteFireOutcome`, and the prune around its use of `reloadMu` |
| `RunFails`, `HookEnds` | the failure event of `finishRun`; the end of a hook and its log line |
| `Deliver`, `Shutdown`, `Drained`, `Crash` | signals, before and after `signal.Notify`; the stop; a crash |
| `Edit`, `NextDay` | the files' owner; the clock and the history (external) |

One task's fires stand for all: the streak is the first task's. A file is the
record the TOML decoder delivers. Rows are the days they were written on. The
log is its lines, each with a number and a length. Each rename of a rotation fails
or succeeds by itself (`Failures` is every set of them), since the code ignores
each error on its own, and a crash may fall after any of them. That the new
active file cannot be opened is left out. Four variables or fields are auxiliary: `degraded` (the
active file could once not be renamed) and `holed` (a file that could not be
renamed was replaced by the next) of the log; `alerts`, the alerts since the last
fire on time, and `disturbed`, how often since then a reload has forgotten a
streak or changed its threshold.

### LaunchAgent: state and atomicity

`plist` and `bin` are the files, `disabled`, `service`, `program` launchd's
side, `cli` the command under way with the step it is at, `told` what the last
command told the user. Each launchctl call and each file operation is a step.
launchd is external and modelled as the code and its comments rely on it: a
bootout begins a teardown that ends later, `launchctl print` still succeeds
meanwhile, bootstrap is refused for a disabled or a still registered service,
RunAtLoad and KeepAlive start the program of a loaded service, a login loads
what is installed and not disabled. One command runs at a time. A copy is a
single step because it is a temporary file and a rename; writing the plist is
not atomic and an interruption can leave it `Broken`. The fault `ignored` lets
a bootout or enable, whose results the code does not look at, do nothing;
`StopHolds`, `NoTraceLeft` and `RunsAsTold` do not hold with it, and the run
leaves it out. `SlowestTeardown` is how many of `start`'s re-checks a teardown
can outlive: the code's six re-checks in 3 s assume that it is fewer than all.

## 3. The runs

| Run | Expect | What it asks |
|---|---|---|
| `engine_cron` | pass | three overlap policies and catch-up off, late and capped ticks, manual runs, failing launches, failing `ps`; one daemon |
| `engine_restart` | pass | three daemons: stops, crashes, reloads, pids reused at any moment; timeout, log cap and kill-and-restart on owned and on adopted runs |
| `engine_reload` | pass | pauses, and reloads that change, disable, remove and bring back the task while it runs or is queued, also in the drain; a second daemon that fails to listen |
| `engine_watermark` | pass | watermark tasks, failing runs, stops and crashes, also with a row inserted and nothing spawned, and a history that is pruned |
| `daemon` | pass | overlapping and failing reloads by signal and request over files under edit, hooks, log rotation with any set of renames that fail, prune, signals at any time, crashes |
| `engine_live` | pass | liveness under fairness and punctual ticks, two daemons, processes that ignore TERM; jitter |
| `launch_agent` | pass | every sequence of the four commands with failures, interruptions, crashes, logins |
| `engine_drain` | violation | a late request starts a second process |
| `engine_launch_loop` | violation | a failing launch is retried at every tick |
| `engine_lost_fire` | violation | a removed task's queued fire vanishes |
| `engine_jitter` | violation | a late tick starts a fire ahead of its jitter |
| `launch_reinstall` | violation | an install over a running daemon leaves it down |

### The properties

* `NoDoubleRun`: no two live processes of the task's runs, whoever holds them.
* `FiresAccounted`: of the fires since `nextFire` was last computed from the
  clock, each one before `nextFire` is the queued one or is in exactly one row,
  its own or a summary's. An action property could not say it: a fire may wait
  in the queue for several daemons' worth of steps.
* `QueuedBehindARun`, `QueuedFireSettles`: a fire waits only behind a run, and
  with a timeout set gets its row in the end.
* `ClosedRunIsDead`, `OpenRunIsTracked`: the history and the kernel agree in one
  direction each: no live process has a closed row; every open row is one the
  registry, or the handler at work, leads to.
* `ClosedRowsStay`, `ReapedExitRecorded`: watcher, tick and `Configure` may all
  close the same row; the exit a daemon reaped is the one that stays, also when a
  reload finds the process dead and its watcher waits for the mutex.
* `StrangerSpared`: a signal to a process that is no run of the task is one to the
  pid of a child that has been reaped and not yet recorded, or of an adopted run that the
  same tick has found alive. There is no third way: no registry entry, adoption or
  restart leads to one.
* `KilledAsConfigured`: signals go to runs only as configured, over changes of daemon.
* `StreakCounts`: the overrun streak is what the history says.
* `LiveRunIsTracked`: a live process is in the registry or being started. So the
  next daemon finds it when this one dies in a tick, in `finishRun` or between row
  and fork; not when it dies between the fork and the registry row.
* `ImplementsFireLedger`: the history and the queue behave as `FireLedger`, over
  stops, crashes and adoption: runs alone, fires in order and at most once,
  ended once, the queued one lost only with its daemon. It is not asked of two
  runs where it does not hold: a task changed from cron to watermark by a
  reload may take the instant of a fire again (`engine_reload`), and a second
  daemon may close the row of a dead process that the first still holds the
  task for.
* `StatusForetells`: a run the engine begins by itself begins at the time the
  outlook showed, or after the current run if it showed that; a start shown as
  due is not passed over. Checked where ticks are punctual (cron) or the task
  is a watermark, without pauses and reloads.
* `InForceIsOneLoad`, `ReloadApplies`, `InForceIsSound`: what a reload leaves in
  force is one load, no older than what was asked for, and only what `Validate`
  lets through (stated by what the engine relies on, not by `Validate`).
* `StreakAlerted`: from one fire on time to the next, one alert if the streak has
  reached the threshold and none before; and at most one more for each reload or change
  of the threshold that came under a streak. How many late fires a reload makes the
  engine forget it does not bound: see the disagreements below.
* `RecentRowsStay`: no row goes that is younger than the least retention the
  files ever asked for. `LogWhole`: the files of the log hold lines in the order
  written, the last one among them, within the cap; and without a gap, unless a file
  that could not be renamed has been replaced (`holed`). `StopHeard`: a stop that reached the
  daemon ends it, whatever reload failed or is under way.
* `PauseRemembered`: the flag in memory is the one in the table, over stops, crashes,
  reloads, removals and returns of the task.
* `WatermarkSpacing`, `NoEarlyStart`, `LimitedRunCloses`: see
  the comments in `Engine`.
* `AimedAtABinary`, `StopHolds`, `NoTraceLeft`, `RunsAsTold`: see `LaunchAgent`.

### The bounds, and why they are enough

* Two pids: a second process is all that `NoDoubleRun` needs, and a reused pid
  needs only one.
* Three daemons (`MaxStarts`): the run of the first, adopted by the second, is
  found again by the third; two daemons where only one stop matters.
* Four or five instants with fires at all or most of them: a tick that is three
  instants late finds a backlog beyond the detail limit of 1 and a batch beyond
  the cap of 2, so summaries, single rows and capped batches all occur.
* `MaxRows` keeps room for what a tick can write, so that no fire goes
  unrecorded because of the bound (`Room`, `TickStarts`).
* `KillGrace` 1 and timeouts of 1 or 2 let a TERM and a KILL fall under
  different daemons. `OnTimeSlack` 0 makes any delay of one tick late.
* `engine_live` has a horizon of 10, enough for a run that starts by
  `LastChance` to be timed out, signalled and settled once per daemon.
* `daemon`: five moves of the environment (start, edit, request, signal, day,
  crash, event; what the daemon itself does is free), at most two of them edits.
  Two callers of `reload()` are what its lock arbitrates: a request and the
  loop. Five contents of `config.toml` (defaults, explicit, refused by
  `Validate`, by `Load`, by the start only) and three of `tasks.d`. Lines of 1
  and 3 against a cap of 2, and two old generations, rotate on almost every
  line. Retention 1 or 2, threshold 1 or 2: reached within the moves.
* LaunchAgent: two homes (an install can move the binary), three re-checks
  instead of six, and a teardown that may outlive two of them.

`CHECK_DEADLOCK FALSE` because at the last instant an idle engine may stop: the
clock is bounded; in `LaunchAgent`, an uninstalled agent need never do anything.

### Fairness

`FairSpec` has weak fairness of: the tick (the serve loop's ticker), `Spawn` or
its failure, `Register`, `RecordFinish`, `ClearFinished` (straight-line code
under a mutex that every handler releases), `Drained` (a timeout of 3 s bounds
it), `KillTimer` (a goroutine that sleeps), `Start` (KeepAlive), `ClockAdvance`,
and of the exit of a process that has got KILL. There is none for the exit of a
process on its own or on TERM, for requests or for reloads. `LaunchAgent` has
weak fairness of `KeepAlive` and `TeardownDone` only: launchd's own promises;
no command need ever be typed, nor a begun one finished. `Daemon`'s `FairSpec` has
weak fairness of `Main` (what the main goroutine does next, apart from ticks;
`select` takes a pending signal in the end) and of each request's `Reload`;
none of hooks, edits or signals.

### Findings

1. `engine_drain`. The shutdown calls `ReleaseAll` (`cmd/serve.go:149`) and then
   drains HTTP for up to 3 s. A trigger still in flight finds a task whose run
   has just been disowned, and starts a second process beside it. The README
   says "so a task cannot double-run across a restart".
2. `engine_launch_loop`. `lastAttemptStart` advances only after a successful
   `runner.Start`, so a watermark task whose command cannot be started is tried
   at every tick. The comment promises "retries at the same cadence instead of
   crash-looping".
3. `engine_lost_fire`. A reload that removes a task drops its queued fire; no row
   says so. `store.go`: "Every planned fire ends up as exactly one row".
4. `engine_jitter`. After a late tick only the first fire's jittered time is
   compared with the clock; the latest raw fire is then started ahead of its own
   offset.
5. `launch_reinstall`. `install` boots the running daemon out and bootstraps
   without waiting for the teardown that `start` knows to be asynchronous; if
   it is still going on, bootstrap is refused, and the daemon that ran before
   the install does not run after it.

### Further disagreements

Where the code does something else than a comment or a document says, and no run
is given to it: each can be seen by the change named here to a configuration or a
property, and the properties of the passing runs are stated so that they hold.

1. *A signal can reach a stranger.* `CHANGELOG.md:36` says that a reused pid "can
   never be adopted or signalled", likewise `README.md:230-231`; `engine.go:114-116`
   that it must be "finalized, never killed". `execHandle.Kill` does not look
   at the process, and `cmd.Wait` (`runner_exec.go:56`) frees the pid before
   `finishRun` gets the mutex. Without the exceptions of `StrangerSpared` TLC finds, on the
   instance of `engine_restart`:
   * by a tick: … `Spawn`, `Register`, `ProcessExit`, `PidReused`, `ClockAdvance`,
     `EnforceOwned`, whose TERM for the timeout goes to the new process;
   * by the late KILL: … `RestartFire` (TERM), `ClockAdvance`, `ProcessExit`,
     `PidReused`, `KillTimer`;
   * between look and signal: … `Register`, `Crash`, `Start`, `ClockAdvance`,
     `EnforceAdopted` (found alive), `ProcessExit`, `PidReused`, `RestartFire`.
2. *A crash between fork and registry row loses the run.* `engine.go:683-687` wants
   every run "adoptable after ANY daemon end", and so do `README.md:228-233` and the
   changelog of 0.4.0. With `"register"` among the `CrashPoints` of
   `engine_restart`, `NoDoubleRun` is violated by … `Spawn`, `Crash`, `Start`,
   `ClockAdvance`, `EnforceOwned`, `StartFire`, `Spawn`, and of `LiveRunIsTracked`, put in place
   of it, by … `Spawn`, `Crash`.
3. *The pause survives a restart.* The comment on the field, `engine.go:152-154`, calls it
   "runtime-only" and says that it "does not survive a daemon restart"; `Pause`
   (`engine.go:770-772`) writes it to the store for that purpose and `Configure` reads
   it back. `PauseRemembered` states what the code does.
4. *A reload disturbs the overrun alert.* `engine.go:106-108` says that the event fires at
   exactly the threshold and "re-arms after an on-time fire". `Configure` makes every
   `taskState` anew and leaves the streak behind. With a threshold of 3, late, late,
   reload, late gives no alert; three late fires, reload, three late fires give two.
   On the instance of `daemon`, `alerts < 2` is violated by a late tick, a reload and
   a late tick at threshold 1.
5. *One failing rename loses lines.* `logrotate.go:14-15` says that a failure
   "degrades to appending in place rather than losing lines". The error of each
   `os.Rename` is ignored by itself (`57-60`): when `.1` cannot become `.2` but the
   active file can become `.1`, the lines of the former `.1` are gone while older ones
   stay. `LastLinesKept(log)` as an invariant of `daemon`, without the exception
   for `holed`, is violated.

A sixth is harmless: `config.go:103` says that hook changes need a restart of the
daemon; a reload replaces the notifier (`serve.go:98`, and the README says so).

## 4. The theorems

All hold for every value of the constants that satisfies the modules'
assumptions (`EngineAssumption`, `ScheduleAssumption` — a watermark has no cron
expression, as `Validate` demands —, `LaunchAgentAssumption`, `DaemonAssumption` and those
of `Config` and `LogRotate`): any set of
configurations, any pids, every event and crash point, any bounds. A theorem
that needs less than every event or crash point has an assumption of its own,
named below. Each of those exclusions is necessary: without it TLC finds a
violation on a small instance, and the hazards of `PROJECT.json` or a run that expects
a violation tell the story. The runs that check the property are inside it.

### Engine: types, queue, history, pause (`EngineProofs`)

* `TypeCorrect`: `Spec => []TypeOK`. `TypeOK` is not inductive: the
  step from `spawn` to `register` reads the row the handler's local names, and
  a tick's second half needs the configuration its first half saw. `HandlerOK`
  adds what the local variables of the handler mean at each `pc`; `TypeInv` is
  the conjunction. One lemma per group of actions, then one for `Next`.
* `QueueBehindRun`: `Spec => []QueuedBehindARun`. Inductive
  with `QueueInv`: a task never holds an owned and an adopted run at once
  (otherwise the end of one would start the queued fire beside the other), a handler that is
  starting a run found the task idle with an empty queue, and ids are never 0.
* `ClosedRowsKept`: `Spec => ClosedRowsStay`. Every update of
  the history `Keeps` its closed rows; `Keeps` is reflexive, transitive, and
  holds of appending, of the guarded `FinishRun`, of the bulk close of
  `Configure`, of a second daemon too, and of `Prune`, which takes closed rows
  whole and only beyond the retention; it uses `TypeInv` only.
* `PauseKept`: `Spec => []PauseRemembered`. The flag agrees with the table
  whenever a daemon is in service with the task, also in the drain and inside
  every handler (`PauseInv`): `Configure` reads it for a new task and otherwise
  carries it over.

### Engine: runs and their processes (`EngineRunProofs`, `EngineTrackProofs`)

The proofs first show, once for all invariants, what a step can do at all: to
the history (`StepHistory`: it only grows, and the one row a step may close is
named), to the registry, handles and processes (`StepFewer`: only `Spawn` and
`Register` add any), to the handler's locals (`StepMutex`). `RunInv` is the
conjunction of `TypeInv`, `QueueInv` and

* `IdsInv`: a new run's id is one that no handle, registry entry or process
  has; `ChildInv`: a handle without a result is about the process that has its
  pid, and no process is left of one with a result, whose pid may be anybody's; `HeldInv`: what `taskState.running` says of its
  handle is true until `finishRun` has forgotten it; `RegistryInv`: an adopted run
  and its registry entry agree; `SignalInv`: a pid nobody has has no signal.

`RunInv` holds without exclusions, `ps` failing, a second daemon and every crash
point included, and gives

* `StrangersSpared`: `Spec => StrangerSpared`, an action property. Only four actions send signals
  (`Signalling`, `StepSignal`). `StrangerHit` takes them in turn: an owned run is
  signalled by its handle, whose pid is a stranger's only if it has a result; an adopted
  run by pid, in the step that looks at it or, for `RestartFire`, at `due`, when the first
  half of the tick has looked. Those are the two windows the property names.

On top of it, each with an invariant of its own:

* `LiveRunTracked`, `ClosedRunDead`: `LiveRunIsTracked` and `ClosedRunIsDead`, from `TrackInv`: the
  row of a live process is open and an entry with its pid and start time leads to
  it, or the handler at `register` will see to that. `TrackAssumption` excludes a
  crash at `register` (an orphan in no table) and a failing `ps` (`Configure` and
  ticks take the process for gone and close its row).
* `NeverTwoRuns`: `NoDoubleRun`, from `SingleInv`: when a daemon is up with the task,
  every live process is the one it owns or the one it has adopted, and in the drain it
  owns none. `SingleAssumption` adds that a
  trigger may not come late, in the drain (finding 1). Late reloads are allowed, and
  removals that leave a process running: the return of the task adopts it.
* `OpenRunTracked`: `OpenRunIsTracked`, from `OpenInv`: at `clear` the row is settled
  already. `OpenAssumption` excludes crashes between the row and the registry entry.
* `KillsAreConfigured`: `KilledAsConfigured`, from `StartInv` (the start times held in memory
  and in the registry are the row's, over any number of daemons) and `KillInv`
  (a KILL that is pending has the reason the TERM had; `ChildPids`: the pid of a child
  is never another run's, so that a late KILL or TERM hits no run but its own).
  `KillAssumption`: the configuration is not edited, since a new one gives no reason for
  what an old one began; and no trigger is served in the drain, since the second run it
  starts may get the pid of the first, whose KILL is pending.
* `ReapedExitKept`: `ReapedExitRecorded`, an action property, from `ReapInv`: an exit that
  waits for `finishRun` finds its row open. `ReapAssumption` excludes second daemons
  and prunes, and where reloads occur, late requests and edits that remove the task:
  each of them lets `Configure` take a child of this daemon for a stranger's leftover
  and close its row without the exit code (`ServedInv` says when it cannot).

### Engine: the fires, and the refinement of `FireLedger` (`EngineLedgerProofs`)

* `EveryFireOnce`: `Spec => []FiresAccounted`, for every event and crash point. Two invariants
  carry it. `OrderInv`: the queued fire and the fire of every row but a manual run's
  are before `nextFire` and not after the clock, and `nextFire` is one of the cron
  expression's fires. `AccountInv`: each fire after `armed` and before `nextFire` is
  `Accounted`, in the queue and in no row, or in one row only. Three lemmas about the
  schedule do the work of a tick: the elapsed fires are in order, from `nextFire` to the
  last one handled (`ElapsedOrder`), none of the task's fires in between is left out although
  `FiresBetween` is capped (`ElapsedHas`), and the backlog covers each but the last
  once, by rows of their own or by one summary (`BacklogCovers`). `AccountFire` adds the
  last one, in the queue or in its row, and the one it may displace from the queue;
  `AccountSame` is for the other steps, which leave `nextFire` alone or compute it from
  the clock (`AwaitStep`) and move the queued fire into a row at most. `ScheduleAssumption` is needed
  since a watermark's rows are about due times, which could otherwise coincide with a fire.
* `LedgerImplemented`: `Spec => ImplementsFireLedger`. `rows` is mapped entry by entry to the
  ledger, `queued` to the fire that waits. Besides `OrderInv` two more invariants, which TLC
  confirmed on the instances of `engine_cron`, `engine_restart` and `engine_reload` (cron tasks only),
  carry it:
  * `AloneInv`: at most one row is open, that of the run being started or of the one the
    engine holds. `FireLedger`'s starts need it: they ask for a ledger without a running entry.
  * `BusyInv`: conversely, the run the engine holds is open until `finishRun` has closed its
    row. A fire that is queued waits for a running entry; the stored process
    identities decide here, since an adopted run counts as held until a tick has looked.
  With `OrderInv`, `ElapsedOrder` and `BacklogFires` each fire that a tick takes is `Fresh`.

  `LedgerStep` then takes the actions in turn. `StartFire`, `MissFire` and `QueueFire` map to the
  ledger's actions of the same names; `RestartFire` to `QueueFire` or, with a fire in the queue,
  `ReplaceFire`; the ends of runs (`SettleAdopted`, `ClearFinished`) to `StartWaiting` or,
  with an empty queue, `Rest`; `ReleaseAll` to `DropWaiting`; `Trigger` to `StartManual`; a death or
  the removal of the task to `Forget`; everything else to `Rest`.
  `LedgerAssumption` excludes crashes in the middle of a start (an open row
  that no daemon will hold), prunes and second daemons (they end an entry under a run
  that goes on), triggers in the drain (finding 1), and watermarks: the due time of a
  watermark is computed from its last run, so that after an edit, a failed launch or a
  restart the same or an earlier one can come again.
* `StreakIsHistory`: `StreakCounts`, from `StreakInv`: the streak is the number of rows that
  are `Behind` (late, after `born`, and with no row on time after them) and one more
  for a queued fire. `BehindNext` says what one more row does to that number, `BehindSame`
  that closing, pruning and the rows of backlogs and manual runs do nothing. The run
  that starts a queued fire takes its place in the sum. A watermark that never ran has streak
  0, since its first run is recorded as on time and leaves the streak alone.
  `StreakAssumption` excludes reloads: they set the streak to 0 and keep the queued fire.
* `NeverEarly`: `NoEarlyStart`, from `EarlyInv`: the queued fire and the fire of every row that
  started have been `Reached`, and the fire that is `Awaited` is not overdue, nor even
  due once the tick of this instant is over. So a punctual tick finds the awaited
  fire and none beyond it (`DueReached`). `JitterAssumption` has two cases. Without jitter nothing
  is excluded. With jitter, ticks must be punctual (a late one takes the latest elapsed
  fire, whose own jitter may still run: `engine_jitter` shows it), a fire's
  jitter must not reach the next fire (the tick that finds the one due would find
  the other elapsed), and the file is not edited, for a new jitter says
  nothing of runs that started under the old one.
* `AttemptsSpaced`: `WatermarkSpacing`, from `SpacingInv`, which has three parts. `SpacedInv` is the
  property for all pairs of rows, with the dates it needs; a row may be deleted only when
  an interval has passed since. `LatestInv`: a child, and a run at `spawn`, `register` or
  `clear`, is the last of the history. `MemoryInv` relates memory to the history:
  each start is covered by `lastAttempt` and each success by `lastSuccess`, unless an
  interval has passed since or the handler is about to write it (`Starting`, `Clearing`).
  A daemon that dies there loses what it was about to write, and `RecoveredRemembers` shows that
  a start recovers at least as much from the rows that are kept. TLC found no violation of
  `SpacingInv` on instances of `engine_watermark`. `SpacingAssumption` excludes
  launches that fail (`FailedLaunch` leaves the time of the attempt alone: finding of
  `engine_launch_loop`), edits (a longer interval says nothing of runs under the
  shorter), triggers in the drain (a second run), and, where prunes occur,
  an interval longer than the retention: the last success could be deleted before it
  has lost its meaning. For a launch to succeed there must also be a free pid: `Pids` is
  infinite, or only the task's one process takes any (`PidInv` keeps the pids taken
  finite). The instance of `engine_watermark` satisfies all of this; with infinite
  `Pids`, crash points, `ps` failures, second daemons and pid reuse are not restricted.
* `StatusIsKept`: `StatusForetells`, an action property, from `ForetoldInv`: a fire waits only for a task that
  is enabled, not paused and no watermark, so that the status shows "after the current
  run", and where ticks are punctual (`Timely`) `EarlyInv` says that the awaited fire is
  not overdue. `BegunBy` finds where a new run can come from: a watermark that is ready, whose
  shown time is then now (`WatermarkForetold`); a cron fire, where a punctual tick finds the
  awaited fire at its jittered time and none beyond (`FireForetold`, by `DueReached`); or the
  queue. `NothingForetold` is the other half, a tick that begins nothing.
  `StatusAssumption` excludes pauses and edits, since the queued fire starts even so while the
  status says "none", and late ticks for cron tasks; watermarks may tick late.

### Daemon (`DaemonProofs`, `LogRotateProofs`)

One inductive invariant, `DaemonInv`, with one part per theorem:

* `PartsBelongTogether`: `InForceIsOneLoad`. `ReloadInv`: whoever is inside `reload()` holds the
  lock, except the loop
  while it reads the files of a start, when no request exists (`Mutex`), and
  the parts already replaced are the caller's load (`Stages`). Any number of
  requests, any files.
* `SuccessMeansApplied`: `ReloadApplies`. `FreshInv`:
  the load a caller has in hand is no older than its request, nor than any
  part in force (`Newest`), which is where the lock around the *read* of the
  files matters: read outside it, an older load could win.
* `AlertsOnce`: `StreakAlerted`. `AlertInv`: a load
  that `Validate` has let through has a threshold of at least 1, hence so has
  the engine while it serves (`Loads`); the alerts so far are at most the disturbances and,
  if the streak has reached the threshold, one (`Alarm`);
  any thresholds, any interleaving of fires with reloads and restarts.
* `LogStaysWhole`: `LogWhole`. `LogKept`: the generations are in order (`Sorted`) and, unless the log is
  `holed`, hold consecutive runs of lines that
  end at the last one (`Numbered`); while a daemon serves, its Writer's size is
  the active file's. `LogRotateProofs` has the lemmas: a write appends or rotates first; one
  rename keeps `Sorted` (`RenameSorted`), and `Numbered` if its target is empty or the
  oldest generation (`RenameNumbered`). `Stage` describes the log after some of the renames, of
  which any set may have failed, where a crash may leave it: `StageStep` and
  `ShiftedStage` carry it from one to the next. `LogInvLast` and `LogInvWhole` conclude.
  Any cap, generations and lengths.
* `SoundInForce`: `InForceIsSound`. `SoundInv`: what a caller carries past `Validate` is what the
  engine can rely on, at each of the points to the last statement (`HeldLoads`), and
  the days a prune uses are those of some load, though the lock is released
  (`SoundDays`).
* `DaemonTypes`: `TypeOK`, with the types of the loads that callers carry.
* `RowsStay`: `RecentRowsStay`, an action property, from `SoundDays`.

### LaunchAgent (`LaunchAgentProofs`)

* `LaunchTypeCorrect`, `PlistAimed`, `StoppedStays`: from
  `LaunchInv`, the conjunction of `TypeOK`, `AimInv` (an install that has not
  yet copied is not yet past the copy, or needs none) and `StopInv` (once
  "stopped" is told the disable record is set, the service is not loaded, and
  no command is under way).
* `UninstallLeavesNothing`: `NoTraceLeft`, from `TraceInv`: an uninstall
  that has come to `enable` has unloaded the service, one that has come to `remove` has
  also lifted the disable record, and a login, which may load it again, ends the command.

`StoppedStays` and `UninstallLeavesNothing` assume that no bootout or enable fails
unseen (`"ignored" \notin Faults`); the other two hold with that fault as well.

### Lemmas, and what the prover cannot do

The lemmas of `RunStoreProofs` are the operators' contracts: `Earliest` and
`Latest` of a finite nonempty set of integers belong to it and bound it,
`Ascending` yields sequences of its elements, each statement of the store maps
histories to histories and says which rows it leaves alone.

`LogRotate`'s `Bytes` and the concatenation of the files (`FlattenSeq`) are recursive, and
the library's induction theorems take an operator as a parameter. `LogRotateProofs` does
induction over a *set* of naturals instead (`SetInduction`, from the well-foundedness of
inclusion on finite sets), which the provers accept: the set of the numbers for
which the claim holds contains 0 and is closed under successor.

Only model-checked: the liveness properties (`LimitedRunCloses`, `QueuedFireSettles`,
`StopHeard`, `RunsAsTold`), which rest on fairness and are out of the prover's reach. Every
invariant and action property, and the refinement, that a passing run checks is proved,
under the assumptions named above.
No module declares a RECURSIVE operator.

## 5. Not modelled, and why

* *Cron parsing, TOML decoding, name patterns*: the work of libraries; the
  models see a set of instants and decoded records.
* *CLI, the API's JSON and authentication*: stateless formatting and one HTTP
  call each.
* *Failing writes of the store.* The engine ignores most of their errors and
  what is lost is then lost; no statement of the repository says what should
  hold.
* *Opening the log after a rotation fails*: if neither the new nor the renamed
  file can be opened, `rotate` keeps a closed file, every later line is lost and
  every write shifts the generations again, in spite of the comment at
  `logrotate.go:14-15`; a model of it would only repeat the code.
* *Moments at which the core properties do not hold*: a crash between fork and
  registry row (`register`; disagreement 2 above), a `ps` that fails for an adopted run, a removed
  task whose process ends meanwhile. The runs leave them out by `CrashPoints`
  and `Events`; the hazards in `PROJECT.json` say what happens there.
* *The search for the configuration directory*: it reads environment variables
  that launchd does not pass on, so that the daemon may use another directory
  than the commands; processes' environments are not modelled.

## 6. Plan

1. *Prove.* Weaker assumptions: what `LedgerImplemented` says where a crash inside a start
   leaves an open row, with a ledger that allows for it; `StreakIsHistory` over reloads, with
   the rows counted from the last one.
2. *Extend.* The runs that are now left out by `CrashPoints` and `Events`, where
   the repository says what should hold; failing writes.

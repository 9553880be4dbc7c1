------------------------------- MODULE Daemon -------------------------------
(***************************************************************************)
(* The serve process around the engine (cmd/serve.go): loading and         *)
(* reloading the configuration, by signal from the serve loop and by HTTP  *)
(* from request handlers, notification hooks (cmd/hooks.go), the daily     *)
(* prune and the daemon's own log.  Of the engine it models what these     *)
(* touch: the tasks in force, the notifier, the overrun streak, and which  *)
(* events it emits; when a fire comes due is Engine's business.            *)
(*                                                                         *)
(* A caller of reload() is at one of the Points between its statements.    *)
(* Every move of the environment costs one of MaxMoves; that is the bound, *)
(* with MaxEdits of them at most edits of the files.                       *)
(***************************************************************************)
EXTENDS Config, LogRotate, FiniteSets

CONSTANTS
    DaemonFiles, TasksDirs,     \* contents config.toml and tasks.d may have
    Clients,                    \* HTTP requests for a reload
    FailureLen,                 \* length of the line that reports a failed hook
    MaxMoves, MaxEdits

ASSUME DaemonAssumption ==
    /\ DaemonFiles \subseteq DaemonConfig /\ TasksDirs \subseteq Seq(TasksFile)
    /\ {"loop", "nobody"} \cap Clients = {} /\ FailureLen \in Nat \ {0} /\ MaxMoves \in Nat /\ MaxEdits \in Nat

Callers == Clients \cup {"loop"}
NoOne   == "nobody"

VARIABLES
    dfile, tfiles,      \* the configuration files now
    edition,            \* how often they have been edited
    up,                 \* "down", "loading", "serving" (before signal.Notify), "up", "stopping"
    at, got,            \* per caller: where it is, and its local ncfg
    asked, told,        \* per caller: the edition when it asked, the reply it got
    held,               \* reloadMu: who holds it
    inForce,            \* e.tasks, the notifier and retentionDays, by their load
    streak, threshold,  \* the engine's notOnTimeStreak and OverrunStreakThreshold
    alerts, disturbed,  \* auxiliary: since the last on-time fire, the streak's
                        \* events, and how often a reload reset it or changed its threshold
    hookRuns,           \* hook goroutines whose command has not ended
    sigCh,              \* a channel that holds one signal, or "none"
    log,                \* see LogRotate
    day, history,       \* the clock; the days the history has rows of
    lastPrune, days,    \* prune's locals
    moves

files    == <<dfile, tfiles, edition>>
callers  == <<at, got, asked, told>>
alarm    == <<streak, threshold, alerts, disturbed>>
pruning  == <<day, history, lastPrune, days>>
vars     == <<files, up, callers, held, inForce, alarm, hookRuns, sigCh, log, pruning, moves>>

Points == {"idle", "lock", "toml", "tasks", "configure", "notifier", "retention", "days", "prune"}

\* Statements of reload() under reloadMu.
Inside == {"toml", "tasks", "configure", "notifier", "retention"}

Load   == [daemon : DaemonConfig, tasks : Seq(TaskTable), read : Nat, done : Nat]

\* Go's zero value of the config.
NoDaemon == [decodes |-> FALSE, apiKey |-> FALSE, private |-> FALSE, listen |-> "", retentionDays |-> 0,
             threshold |-> 0, hooks |-> [e \in EventTypes |-> "unset"]]
NoLoad   == [daemon |-> NoDaemon, tasks |-> <<>>, read |-> 0, done |-> 0]

Nothing == [tasks |-> NoLoad, notifier |-> NoLoad, retention |-> NoLoad]

Each(v) == [c \in Callers |-> v]

Move == moves < MaxMoves /\ moves' = moves + 1

Alive     == up # "down"
Listening == up \in {"serving", "up"}

Write(len) == log' \in Written(log, len)

-----------------------------------------------------------------------------
(* Events and hooks *)

NotifierSet(d) == \E e \in EventTypes : d.hooks[e] = "command"

\* The goroutines that the notifier of load l starts for these events.
Hooks(l, events) ==
    IF NotifierSet(l.daemon) THEN Cardinality({e \in events : l.daemon.hooks[e] = "command"}) ELSE 0

StreakReached_OrPassed(n) == n >= threshold
StreakReached(n)          == n = threshold

StreakAfter_Decays(onTime) == IF onTime THEN streak - 1 ELSE streak + 1
StreakAfter(onTime)        == IF onTime THEN 0 ELSE streak + 1

\* One due fire: on time it resets the streak, otherwise the streak grows
\* and alerts at the threshold; a fire may also be dropped, with an event.
NoteFire(onTime, missed) ==
    LET n     == StreakAfter(onTime)
        alert == ~onTime /\ StreakReached(n)
        sent  == (IF alert THEN {"overrun_streak"} ELSE {}) \cup (IF missed THEN {"missed"} ELSE {})
    IN  /\ streak'      = n
        /\ alerts'      = IF onTime THEN 0 ELSE alerts + (IF alert THEN 1 ELSE 0)
        /\ disturbed'   = IF onTime THEN 0 ELSE disturbed
        /\ hookRuns'    = hookRuns + Hooks(inForce.notifier, sent)
        /\ UNCHANGED threshold

\* A run of the task exits non-zero or is killed, possibly during the drain.
RunFails ==
    /\ up \in {"serving", "up", "stopping"} /\ inForce.tasks.tasks # <<>> /\ Move
    /\ hookRuns' = hookRuns + Hooks(inForce.notifier, {"failure"})
    /\ UNCHANGED <<files, up, callers, held, inForce, alarm, sigCh, log, pruning>>

\* The command succeeds, fails, or is killed at hookTimeout: a log line.
HookEnds ==
    /\ hookRuns > 0 /\ Alive /\ hookRuns' = hookRuns - 1
    /\ Write(1) \/ Write(FailureLen)
    /\ UNCHANGED <<files, up, callers, held, inForce, alarm, sigCh, pruning, moves>>

-----------------------------------------------------------------------------
(* loadValidated, in three steps of its caller *)

Goto(c, point) == at' = [at EXCEPT ![c] = point]

\* The daemon does not start, or reload returns the error.
Quit_StillLocked(c) ==
    /\ Goto(c, "idle") /\ got' = [got EXCEPT ![c] = NoLoad]
    /\ IF up = "loading"
       THEN up' = "down" /\ UNCHANGED <<told, held, log>>
       ELSE /\ up' = up /\ told' = [told EXCEPT ![c] = "failed"] /\ held' = held
            /\ IF c = "loop" THEN Write(1) ELSE UNCHANGED log

Quit(c) ==
    /\ Goto(c, "idle") /\ got' = [got EXCEPT ![c] = NoLoad]
    /\ IF up = "loading"
       THEN up' = "down" /\ UNCHANGED <<told, held, log>>
       ELSE /\ up' = up /\ told' = [told EXCEPT ![c] = "failed"] /\ held' = NoOne
            /\ IF c = "loop" THEN Write(1) ELSE UNCHANGED log

LoadDaemon(c) ==
    /\ at[c] = "toml" /\ Alive
    /\ IF DaemonLoads(dfile)
       THEN /\ got' = [got EXCEPT ![c] = [NoLoad EXCEPT !.daemon = applyDefaults(dfile), !.read = edition]]
            /\ Goto(c, "tasks") /\ UNCHANGED <<up, told, held, log>>
       ELSE Quit(c)
    /\ UNCHANGED <<files, asked, inForce, alarm, hookRuns, sigCh, pruning, moves>>

Accepts_Unvalidated(d, ts) == TasksLoad(ts)
Accepts(d, ts)             == TasksLoad(ts) /\ ValidDaemon(d) /\ ValidTables(Tables(ts))

LoadTasks(c) ==
    /\ at[c] = "tasks" /\ Alive
    /\ IF Accepts(got[c].daemon, tfiles)
       THEN /\ got' = [got EXCEPT ![c].tasks = Tables(tfiles), ![c].done = edition]
            /\ Goto(c, "configure") /\ UNCHANGED <<up, told, held, log>>
       ELSE Quit(c)
    /\ UNCHANGED <<files, asked, inForce, alarm, hookRuns, sigCh, pruning, moves>>

-----------------------------------------------------------------------------
(* Start *)

Start ==
    /\ ~Alive /\ Move
    /\ up' = "loading" /\ Goto("loop", "toml")
    /\ UNCHANGED <<files, got, asked, told, held, inForce, alarm, hookRuns, sigCh, log, pruning>>

\* No API key, no daemon; otherwise the log, Configure, Listen, and the first prune.
Serve ==
    /\ up = "loading" /\ at["loop"] = "configure"
    /\ LET l == got["loop"]
       IN  IF l.daemon.apiKey
           THEN /\ inForce'   = [tasks |-> l, notifier |-> l, retention |-> l]
                /\ threshold' = l.daemon.threshold
                /\ streak' = 0 /\ alerts' = 0 /\ disturbed' = 0
                /\ up' = "serving" /\ Goto("loop", "days") /\ log' \in Written(Opened(log), 1)
                /\ got' = [got EXCEPT !["loop"] = NoLoad]
                /\ UNCHANGED <<told, held>>
           ELSE Quit("loop") /\ UNCHANGED <<inForce, alarm>>
    /\ UNCHANGED <<files, asked, hookRuns, sigCh, pruning, moves>>

-----------------------------------------------------------------------------
(* reload() *)

AskReload(c) ==
    /\ Listening /\ at[c] = "idle" /\ told[c] = "none" /\ Move
    /\ Goto(c, "lock") /\ asked' = [asked EXCEPT ![c] = edition]
    /\ UNCHANGED <<files, up, got, told, held, inForce, alarm, hookRuns, sigCh, log, pruning>>

Enter(c) == held' = c /\ Goto(c, "toml") /\ told' = told

Acquire_Anyway(c) == at[c] = "lock" /\ Enter(c)
Acquire_OrSkip(c) ==
    /\ at[c] = "lock"
    /\ IF held = NoOne THEN Enter(c)
       ELSE Goto(c, "idle") /\ told' = [told EXCEPT ![c] = "ok"] /\ held' = held
Acquire(c) == at[c] = "lock" /\ held = NoOne /\ Enter(c)

Lock(c) ==
    /\ Alive /\ Acquire(c)
    /\ UNCHANGED <<files, up, got, asked, inForce, alarm, hookRuns, sigCh, log, pruning, moves>>

\* Configure: fresh task states, without the streak; the alerts already
\* given are not taken back.
InstallTasks(c) ==
    /\ up \in {"serving", "up", "stopping"} /\ at[c] = "configure"
    /\ inForce' = [inForce EXCEPT !.tasks = got[c]]
    /\ streak' = 0 /\ disturbed' = disturbed + (IF streak = 0 THEN 0 ELSE 1)
    /\ Goto(c, "notifier")
    /\ UNCHANGED <<files, up, got, asked, told, held, threshold, alerts, hookRuns, sigCh, log, pruning, moves>>

SetNotifier(c) ==
    /\ Alive /\ at[c] = "notifier"
    /\ inForce'   = [inForce EXCEPT !.notifier = got[c]]
    /\ threshold' = IF got[c].daemon.threshold > 0 THEN got[c].daemon.threshold ELSE threshold
    /\ disturbed' = disturbed + (IF streak = 0 \/ threshold' = threshold THEN 0 ELSE 1)
    /\ Goto(c, "retention")
    /\ UNCHANGED <<files, up, got, asked, told, held, streak, alerts, hookRuns, sigCh, log, pruning, moves>>

\* retentionDays, the log line, and the deferred Unlock.
Finish(c) ==
    /\ Alive /\ at[c] = "retention"
    /\ inForce' = [inForce EXCEPT !.retention = got[c]]
    /\ held' = NoOne /\ Goto(c, "idle") /\ told' = [told EXCEPT ![c] = "ok"]
    /\ got' = [got EXCEPT ![c] = NoLoad]
    /\ Write(1)
    /\ UNCHANGED <<files, up, asked, alarm, hookRuns, sigCh, pruning, moves>>

Reload(c) == \/ Lock(c) \/ LoadDaemon(c) \/ LoadTasks(c)
             \/ InstallTasks(c) \/ SetNotifier(c) \/ Finish(c)

-----------------------------------------------------------------------------
(* The serve loop: ticks, signals, prune *)

LoopRests == up = "up" /\ at["loop"] = "idle"

PruneDue == day - lastPrune >= 1

\* At most one fire of the task is due at a tick; then the daily prune.
Tick ==
    /\ LoopRests
    /\ \/ UNCHANGED <<alarm, hookRuns, moves>>
       \/ /\ inForce.tasks.tasks # <<>> /\ Move
          /\ \E onTime, missed \in BOOLEAN : ~(onTime /\ missed) /\ NoteFire(onTime, missed)
    /\ IF PruneDue THEN Goto("loop", "days") ELSE UNCHANGED at
    /\ UNCHANGED <<files, up, got, asked, told, held, inForce, sigCh, log, pruning>>

ReadDays ==
    /\ at["loop"] = "days" /\ held = NoOne
    /\ days' = inForce.retention.daemon.retentionDays
    /\ Goto("loop", "prune")
    /\ UNCHANGED <<files, up, got, asked, told, held, inForce, alarm, hookRuns, sigCh, log,
                   day, history, lastPrune, moves>>

\* The first prune is followed by signal.Notify.
Prune ==
    /\ at["loop"] = "prune"
    /\ history' = {d \in history : d >= day - days}
    /\ lastPrune' = day
    /\ up' = IF up = "serving" THEN "up" ELSE up
    /\ IF history' # history THEN Write(1) ELSE UNCHANGED log
    /\ Goto("loop", "idle") /\ days' = 0
    /\ UNCHANGED <<files, got, asked, told, held, inForce, alarm, hookRuns, sigCh, day, moves>>

\* The process ends; with it its memory, its handlers and its goroutines.
Die(logs) ==
    /\ up' = "down"
    /\ at' = Each("idle") /\ got' = Each(NoLoad) /\ asked' = Each(0) /\ told' = Each("none")
    /\ held' = NoOne /\ inForce' = Nothing
    /\ streak' = 0 /\ threshold' = 0 /\ alerts' = 0 /\ disturbed' = 0
    /\ sigCh' = "none" /\ hookRuns' = 0 /\ days' = 0 /\ lastPrune' = 0
    /\ log' \in {Left(l) : l \in logs}
    /\ UNCHANGED <<files, day, history>>

\* sigCh has room for one signal, later ones are dropped; before
\* signal.Notify a signal of either kind ends the process.
Deliver(s) ==
    /\ Alive /\ Move
    /\ \/ up \in {"loading", "serving"} /\ Die(CutShort(log, FailureLen))
       \/ /\ up \in {"up", "stopping"}
          /\ sigCh' = IF sigCh = "none" THEN s ELSE sigCh
          /\ UNCHANGED <<files, up, callers, held, inForce, alarm, hookRuns, log, pruning>>

Hangup == /\ LoopRests /\ sigCh = "HUP"
          /\ Goto("loop", "lock") /\ sigCh' = "none"
          /\ asked' = [asked EXCEPT !["loop"] = edition] /\ told' = [told EXCEPT !["loop"] = "none"]
          /\ UNCHANGED <<files, up, got, held, inForce, alarm, hookRuns, log, pruning, moves>>

Stops(s) == s = "TERM"

\* ReleaseAll, then HTTP drains: requests in flight have 3 s to finish.
Shutdown == /\ LoopRests /\ Stops(sigCh)
            /\ up' = "stopping" /\ sigCh' = "none" /\ Write(1)
            /\ UNCHANGED <<files, callers, held, inForce, alarm, hookRuns, pruning, moves>>

Drained == up = "stopping" /\ Die({log}) /\ UNCHANGED moves

\* Also in the middle of a rotation that a hook's line has set off.
Crash == Alive /\ Move /\ Die(CutShort(log, FailureLen))

-----------------------------------------------------------------------------
(* Around the daemon *)

\* Init leaves the first contents open.
Edit ==
    /\ moves > 0 /\ edition < MaxEdits /\ Move
    /\ \/ \E d \in DaemonFiles \ {dfile} : dfile' = d /\ tfiles' = tfiles
       \/ \E t \in TasksDirs \ {tfiles} : tfiles' = t /\ dfile' = dfile
    /\ edition' = edition + 1
    /\ UNCHANGED <<up, callers, held, inForce, alarm, hookRuns, sigCh, log, pruning>>

\* A day goes by and leaves rows in the history.
NextDay ==
    /\ moves > 0 /\ Move
    /\ day' = day + 1 /\ history' = history \cup {day + 1}
    /\ UNCHANGED <<files, up, callers, held, inForce, alarm, hookRuns, sigCh, log, lastPrune, days>>

Init ==
    /\ dfile \in DaemonFiles /\ tfiles \in TasksDirs /\ edition = 0
    /\ up = "down"
    /\ at = Each("idle") /\ got = Each(NoLoad) /\ asked = Each(0) /\ told = Each("none")
    /\ held = NoOne /\ inForce = Nothing
    /\ streak = 0 /\ threshold = 0 /\ alerts = 0 /\ disturbed = 0
    /\ hookRuns = 0 /\ sigCh = "none" /\ log = NewLog
    /\ day = 0 /\ history = {0} /\ lastPrune = 0 /\ days = 0 /\ moves = 0

\* The steps of the main goroutine, except ticks.
Main == Serve \/ Reload("loop") \/ ReadDays \/ Prune \/ Hangup \/ Shutdown \/ Drained

Next == \/ Start \/ Main \/ Tick \/ Crash
        \/ \E c \in Clients : AskReload(c) \/ Reload(c)
        \/ \E s \in {"HUP", "TERM"} : Deliver(s)
        \/ RunFails \/ HookEnds
        \/ Edit \/ NextDay

Spec == Init /\ [][Next]_vars

\* The main goroutine and the request handlers go on, the mutex is fair, and
\* select takes a signal in the end.
FairSpec ==
    /\ Spec
    /\ WF_vars(Main)
    /\ \A c \in Clients : WF_vars(Reload(c))

-----------------------------------------------------------------------------
(* Properties *)

TypeOK ==
    /\ dfile \in DaemonFiles /\ tfiles \in TasksDirs
    /\ up \in {"down", "loading", "serving", "up", "stopping"}
    /\ at \in [Callers -> Points] /\ got \in [Callers -> Load]
    /\ asked \in [Callers -> Nat] /\ told \in [Callers -> {"none", "ok", "failed"}]
    /\ held \in Callers \cup {NoOne}
    /\ inForce \in [tasks : Load, notifier : Load, retention : Load]
    /\ alarm \in Nat \X Nat \X Nat \X Nat
    /\ hookRuns \in Nat /\ sigCh \in {"none", "HUP", "TERM"} /\ log \in Log
    /\ history \subseteq Nat
    /\ <<edition, day, lastPrune, days, moves>> \in Nat \X Nat \X Nat \X Nat \X Nat

Serving == up \in {"serving", "up", "stopping"}

\* README "Applying config changes": tasks, hooks and retention_days change
\* together; whenever no reload is under way they come from the same reading
\* of the files, however many reloads overlapped or failed.
InForceIsOneLoad ==
    (\A c \in Callers : at[c] \notin Inside) =>
        inForce.tasks = inForce.notifier /\ inForce.notifier = inForce.retention

\* A reload that was answered with success has put in force what the files
\* said when it was asked for, or something newer, and it stays so.
ReloadApplies ==
    Serving => \A c \in Callers : told[c] = "ok" =>
        \A part \in DOMAIN inForce : inForce[part].read >= asked[c]

\* engine.go "Tasks must already have passed config.Validate": whatever was
\* edited, half edited or broken, the engine only ever has tasks it can
\* schedule and start, under names of their own, an alert that can be
\* reached, and a retention that keeps at least a day.
Schedulable(t) ==
    /\ (t.cron = "sound" /\ t.watermark = 0) \/ (t.cron = "" /\ t.watermark > 0)
    /\ OverlapPolicy(t) \in Overlaps
    /\ t.watermark > 0 => OverlapPolicy(t) = "queue-one" /\ CatchUpEnabled(t) /\ t.jitter = 0
    /\ \/ t.command = "argv" /\ ~t.shell /\ t.vars \subseteq t.env \cup Environment
       \/ t.command = "string" /\ t.shell

InForceIsSound ==
    Serving =>
        LET ts == inForce.tasks.tasks
        IN  /\ \A i \in DOMAIN ts : Schedulable(ts[i])
            /\ Cardinality({ts[i].name : i \in DOMAIN ts}) = Len(ts)
            /\ threshold >= 1 /\ inForce.retention.daemon.retentionDays >= 1

\* engine.go:106-108 "fires EventOverrunStreak when a task reaches exactly
\* this many consecutive not-on-time fires; it re-arms after an on-time
\* fire".  From one on-time fire to the next there is one alert if the streak
\* has reached the threshold, none before, and one more at most for each time
\* the streak was disturbed: by a reload, which forgets it, or by a change of
\* its threshold.  The comment knows of neither.  With a threshold of 3 the
\* code gives no alert for late, late, reload, late and two for three late
\* fires, reload, three late fires.
StreakAlerted ==
    Serving => /\ alerts <= disturbed + 1
               /\ disturbed = 0 => alerts = IF streak >= threshold THEN 1 ELSE 0

\* README "pruned after retention_days": no row goes that is younger than the
\* least retention the files ever asked for.
LeastRetention == Min({DefaultRetentionDays} \cup ({d.retentionDays : d \in DaemonFiles} \cap (Nat \ {0})))

RecentRowsStay == [][\A d \in history \ history' : d < day - LeastRetention]_vars

\* logrotate.go:14-15 "a rotation failure degrades to appending in place
\* rather than losing lines": over restarts, failed renames and crashes in a
\* rotation the files stay in order and keep the newest line, and as long as
\* no file that could not be renamed was replaced by the next one, only the
\* oldest generation ever goes.  The comment makes no such exception: when
\* daemon.log.1 cannot be renamed and daemon.log can, the lines of the former
\* are lost while the older ones of daemon.log.2 stay.
LogWhole == (~log.holed => LastLinesKept(log)) /\ InOrder(log) /\ Capped(log)

\* A stop the daemon has received ends it, whatever reload is under way.
StopHeard == (sigCh = "TERM") ~> (up = "down")
=============================================================================

------------------------------- MODULE Config -------------------------------
(***************************************************************************)
(* What internal/config makes of config.toml and tasks.d/*.toml: which     *)
(* files Load decodes, the defaults it fills in, and what Validate lets    *)
(* through.  A file is the record the TOML decoder delivers; `decodes` is  *)
(* FALSE for one that is torn, has unknown keys or ill-typed values.       *)
(***************************************************************************)
EXTENDS Integers, Sequences, SequencesExt

CONSTANTS
    DefaultRetentionDays, DefaultOverrunStreakThreshold,
    Environment         \* the variables os.LookupEnv finds

ASSUME ConfigAssumption == /\ DefaultRetentionDays \in Nat \ {0}
                           /\ DefaultOverrunStreakThreshold \in Nat \ {0}

EventTypes == {"missed", "failure", "overrun_streak"}
Overlaps   == {"queue-one", "skip", "kill-and-restart"}

\* An absent key is "", "unset" or 0.  `private`: the file's mode is 0600.
DaemonConfig == [decodes : BOOLEAN, apiKey : BOOLEAN, private : BOOLEAN,
                 listen : {"", "loopback", "remote"}, retentionDays : Int, threshold : Int,
                 hooks : [EventTypes -> {"unset", "blank", "command"}]]

\* vars and dirVars are the ${VAR}s of the argv and of workdir; wellFormed
\* tells whether the name and the env keys match their patterns.
TaskTable == [name : STRING, cron : {"", "sound", "malformed"}, watermark : Nat,
              command : {"unset", "argv", "empty", "string", "blank"}, shell : BOOLEAN,
              vars : SUBSET STRING, dirVars : SUBSET STRING, env : SUBSET STRING,
              overlap : Overlaps \cup {"", "unknown"}, catchUp : {"unset", "true", "false"},
              jitter : Nat, logMaxMB : Int, wellFormed : BOOLEAN]

TasksFile == [decodes : BOOLEAN, tasks : Seq(TaskTable)]

-----------------------------------------------------------------------------
(* Load *)

\* A file with a key in it must not be open to others.
DaemonLoads(d) == d.decodes /\ (d.apiKey => d.private)

TasksLoad(files) == \A i \in DOMAIN files : files[i].decodes

applyDefaults_ZeroRetention(d) ==
    [d EXCEPT !.listen    = IF @ = "" THEN "loopback" ELSE @,
              !.threshold = IF @ = 0 THEN DefaultOverrunStreakThreshold ELSE @]

applyDefaults(d) ==
    [d EXCEPT !.listen        = IF @ = "" THEN "loopback" ELSE @,
              !.retentionDays = IF @ = 0 THEN DefaultRetentionDays ELSE @,
              !.threshold     = IF @ = 0 THEN DefaultOverrunStreakThreshold ELSE @]

\* The files are read in the order of their names.
Tables(files) == FlattenSeq([i \in DOMAIN files |-> files[i].tasks])

-----------------------------------------------------------------------------
(* The effective values of a task *)

IsWatermark(t)    == t.watermark > 0
OverlapPolicy(t)  == IF t.overlap = "" THEN "queue-one" ELSE t.overlap
CatchUpEnabled(t) == t.catchUp # "false"

\* The task's env comes before the daemon's environment; an undefined
\* variable is an error.
Expands(t, vars) == vars \subseteq t.env \cup Environment

\* The argv to execute: /bin/sh -c leaves expansion to the shell.
Resolves(t) == (t.shell \/ Expands(t, t.vars)) /\ Expands(t, t.dirVars)

-----------------------------------------------------------------------------
(* Validate *)

ValidHooks(d)  == d.threshold >= 1 /\ \A e \in EventTypes : d.hooks[e] # "blank"
ValidDaemon(d) == d.listen = "loopback" /\ d.retentionDays >= 0 /\ ValidHooks(d)

ValidTrigger(t) ==
    /\ t.cron = "" <=> IsWatermark(t)
    /\ t.cron # "malformed"

\* These knobs would silently do nothing on a watermark task.
ValidWatermark(t) == IsWatermark(t) => t.overlap = "" /\ t.catchUp = "unset" /\ t.jitter = 0

ValidCommand(t) == t.command = IF t.shell THEN "string" ELSE "argv"

ValidTask(t) ==
    /\ t.name # "" /\ t.wellFormed
    /\ ValidTrigger(t) /\ ValidWatermark(t) /\ ValidCommand(t)
    /\ OverlapPolicy(t) \in Overlaps
    /\ t.logMaxMB >= 0
    /\ Resolves(t)

ValidTables(ts) == /\ \A i \in DOMAIN ts : ValidTask(ts[i])
                   /\ \A i, j \in DOMAIN ts : ts[i].name = ts[j].name => i = j
=============================================================================

------------------------------ MODULE DaemonMC ------------------------------
(* Instances of Daemon for TLC. *)
EXTENDS Daemon, TLC

Hooked(types) == [e \in EventTypes |-> IF e \in types THEN "command" ELSE "unset"]

Plain == [decodes |-> TRUE, apiKey |-> TRUE, private |-> TRUE, listen |-> "", retentionDays |-> 0,
          threshold |-> 0, hooks |-> Hooked(EventTypes)]

\* Defaults; explicit values; one that Validate and one that only a start
\* refuses; one that Load refuses, for its mode.
MCDaemonFiles == {Plain,
                  [Plain EXCEPT !.retentionDays = 1, !.threshold = 1, !.hooks = Hooked({"failure"})],
                  [Plain EXCEPT !.retentionDays = -1],
                  [Plain EXCEPT !.private = FALSE],
                  [Plain EXCEPT !.apiKey = FALSE]}

Cron(name) == [name |-> name, cron |-> "sound", watermark |-> 0, command |-> "argv", shell |-> FALSE,
               vars |-> {}, dirVars |-> {}, env |-> {}, overlap |-> "", catchUp |-> "unset",
               jitter |-> 0, logMaxMB |-> 0, wellFormed |-> TRUE]

File(tasks) == [decodes |-> TRUE, tasks |-> tasks]

\* One task; a watermark and a cron task in two files; the same name in two
\* files, once with both triggers.
MCTasksDirs == {<<File(<<Cron("a")>>)>>,
                <<File(<<[Cron("a") EXCEPT !.cron = "", !.watermark = 2]>>), File(<<Cron("b")>>)>>,
                <<File(<<Cron("a")>>), File(<<[Cron("a") EXCEPT !.watermark = 2]>>)>>}
=============================================================================

------------------------------ MODULE EngineMC ------------------------------
(* Instances of Engine for TLC. *)
EXTENDS Status, EngineLedger, TLC

PidSymmetry == Permutations(Pids)

MCHash == [t \in Time |-> t]

Cron(fires, overlap) ==
    [fires |-> fires, interval |-> 0, overlap |-> overlap, catchUp |-> TRUE,
     timeout |-> 0, logMax |-> FALSE, jitter |-> 0, enabled |-> TRUE]

CronConfigs == {Cron({1, 2, 3, 4}, o) : o \in {"skip", "queue-one", "kill-and-restart"}}
               \cup {[Cron({1, 2, 3, 4}, "skip") EXCEPT !.catchUp = FALSE]}

\* Between them every reason to kill a run, so that an adopted run meets each.
RestartConfigs == {[Cron({1, 2, 3}, "queue-one") EXCEPT !.timeout = 2],
                   [Cron({1, 2, 3}, "kill-and-restart") EXCEPT !.logMax = TRUE]}

Watermark(interval) == [Cron({}, "queue-one") EXCEPT !.interval = interval]

WatermarkConfigs == {Watermark(2), [Watermark(1) EXCEPT !.timeout = 1]}

\* Jitter below the distance of two fires, and a timeout for every run.
LiveConfigs == {[Cron({1, 3}, o) EXCEPT !.timeout = 2, !.jitter = 2]
                : o \in {"queue-one", "kill-and-restart"}}

ReloadConfigs == {NoTask, Cron({1, 3}, "queue-one"), Cron({2, 3}, "queue-one"), Watermark(2),
                  [Cron({1, 3}, "queue-one") EXCEPT !.enabled = FALSE]}
=============================================================================

------------------------------- MODULE Status -------------------------------
(***************************************************************************)
(* The execution outlook of internal/engine/status.go, next_expected_run,  *)
(* computed from the engine's state, against what the engine then does.    *)
(***************************************************************************)
EXTENDS Engine

\* "at" with no time is the code's nil At.
Outlook == [kind : {"at", "after_current", "after_success", "none"}, at : TimeOrNo \cup Nat]

At(t)      == [kind |-> "at", at |-> t]
Kind(kind) == [kind |-> kind, at |-> NoTime]

\* Shows a time that has passed as it is.
ShownDue_Past == watermarkDue

\* A due time that has passed is shown as now, the next tick.
ShownDue == IF watermarkDue < now THEN now ELSE watermarkDue

ShownFire_Raw == nextFire

\* The jittered start of the next fire, not its raw cron time.
ShownFire == IF nextFire = NoTime THEN NoTime ELSE effectiveDue(cfg, nextFire)

NextExpected ==
    CASE ~Active                               -> Kind("none")
      [] Active /\ IsWatermark(cfg) /\ busy    -> Kind("after_success")
      [] Active /\ IsWatermark(cfg) /\ ~busy   -> At(ShownDue)
      [] Active /\ ~IsWatermark(cfg) /\ queued # NoTime -> Kind("after_current")
      [] Active /\ ~IsWatermark(cfg) /\ queued = NoTime -> At(ShownFire)

-----------------------------------------------------------------------------
Begun == {i \in DOMAIN rows' \ DOMAIN rows : rows'[i].start # NoTime /\ rows'[i].outcome # "manual"}

\* status.go "the status must show when the task will actually run": a run the
\* engine begins by itself begins at the time shown, or after the current run
\* if that was shown; and a tick that begins or records nothing passes over no
\* start that was shown as due.  Assumes punctual ticks for cron, and no pause.
StatusForetells ==
    [][/\ \A i \in Begun :
             NextExpected = IF rows'[i].sched = queued THEN Kind("after_current") ELSE At(now)
       /\ NothingDue => ~(NextExpected.kind = "at" /\ NextExpected.at \in 0 .. now)]_vars
=============================================================================

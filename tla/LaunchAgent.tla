----------------------------- MODULE LaunchAgent -----------------------------
(***************************************************************************)
(* cmd/install.go: the commands install, start, stop and uninstall, one at *)
(* a time, against launchd.  Every launchctl call and every file operation *)
(* is a step of its own: between two of them launchd acts, the user logs   *)
(* out and in, or the command is interrupted.                              *)
(*                                                                         *)
(* launchd is external and modelled as the code uses it: bootout begins a  *)
(* teardown that ends later (runStart: "a stop's teardown is               *)
(* asynchronous"), a disabled or still loaded service cannot be            *)
(* bootstrapped, RunAtLoad and KeepAlive run the program of a loaded       *)
(* service.  Failures of a command before its first launchctl call change  *)
(* nothing and are left out.                                               *)
(***************************************************************************)
EXTENDS Naturals

CONSTANTS Homes,    \* the places data_dir/bin/task-clock may be at
          None,     \* no plist, no program
          Broken,   \* a plist whose writing was cut short
          Polls,    \* the 6 re-checks of runStart
          SlowestTeardown,  \* the last re-check that can still see a teardown
          Faults    \* a subset of AllFaults

AllFaults == {"copy",       \* reading or writing the binary fails
              "plist",      \* writing or removing the plist fails
              "launchctl",  \* disable or bootstrap fails
              "ignored",    \* bootout or enable fails and nobody looks
              "interrupt",  \* the command is killed between two steps
              "crash"}      \* the daemon process dies

ASSUME LaunchAgentAssumption ==
    /\ None \notin Homes /\ Broken \notin Homes /\ None # Broken
    /\ Polls \in Nat \ {0} /\ SlowestTeardown \in Nat
    /\ Faults \subseteq AllFaults

VARIABLES
    plist,      \* the home the plist points at, None or Broken
    bin,        \* the homes with a whole binary
    disabled,   \* launchd's persistent record of `launchctl disable`
    service,    \* launchd: "unloaded", "loaded" or "unloading"
    program,    \* the program of the service, as of its loading
    daemon,     \* the daemon process runs
    cli,        \* the command under way and the step it is at
    told        \* what the last command has told the user

files   == <<plist, bin>>
launchd == <<disabled, service, program>>
vars    == <<files, launchd, daemon, cli, told>>

IdleCli == [at |-> "idle", cmd |-> "none", home |-> None, copy |-> FALSE, polls |-> 0]

Steps    == {"idle", "bootout", "copy", "plist", "enable", "bootstrap", "print", "poll", "remove"}
Commands == {"none", "install", "start", "stop", "uninstall"}
Results  == {"none", "installed", "started", "running", "stopped", "uninstalled", "failed"}
CliState == [at : Steps, cmd : Commands, home : Homes \cup {None}, copy : BOOLEAN, polls : 0 .. Polls - 1]

At(step) == cli.at = step

Go(step) == cli' = [cli EXCEPT !.at = step] /\ told' = told

\* A command under way has told nothing yet.
Begin(cmd, step) == At("idle") /\ cli' = [IdleCli EXCEPT !.at = step, !.cmd = cmd] /\ told' = "none"

End(result) == cli' = IdleCli /\ told' = result

-----------------------------------------------------------------------------
(* launchctl *)

\* What a call whose result the code ignores may leave: its effect, or the
\* present state.
BestEffort(effect, present) == IF "ignored" \in Faults THEN {effect, present} ELSE {effect}

bootout == service' \in BestEffort(IF service = "loaded" THEN "unloading" ELSE service, service)

enable == disabled' \in BestEffort(FALSE, disabled)

Bootable == service = "unloaded" /\ ~disabled /\ plist \in Homes

Load == service' = "loaded" /\ program' = plist

-----------------------------------------------------------------------------
(* install *)

\* needsCopy is false when the executable is the home's binary itself.
Install == \E h \in Homes, copy \in BOOLEAN :
    /\ At("idle") /\ (copy \/ h \in bin)
    /\ cli' = [at |-> "bootout", cmd |-> "install", home |-> h, copy |-> copy, polls |-> 0]
    /\ told' = "none"
    /\ UNCHANGED <<files, launchd, daemon>>

InstallBootout ==
    /\ At("bootout") /\ cli.cmd = "install"
    /\ bootout
    /\ Go(IF cli.copy THEN "copy" ELSE "plist")
    /\ UNCHANGED <<files, disabled, program, daemon>>

CopyExecutable_PlistFirst ==
    /\ At("copy")
    /\ plist' = cli.home
    /\ \/ bin' = bin \cup {cli.home} /\ Go("plist")
       \/ bin' = bin /\ "copy" \in Faults /\ End("failed")
    /\ UNCHANGED <<launchd, daemon>>

\* Written beside the old binary and renamed over it: all or nothing.
CopyExecutable ==
    /\ At("copy")
    /\ \/ bin' = bin \cup {cli.home} /\ Go("plist")
       \/ bin' = bin /\ "copy" \in Faults /\ End("failed")
    /\ UNCHANGED <<plist, launchd, daemon>>

WritePlist ==
    /\ At("plist")
    /\ \/ plist' = cli.home /\ Go("enable")
       \/ plist' \in {plist, Broken} /\ "plist" \in Faults /\ End("failed")
    /\ UNCHANGED <<bin, launchd, daemon>>

Enable ==
    /\ At("enable") /\ cli.cmd # "uninstall"
    /\ enable
    /\ Go(IF cli.cmd = "install" THEN "bootstrap" ELSE "print")
    /\ UNCHANGED <<files, service, program, daemon>>

Bootstrap ==
    /\ At("bootstrap")
    /\ IF Bootable
       THEN \/ Load /\ End(IF cli.cmd = "install" THEN "installed" ELSE "started")
            \/ UNCHANGED <<service, program>> /\ "launchctl" \in Faults /\ End("failed")
       ELSE UNCHANGED <<service, program>> /\ End("failed")
    /\ UNCHANGED <<files, disabled, daemon>>

-----------------------------------------------------------------------------
(* start *)

Start ==
    /\ \/ plist # None /\ Begin("start", "enable")
       \/ plist = None /\ At("idle") /\ End("failed")
    /\ UNCHANGED <<files, launchd, daemon>>

PrintService_Trusts ==
    /\ At("print")
    /\ IF service = "unloaded" THEN Go("bootstrap") ELSE End("running")
    /\ UNCHANGED <<files, launchd, daemon>>

\* `launchctl print` succeeds for a service that is being torn down, too.
PrintService ==
    /\ At("print")
    /\ Go(IF service = "unloaded" THEN "bootstrap" ELSE "poll")
    /\ UNCHANGED <<files, launchd, daemon>>

LastPoll_OneMore == cli.polls = Polls
LastPoll         == cli.polls + 1 = Polls

\* Only a service that stays loaded is running already.
PollAgain ==
    /\ At("poll")
    /\ service # "unloaded"
    /\ service = "unloading" => cli.polls < SlowestTeardown
    /\ IF LastPoll THEN End("running")
       ELSE cli' = [cli EXCEPT !.polls = @ + 1] /\ told' = told
    /\ UNCHANGED <<files, launchd, daemon>>

PollGone ==
    /\ At("poll")
    /\ service = "unloaded"
    /\ Go("bootstrap")
    /\ UNCHANGED <<files, launchd, daemon>>

-----------------------------------------------------------------------------
(* stop and uninstall *)

Stop_BootoutOnly ==
    /\ Begin("stop", "bootout")
    /\ UNCHANGED <<files, launchd, daemon>>

\* The record that survives a login comes first, and must succeed.
Stop ==
    /\ \/ disabled' = TRUE /\ Begin("stop", "bootout")
       \/ disabled' = disabled /\ At("idle") /\ "launchctl" \in Faults /\ End("failed")
    /\ UNCHANGED <<files, service, program, daemon>>

StopBootout ==
    /\ At("bootout") /\ cli.cmd = "stop"
    /\ bootout
    /\ End("stopped")
    /\ UNCHANGED <<files, disabled, program, daemon>>

Uninstall ==
    /\ Begin("uninstall", "enable")
    /\ bootout
    /\ UNCHANGED <<files, disabled, program, daemon>>

UninstallEnable_Skipped ==
    /\ At("enable") /\ cli.cmd = "uninstall"
    /\ Go("remove")
    /\ UNCHANGED <<files, launchd, daemon>>

UninstallEnable ==
    /\ At("enable") /\ cli.cmd = "uninstall"
    /\ enable
    /\ Go("remove")
    /\ UNCHANGED <<files, service, program, daemon>>

RemovePlist ==
    /\ At("remove")
    /\ \/ plist' = None /\ End("uninstalled")
       \/ plist' = plist /\ "plist" \in Faults /\ End("failed")
    /\ UNCHANGED <<bin, launchd, daemon>>

\* The writing of the plist may be cut short as well.
Interrupt ==
    /\ "interrupt" \in Faults /\ ~At("idle")
    /\ plist' \in IF At("plist") THEN {plist, Broken} ELSE {plist}
    /\ End("none")
    /\ UNCHANGED <<bin, launchd, daemon>>

-----------------------------------------------------------------------------
(* launchd and the user's session *)

KeepAlive ==
    /\ service = "loaded" /\ ~daemon /\ program \in bin
    /\ daemon' = TRUE
    /\ UNCHANGED <<files, launchd, cli, told>>

DaemonDies ==
    /\ "crash" \in Faults /\ daemon
    /\ daemon' = FALSE
    /\ UNCHANGED <<files, launchd, cli, told>>

\* The daemon has shut down (see Engine: ReleaseAll, Drained).
TeardownDone ==
    /\ service = "unloading"
    /\ service' = "unloaded" /\ program' = None /\ daemon' = FALSE
    /\ UNCHANGED <<files, disabled, cli, told>>

\* A logout ends the daemon and a command under way; the login loads what is
\* installed and not disabled.
Relogin ==
    /\ IF plist \in Homes /\ ~disabled THEN Load ELSE service' = "unloaded" /\ program' = None
    /\ daemon' = FALSE
    /\ cli' = IdleCli /\ told' = IF At("idle") THEN told ELSE "none"
    /\ UNCHANGED <<files, disabled>>

-----------------------------------------------------------------------------
Init ==
    /\ plist = None /\ bin = {}
    /\ disabled = FALSE /\ service = "unloaded" /\ program = None /\ daemon = FALSE
    /\ cli = IdleCli /\ told = "none"

Command == \/ Install \/ InstallBootout \/ CopyExecutable \/ WritePlist \/ Enable \/ Bootstrap
           \/ Start \/ PrintService \/ PollAgain \/ PollGone
           \/ Stop \/ StopBootout
           \/ Uninstall \/ UninstallEnable \/ RemovePlist
           \/ Interrupt

Launchd == KeepAlive \/ DaemonDies \/ TeardownDone \/ Relogin

Next == Command \/ Launchd

\* launchd does what it has promised; nobody need type another command.
Spec == Init /\ [][Next]_vars /\ WF_vars(KeepAlive) /\ WF_vars(TeardownDone)

-----------------------------------------------------------------------------
(* Properties *)

\* Every variable has its type; runStart gives up after Polls re-checks.
TypeOK ==
    /\ plist \in Homes \cup {None, Broken} /\ bin \subseteq Homes
    /\ disabled \in BOOLEAN /\ service \in {"unloaded", "loaded", "unloading"}
    /\ program \in Homes \cup {None} /\ daemon \in BOOLEAN
    /\ cli \in CliState /\ told \in Results

\* install.go "a copy failure must not leave a registered plist aimed at
\* nothing": whatever fails or is interrupted, a plist that launchd can read,
\* and a service it has loaded, name a whole binary.
AimedAtABinary == {plist, program} \cap Homes \subseteq bin

\* "disable makes the stop survive logins": once `stop` has said so, no login,
\* crash or late teardown brings the daemon back (if its bootout worked).
StopHolds ==
    [][told = "stopped" /\ told' = "stopped" /\ daemon' => daemon]_vars

\* "uninstall removes every trace, the run intent included": no record is left
\* that would refuse a later bootstrap, and no login revives the daemon.
NoTraceLeft == told = "uninstalled" => plist = None /\ ~disabled /\ service # "loaded"

\* A command that has said the daemon runs is right: it runs, now or soon, and
\* again after every crash and login, until another command is given.
SaysItRuns == told \in {"installed", "started", "running"}

RunsAsTold == SaysItRuns ~> (daemon \/ ~SaysItRuns)

\* README "install: write the launch agent plist and start the daemon": an
\* install that meets no fault succeeds, whatever ran before.
InstallRuns == [][cli.cmd = "install" /\ At("bootstrap") => told' # "failed"]_vars
=============================================================================

-------------------------- MODULE LaunchAgentProofs --------------------------
(***************************************************************************)
(* Theorems about LaunchAgent, for any sets of homes and of faults.        *)
(***************************************************************************)
EXTENDS LaunchAgent, TLAPS

-----------------------------------------------------------------------------
(* The command under way *)

LEMMA IdleType == IdleCli \in CliState /\ IdleCli.at = "idle" /\ IdleCli.cmd = "none"
BY LaunchAgentAssumption DEF IdleCli, CliState, Steps, Commands

LEMMA GoType ==
    ASSUME cli \in CliState, NEW step \in Steps, Go(step)
    PROVE  /\ cli' \in CliState /\ told' = told
           /\ cli'.at = step /\ cli'.cmd = cli.cmd /\ cli'.home = cli.home /\ cli'.copy = cli.copy
BY DEF Go, CliState

LEMMA BeginType ==
    ASSUME NEW cmd \in Commands, NEW step \in Steps, Begin(cmd, step)
    PROVE  /\ cli' \in CliState /\ told' = "none"
           /\ cli'.at = step /\ cli'.cmd = cmd
BY IdleType DEF Begin, CliState

LEMMA EndType ==
    ASSUME NEW result \in Results, End(result)
    PROVE  /\ cli' \in CliState /\ told' = result
           /\ cli'.at = "idle" /\ cli'.cmd = "none"
BY IdleType DEF End

LEMMA InstallType ==
    ASSUME Install
    PROVE  /\ cli' \in CliState /\ told' = "none"
           /\ cli'.at = "bootout" /\ cli'.cmd = "install" /\ cli'.home \in Homes
           /\ ~cli'.copy => cli'.home \in bin
           /\ UNCHANGED <<files, launchd, daemon>>
BY LaunchAgentAssumption DEF Install, CliState, Steps, Commands

LEMMA PollType ==
    ASSUME cli \in CliState, PollAgain
    PROVE  \/ cli' \in CliState /\ told' = told /\ cli'.at = "poll" /\ cli'.cmd = cli.cmd
              /\ cli'.home = cli.home /\ cli'.copy = cli.copy
           \/ cli' \in CliState /\ told' = "running" /\ cli'.at = "idle"
<1>1. CASE End("running")
  BY <1>1, EndType DEF Results
<1>2. CASE cli.polls + 1 # Polls /\ cli' = [cli EXCEPT !.polls = @ + 1] /\ told' = told
  <2>1. cli.polls + 1 \in 0 .. Polls - 1
    BY <1>2, LaunchAgentAssumption DEF CliState
  <2> QED
    BY <1>2, <2>1 DEF CliState, PollAgain, At
<1> QED
  BY <1>1, <1>2 DEF PollAgain, LastPoll

-----------------------------------------------------------------------------
(* The invariant: an install has its binary in place before it writes the  *)
(* plist; a stop that has said so left the record that no login overrides, *)
(* and a service that can only be torn down.                               *)

AimInv ==
    /\ AimedAtABinary
    /\ At("bootout") /\ cli.cmd = "install" => cli.home \in Homes /\ (~cli.copy => cli.home \in bin)
    /\ At("copy") => cli.home \in Homes
    /\ At("plist") => cli.home \in bin

StopInv ==
    /\ told = "stopped" => disabled /\ At("idle") /\ ("ignored" \notin Faults => service # "loaded")
    /\ At("bootout") /\ cli.cmd = "stop" => disabled
    /\ ~At("idle") => told = "none"

LaunchInv == TypeOK /\ AimInv /\ StopInv

LEMMA LaunchInit == Init => LaunchInv
BY IdleType, LaunchAgentAssumption
   DEF Init, LaunchInv, TypeOK, AimInv, StopInv, AimedAtABinary, At, Results

LEMMA LaunchInstall ==
    LaunchInv /\ (Install \/ InstallBootout \/ CopyExecutable \/ WritePlist) => LaunchInv'
<1> SUFFICES ASSUME LaunchInv, Install \/ InstallBootout \/ CopyExecutable \/ WritePlist
             PROVE  LaunchInv'
  OBVIOUS
<1> USE DEF LaunchInv, TypeOK
<1>0. /\ {"idle", "bootout", "copy", "plist", "enable"} \subseteq Steps
      /\ {"none", "installed", "failed"} \subseteq Results
      /\ plist \in Homes \cup {None, Broken}
  BY DEF Steps, Results
<1>1. CASE Install
  BY <1>0, <1>1, InstallType DEF AimInv, StopInv, AimedAtABinary, At, files, launchd
<1>2. CASE InstallBootout
  <2>1. PICK step \in {"copy", "plist"} : Go(step) /\ (step = "plist" => ~cli.copy)
    BY <1>2 DEF InstallBootout
  <2> QED
    BY <1>0, <1>2, <2>1, GoType
       DEF InstallBootout, bootout, BestEffort, AimInv, StopInv, AimedAtABinary, At, files
<1>3. CASE CopyExecutable
  <2>1. CASE Go("plist") /\ bin' = bin \cup {cli.home}
    BY <1>0, <1>3, <2>1, GoType
       DEF CopyExecutable, AimInv, StopInv, AimedAtABinary, At, launchd
  <2>2. CASE End("failed") /\ bin' = bin
    BY <1>0, <1>3, <2>2, EndType
       DEF CopyExecutable, AimInv, StopInv, AimedAtABinary, At, launchd
  <2> QED
    BY <1>3, <2>1, <2>2 DEF CopyExecutable
<1>4. CASE WritePlist
  <2>1. CASE Go("enable") /\ plist' = cli.home
    BY <1>0, <1>4, <2>1, GoType DEF WritePlist, AimInv, StopInv, AimedAtABinary, At, launchd
  <2>2. CASE End("failed") /\ plist' \in {plist, Broken}
    BY <1>0, <1>4, <2>2, EndType, LaunchAgentAssumption
       DEF WritePlist, AimInv, StopInv, AimedAtABinary, At, launchd
  <2> QED
    BY <1>4, <2>1, <2>2 DEF WritePlist
<1> QED
  BY <1>1, <1>2, <1>3, <1>4

LEMMA LaunchStart ==
    LaunchInv /\ (Enable \/ Bootstrap \/ Start \/ PrintService \/ PollAgain \/ PollGone) => LaunchInv'
<1> SUFFICES ASSUME LaunchInv, Enable \/ Bootstrap \/ Start \/ PrintService \/ PollAgain \/ PollGone
             PROVE  LaunchInv'
  OBVIOUS
<1> USE DEF LaunchInv, TypeOK, AimInv, StopInv, AimedAtABinary, At
<1>0. /\ {"idle", "enable", "bootstrap", "print", "poll"} \subseteq Steps /\ "start" \in Commands
      /\ {"none", "installed", "started", "running", "failed"} \subseteq Results
  BY DEF Steps, Commands, Results
<1>1. CASE Enable
  <2>1. PICK step \in {"bootstrap", "print"} : Go(step)
    BY <1>1 DEF Enable
  <2> QED
    BY <1>0, <1>1, <2>1, GoType DEF Enable, enable, BestEffort, files
<1>2. CASE Bootstrap
  <2>1. PICK result \in {"installed", "started", "failed"} : End(result)
    BY <1>2 DEF Bootstrap
  <2>2. \/ UNCHANGED <<service, program>>
        \/ service' = "loaded" /\ program' = plist /\ plist \in Homes
    BY <1>2 DEF Bootstrap, Load, Bootable
  <2> QED
    BY <1>0, <1>2, <2>1, <2>2, EndType DEF Bootstrap, files
<1>3. CASE Start
  <2>1. CASE Begin("start", "enable")
    BY <1>0, <1>3, <2>1, BeginType DEF Start, files, launchd
  <2>2. CASE End("failed")
    BY <1>0, <1>3, <2>2, EndType DEF Start, files, launchd
  <2> QED
    BY <1>3, <2>1, <2>2 DEF Start
<1>4. CASE PrintService \/ PollGone
  <2>1. PICK step \in {"bootstrap", "poll"} : Go(step)
    BY <1>4 DEF PrintService, PollGone
  <2>2. ~At("idle") /\ UNCHANGED <<files, launchd, daemon>>
    BY <1>4 DEF PrintService, PollGone
  <2> QED
    BY <1>0, <2>1, <2>2, GoType DEF files, launchd
<1>5. CASE PollAgain
  BY <1>0, <1>5, PollType DEF PollAgain, LastPoll, files, launchd
<1> QED
  BY <1>1, <1>2, <1>3, <1>4, <1>5

LEMMA LaunchStop ==
    LaunchInv /\ (\/ Stop \/ StopBootout \/ Uninstall \/ UninstallEnable \/ RemovePlist \/ Interrupt)
    => LaunchInv'
<1> SUFFICES ASSUME LaunchInv,
                    \/ Stop \/ StopBootout \/ Uninstall \/ UninstallEnable \/ RemovePlist \/ Interrupt
             PROVE  LaunchInv'
  OBVIOUS
<1> USE LaunchAgentAssumption
        DEF LaunchInv, TypeOK, AimInv, StopInv, AimedAtABinary, At
<1>0. /\ {"idle", "bootout", "enable", "remove"} \subseteq Steps
      /\ {"stop", "uninstall"} \subseteq Commands
      /\ {"none", "stopped", "uninstalled", "failed"} \subseteq Results
  BY DEF Steps, Commands, Results
<1>1. CASE Stop
  <2>1. CASE disabled' = TRUE /\ Begin("stop", "bootout")
    BY <1>0, <1>1, <2>1, BeginType DEF Stop, files
  <2>2. CASE disabled' = disabled /\ End("failed")
    BY <1>0, <1>1, <2>2, EndType DEF Stop, files
  <2> QED
    BY <1>1, <2>1, <2>2 DEF Stop
<1>2. CASE StopBootout
  BY <1>0, <1>2, EndType DEF StopBootout, bootout, BestEffort, files
<1>3. CASE Uninstall
  BY <1>0, <1>3, BeginType DEF Uninstall, bootout, BestEffort, files
<1>4. CASE UninstallEnable
  BY <1>0, <1>4, GoType DEF UninstallEnable, enable, BestEffort, files
<1>5. CASE RemovePlist
  <2>1. PICK result \in {"uninstalled", "failed"} : End(result)
    BY <1>5 DEF RemovePlist
  <2> QED
    BY <1>0, <1>5, <2>1, EndType DEF RemovePlist, launchd
<1>6. CASE Interrupt
  BY <1>0, <1>6, EndType DEF Interrupt, launchd
<1> QED
  BY <1>1, <1>2, <1>3, <1>4, <1>5, <1>6

LEMMA LaunchLaunchd == LaunchInv /\ Launchd => LaunchInv'
<1> SUFFICES ASSUME LaunchInv, Launchd PROVE LaunchInv'
  OBVIOUS
<1> USE LaunchAgentAssumption
        DEF LaunchInv, TypeOK, AimInv, StopInv, AimedAtABinary, At, files, launchd
<1>1. CASE KeepAlive \/ DaemonDies \/ TeardownDone
  BY <1>1 DEF KeepAlive, DaemonDies, TeardownDone
<1>2. CASE Relogin
  <2>1. \/ service' = "loaded" /\ program' = plist /\ plist \in Homes /\ ~disabled
        \/ service' = "unloaded" /\ program' = None
    BY <1>2 DEF Relogin, Load
  <2>2. "none" \in Results
    BY DEF Results
  <2> QED
    BY <1>2, <2>1, <2>2, IdleType DEF Relogin
<1> QED
  BY <1>1, <1>2 DEF Launchd

LEMMA LaunchStep == LaunchInv /\ [Next]_vars => LaunchInv'
<1>1. LaunchInv /\ UNCHANGED vars => LaunchInv'
  BY DEF vars, files, launchd, LaunchInv, TypeOK, AimInv, StopInv, AimedAtABinary, At
<1> QED
  BY <1>1, LaunchInstall, LaunchStart, LaunchStop, LaunchLaunchd DEF Next, Command

\* Every reachable state is well typed; `start` gives up polling in time.
THEOREM LaunchTypeCorrect == Spec => []TypeOK
<1>1. LaunchInv => TypeOK
  BY DEF LaunchInv
<1> QED
  BY <1>1, LaunchInit, LaunchStep, PTL DEF Spec

\* Whichever step of an install fails or is interrupted, a plist that can be
\* read and a loaded service name a whole binary.
THEOREM PlistAimed == Spec => []AimedAtABinary
<1>1. LaunchInv => AimedAtABinary
  BY DEF LaunchInv, AimInv
<1> QED
  BY <1>1, LaunchInit, LaunchStep, PTL DEF Spec

\* Once `stop` has reported success, and its bootout has not failed unseen,
\* nothing but another command starts the daemon again: no login, no crash,
\* no teardown that ends late.
THEOREM StoppedStays ==
    ASSUME "ignored" \notin Faults
    PROVE  Spec => StopHolds
<1>1. LaunchInv /\ [Next]_vars => [told = "stopped" /\ told' = "stopped" /\ daemon' => daemon]_vars
  <2> SUFFICES ASSUME LaunchInv, Next, told = "stopped", daemon' PROVE daemon
    OBVIOUS
  <2>1. ~KeepAlive
    BY DEF LaunchInv, StopInv, KeepAlive
  <2>2. CASE Command
    BY <2>2 DEF Command, Install, InstallBootout, CopyExecutable, WritePlist, Enable, Bootstrap, Start,
       PrintService, PollAgain, PollGone, Stop, StopBootout, Uninstall, UninstallEnable, RemovePlist,
       Interrupt
  <2>3. CASE Launchd
    BY <2>1, <2>3 DEF Launchd, DaemonDies, TeardownDone, Relogin
  <2> QED
    BY <2>2, <2>3 DEF Next
<1> QED
  BY <1>1, LaunchInit, LaunchStep, PTL DEF Spec, StopHolds

-----------------------------------------------------------------------------
(* Uninstall: bootout, enable, remove.  Each step has its effect (nothing  *)
(* fails unseen), and no login in between goes on with the command.        *)

TraceInv ==
    /\ At("copy") \/ At("plist") => cli.cmd = "install"
    /\ At("enable") /\ cli.cmd = "uninstall" => service # "loaded"
    /\ At("remove") => service # "loaded" /\ ~disabled
    /\ NoTraceLeft

LEMMA TraceInit == Init => TraceInv
BY DEF Init, TraceInv, NoTraceLeft, At, IdleCli

\* The steps with which a command goes on, except those of an uninstall.
LEMMA TraceGoes ==
    ASSUME LaunchInv, TraceInv, NEW step \in {"copy", "plist", "enable", "bootstrap", "print", "poll"},
           Go(step), ~At("idle"), step \in {"copy", "plist", "enable"} => cli.cmd = "install"
    PROVE  TraceInv'
<1>1. step \in Steps
  BY DEF Steps
<1>2. cli'.at = step /\ cli'.cmd = cli.cmd /\ told' = "none"
  BY <1>1, GoType DEF LaunchInv, TypeOK, StopInv
<1> QED
  BY <1>2 DEF TraceInv, NoTraceLeft, At

\* The steps with which a command ends, except an uninstall.
LEMMA TraceEnds ==
    ASSUME NEW result \in Results \ {"uninstalled"}, End(result)
    PROVE  TraceInv'
<1>1. cli'.at = "idle" /\ told' = result
  BY EndType
<1> QED
  BY <1>1 DEF TraceInv, NoTraceLeft, At

LEMMA TraceInstall ==
    ASSUME LaunchInv, TraceInv,
           Install \/ InstallBootout \/ CopyExecutable \/ WritePlist \/ Enable \/ Bootstrap
    PROVE  TraceInv'
<1>0. {"failed", "installed", "started"} \subseteq Results \ {"uninstalled"}
  BY DEF Results
<1>1. CASE Install
  BY <1>1, InstallType DEF TraceInv, NoTraceLeft, At
<1>2. CASE InstallBootout
  BY <1>2, TraceGoes DEF InstallBootout, At
<1>3. CASE CopyExecutable
  BY <1>0, <1>3, TraceGoes, TraceEnds DEF CopyExecutable, TraceInv, At
<1>4. CASE WritePlist
  BY <1>0, <1>4, TraceGoes, TraceEnds DEF WritePlist, TraceInv, At
<1>5. CASE Enable
  BY <1>5, TraceGoes DEF Enable, At
<1>6. CASE Bootstrap
  BY <1>0, <1>6, TraceEnds DEF Bootstrap
<1> QED
  BY <1>1, <1>2, <1>3, <1>4, <1>5, <1>6

LEMMA TraceStart ==
    ASSUME LaunchInv, TraceInv,
           Start \/ PrintService \/ PollAgain \/ PollGone \/ Stop \/ StopBootout \/ Interrupt
    PROVE  TraceInv'
<1>0. /\ {"failed", "running", "stopped", "none"} \subseteq Results \ {"uninstalled"}
      /\ {"start", "stop"} \subseteq Commands /\ {"enable", "bootout"} \subseteq Steps
  BY DEF Results, Commands, Steps
<1>1. CASE Start
  <2>1. Begin("start", "enable") => TraceInv'
    BY <1>0, BeginType DEF TraceInv, NoTraceLeft, At
  <2> QED
    BY <1>0, <1>1, <2>1, TraceEnds DEF Start
<1>2. CASE PrintService \/ PollGone
  BY <1>2, TraceGoes DEF PrintService, PollGone, At
<1>3. CASE PollAgain
  <2>1. cli'.at = "poll" /\ told' = "none" => TraceInv'
    BY DEF TraceInv, NoTraceLeft, At
  <2>2. told = "none"
    BY <1>3 DEF PollAgain, At, LaunchInv, StopInv
  <2>3. cli'.at = "idle" /\ told' = "running" => TraceInv'
    BY DEF TraceInv, NoTraceLeft, At
  <2> QED
    BY <1>3, <2>1, <2>2, <2>3, PollType DEF LaunchInv, TypeOK
<1>4. CASE Stop
  <2>1. Begin("stop", "bootout") => TraceInv'
    BY <1>0, BeginType DEF TraceInv, NoTraceLeft, At
  <2> QED
    BY <1>0, <1>4, <2>1, TraceEnds DEF Stop
<1>5. CASE StopBootout
  BY <1>0, <1>5, TraceEnds DEF StopBootout
<1>6. CASE Interrupt
  BY <1>0, <1>6, TraceEnds DEF Interrupt
<1> QED
  BY <1>1, <1>2, <1>3, <1>4, <1>5, <1>6

LEMMA TraceUninstall ==
    ASSUME "ignored" \notin Faults, LaunchInv, TraceInv, Uninstall \/ UninstallEnable \/ RemovePlist
    PROVE  TraceInv'
<1>0. /\ "uninstall" \in Commands /\ {"enable", "remove"} \subseteq Steps
      /\ {"uninstalled", "failed"} \subseteq Results
  BY DEF Results, Commands, Steps
<1>1. CASE Uninstall
  <2>1. service' # "loaded"
    BY <1>1 DEF Uninstall, bootout, BestEffort
  <2> QED
    BY <1>0, <1>1, <2>1, BeginType DEF Uninstall, TraceInv, NoTraceLeft, At
<1>2. CASE UninstallEnable
  <2>1. disabled' = FALSE /\ service' = service /\ service # "loaded"
    BY <1>2 DEF UninstallEnable, enable, BestEffort, TraceInv
  <2>2. cli'.at = "remove" /\ told' = "none"
    BY <1>0, <1>2, GoType DEF UninstallEnable, At, LaunchInv, TypeOK, StopInv
  <2> QED
    BY <2>1, <2>2 DEF TraceInv, NoTraceLeft, At
<1>3. CASE RemovePlist
  <2>1. CASE plist' = None /\ End("uninstalled")
    BY <1>0, <1>3, <2>1, EndType DEF RemovePlist, TraceInv, NoTraceLeft, At, launchd
  <2>2. CASE End("failed")
    BY <1>0, <2>2, TraceEnds
  <2> QED
    BY <1>3, <2>1, <2>2 DEF RemovePlist
<1> QED
  BY <1>1, <1>2, <1>3

LEMMA TraceLaunchd ==
    ASSUME TraceInv, Launchd
    PROVE  TraceInv'
<1>1. CASE KeepAlive \/ DaemonDies \/ TeardownDone
  BY <1>1 DEF KeepAlive, DaemonDies, TeardownDone, TraceInv, NoTraceLeft, At, files, launchd
<1>2. CASE Relogin
  <2>1. cli'.at = "idle" /\ (told' = "uninstalled" => told = "uninstalled")
    BY <1>2, IdleType DEF Relogin
  <2>2. plist = None => service' = "unloaded"
    BY <1>2, LaunchAgentAssumption DEF Relogin
  <2> QED
    BY <1>2, <2>1, <2>2 DEF Relogin, TraceInv, NoTraceLeft, At, files
<1> QED
  BY <1>1, <1>2 DEF Launchd

\* An uninstall that has reported success has left nothing: no plist, no
\* `disable` record, no loaded service (runUninstall), and so it stays over
\* logins and crashes until another command is given - whatever failed or was
\* interrupted before, provided bootout and enable do not fail unseen.
THEOREM UninstallLeavesNothing ==
    ASSUME "ignored" \notin Faults
    PROVE  Spec => []NoTraceLeft
<1>1. LaunchInv /\ TraceInv /\ [Next]_vars => TraceInv'
  <2>1. UNCHANGED vars /\ TraceInv => TraceInv'
    BY DEF vars, files, launchd, TraceInv, NoTraceLeft, At
  <2> QED
    BY <2>1, TraceInstall, TraceStart, TraceUninstall, TraceLaunchd DEF Next, Command
<1>2. TraceInv => NoTraceLeft
  BY DEF TraceInv
<1> QED
  BY <1>1, <1>2, LaunchInit, LaunchStep, TraceInit, PTL DEF Spec
=============================================================================

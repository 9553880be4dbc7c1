---------------------------- MODULE DaemonProofs ----------------------------
(***************************************************************************)
(* Safety theorems of Daemon, for every value of its constants.  The       *)
(* invariants, whose conjunction is DaemonInv:                             *)
(*   ReloadInv   reloadMu keeps the parts of one load together             *)
(*   FreshInv    a load in hand is as new as its request and what it meets *)
(*   AlertInv    the streak, its threshold and its alerts agree            *)
(*   LogKept     the log is whole and its Writer knows its size            *)
(*   SoundInv    what has been loaded has passed Validate                  *)
(*   TypeInv     the types                                                 *)
(***************************************************************************)
EXTENDS Daemon, LogRotateProofs

\* The variables a reload works on are functions and records of the right
\* domains; nothing is said of the files' contents.
Shape ==
    /\ at = [c \in Callers |-> at[c]] /\ got = [c \in Callers |-> got[c]]
    /\ asked = [c \in Callers |-> asked[c]] /\ told = [c \in Callers |-> told[c]]
    /\ inForce = [tasks |-> inForce.tasks, notifier |-> inForce.notifier,
                  retention |-> inForce.retention]

\* Whoever is inside reload() holds reloadMu, except the serve loop while it
\* reads the files for the start, when nobody else is there.
Mutex ==
    /\ \A c \in Callers : at[c] \in Inside => held = c \/ (up = "loading" /\ c = "loop")
    /\ up \in {"down", "loading"} =>
          /\ held = NoOne
          /\ \A c \in Clients : at[c] = "idle"
    /\ up = "down" => at["loop"] = "idle"
    /\ up = "loading" => at["loop"] \in {"toml", "tasks", "configure"}

\* How far the caller inside has got with replacing the parts.
Agree     == inForce.tasks = inForce.notifier /\ inForce.notifier = inForce.retention
InStep(c) ==
    /\ at[c] = "notifier"  => inForce.tasks = got[c] /\ inForce.notifier = inForce.retention
    /\ at[c] = "retention" => inForce.tasks = got[c] /\ inForce.notifier = got[c]
    /\ at[c] \notin {"notifier", "retention"} => Agree

Stages ==
    /\ \A c \in Callers : at[c] \in Inside => InStep(c)
    /\ (\A c \in Callers : at[c] \notin Inside) => Agree

ReloadInv == Shape /\ Mutex /\ Stages

-----------------------------------------------------------------------------
LEMMA InitReload == Init => ReloadInv
BY DaemonAssumption DEF Init, ReloadInv, Shape, Mutex, Stages, Agree, Each, Nothing, Callers, Inside, NoOne

\* What a reload's caller shares with the others does not change.
Untouched == UNCHANGED <<up, at, got, asked, told, held, inForce>>

LEMMA UntouchedKeeps == ReloadInv /\ Untouched => ReloadInv'
BY DEF ReloadInv, Shape, Mutex, Stages, Agree, InStep, Untouched

LEMMA DieKeeps ==
    ASSUME NEW logs, Die(logs)
    PROVE  ReloadInv'
BY DaemonAssumption
DEF Die, ReloadInv, Shape, Mutex, Stages, Agree, Each, Nothing, Callers, Inside, NoOne

\* A caller goes from one point outside reload() to another.
MovesOutside(c) ==
    /\ UNCHANGED <<got, held, inForce>>
    /\ asked' = [d \in Callers |-> asked'[d]] /\ told' = [d \in Callers |-> told'[d]]
    /\ at[c] \notin Inside /\ up \notin {"down", "loading"} /\ up' \notin {"down", "loading"}
    /\ \E point \in Points \ Inside : at' = [at EXCEPT ![c] = point]

LEMMA MovesOutsideKeeps ==
    ASSUME ReloadInv, NEW c \in Callers, MovesOutside(c)
    PROVE  ReloadInv'
<1>1. PICK point \in Points \ Inside : at' = [at EXCEPT ![c] = point]
  BY DEF MovesOutside
<1>2. at'[c] \notin Inside /\ \A d \in Callers : d # c => at'[d] = at[d]
  BY <1>1 DEF ReloadInv, Shape
<1>3. Shape'
  BY <1>1 DEF ReloadInv, Shape, MovesOutside
<1>4. Mutex'
  BY <1>2 DEF ReloadInv, Mutex, MovesOutside
<1>5. Stages'
  <2>1. \A d \in Callers : at'[d] \in Inside => at[d] \in Inside /\ at'[d] = at[d]
    BY <1>2
  <2>2. (\A d \in Callers : at'[d] \notin Inside) => (\A d \in Callers : at[d] \notin Inside)
    BY <1>2 DEF MovesOutside
  <2>. QED
    BY <2>1, <2>2 DEF ReloadInv, Stages, InStep, Agree, MovesOutside
<1>. QED
  BY <1>3, <1>4, <1>5 DEF ReloadInv

-----------------------------------------------------------------------------
(* The steps of a reload *)

\* Caller c is the only one inside.
LEMMA Alone ==
    ASSUME Mutex, NEW c \in Callers, at[c] \in Inside
    PROVE  /\ \A d \in Callers : d # c => at[d] \notin Inside
           /\ up = "loading" => c = "loop"
           /\ up # "loading" => held = c
<1>1. CASE up = "loading"
  BY <1>1 DEF Mutex, Callers, Inside
<1>2. CASE up # "loading"
  BY <1>2 DEF Mutex
<1>. QED
  BY <1>1, <1>2

LEMMA QuitKeeps ==
    ASSUME ReloadInv, NEW c \in Callers, at[c] \in {"toml", "tasks", "configure"},
           up # "down", Quit(c), UNCHANGED <<asked, inForce>>
    PROVE  ReloadInv'
<1>1. /\ \A d \in Callers : d # c => at[d] \notin Inside
      /\ up = "loading" => c = "loop" /\ held = NoOne
      /\ Agree
  BY Alone DEF ReloadInv, Mutex, Stages, InStep, Inside
<1>2. /\ at' = [at EXCEPT ![c] = "idle"] /\ got' = [got EXCEPT ![c] = NoLoad]
      /\ held' = NoOne
      /\ told' = told \/ told' = [told EXCEPT ![c] = "failed"]
      /\ IF up = "loading" THEN up' = "down" ELSE up' = up
  BY <1>1 DEF Quit, Goto
<1>3. Shape'
  BY <1>2 DEF ReloadInv, Shape
<1>4. \A d \in Callers : at'[d] \notin Inside
  BY <1>1, <1>2 DEF ReloadInv, Shape, Inside
<1>5. up # "loading" => ~(up' \in {"down", "loading"})
  BY <1>2
<1>6. up = "loading" => \A d \in Callers : at'[d] = "idle"
  BY <1>1, <1>2 DEF ReloadInv, Shape, Mutex, Callers
<1>7. Mutex'
  BY <1>2, <1>4, <1>5, <1>6 DEF Mutex, Callers
<1>8. Stages'
  BY <1>1, <1>4 DEF Stages, Agree
<1>. QED
  BY <1>3, <1>7, <1>8 DEF ReloadInv

\* The caller inside goes on to its next statement.
LEMMA AdvanceKeeps ==
    ASSUME ReloadInv, NEW c \in Callers, at[c] \in Inside,
           NEW point \in Inside, at' = [at EXCEPT ![c] = point],
           up = "loading" => point \in {"toml", "tasks", "configure"},
           UNCHANGED <<up, held>>, Shape', InStep(c)'
    PROVE  ReloadInv'
<1>1. at'[c] = point /\ \A d \in Callers : d # c => at'[d] = at[d]
  BY DEF ReloadInv, Shape
<1>2. \A d \in Callers : d # c => at'[d] \notin Inside
  BY <1>1, Alone DEF ReloadInv
<1>3. up # "down"
  BY DEF ReloadInv, Mutex, Callers, Inside
<1>4. Mutex'
  <2>1. "loop" \in Callers /\ Clients \subseteq Callers
    BY DEF Callers
  <2>2. up = "loading" => c = "loop"
    BY Alone DEF ReloadInv
  <2>3. c \notin Clients \/ up # "loading"
    BY <2>2, DaemonAssumption
  <2>4. up # "loading" => held = c
    BY Alone DEF ReloadInv
  <2>. QED
    BY <1>1, <1>2, <1>3, <2>1, <2>2, <2>3, <2>4 DEF ReloadInv, Mutex
<1>5. Stages'
  BY <1>1, <1>2 DEF Stages
<1>. QED
  BY <1>4, <1>5 DEF ReloadInv

\* The caller inside leaves and has the parts agree.
LEMMA LeaveKeeps ==
    ASSUME ReloadInv, NEW c \in Callers, at[c] \in Inside,
           NEW point \in Points \ Inside, at' = [at EXCEPT ![c] = point],
           held' = NoOne, up' \notin {"down", "loading"}, Shape', Agree'
    PROVE  ReloadInv'
<1>1. \A d \in Callers : at'[d] \notin Inside
  BY Alone DEF ReloadInv, Shape
<1>. QED
  BY <1>1 DEF ReloadInv, Mutex, Stages, Agree

LEMMA LockKeeps ==
    ASSUME ReloadInv, NEW c \in Callers, Lock(c)
    PROVE  ReloadInv'
<1>1. /\ at[c] = "lock" /\ held = NoOne /\ up \notin {"down", "loading"}
      /\ held' = c /\ at' = [at EXCEPT ![c] = "toml"]
      /\ UNCHANGED <<up, got, asked, told, inForce>>
  BY DEF Lock, Acquire, Enter, Goto, Alive, ReloadInv, Mutex, Callers
<1>2. \A d \in Callers : at[d] \notin Inside
  BY <1>1, DaemonAssumption DEF ReloadInv, Mutex, NoOne, Callers
<1>3. at'[c] = "toml" /\ \A d \in Callers : d # c => at'[d] \notin Inside
  BY <1>1, <1>2 DEF ReloadInv, Shape
<1>4. Shape'
  BY <1>1 DEF ReloadInv, Shape
<1>5. Mutex'
  BY <1>1, <1>3 DEF Mutex
<1>6. Stages'
  BY <1>1, <1>2, <1>3 DEF ReloadInv, Stages, Agree, InStep, Inside
<1>. QED
  BY <1>4, <1>5, <1>6 DEF ReloadInv

LEMMA LoadDaemonKeeps ==
    ASSUME ReloadInv, NEW c \in Callers, LoadDaemon(c)
    PROVE  ReloadInv'
<1>1. at[c] = "toml" /\ up # "down" /\ UNCHANGED <<asked, inForce>>
  BY DEF LoadDaemon, Alive
<1>2. CASE DaemonLoads(dfile)
  <2>1. /\ at' = [at EXCEPT ![c] = "tasks"] /\ UNCHANGED <<up, told, held>>
        /\ \E l : got' = [got EXCEPT ![c] = l]
    BY <1>2 DEF LoadDaemon, Goto
  <2>2. Shape'
    BY <1>1, <2>1 DEF ReloadInv, Shape
  <2>3. InStep(c)'
    BY <1>1, <2>1 DEF ReloadInv, Shape, Stages, InStep, Agree, Inside
  <2>. QED
    BY <1>1, <2>1, <2>2, <2>3, AdvanceKeeps DEF Inside
<1>3. CASE ~DaemonLoads(dfile)
  BY <1>1, <1>3, QuitKeeps DEF LoadDaemon
<1>. QED
  BY <1>2, <1>3

LEMMA LoadTasksKeeps ==
    ASSUME ReloadInv, NEW c \in Callers, LoadTasks(c)
    PROVE  ReloadInv'
<1>1. at[c] = "tasks" /\ up # "down" /\ UNCHANGED <<asked, inForce>>
  BY DEF LoadTasks, Alive
<1>2. CASE Accepts(got[c].daemon, tfiles)
  <2>1. /\ at' = [at EXCEPT ![c] = "configure"] /\ UNCHANGED <<up, told, held>>
        /\ got' = [got EXCEPT ![c].tasks = Tables(tfiles), ![c].done = edition]
    BY <1>2 DEF LoadTasks, Goto
  <2>2. Shape'
    BY <1>1, <2>1 DEF ReloadInv, Shape
  <2>3. InStep(c)'
    BY <1>1, <2>1 DEF ReloadInv, Shape, Stages, InStep, Agree, Inside
  <2>. QED
    BY <1>1, <2>1, <2>2, <2>3, AdvanceKeeps DEF Inside
<1>3. CASE ~Accepts(got[c].daemon, tfiles)
  BY <1>1, <1>3, QuitKeeps DEF LoadTasks
<1>. QED
  BY <1>2, <1>3

LEMMA InstallTasksKeeps ==
    ASSUME ReloadInv, NEW c \in Callers, InstallTasks(c)
    PROVE  ReloadInv'
<1>1. /\ at[c] = "configure" /\ at' = [at EXCEPT ![c] = "notifier"] /\ up # "loading"
      /\ inForce' = [inForce EXCEPT !.tasks = got[c]]
      /\ UNCHANGED <<up, got, asked, told, held>>
  BY DEF InstallTasks, Goto
<1>2. Shape'
  BY <1>1 DEF ReloadInv, Shape
<1>3. InStep(c)'
  BY <1>1 DEF ReloadInv, Shape, Stages, InStep, Agree, Inside
<1>. QED
  BY <1>1, <1>2, <1>3, AdvanceKeeps DEF Inside

LEMMA SetNotifierKeeps ==
    ASSUME ReloadInv, NEW c \in Callers, SetNotifier(c)
    PROVE  ReloadInv'
<1>1. /\ at[c] = "notifier" /\ at' = [at EXCEPT ![c] = "retention"]
      /\ inForce' = [inForce EXCEPT !.notifier = got[c]]
      /\ UNCHANGED <<up, got, asked, told, held>>
  BY DEF SetNotifier, Goto
<1>2. up # "loading"
  BY <1>1 DEF ReloadInv, Mutex, Callers
<1>3. Shape'
  BY <1>1 DEF ReloadInv, Shape
<1>4. InStep(c)'
  BY <1>1 DEF ReloadInv, Shape, Stages, InStep, Agree, Inside
<1>. QED
  BY <1>1, <1>2, <1>3, <1>4, AdvanceKeeps DEF Inside

LEMMA FinishKeeps ==
    ASSUME ReloadInv, NEW c \in Callers, Finish(c)
    PROVE  ReloadInv'
<1>1. /\ at[c] = "retention" /\ at' = [at EXCEPT ![c] = "idle"] /\ held' = NoOne
      /\ inForce' = [inForce EXCEPT !.retention = got[c]]
      /\ got' = [got EXCEPT ![c] = NoLoad] /\ told' = [told EXCEPT ![c] = "ok"]
      /\ UNCHANGED <<up, asked>> /\ up # "down"
  BY DEF Finish, Goto, Alive
<1>2. up # "loading"
  BY <1>1 DEF ReloadInv, Mutex, Callers
<1>3. Shape'
  BY <1>1 DEF ReloadInv, Shape
<1>4. Agree'
  BY <1>1 DEF ReloadInv, Shape, Stages, InStep, Agree, Inside
<1>. QED
  BY <1>1, <1>2, <1>3, <1>4, LeaveKeeps DEF Inside, Points

LEMMA ServeKeeps == ReloadInv /\ Serve => ReloadInv'
<1>. SUFFICES ASSUME ReloadInv, Serve PROVE ReloadInv'
  OBVIOUS
<1>1. /\ up = "loading" /\ at["loop"] = "configure" /\ "loop" \in Callers /\ asked' = asked
      /\ held = NoOne
  BY DEF Serve, Callers, ReloadInv, Mutex
<1>2. CASE got["loop"].daemon.apiKey
  <2>1. /\ at' = [at EXCEPT !["loop"] = "days"] /\ up' = "serving" /\ UNCHANGED <<told, held>>
        /\ got' = [got EXCEPT !["loop"] = NoLoad]
        /\ inForce' = [tasks |-> got["loop"], notifier |-> got["loop"], retention |-> got["loop"]]
    BY <1>2 DEF Serve, Goto
  <2>2. Shape' /\ Agree'
    BY <1>1, <2>1 DEF ReloadInv, Shape, Agree
  <2>. QED
    BY <1>1, <2>1, <2>2, LeaveKeeps DEF Inside, Points
<1>3. CASE ~got["loop"].daemon.apiKey
  BY <1>1, <1>3, QuitKeeps DEF Serve
<1>. QED
  BY <1>2, <1>3

LEMMA StartKeeps == ReloadInv /\ Start => ReloadInv'
<1>. SUFFICES ASSUME ReloadInv, Start PROVE ReloadInv'
  OBVIOUS
<1>1. /\ up = "down" /\ up' = "loading" /\ at' = [at EXCEPT !["loop"] = "toml"]
      /\ UNCHANGED <<got, asked, told, held, inForce>>
  BY DEF Start, Alive, Goto
<1>2. /\ held = NoOne /\ \A c \in Callers : at[c] = "idle"
      /\ "loop" \in Callers /\ Clients \subseteq Callers /\ "loop" \notin Clients
  BY <1>1, DaemonAssumption DEF ReloadInv, Mutex, Callers
<1>3. at'["loop"] = "toml" /\ \A c \in Clients : at'[c] = "idle"
  BY <1>1, <1>2 DEF ReloadInv, Shape
<1>4. Agree
  BY <1>2 DEF ReloadInv, Stages, Inside
<1>5. Shape'
  BY <1>1 DEF ReloadInv, Shape
<1>6. Mutex'
  BY <1>1, <1>2, <1>3 DEF Mutex, Callers, Inside
<1>7. Stages'
  BY <1>1, <1>3, <1>4 DEF Stages, InStep, Agree, Callers, Inside
<1>. QED
  BY <1>5, <1>6, <1>7 DEF ReloadInv

LEMMA ReloadKeeps ==
    ASSUME ReloadInv, NEW c \in Callers, Reload(c)
    PROVE  ReloadInv'
BY LockKeeps, LoadDaemonKeeps, LoadTasksKeeps, InstallTasksKeeps, SetNotifierKeeps, FinishKeeps
DEF Reload

-----------------------------------------------------------------------------
(* The other steps *)

\* The steps that leave what a reload works on alone.
LEMMA Elsewhere ==
    ASSUME \/ RunFails \/ HookEnds \/ Edit \/ NextDay \/ UNCHANGED vars
           \/ \E s \in {"HUP", "TERM"} : Deliver(s) /\ up \in {"up", "stopping"}
    PROVE  Untouched
<1>1. CASE \E s \in {"HUP", "TERM"} : Deliver(s) /\ up \in {"up", "stopping"}
  BY <1>1 DEF Deliver, Untouched, callers
<1>. QED
  BY <1>1 DEF RunFails, HookEnds, Edit, NextDay, vars, callers, Untouched

\* The serve loop and the request handlers outside reload().
LEMMA OutsideSteps ==
    ASSUME ReloadInv,
           ReadDays \/ Prune \/ Hangup \/ Shutdown \/ Tick \/ \E c \in Clients : AskReload(c)
    PROVE  \E c \in Callers : MovesOutside(c)
<1>1. "loop" \in Callers /\ Clients \subseteq Callers
  BY DEF Callers
<1>2. /\ at["loop"] \in {"days", "prune"} => up \notin {"down", "loading"}
      /\ at = [at EXCEPT !["loop"] = at["loop"]]
      /\ asked = [c \in Callers |-> asked[c]] /\ told = [c \in Callers |-> told[c]]
  BY DEF ReloadInv, Shape, Mutex
<1>3. CASE ReadDays
  BY <1>1, <1>2, <1>3 DEF ReadDays, Goto, MovesOutside, Inside, Points
<1>4. CASE Prune
  BY <1>1, <1>2, <1>4 DEF Prune, Goto, MovesOutside, Inside, Points
<1>5. CASE Hangup
  <2>1. /\ asked' = [asked EXCEPT !["loop"] = edition] /\ told' = [told EXCEPT !["loop"] = "none"]
        /\ at' = [at EXCEPT !["loop"] = "lock"] /\ at["loop"] = "idle"
        /\ up = "up" /\ UNCHANGED <<up, got, held, inForce>>
    BY <1>5 DEF Hangup, LoopRests, Goto
  <2>2. asked' = [c \in Callers |-> asked'[c]] /\ told' = [c \in Callers |-> told'[c]]
    BY <1>2, <2>1
  <2>. QED
    BY <1>1, <2>1, <2>2 DEF MovesOutside, Inside, Points
<1>6. CASE Shutdown
  BY <1>1, <1>2, <1>6 DEF Shutdown, LoopRests, callers, MovesOutside, Inside, Points
<1>7. CASE Tick
  BY <1>1, <1>2, <1>7 DEF Tick, LoopRests, Goto, MovesOutside, Inside, Points
<1>8. CASE \E c \in Clients : AskReload(c)
  <2>1. PICK c \in Clients : AskReload(c)
    BY <1>8
  <2>2. /\ asked' = [asked EXCEPT ![c] = edition] /\ told' = told
        /\ at' = [at EXCEPT ![c] = "lock"] /\ at[c] = "idle"
        /\ up \in {"serving", "up"} /\ UNCHANGED <<up, got, held, inForce>>
    BY <2>1 DEF AskReload, Listening, Goto
  <2>3. asked' = [d \in Callers |-> asked'[d]] /\ told' = [d \in Callers |-> told'[d]]
    BY <1>2, <2>2
  <2>. QED
    BY <1>1, <2>2, <2>3 DEF MovesOutside, Inside, Points
<1>. QED
  BY <1>3, <1>4, <1>5, <1>6, <1>7, <1>8

LEMMA NextCases ==
    ASSUME [Next]_vars
    PROVE  \/ Start \/ Serve
           \/ \E c \in Callers : Reload(c)
           \/ ReadDays \/ Prune \/ Hangup \/ Shutdown \/ Tick \/ \E c \in Clients : AskReload(c)
           \/ \E logs \in {CutShort(log, FailureLen), {log}} : Die(logs)
           \/ RunFails \/ HookEnds \/ Edit \/ NextDay \/ UNCHANGED vars
           \/ \E s \in {"HUP", "TERM"} : Deliver(s) /\ up \in {"up", "stopping"}
<1>1. "loop" \in Callers /\ Clients \subseteq Callers
  BY DEF Callers
<1>2. Drained \/ Crash => \E logs \in {CutShort(log, FailureLen), {log}} : Die(logs)
  BY DEF Drained, Crash
<1>3. ASSUME NEW s \in {"HUP", "TERM"}, Deliver(s)
      PROVE  (\E logs \in {CutShort(log, FailureLen), {log}} : Die(logs)) \/ up \in {"up", "stopping"}
  BY <1>3 DEF Deliver
<1>. QED
  BY <1>1, <1>2, <1>3 DEF Next, Main

LEMMA NextKeeps == ReloadInv /\ [Next]_vars => ReloadInv'
BY NextCases, StartKeeps, ServeKeeps, ReloadKeeps, OutsideSteps, MovesOutsideKeeps, DieKeeps,
   Elsewhere, UntouchedKeeps

LEMMA ReloadInvAlways == Spec => []ReloadInv
BY InitReload, NextKeeps, PTL DEF Spec

\* Tasks, notifier and retention in force come from one load whenever no
\* reload is under way: reloadMu in reload() serialises the replacement of
\* the three (cmd/serve.go), for any number of requests and any files.
THEOREM PartsBelongTogether == Spec => []InForceIsOneLoad
<1>1. ReloadInv => InForceIsOneLoad
  BY DEF ReloadInv, Stages, Agree, InForceIsOneLoad
<1>. QED
  BY <1>1, ReloadInvAlways, PTL

-----------------------------------------------------------------------------
(* What a reload that reports success has put in force *)

\* Points at which a caller's local ncfg has been read.
Loaded == {"tasks", "configure", "notifier", "retention"}

Parts == {"tasks", "notifier", "retention"}

\* All editions that are remembered are past ones.
Past ==
    /\ edition \in Nat
    /\ \A c \in Callers : asked[c] \in 0 .. edition /\ got[c].read \in 0 .. edition
    /\ \A part \in Parts : inForce[part].read \in 0 .. edition

Records ==
    \A c \in Callers :
        got[c] = [daemon |-> got[c].daemon, tasks |-> got[c].tasks, read |-> got[c].read, done |-> got[c].done]

\* A caller holds a load that is as new as its request and as what is in force.
Newest ==
    \A c \in Callers : at[c] \in Loaded /\ up # "loading" =>
        /\ got[c].read >= asked[c]
        /\ \A part \in Parts : got[c].read >= inForce[part].read

Silent == up \in {"down", "loading"} => \A c \in Callers : told[c] = "none"

Applied == \A c \in Callers : told[c] = "ok" => \A part \in Parts : inForce[part].read >= asked[c]

FreshInv == Past /\ Records /\ Newest /\ Silent /\ Applied

LEMMA InitFresh == Init => FreshInv
BY DEF Init, FreshInv, Past, Records, Newest, Silent, Applied, Each, Nothing, NoLoad, Loaded, Parts

LEMMA DieFresh ==
    ASSUME FreshInv, NEW logs, Die(logs)
    PROVE  FreshInv'
<1>1. edition' = edition /\ edition \in Nat
  BY DEF Die, files, FreshInv, Past
<1>. QED
  BY <1>1
  DEF Die, FreshInv, Past, Records, Newest, Silent, Applied, Each, Nothing, NoLoad, Loaded, Parts

\* Steps that change no load, request or answer; the files may be edited.
LEMMA UntouchedFresh ==
    ASSUME FreshInv, Untouched, edition' = edition \/ edition' = edition + 1
    PROVE  FreshInv'
BY DEF Untouched, FreshInv, Past, Records, Newest, Silent, Applied

\* A caller comes to a point at which it has nothing in hand, with a new
\* request or with the old one.
ComesEmpty(c) ==
    /\ at' = [at EXCEPT ![c] = at'[c]] /\ at'[c] \notin Loaded
    /\ UNCHANGED <<got, inForce, edition>>
    /\ \/ UNCHANGED <<asked, told>>
       \/ asked' = [asked EXCEPT ![c] = edition] /\ told' = [told EXCEPT ![c] = "none"]
    /\ up # "loading" /\ up' # "down"
    /\ up' = "loading" => up = "down" /\ told' = told

LEMMA ComesEmptyFresh ==
    ASSUME ReloadInv, FreshInv, NEW c \in Callers, ComesEmpty(c)
    PROVE  FreshInv'
<1>1. \A d \in Callers : d # c => at'[d] = at[d] /\ asked'[d] = asked[d] /\ told'[d] = told[d]
  BY DEF ComesEmpty, ReloadInv, Shape
<1>2. \/ asked'[c] = asked[c] /\ told'[c] = told[c]
      \/ asked'[c] = edition /\ told'[c] = "none"
  BY DEF ComesEmpty, ReloadInv, Shape
<1>3. Past' /\ Records'
  BY <1>1, <1>2 DEF FreshInv, Past, Records, ComesEmpty
<1>4. Newest' /\ Silent' /\ Applied'
  BY <1>1, <1>2 DEF FreshInv, Newest, Silent, Applied, ComesEmpty
<1>. QED
  BY <1>3, <1>4 DEF FreshInv

\* The caller inside is the only one that can have a load in hand.
LEMMA OnlyOneLoaded ==
    ASSUME ReloadInv, NEW c \in Callers, at[c] \in Inside
    PROVE  \A d \in Callers : d # c => at[d] \notin Loaded
BY Alone DEF ReloadInv, Loaded, Inside

\* The caller inside, with a load, puts it in force as one part or as none.
PutsInForce(c) ==
    /\ at[c] \in Loaded /\ up # "loading"
    /\ UNCHANGED <<edition, asked, told, up>>
    /\ \E point \in Inside : at' = [at EXCEPT ![c] = point]
    /\ got'[c].read = got[c].read /\ \A d \in Callers : d # c => got'[d] = got[d]
    /\ \A part \in Parts : inForce'[part].read \in {inForce[part].read, got[c].read}

LEMMA PutsInForceFresh ==
    ASSUME ReloadInv, FreshInv, NEW c \in Callers, at[c] \in Inside, PutsInForce(c), Records'
    PROVE  FreshInv'
<1>1. \A d \in Callers : d # c => at'[d] = at[d] /\ at'[d] \notin Loaded
  BY OnlyOneLoaded DEF PutsInForce, ReloadInv, Shape
<1>2. \A part \in Parts : /\ inForce'[part].read \in 0 .. edition
                          /\ inForce'[part].read >= inForce[part].read
                          /\ got[c].read >= inForce'[part].read
  BY DEF FreshInv, Past, Newest, PutsInForce
<1>3. Past'
  BY <1>2 DEF FreshInv, Past, PutsInForce
<1>4. Newest'
  BY <1>1, <1>2 DEF FreshInv, Newest, PutsInForce
<1>5. Silent'
  BY DEF FreshInv, Silent, PutsInForce
<1>6. Applied'
  <2>. SUFFICES ASSUME NEW d \in Callers, told[d] = "ok", NEW part \in Parts
                PROVE  inForce'[part].read >= asked[d]
    BY DEF Applied, PutsInForce
  <2>1. inForce[part].read >= asked[d]
    BY DEF FreshInv, Applied
  <2>2. /\ inForce'[part].read \in Nat /\ inForce[part].read \in Nat /\ asked[d] \in Nat
        /\ inForce'[part].read >= inForce[part].read
    BY <1>2 DEF FreshInv, Past
  <2>. QED
    BY <2>1, <2>2
<1>. QED
  BY <1>3, <1>4, <1>5, <1>6 DEF FreshInv

LEMMA QuitFresh ==
    ASSUME ReloadInv, FreshInv, NEW c \in Callers, at[c] \in {"toml", "tasks", "configure"},
           up # "down", Quit(c), UNCHANGED <<asked, inForce, edition>>
    PROVE  FreshInv'
<1>1. \A d \in Callers : d # c => at'[d] \notin Loaded /\ got'[d] = got[d]
  BY OnlyOneLoaded DEF Quit, Goto, ReloadInv, Shape, Inside
<1>2. at'[c] = "idle" /\ got'[c] = NoLoad
  BY DEF Quit, Goto, ReloadInv, Shape
<1>3. /\ \A d \in Callers : told'[d] = told[d] \/ told'[d] = "failed"
      /\ up' \in {"down", "loading"} => up \in {"down", "loading"} /\ told' = told
  BY DEF Quit, ReloadInv, Shape
<1>4. Past' /\ Records'
  BY <1>1, <1>2 DEF FreshInv, Past, Records, NoLoad
<1>5. Newest'
  BY <1>1, <1>2 DEF Newest, Loaded
<1>6. Silent' /\ Applied'
  BY <1>3 DEF FreshInv, Silent, Applied
<1>. QED
  BY <1>4, <1>5, <1>6 DEF FreshInv

LEMMA LoadDaemonFresh ==
    ASSUME ReloadInv, FreshInv, NEW c \in Callers, LoadDaemon(c)
    PROVE  FreshInv'
<1>1. /\ at[c] = "toml" /\ up # "down" /\ UNCHANGED <<asked, inForce, edition>>
  BY DEF LoadDaemon, Alive, files
<1>2. CASE DaemonLoads(dfile)
  <2>1. /\ at' = [at EXCEPT ![c] = "tasks"] /\ UNCHANGED <<up, told>>
        /\ got' = [got EXCEPT ![c] = [NoLoad EXCEPT !.daemon = applyDefaults(dfile), !.read = edition]]
    BY <1>2 DEF LoadDaemon, Goto
  <2>2. \A d \in Callers : d # c => at'[d] \notin Loaded /\ got'[d] = got[d]
    BY <1>1, <2>1, OnlyOneLoaded DEF ReloadInv, Shape, Inside
  <2>3. got'[c] = [daemon |-> applyDefaults(dfile), tasks |-> <<>>, read |-> edition, done |-> 0]
    <3>1. got'[c] = [NoLoad EXCEPT !.daemon = applyDefaults(dfile), !.read = edition]
      BY <2>1 DEF ReloadInv, Shape
    <3>. QED
      BY <3>1 DEF NoLoad
  <2>4. Past' /\ Records'
    BY <1>1, <2>2, <2>3 DEF FreshInv, Past, Records
  <2>5. Newest'
    <3>1. asked[c] \in 0 .. edition /\ \A part \in Parts : inForce[part].read \in 0 .. edition
      BY DEF FreshInv, Past
    <3>2. got'[c].read >= asked'[c] /\ \A part \in Parts : got'[c].read >= inForce'[part].read
      BY <1>1, <2>3, <3>1
    <3>. QED
      BY <2>2, <3>2 DEF Newest
  <2>6. Silent' /\ Applied'
    BY <1>1, <2>1 DEF FreshInv, Silent, Applied
  <2>. QED
    BY <2>4, <2>5, <2>6 DEF FreshInv
<1>3. CASE ~DaemonLoads(dfile)
  BY <1>1, <1>3, QuitFresh DEF LoadDaemon
<1>. QED
  BY <1>2, <1>3

LEMMA LoadTasksFresh ==
    ASSUME ReloadInv, FreshInv, NEW c \in Callers, LoadTasks(c)
    PROVE  FreshInv'
<1>1. /\ at[c] = "tasks" /\ up # "down" /\ UNCHANGED <<asked, inForce, edition>>
  BY DEF LoadTasks, Alive, files
<1>2. CASE Accepts(got[c].daemon, tfiles)
  <2>1. /\ at' = [at EXCEPT ![c] = "configure"] /\ UNCHANGED <<up, told>>
        /\ got' = [got EXCEPT ![c].tasks = Tables(tfiles), ![c].done = edition]
    BY <1>2 DEF LoadTasks, Goto
  <2>2. \A d \in Callers : d # c => at'[d] \notin Loaded /\ got'[d] = got[d]
    BY <1>1, <2>1, OnlyOneLoaded DEF ReloadInv, Shape, Inside
  <2>3. got'[c] = [daemon |-> got[c].daemon, tasks |-> Tables(tfiles), read |-> got[c].read, done |-> edition]
    <3>1. got'[c] = [got[c] EXCEPT !.tasks = Tables(tfiles), !.done = edition]
      BY <2>1 DEF ReloadInv, Shape
    <3>2. got[c] = [daemon |-> got[c].daemon, tasks |-> got[c].tasks, read |-> got[c].read, done |-> got[c].done]
      BY DEF FreshInv, Records
    <3>. QED
      BY <3>1, <3>2
  <2>4. Past' /\ Records'
    BY <1>1, <2>2, <2>3 DEF FreshInv, Past, Records
  <2>5. Newest'
    <3>1. got'[c].read = got[c].read
      BY <2>3
    <3>. QED
      BY <1>1, <2>1, <2>2, <3>1 DEF FreshInv, Newest, Loaded
  <2>6. Silent' /\ Applied'
    BY <1>1, <2>1 DEF FreshInv, Silent, Applied
  <2>. QED
    BY <2>4, <2>5, <2>6 DEF FreshInv
<1>3. CASE ~Accepts(got[c].daemon, tfiles)
  BY <1>1, <1>3, QuitFresh DEF LoadTasks
<1>. QED
  BY <1>2, <1>3

LEMMA InstallTasksFresh ==
    ASSUME ReloadInv, FreshInv, NEW c \in Callers, InstallTasks(c)
    PROVE  FreshInv'
<1>1. /\ at[c] = "configure" /\ at' = [at EXCEPT ![c] = "notifier"] /\ up # "loading"
      /\ inForce' = [inForce EXCEPT !.tasks = got[c]]
      /\ UNCHANGED <<up, got, asked, told, edition>>
  BY DEF InstallTasks, Goto, files
<1>2. PutsInForce(c)
  BY <1>1 DEF ReloadInv, Shape, PutsInForce, Loaded, Inside, Parts
<1>. QED
  BY <1>1, <1>2, PutsInForceFresh DEF FreshInv, Records, Inside

LEMMA SetNotifierFresh ==
    ASSUME ReloadInv, FreshInv, NEW c \in Callers, SetNotifier(c)
    PROVE  FreshInv'
<1>1. /\ at[c] = "notifier" /\ at' = [at EXCEPT ![c] = "retention"]
      /\ inForce' = [inForce EXCEPT !.notifier = got[c]]
      /\ UNCHANGED <<up, got, asked, told, edition>>
  BY DEF SetNotifier, Goto, files
<1>2. up # "loading"
  BY <1>1 DEF ReloadInv, Mutex, Callers
<1>3. PutsInForce(c)
  BY <1>1, <1>2 DEF ReloadInv, Shape, PutsInForce, Loaded, Inside, Parts
<1>. QED
  BY <1>1, <1>3, PutsInForceFresh DEF FreshInv, Records, Inside

LEMMA FinishFresh ==
    ASSUME ReloadInv, FreshInv, NEW c \in Callers, Finish(c)
    PROVE  FreshInv'
<1>1. /\ at[c] = "retention" /\ at' = [at EXCEPT ![c] = "idle"]
      /\ inForce' = [inForce EXCEPT !.retention = got[c]]
      /\ got' = [got EXCEPT ![c] = NoLoad] /\ told' = [told EXCEPT ![c] = "ok"]
      /\ UNCHANGED <<up, asked, edition>> /\ up # "down"
  BY DEF Finish, Goto, Alive, files
<1>2. up # "loading"
  BY <1>1 DEF ReloadInv, Mutex, Callers
<1>3. \A d \in Callers : d # c => at'[d] \notin Loaded /\ got'[d] = got[d] /\ told'[d] = told[d]
  BY <1>1, OnlyOneLoaded DEF ReloadInv, Shape, Inside
<1>4. at'[c] = "idle" /\ got'[c] = NoLoad
  BY <1>1 DEF ReloadInv, Shape
<1>5. \A part \in Parts : inForce'[part] = got[c]
  BY <1>1 DEF ReloadInv, Shape, Stages, InStep, Inside, Parts
<1>6. /\ got[c].read >= asked[c]
      /\ \A part \in Parts : got[c].read >= inForce[part].read
  BY <1>1, <1>2 DEF FreshInv, Newest, Loaded
<1>7. Past' /\ Records'
  BY <1>1, <1>3, <1>4, <1>5 DEF FreshInv, Past, Records, NoLoad
<1>8. Newest'
  BY <1>3, <1>4 DEF Newest, Loaded
<1>9. Silent'
  BY <1>1, <1>2 DEF Silent
<1>10. Applied'
  <2>. SUFFICES ASSUME NEW d \in Callers, told'[d] = "ok" PROVE got[c].read >= asked[d]
    BY <1>1, <1>5 DEF Applied
  <2>1. CASE d = c
    BY <1>6, <2>1
  <2>2. CASE d # c
    <3>1. "tasks" \in Parts /\ inForce["tasks"].read >= asked[d]
      BY <1>3, <2>2 DEF FreshInv, Applied, Parts
    <3>2. got[c].read \in Nat /\ inForce["tasks"].read \in Nat /\ asked[d] \in Nat
      BY <3>1 DEF FreshInv, Past
    <3>. QED
      BY <1>6, <3>1, <3>2
  <2>. QED
    BY <2>1, <2>2
<1>. QED
  BY <1>7, <1>8, <1>9, <1>10 DEF FreshInv

LEMMA ServeFresh == ReloadInv /\ FreshInv /\ Serve => FreshInv'
<1>. SUFFICES ASSUME ReloadInv, FreshInv, Serve PROVE FreshInv'
  OBVIOUS
<1>1. /\ up = "loading" /\ at["loop"] = "configure" /\ "loop" \in Callers
      /\ asked' = asked /\ edition' = edition
  BY DEF Serve, Callers, files
<1>2. CASE got["loop"].daemon.apiKey
  <2>1. /\ at' = [at EXCEPT !["loop"] = "days"] /\ up' = "serving" /\ told' = told
        /\ got' = [got EXCEPT !["loop"] = NoLoad]
        /\ inForce' = [tasks |-> got["loop"], notifier |-> got["loop"], retention |-> got["loop"]]
    BY <1>2 DEF Serve, Goto
  <2>2. \A d \in Callers : at'[d] \notin Loaded /\ (d # "loop" => got'[d] = got[d])
    BY <1>1, <2>1, OnlyOneLoaded DEF ReloadInv, Shape, Inside, Loaded
  <2>3. got'["loop"] = NoLoad /\ \A part \in Parts : inForce'[part] = got["loop"]
    BY <1>1, <2>1 DEF ReloadInv, Shape, Parts
  <2>4. Past' /\ Records'
    BY <1>1, <2>2, <2>3 DEF FreshInv, Past, Records, NoLoad
  <2>5. Newest' /\ Silent' /\ Applied'
    BY <1>1, <2>1, <2>2 DEF FreshInv, Newest, Silent, Applied
  <2>. QED
    BY <2>4, <2>5 DEF FreshInv
<1>3. CASE ~got["loop"].daemon.apiKey
  BY <1>1, <1>3, QuitFresh DEF Serve
<1>. QED
  BY <1>2, <1>3

\* The steps that bring a caller to a point with nothing in hand.
LEMMA EmptySteps ==
    ASSUME ReloadInv,
           \/ Start \/ ReadDays \/ Prune \/ Hangup \/ Shutdown \/ Tick
           \/ \E c \in Clients : AskReload(c)
           \/ \E c \in Callers : Lock(c)
    PROVE  \E c \in Callers : ComesEmpty(c)
<1>1. "loop" \in Callers /\ Clients \subseteq Callers
  BY DEF Callers
<1>2. /\ at["loop"] \in {"days", "prune"} => up \notin {"down", "loading"}
      /\ \A c \in Callers : at[c] = "lock" => up \notin {"down", "loading"}
      /\ at = [at EXCEPT !["loop"] = at["loop"]]
      /\ \A c \in Callers, point \in Points : [at EXCEPT ![c] = point][c] = point
  BY DEF ReloadInv, Shape, Mutex, Callers
<1>3. CASE ReadDays
  BY <1>1, <1>2, <1>3 DEF ReadDays, Goto, ComesEmpty, Loaded, Points, files
<1>4. CASE Prune
  BY <1>1, <1>2, <1>4 DEF Prune, Goto, ComesEmpty, Loaded, Points, files
<1>5. CASE Hangup
  <2>1. at'["loop"] = "lock"
    BY <1>1, <1>2, <1>5 DEF Hangup, Goto, Points
  <2>. QED
    BY <1>1, <1>5, <2>1 DEF Hangup, LoopRests, Goto, ComesEmpty, Loaded, files
<1>6. CASE Shutdown
  BY <1>1, <1>2, <1>6 DEF Shutdown, LoopRests, callers, ComesEmpty, Loaded, files
<1>7. CASE Tick
  BY <1>1, <1>2, <1>7 DEF Tick, LoopRests, Goto, ComesEmpty, Loaded, Points, files
<1>8. CASE \E c \in Clients : AskReload(c)
  <2>1. PICK c \in Clients : AskReload(c)
    BY <1>8
  <2>2. /\ asked' = [asked EXCEPT ![c] = edition] /\ told[c] = "none" /\ told' = told
        /\ at' = [at EXCEPT ![c] = "lock"]
        /\ up \in {"serving", "up"} /\ UNCHANGED <<up, got, inForce, edition>>
    BY <2>1 DEF AskReload, Listening, Goto, files
  <2>3. told' = [told EXCEPT ![c] = "none"]
    BY <1>1, <2>2 DEF ReloadInv, Shape
  <2>4. at'[c] = "lock"
    BY <1>1, <2>2 DEF ReloadInv, Shape
  <2>. QED
    BY <1>1, <2>2, <2>3, <2>4 DEF ComesEmpty, Loaded
<1>9. CASE \E c \in Callers : Lock(c)
  <2>1. PICK c \in Callers : Lock(c)
    BY <1>9
  <2>2. /\ at[c] = "lock" /\ at' = [at EXCEPT ![c] = "toml"]
        /\ UNCHANGED <<up, got, asked, told, inForce, edition>>
    BY <2>1 DEF Lock, Acquire, Enter, Goto, files
  <2>. QED
    BY <1>2, <2>2 DEF ComesEmpty, Loaded, Points
<1>10. CASE Start
  BY <1>1, <1>2, <1>10 DEF Start, Alive, Goto, ComesEmpty, Loaded, Points, files
<1>. QED
  BY <1>3, <1>4, <1>5, <1>6, <1>7, <1>8, <1>9, <1>10

LEMMA NextFresh == ReloadInv /\ FreshInv /\ [Next]_vars => FreshInv'
<1>. SUFFICES ASSUME ReloadInv, FreshInv, [Next]_vars PROVE FreshInv'
  OBVIOUS
<1>1. CASE \/ Start \/ ReadDays \/ Prune \/ Hangup \/ Shutdown \/ Tick
           \/ \E c \in Clients : AskReload(c)
           \/ \E c \in Callers : Lock(c)
  BY <1>1, EmptySteps, ComesEmptyFresh
<1>2. CASE Serve
  BY <1>2, ServeFresh
<1>3. CASE \E c \in Callers : LoadDaemon(c) \/ LoadTasks(c) \/ InstallTasks(c) \/ SetNotifier(c) \/ Finish(c)
  BY <1>3, LoadDaemonFresh, LoadTasksFresh, InstallTasksFresh, SetNotifierFresh, FinishFresh
<1>4. CASE \E logs : Die(logs)
  BY <1>4, DieFresh
<1>5. CASE \/ RunFails \/ HookEnds \/ Edit \/ NextDay \/ UNCHANGED vars
           \/ \E s \in {"HUP", "TERM"} : Deliver(s) /\ up \in {"up", "stopping"}
  <2>1. edition' = edition \/ edition' = edition + 1
    BY <1>5 DEF RunFails, HookEnds, Edit, NextDay, vars, Deliver, files
  <2>. QED
    BY <1>5, <2>1, Elsewhere, UntouchedFresh
<1>6. (\E c \in Callers : Reload(c)) =>
        \E c \in Callers : Lock(c) \/ LoadDaemon(c) \/ LoadTasks(c) \/ InstallTasks(c) \/ SetNotifier(c) \/ Finish(c)
  BY DEF Reload
<1>. QED
  BY NextCases, <1>1, <1>2, <1>3, <1>4, <1>5, <1>6

\* A reload that was answered with success has put in force, part by part,
\* what the files said when it was asked for or something newer (reload() in
\* cmd/serve.go reads them under reloadMu), however many callers there are
\* and whatever is edited while they read.
THEOREM SuccessMeansApplied == Spec => []ReloadApplies
<1>1. ReloadInv /\ FreshInv => ReloadApplies
  <2>. SUFFICES ASSUME ReloadInv, FreshInv, NEW c \in Callers, told[c] = "ok",
                       NEW part \in DOMAIN inForce
                PROVE  inForce[part].read >= asked[c]
    BY DEF ReloadApplies
  <2>1. part \in Parts
    BY DEF ReloadInv, Shape, Parts
  <2>. QED
    BY <2>1 DEF FreshInv, Applied
<1>2. Spec => [](ReloadInv /\ FreshInv)
  BY InitReload, NextKeeps, InitFresh, NextFresh, PTL DEF Spec
<1>. QED
  BY <1>1, <1>2, PTL

-----------------------------------------------------------------------------
(* The alert of an overrun streak *)

Threshold == Nat \ {0}

\* The thresholds that loads in hand and the engine have.
Loads ==
    \A c \in Callers :
        /\ at[c] = "tasks" => got[c].daemon.threshold \in Int
        /\ at[c] \in {"configure", "notifier"} => got[c].daemon.threshold \in Threshold

Alarm ==
    Serving => /\ streak \in Nat /\ alerts \in Nat /\ disturbed \in Nat
               /\ threshold \in Threshold
               /\ alerts <= disturbed + (IF streak >= threshold THEN 1 ELSE 0)
               /\ disturbed = 0 => alerts = IF streak >= threshold THEN 1 ELSE 0

Around == dfile \in DaemonFiles /\ up \in {"down", "loading", "serving", "up", "stopping"}

AlertInv == Loads /\ Alarm /\ Around

LEMMA InitAlert == Init => AlertInv
BY DEF Init, AlertInv, Loads, Alarm, Around, Serving, Each

LEMMA LoadedThreshold ==
    ASSUME NEW d \in DaemonConfig
    PROVE  applyDefaults(d).threshold \in Int
<1>1. d.threshold \in Int /\ "threshold" \in DOMAIN d
  BY DEF DaemonConfig
<1>2. applyDefaults(d).threshold = IF d.threshold = 0 THEN DefaultOverrunStreakThreshold ELSE d.threshold
  BY <1>1 DEF applyDefaults
<1>. QED
  BY <1>1, <1>2, ConfigAssumption

LEMMA AcceptedThreshold ==
    ASSUME NEW d, NEW ts, d.threshold \in Int, Accepts(d, ts)
    PROVE  d.threshold \in Threshold
BY DEF Accepts, ValidDaemon, ValidHooks, Threshold

\* One due fire keeps the count of alerts right: equality hits once.
LEMMA NoteFireKeeps ==
    ASSUME Alarm, Serving, NEW onTime \in BOOLEAN, NEW missed \in BOOLEAN, NoteFire(onTime, missed)
    PROVE  Alarm'
<1>1. /\ streak \in Nat /\ alerts \in Nat /\ disturbed \in Nat /\ threshold \in Nat /\ threshold >= 1
      /\ alerts <= disturbed + (IF streak >= threshold THEN 1 ELSE 0)
      /\ disturbed = 0 => alerts = IF streak >= threshold THEN 1 ELSE 0
      /\ threshold' = threshold
  BY DEF Alarm, Threshold, NoteFire
<1>2. CASE onTime
  <2>1. streak' = 0 /\ alerts' = 0 /\ disturbed' = 0
    BY <1>2 DEF NoteFire, StreakAfter
  <2>. QED
    BY <1>1, <2>1 DEF Alarm, Threshold
<1>3. CASE ~onTime
  <2>1. /\ streak' = streak + 1 /\ disturbed' = disturbed
        /\ alerts' = alerts + (IF streak + 1 = threshold THEN 1 ELSE 0)
    BY <1>1, <1>3 DEF NoteFire, StreakAfter, StreakReached
  <2>. QED
    BY <1>1, <2>1 DEF Alarm, Threshold
<1>. QED
  BY <1>2, <1>3

\* Steps that neither touch the streak nor bring a new load.
LEMMA CalmKeeps ==
    ASSUME AlertInv, UNCHANGED alarm, Serving' => Serving, Around',
           \A c \in Callers : at'[c] \notin {"tasks", "configure", "notifier"} \/ (at'[c] = at[c] /\ got'[c] = got[c])
    PROVE  AlertInv'
<1>1. Loads'
  BY DEF AlertInv, Loads
<1>2. Alarm'
  BY DEF AlertInv, Alarm, alarm
<1>. QED
  BY <1>1, <1>2 DEF AlertInv

LEMMA QuitAlert ==
    ASSUME ReloadInv, AlertInv, NEW c \in Callers, Quit(c), up # "down", UNCHANGED <<dfile, alarm>>
    PROVE  AlertInv'
<1>1. /\ at'[c] = "idle"
      /\ \A d \in Callers : d # c => at'[d] = at[d] /\ got'[d] = got[d]
      /\ up' = up \/ up' = "down"
  BY DEF Quit, Goto, ReloadInv, Shape
<1>2. Around' /\ (Serving' => Serving)
  BY <1>1 DEF AlertInv, Around, Serving
<1>. QED
  BY <1>1, <1>2, CalmKeeps

LEMMA LoadDaemonAlert ==
    ASSUME ReloadInv, AlertInv, NEW c \in Callers, LoadDaemon(c)
    PROVE  AlertInv'
<1>1. up # "down" /\ UNCHANGED <<dfile, alarm>>
  BY DEF LoadDaemon, Alive, files
<1>2. CASE DaemonLoads(dfile)
  <2>1. /\ at' = [at EXCEPT ![c] = "tasks"] /\ up' = up
        /\ got' = [got EXCEPT ![c] = [NoLoad EXCEPT !.daemon = applyDefaults(dfile), !.read = edition]]
    BY <1>2 DEF LoadDaemon, Goto
  <2>2. /\ at'[c] = "tasks" /\ got'[c] = [NoLoad EXCEPT !.daemon = applyDefaults(dfile), !.read = edition]
        /\ \A d \in Callers : d # c => at'[d] = at[d] /\ got'[d] = got[d]
    BY <2>1 DEF ReloadInv, Shape
  <2>3. got'[c].daemon = applyDefaults(dfile)
    BY <2>2 DEF NoLoad
  <2>4. got'[c].daemon.threshold \in Int
    BY <2>3, LoadedThreshold, DaemonAssumption DEF AlertInv, Around
  <2>5. Loads'
    BY <2>2, <2>4 DEF AlertInv, Loads
  <2>6. Alarm' /\ Around'
    BY <1>1, <2>1 DEF AlertInv, Alarm, alarm, Around, Serving
  <2>. QED
    BY <2>5, <2>6 DEF AlertInv
<1>3. CASE ~DaemonLoads(dfile)
  BY <1>1, <1>3, QuitAlert DEF LoadDaemon
<1>. QED
  BY <1>2, <1>3

LEMMA LoadTasksAlert ==
    ASSUME ReloadInv, FreshInv, AlertInv, NEW c \in Callers, LoadTasks(c)
    PROVE  AlertInv'
<1>1. at[c] = "tasks" /\ up # "down" /\ UNCHANGED <<dfile, alarm>>
  BY DEF LoadTasks, Alive, files
<1>2. CASE Accepts(got[c].daemon, tfiles)
  <2>1. /\ at' = [at EXCEPT ![c] = "configure"] /\ up' = up
        /\ got' = [got EXCEPT ![c].tasks = Tables(tfiles), ![c].done = edition]
    BY <1>2 DEF LoadTasks, Goto
  <2>2. /\ at'[c] = "configure" /\ got'[c] = [got[c] EXCEPT !.tasks = Tables(tfiles), !.done = edition]
        /\ \A d \in Callers : d # c => at'[d] = at[d] /\ got'[d] = got[d]
    BY <2>1 DEF ReloadInv, Shape
  <2>3. got[c] = [daemon |-> got[c].daemon, tasks |-> got[c].tasks, read |-> got[c].read, done |-> got[c].done]
    BY DEF FreshInv, Records
  <2>4. got'[c].daemon = got[c].daemon
    BY <2>2, <2>3
  <2>5. got[c].daemon.threshold \in Int
    BY <1>1 DEF AlertInv, Loads
  <2>6. got'[c].daemon.threshold \in Threshold
    BY <1>2, <2>4, <2>5, AcceptedThreshold
  <2>7. Loads'
    BY <2>2, <2>6 DEF AlertInv, Loads
  <2>8. Alarm' /\ Around'
    BY <1>1, <2>1 DEF AlertInv, Alarm, alarm, Around, Serving
  <2>. QED
    BY <2>7, <2>8 DEF AlertInv
<1>3. CASE ~Accepts(got[c].daemon, tfiles)
  BY <1>1, <1>3, QuitAlert DEF LoadTasks
<1>. QED
  BY <1>2, <1>3

LEMMA InstallTasksAlert ==
    ASSUME ReloadInv, AlertInv, NEW c \in Callers, InstallTasks(c)
    PROVE  AlertInv'
<1>1. /\ at[c] = "configure" /\ at' = [at EXCEPT ![c] = "notifier"] /\ Serving
      /\ streak' = 0 /\ disturbed' = disturbed + (IF streak = 0 THEN 0 ELSE 1)
      /\ UNCHANGED <<dfile, up, got, threshold, alerts>>
  BY DEF InstallTasks, Goto, files, Serving
<1>2. at'[c] = "notifier" /\ \A d \in Callers : d # c => at'[d] = at[d]
  BY <1>1 DEF ReloadInv, Shape
<1>3. Loads'
  BY <1>1, <1>2 DEF AlertInv, Loads
<1>4. Alarm'
  <2>1. /\ streak \in Nat /\ alerts \in Nat /\ disturbed \in Nat /\ threshold \in Nat /\ threshold >= 1
        /\ alerts <= disturbed + (IF streak >= threshold THEN 1 ELSE 0)
        /\ disturbed = 0 => alerts = IF streak >= threshold THEN 1 ELSE 0
    BY <1>1 DEF AlertInv, Alarm, Threshold
  <2>2. disturbed' \in Nat /\ alerts' <= disturbed' /\ (disturbed' = 0 => alerts' = 0)
    BY <1>1, <2>1
  <2>. QED
    BY <1>1, <2>1, <2>2 DEF AlertInv, Alarm
<1>5. Around'
  BY <1>1 DEF AlertInv, Around
<1>. QED
  BY <1>3, <1>4, <1>5 DEF AlertInv

LEMMA SetNotifierAlert ==
    ASSUME ReloadInv, AlertInv, NEW c \in Callers, SetNotifier(c)
    PROVE  AlertInv'
<1>1. /\ at[c] = "notifier" /\ at' = [at EXCEPT ![c] = "retention"]
      /\ threshold' = IF got[c].daemon.threshold > 0 THEN got[c].daemon.threshold ELSE threshold
      /\ disturbed' = disturbed + (IF streak = 0 \/ threshold' = threshold THEN 0 ELSE 1)
      /\ UNCHANGED <<dfile, up, got, streak, alerts>>
  BY DEF SetNotifier, Goto, files
<1>2. at'[c] = "retention" /\ \A d \in Callers : d # c => at'[d] = at[d]
  BY <1>1 DEF ReloadInv, Shape
<1>3. Loads'
  BY <1>1, <1>2 DEF AlertInv, Loads
<1>4. threshold' \in Threshold
  BY <1>1 DEF AlertInv, Loads, Threshold
<1>5. Alarm'
  <2>. SUFFICES ASSUME Serving PROVE Alarm'
    BY <1>1 DEF Alarm, Serving
  <2>1. /\ streak \in Nat /\ alerts \in Nat /\ disturbed \in Nat /\ threshold \in Nat /\ threshold >= 1
        /\ alerts <= disturbed + (IF streak >= threshold THEN 1 ELSE 0)
        /\ disturbed = 0 => alerts = IF streak >= threshold THEN 1 ELSE 0
    BY DEF AlertInv, Alarm, Threshold
  <2>2. threshold' \in Nat /\ threshold' >= 1
    BY <1>4 DEF Threshold
  <2>3. CASE streak = 0 \/ threshold' = threshold
    <3>1. disturbed' = disturbed /\ (streak' >= threshold' <=> streak >= threshold)
      BY <1>1, <2>1, <2>2, <2>3
    <3>. QED
      BY <1>1, <1>4, <2>1, <3>1 DEF Alarm
  <2>4. CASE ~(streak = 0 \/ threshold' = threshold)
    <3>1. disturbed' = disturbed + 1 /\ alerts' <= disturbed'
      BY <1>1, <2>1, <2>4
    <3>. QED
      BY <1>1, <1>4, <2>1, <2>2, <3>1 DEF Alarm
  <2>. QED
    BY <2>3, <2>4
<1>6. Around'
  BY <1>1 DEF AlertInv, Around
<1>. QED
  BY <1>3, <1>5, <1>6 DEF AlertInv

LEMMA ServeAlert == ReloadInv /\ AlertInv /\ Serve => AlertInv'
<1>. SUFFICES ASSUME ReloadInv, AlertInv, Serve PROVE AlertInv'
  OBVIOUS
<1>1. /\ up = "loading" /\ at["loop"] = "configure" /\ "loop" \in Callers /\ dfile' = dfile
  BY DEF Serve, Callers, files
<1>2. CASE got["loop"].daemon.apiKey
  <2>1. /\ at' = [at EXCEPT !["loop"] = "days"] /\ got' = [got EXCEPT !["loop"] = NoLoad]
        /\ threshold' = got["loop"].daemon.threshold /\ up' = "serving"
        /\ streak' = 0 /\ alerts' = 0 /\ disturbed' = 0
    BY <1>2 DEF Serve, Goto
  <2>2. /\ at'["loop"] = "days"
        /\ \A d \in Callers : d # "loop" => at'[d] = at[d] /\ got'[d] = got[d]
    BY <1>1, <2>1 DEF ReloadInv, Shape
  <2>3. Loads'
    BY <2>2 DEF AlertInv, Loads
  <2>4. threshold' \in Threshold
    BY <1>1, <2>1 DEF AlertInv, Loads
  <2>5. Alarm' /\ Around'
    BY <1>1, <2>1, <2>4 DEF AlertInv, Alarm, Around, Threshold
  <2>. QED
    BY <2>3, <2>5 DEF AlertInv
<1>3. CASE ~got["loop"].daemon.apiKey
  BY <1>1, <1>3, QuitAlert DEF Serve
<1>. QED
  BY <1>2, <1>3

\* The steps that bring a caller to a point with nothing in hand.
LEMMA EmptyAlert ==
    ASSUME ReloadInv, AlertInv,
           \/ Start \/ ReadDays \/ Prune \/ Hangup \/ Shutdown
           \/ \E c \in Clients : AskReload(c)
           \/ \E c \in Callers : Lock(c) \/ Finish(c)
    PROVE  AlertInv'
<1>1. "loop" \in Callers /\ Clients \subseteq Callers
  BY DEF Callers
<1>2. UNCHANGED <<dfile, alarm>>
  BY DEF Start, ReadDays, Prune, Hangup, Shutdown, AskReload, Lock, Finish, files
<1>3. Around' /\ (Serving' => Serving)
  BY <1>2 DEF Start, ReadDays, Prune, Hangup, Shutdown, AskReload, Lock, Finish, Alive, LoopRests,
              AlertInv, Around, Serving
<1>4. \/ at' = at
      \/ \E c \in Callers : \E point \in {"idle", "toml", "lock", "prune"} : at' = [at EXCEPT ![c] = point]
  BY <1>1 DEF Start, ReadDays, Prune, Hangup, Shutdown, AskReload, Lock, Acquire, Enter, Finish, Goto, callers
<1>5. got' = got \/ \E c \in Callers : at' = [at EXCEPT ![c] = "idle"] /\ got' = [got EXCEPT ![c] = NoLoad]
  BY <1>1 DEF Start, ReadDays, Prune, Hangup, Shutdown, AskReload, Lock, Finish, Goto, callers
<1>6. \A c \in Callers : at'[c] \notin {"tasks", "configure", "notifier"} \/ (at'[c] = at[c] /\ got'[c] = got[c])
  BY <1>4, <1>5 DEF ReloadInv, Shape
<1>. QED
  BY <1>2, <1>3, <1>6, CalmKeeps

LEMMA TickAlert == ReloadInv /\ AlertInv /\ Tick => AlertInv'
<1>. SUFFICES ASSUME ReloadInv, AlertInv, Tick PROVE AlertInv'
  OBVIOUS
<1>1. up = "up" /\ Serving /\ UNCHANGED <<dfile, up, got>>
  BY DEF Tick, LoopRests, Serving, files
<1>2. \A c \in Callers : at'[c] = at[c] \/ at'[c] = "days"
  BY DEF Tick, Goto, ReloadInv, Shape
<1>3. Loads' /\ Around'
  BY <1>1, <1>2 DEF AlertInv, Loads, Around
<1>4. UNCHANGED alarm => Alarm'
  BY <1>1 DEF AlertInv, Alarm, alarm, Serving
<1>5. (\E onTime, missed \in BOOLEAN : NoteFire(onTime, missed)) => Alarm'
  BY <1>1, NoteFireKeeps DEF AlertInv
<1>6. Alarm'
  BY <1>4, <1>5 DEF Tick
<1>. QED
  BY <1>3, <1>6 DEF AlertInv

LEMMA NextAlert == ReloadInv /\ FreshInv /\ AlertInv /\ [Next]_vars => AlertInv'
<1>. SUFFICES ASSUME ReloadInv, FreshInv, AlertInv, [Next]_vars PROVE AlertInv'
  OBVIOUS
<1>1. CASE \/ Start \/ ReadDays \/ Prune \/ Hangup \/ Shutdown
           \/ \E c \in Clients : AskReload(c)
           \/ \E c \in Callers : Lock(c) \/ Finish(c)
  BY <1>1, EmptyAlert
<1>2. CASE Serve \/ Tick
  BY <1>2, ServeAlert, TickAlert
<1>3. CASE \E c \in Callers : LoadDaemon(c) \/ LoadTasks(c) \/ InstallTasks(c) \/ SetNotifier(c)
  BY <1>3, LoadDaemonAlert, LoadTasksAlert, InstallTasksAlert, SetNotifierAlert
<1>4. CASE \E logs : Die(logs)
  <2>1. dfile' = dfile /\ up' = "down" /\ \A c \in Callers : at'[c] = "idle"
    BY <1>4 DEF Die, Each, files
  <2>. QED
    BY <2>1 DEF AlertInv, Loads, Alarm, Around, Serving
<1>5. CASE \/ RunFails \/ HookEnds \/ Edit \/ NextDay \/ UNCHANGED vars
           \/ \E s \in {"HUP", "TERM"} : Deliver(s) /\ up \in {"up", "stopping"}
  <2>1. UNCHANGED <<up, at, got>>
    BY <1>5, Elsewhere DEF Untouched
  <2>2. dfile' \in DaemonFiles /\ UNCHANGED alarm
    BY <1>5 DEF RunFails, HookEnds, Edit, NextDay, vars, Deliver, files, AlertInv, Around
  <2>. QED
    BY <2>1, <2>2, CalmKeeps DEF AlertInv, Around, Serving
<1>6. (\E c \in Callers : Reload(c)) =>
        \E c \in Callers : Lock(c) \/ LoadDaemon(c) \/ LoadTasks(c) \/ InstallTasks(c) \/ SetNotifier(c) \/ Finish(c)
  BY DEF Reload
<1>. QED
  BY NextCases, <1>1, <1>2, <1>3, <1>4, <1>5, <1>6

\* A streak that reaches the threshold is reported once and not before
\* (noteFireOutcome in engine.go compares for equality, so a skipped value would
\* silence it for good), and never twice: whatever the thresholds and however
\* the restarts fall among the fires.  A reload under a streak, and a change
\* of its threshold, are the exceptions: each may silence it or repeat it,
\* and adds one report at most.
THEOREM AlertsOnce == Spec => []StreakAlerted
<1>1. AlertInv => StreakAlerted
  <2> SUFFICES ASSUME AlertInv, Serving PROVE StreakAlerted
    BY DEF StreakAlerted
  <2>1. /\ alerts \in Nat /\ disturbed \in Nat
        /\ alerts <= disturbed + (IF streak >= threshold THEN 1 ELSE 0)
        /\ disturbed = 0 => alerts = IF streak >= threshold THEN 1 ELSE 0
    BY DEF AlertInv, Alarm
  <2> QED
    BY <2>1 DEF StreakAlerted
<1>2. Spec => [](ReloadInv /\ FreshInv /\ AlertInv)
  BY InitReload, NextKeeps, InitFresh, NextFresh, InitAlert, NextAlert, PTL DEF Spec
<1>. QED
  BY <1>1, <1>2, PTL

-----------------------------------------------------------------------------
(* The daemon's log *)

\* The log is whole; whoever may write to it does so through a Writer that
\* knows the size of the active file.
LogKept ==
    /\ LogInv(log)
    /\ Serving => SizeKnown(log)
    /\ hookRuns > 0 => Serving

LEMMA InitLog == Init => LogKept
BY NewLogKeeps DEF Init, LogKept, Serving

\* A line through the Writer.
Writes == \E len \in Nat \ {0} : Write(len)

LEMMA LogStep ==
    ASSUME LogKept, Serving' => Serving, hookRuns' > 0 => hookRuns > 0 \/ Serving,
           Serving => Serving' \/ hookRuns' = 0,
           log' = log \/ (Serving /\ Writes)
    PROVE  LogKept'
<1>1. LogInv(log') /\ (Serving => SizeKnown(log'))
  BY WrittenKeeps DEF LogKept, Writes, Write
<1>2. hookRuns' > 0 => Serving'
  BY DEF LogKept
<1> QED
  BY <1>1, <1>2 DEF LogKept

\* A process that ends leaves its log as it is, or in the middle of a rotation.
LEMMA DieLog ==
    ASSUME LogKept, NEW logs \in {CutShort(log, FailureLen), {log}}, Die(logs)
    PROVE  LogKept'
<1>1. PICK l \in logs : log' = Left(l)
  BY DEF Die
<1>2. LogInv(l)
  BY CutShortKeeps DEF LogKept
<1>3. LogInv(log')
  BY <1>1, <1>2, LeftKeeps
<1> QED
  BY <1>3 DEF Die, LogKept, Serving

LEMMA ServeLog == ReloadInv /\ LogKept /\ Serve => LogKept'
<1> SUFFICES ASSUME ReloadInv, LogKept, Serve PROVE LogKept'
  OBVIOUS
<1>1. up = "loading" /\ hookRuns' = hookRuns
  BY DEF Serve
<1>2. CASE got["loop"].daemon.apiKey
  <2>1. up' = "serving" /\ log' \in Written(Opened(log), 1)
    BY <1>2 DEF Serve
  <2>2. LogInv(Opened(log)) /\ SizeKnown(Opened(log))
    BY OpenedKeeps DEF LogKept
  <2>3. LogInv(log') /\ SizeKnown(log')
    BY <2>1, <2>2, WrittenKeeps
  <2> QED
    BY <2>1, <2>3 DEF LogKept, Serving
<1>3. CASE ~got["loop"].daemon.apiKey
  <2>1. up' = "down" /\ log' = log
    BY <1>1, <1>3 DEF Serve, Quit
  <2> QED
    BY <1>1, <2>1 DEF LogKept, Serving
<1> QED
  BY <1>2, <1>3

LEMMA ReloadLog ==
    ASSUME ReloadInv, AlertInv, LogKept, NEW c \in Callers, Reload(c)
    PROVE  LogKept'
<1>1. 1 \in Nat \ {0}
  OBVIOUS
<1>2. hookRuns' = hookRuns /\ up # "down"
  BY DEF Reload, Lock, LoadDaemon, LoadTasks, InstallTasks, SetNotifier, Finish, Alive
<1>3. CASE Quit(c)
  <2>1. \/ up = "loading" /\ up' = "down" /\ log' = log
        \/ up # "loading" /\ up' = up /\ (log' = log \/ Writes)
    BY <1>1, <1>3 DEF Quit, Writes
  <2> QED
    BY <1>2, <2>1, LogStep DEF Serving, AlertInv, Around, LogKept
<1>4. CASE UNCHANGED <<up, log>>
  BY <1>2, <1>4, LogStep DEF Serving, LogKept
<1>5. CASE Finish(c)
  <2>1. up' = up /\ Writes /\ at[c] = "retention"
    BY <1>1, <1>5 DEF Finish, Writes
  <2>2. up # "loading"
    BY <2>1 DEF ReloadInv, Mutex, Callers
  <2> QED
    BY <1>2, <2>1, <2>2, LogStep DEF Serving, AlertInv, Around, LogKept
<1> QED
  BY <1>3, <1>4, <1>5 DEF Reload, Lock, LoadDaemon, LoadTasks, InstallTasks, SetNotifier

\* The other steps of the daemon and the world around it.
LEMMA CalmLog ==
    ASSUME ReloadInv, AlertInv, LogKept,
           \/ Start \/ ReadDays \/ Prune \/ Hangup \/ Shutdown \/ Tick \/ \E c \in Clients : AskReload(c)
           \/ RunFails \/ HookEnds \/ Edit \/ NextDay \/ UNCHANGED vars
           \/ \E s \in {"HUP", "TERM"} : Deliver(s) /\ up \in {"up", "stopping"}
    PROVE  LogKept'
<1>1. 1 \in Nat \ {0} /\ FailureLen \in Nat \ {0}
  BY DaemonAssumption
<1>2. CASE Start
  BY <1>2, LogStep DEF Start, Alive, Serving, LogKept
<1>3. CASE ReadDays \/ Hangup \/ (\E c \in Clients : AskReload(c)) \/ Edit \/ NextDay \/ UNCHANGED vars
  BY <1>3, LogStep DEF ReadDays, Hangup, AskReload, Edit, NextDay, vars, Serving, LogKept
<1>4. CASE \E s \in {"HUP", "TERM"} : Deliver(s) /\ up \in {"up", "stopping"}
  BY <1>4, LogStep DEF Deliver, Serving, LogKept
<1>5. CASE Prune
  <2>1. up \notin {"down", "loading"}
    BY <1>5 DEF Prune, ReloadInv, Mutex
  <2>2. Serving /\ Serving' /\ hookRuns' = hookRuns /\ (log' = log \/ Writes)
    BY <1>1, <1>5, <2>1 DEF Prune, Serving, Writes, AlertInv, Around
  <2> QED
    BY <2>2, LogStep
<1>6. CASE Shutdown
  <2>1. Serving /\ Serving' /\ hookRuns' = hookRuns /\ Writes
    BY <1>1, <1>6 DEF Shutdown, LoopRests, Serving, Writes
  <2> QED
    BY <2>1, LogStep
<1>7. CASE Tick \/ RunFails
  <2>1. Serving /\ Serving' /\ log' = log
    BY <1>7 DEF Tick, LoopRests, RunFails, Serving
  <2> QED
    BY <2>1, LogStep
<1>8. CASE HookEnds
  <2>1. up' = up /\ Serving /\ Writes
    BY <1>1, <1>8 DEF HookEnds, Writes, LogKept
  <2> QED
    BY <2>1, LogStep DEF Serving
<1> QED
  BY <1>2, <1>3, <1>4, <1>5, <1>6, <1>7, <1>8

LEMMA NextLog == ReloadInv /\ AlertInv /\ LogKept /\ [Next]_vars => LogKept'
BY NextCases, CalmLog, ReloadLog, ServeLog, DieLog

\* The daemon's log stays in order with its newest line, over restarts, crashes
\* in a rotation and any renames that fail, and no file outgrows the cap by
\* more than one line of its own (Write and rotate in logrotate.go), for any
\* cap, number of generations and lines.  Only lines at the end of the oldest
\* generation are ever lost, until a rename replaces a file whose own rename
\* has just failed: that loses a generation in the middle.
THEOREM LogStaysWhole == Spec => []LogWhole
<1>1. LogKept => LogWhole
  BY LogInvWhole DEF LogKept, LogWhole
<1>2. Spec => [](ReloadInv /\ FreshInv /\ AlertInv /\ LogKept)
  BY InitReload, NextKeeps, InitFresh, NextFresh, InitAlert, NextAlert, InitLog, NextLog, PTL DEF Spec
<1> QED
  BY <1>1, <1>2, PTL

-----------------------------------------------------------------------------
(* Every variable has its type, and what is in force has passed Validate *)

LEMMA TablesType ==
    ASSUME NEW files0 \in Seq(TasksFile)
    PROVE  Tables(files0) \in Seq(TaskTable)
<1> DEFINE s == [i \in DOMAIN files0 |-> files0[i].tasks]
<1>1. \A i \in 1 .. Len(files0) : files0[i] \in TasksFile
  OBVIOUS
<1>2. \A i \in 1 .. Len(files0) : files0[i].tasks \in Seq(TaskTable)
  BY <1>1 DEF TasksFile
<1>3. s \in [1 .. Len(files0) -> Seq(TaskTable)] /\ Len(files0) \in Nat
  BY <1>2
<1> HIDE DEF s
<1>4. s \in Seq(Seq(TaskTable))
  BY <1>3
<1>5. FlattenSeq(s) \in Seq(TaskTable)
  BY <1>4, FlattenType
<1> QED
  BY <1>5 DEF Tables, s

LEMMA DefaultsType ==
    ASSUME NEW d \in DaemonConfig
    PROVE  /\ applyDefaults(d) \in DaemonConfig
           /\ applyDefaults(d).retentionDays \in {DefaultRetentionDays, d.retentionDays} \ {0}
<1> DEFINE listen == IF d.listen = "" THEN "loopback" ELSE d.listen
           days0  == IF d.retentionDays = 0 THEN DefaultRetentionDays ELSE d.retentionDays
           limit  == IF d.threshold = 0 THEN DefaultOverrunStreakThreshold ELSE d.threshold
<1>1. applyDefaults(d) = [d EXCEPT !.listen = listen, !.retentionDays = days0, !.threshold = limit]
  BY DEF applyDefaults, DaemonConfig
<1>2. /\ listen \in {"", "loopback", "remote"} /\ days0 \in Int \ {0} /\ limit \in Int
      /\ days0 \in {DefaultRetentionDays, d.retentionDays}
  <2>1. d.listen \in {"", "loopback", "remote"} /\ d.retentionDays \in Int /\ d.threshold \in Int
    BY DEF DaemonConfig
  <2>2. days0 \in Int /\ days0 # 0 /\ limit \in Int
    <3>1. /\ DefaultRetentionDays \in Int /\ DefaultRetentionDays # 0
          /\ DefaultOverrunStreakThreshold \in Int
      BY ConfigAssumption
    <3>2. d.retentionDays \in Int /\ d.threshold \in Int
      BY <2>1
    <3> QED
      BY <3>1, <3>2, Zenon
  <2>3. listen \in {"", "loopback", "remote"}
    BY <2>1
  <2> QED
    BY <2>2, <2>3
<1> HIDE DEF listen, days0, limit
<1> QED
  BY <1>1, <1>2 DEF DaemonConfig

\* A task that passes Validate is one the engine can schedule and start.
LEMMA ValidSchedulable ==
    ASSUME NEW t \in TaskTable, ValidTask(t)
    PROVE  Schedulable(t)
<1>1. /\ t.cron \in {"", "sound", "malformed"} /\ t.watermark \in Nat /\ t.shell \in BOOLEAN
  BY DEF TaskTable
<1>2. (t.cron = "sound" /\ t.watermark = 0) \/ (t.cron = "" /\ t.watermark > 0)
  <2>1. (t.cron = "" <=> t.watermark > 0) /\ t.cron # "malformed"
    BY DEF ValidTask, ValidTrigger, IsWatermark
  <2>2. t.watermark > 0 \/ t.watermark = 0
    <3>1. \A w \in Nat : w > 0 \/ w = 0
      OBVIOUS
    <3> QED
      BY <1>1, <3>1, Zenon
  <2>3. t.cron = "sound" \/ t.cron = ""
    BY <1>1, <2>1
  <2>4. CASE t.cron = ""
    BY <2>1, <2>4
  <2>5. CASE t.cron = "sound"
    <3>1. t.cron # ""
      BY <2>5
    <3> QED
      BY <2>1, <2>2, <2>5, <3>1
  <2> QED
    BY <2>3, <2>4, <2>5
<1>3. t.watermark > 0 => OverlapPolicy(t) = "queue-one" /\ CatchUpEnabled(t) /\ t.jitter = 0
  BY DEF ValidTask, ValidWatermark, IsWatermark, OverlapPolicy, CatchUpEnabled
<1>4. \/ t.command = "argv" /\ ~t.shell /\ t.vars \subseteq t.env \cup Environment
      \/ t.command = "string" /\ t.shell
  BY <1>1 DEF ValidTask, ValidCommand, Resolves, Expands
<1> QED
  BY <1>2, <1>3, <1>4 DEF Schedulable, ValidTask

\* Distinct names are as many as there are tasks.
LEMMA ValidNames ==
    ASSUME NEW ts \in Seq(TaskTable), ValidTables(ts)
    PROVE  Cardinality({ts[i].name : i \in DOMAIN ts}) = Len(ts)
<1> DEFINE names == {ts[i].name : i \in 1 .. Len(ts)}
           f     == [i \in 1 .. Len(ts) |-> ts[i].name]
<1>1. Len(ts) \in Nat /\ DOMAIN ts = 1 .. Len(ts)
  OBVIOUS
<1>2. f \in Bijection(1 .. Len(ts), names)
  <2>1. f \in [1 .. Len(ts) -> names] /\ \A n \in names : \E i \in 1 .. Len(ts) : f[i] = n
    OBVIOUS
  <2>2. \A i, j \in 1 .. Len(ts) : f[i] = f[j] => i = j
    BY <1>1 DEF ValidTables
  <2> HIDE DEF f, names
  <2> QED
    BY <2>1, <2>2 DEF Bijection, Injection, Surjection, IsInjective
<1>3. IsFiniteSet(1 .. Len(ts)) /\ Cardinality(1 .. Len(ts)) = Len(ts)
  BY <1>1, FS_Interval
<1>4. Cardinality(names) = Len(ts)
  <2> HIDE DEF f, names
  <2> QED
    BY <1>2, <1>3, FS_Bijection DEF ExistsBijection
<1> QED
  BY <1>1, <1>4

\* The retentions a file that passes Validate can ask for.
Retentions == {DefaultRetentionDays} \cup ({d.retentionDays : d \in DaemonFiles} \cap (Nat \ {0}))

LEMMA RetentionsType == Retentions \subseteq Nat \ {0}
BY ConfigAssumption DEF Retentions

LEMMA LeastRetentionLeast == \A r \in Retentions : LeastRetention \in Nat /\ LeastRetention <= r
<1>1. Retentions \in SUBSET Nat /\ Retentions # {}
  BY RetentionsType DEF Retentions
<1>2. \E n \in Retentions : \A m \in Retentions : n <= m
  BY <1>1, NatLeast
<1>3. LeastRetention \in Retentions /\ \A m \in Retentions : LeastRetention <= m
  BY <1>2 DEF LeastRetention, Min, Retentions
<1> QED
  BY <1>1, <1>3

\* What is known of a caller's load once config.toml has been read, and once
\* all of it has been validated.
ReadLoad(l)  == l.daemon.retentionDays \in Int /\ (l.daemon.retentionDays >= 0 => l.daemon.retentionDays \in Retentions)
ReadyLoad(l) == ValidTables(l.tasks) /\ l.daemon.retentionDays \in Retentions

HeldLoads ==
    \A c \in Callers :
        /\ at[c] = "tasks" => ReadLoad(got[c])
        /\ at[c] \in {"configure", "notifier", "retention"} => ReadyLoad(got[c])

SoundForce ==
    Serving => ValidTables(inForce.tasks.tasks) /\ inForce.retention.daemon.retentionDays \in Retentions

\* prune's copy of retentionDays.
SoundDays == days \in Nat /\ (at["loop"] = "prune" => days \in Retentions)

SoundInv == HeldLoads /\ SoundForce /\ SoundDays

LEMMA InitSound == Init => SoundInv
<1>1. "loop" \in Callers
  BY DEF Callers
<1> QED
  BY <1>1 DEF Init, SoundInv, HeldLoads, SoundForce, SoundDays, Serving, Each

\* The caller's step to its next point, which leaves the other callers alone.
LEMMA SoundStep ==
    ASSUME SoundInv, NEW c \in Callers,
           \A d \in Callers : d # c => at'[d] = at[d] /\ got'[d] = got[d],
           at'[c] = "tasks" => ReadLoad(got'[c]),
           at'[c] \in {"configure", "notifier", "retention"} => ReadyLoad(got'[c]),
           SoundForce', days' = days, at'[c] # "prune"
    PROVE  SoundInv'
BY DEF SoundInv, HeldLoads, SoundDays, Callers

LEMMA SameForce ==
    ASSUME SoundInv, inForce' = inForce, Serving' => Serving
    PROVE  SoundForce'
BY DEF SoundInv, SoundForce

LEMMA QuitSound ==
    ASSUME ReloadInv, SoundInv, NEW c \in Callers, Quit(c), UNCHANGED <<inForce, days>>
    PROVE  SoundInv'
<1>1. /\ at'[c] = "idle"
      /\ \A d \in Callers : d # c => at'[d] = at[d] /\ got'[d] = got[d]
      /\ up' = up \/ up' = "down"
  BY DEF Quit, Goto, ReloadInv, Shape
<1>2. SoundForce'
  BY <1>1, SameForce DEF Serving
<1> QED
  BY <1>1, <1>2, SoundStep DEF SoundInv

LEMMA LoadDaemonSound ==
    ASSUME ReloadInv, AlertInv, SoundInv, NEW c \in Callers, LoadDaemon(c)
    PROVE  SoundInv'
<1>1. UNCHANGED <<inForce, days>>
  BY DEF LoadDaemon, pruning
<1>2. CASE DaemonLoads(dfile)
  <2>1. /\ at' = [at EXCEPT ![c] = "tasks"] /\ up' = up
        /\ got' = [got EXCEPT ![c] = [NoLoad EXCEPT !.daemon = applyDefaults(dfile), !.read = edition]]
    BY <1>2 DEF LoadDaemon, Goto
  <2>2. /\ at'[c] = "tasks" /\ got'[c] = [NoLoad EXCEPT !.daemon = applyDefaults(dfile), !.read = edition]
        /\ \A d \in Callers : d # c => at'[d] = at[d] /\ got'[d] = got[d]
    BY <2>1 DEF ReloadInv, Shape
  <2>3. got'[c].daemon = applyDefaults(dfile)
    BY <2>2 DEF NoLoad
  <2>4. ReadLoad(got'[c])
    <3>1. dfile \in DaemonConfig /\ dfile \in DaemonFiles
      BY DaemonAssumption DEF AlertInv, Around
    <3>2. /\ got'[c].daemon.retentionDays \in {DefaultRetentionDays, dfile.retentionDays} \ {0}
          /\ got'[c].daemon.retentionDays \in Int
      BY <2>3, <3>1, DefaultsType DEF DaemonConfig
    <3> QED
      BY <3>1, <3>2 DEF ReadLoad, Retentions
  <2>5. SoundForce'
    BY <1>1, <2>1, SameForce DEF Serving
  <2> QED
    BY <1>1, <2>2, <2>4, <2>5, SoundStep DEF SoundInv
<1>3. CASE ~DaemonLoads(dfile)
  BY <1>1, <1>3, QuitSound DEF LoadDaemon
<1> QED
  BY <1>2, <1>3

LEMMA LoadTasksSound ==
    ASSUME ReloadInv, FreshInv, SoundInv, NEW c \in Callers, LoadTasks(c)
    PROVE  SoundInv'
<1>1. at[c] = "tasks" /\ UNCHANGED <<inForce, days>>
  BY DEF LoadTasks, pruning
<1>2. CASE Accepts(got[c].daemon, tfiles)
  <2>1. /\ at' = [at EXCEPT ![c] = "configure"] /\ up' = up
        /\ got' = [got EXCEPT ![c].tasks = Tables(tfiles), ![c].done = edition]
    BY <1>2 DEF LoadTasks, Goto
  <2>2. /\ at'[c] = "configure" /\ got'[c] = [got[c] EXCEPT !.tasks = Tables(tfiles), !.done = edition]
        /\ \A d \in Callers : d # c => at'[d] = at[d] /\ got'[d] = got[d]
    BY <2>1 DEF ReloadInv, Shape
  <2>3. got[c] = [daemon |-> got[c].daemon, tasks |-> got[c].tasks, read |-> got[c].read, done |-> got[c].done]
    BY DEF FreshInv, Records
  <2>4. got'[c].daemon = got[c].daemon /\ got'[c].tasks = Tables(tfiles)
    BY <2>2, <2>3
  <2>5. got[c].daemon.retentionDays \in Retentions
    BY <1>1, <1>2 DEF SoundInv, HeldLoads, ReadLoad, Accepts, ValidDaemon
  <2>6. ReadyLoad(got'[c])
    BY <1>2, <2>4, <2>5 DEF Accepts, ReadyLoad
  <2>7. SoundForce'
    BY <1>1, <2>1, SameForce DEF Serving
  <2> QED
    BY <1>1, <2>2, <2>6, <2>7, SoundStep DEF SoundInv
<1>3. CASE ~Accepts(got[c].daemon, tfiles)
  BY <1>1, <1>3, QuitSound DEF LoadTasks
<1> QED
  BY <1>2, <1>3

\* The tasks, the notifier and the retention of a load that is ready.
LEMMA InstallSound ==
    ASSUME ReloadInv, SoundInv, NEW c \in Callers, InstallTasks(c) \/ SetNotifier(c) \/ Finish(c)
    PROVE  SoundInv'
<1>1. ReadyLoad(got[c]) /\ days' = days /\ up' = up
  BY DEF InstallTasks, SetNotifier, Finish, SoundInv, HeldLoads, pruning
<1>2. /\ at'[c] \in {"notifier", "retention", "idle"}
      /\ \A d \in Callers : d # c => at'[d] = at[d] /\ got'[d] = got[d]
      /\ at'[c] # "idle" => got'[c] = got[c]
  BY DEF InstallTasks, SetNotifier, Finish, Goto, ReloadInv, Shape
<1>3. /\ inForce'.tasks \in {inForce.tasks, got[c]}
      /\ inForce'.retention \in {inForce.retention, got[c]}
  BY DEF InstallTasks, SetNotifier, Finish, ReloadInv, Shape
<1>4. SoundForce'
  BY <1>1, <1>3 DEF SoundInv, SoundForce, ReadyLoad, Serving
<1> QED
  BY <1>1, <1>2, <1>4, SoundStep DEF SoundInv

LEMMA ServeSound == ReloadInv /\ SoundInv /\ Serve => SoundInv'
<1> SUFFICES ASSUME ReloadInv, SoundInv, Serve PROVE SoundInv'
  OBVIOUS
<1>1. at["loop"] = "configure" /\ "loop" \in Callers /\ days' = days
  BY DEF Serve, Callers, pruning
<1>2. CASE got["loop"].daemon.apiKey
  <2>1. /\ at' = [at EXCEPT !["loop"] = "days"] /\ got' = [got EXCEPT !["loop"] = NoLoad]
        /\ inForce' = [tasks |-> got["loop"], notifier |-> got["loop"], retention |-> got["loop"]]
    BY <1>2 DEF Serve, Goto
  <2>2. /\ at'["loop"] = "days"
        /\ \A d \in Callers : d # "loop" => at'[d] = at[d] /\ got'[d] = got[d]
    BY <1>1, <2>1 DEF ReloadInv, Shape
  <2>3. ReadyLoad(got["loop"])
    BY <1>1 DEF SoundInv, HeldLoads
  <2>4. SoundForce'
    BY <2>1, <2>3 DEF SoundForce, ReadyLoad
  <2> QED
    BY <1>1, <2>2, <2>4, SoundStep DEF SoundInv
<1>3. CASE ~got["loop"].daemon.apiKey
  <2>1. inForce' = inForce /\ Quit("loop")
    BY <1>3 DEF Serve
  <2> QED
    BY <1>1, <2>1, QuitSound
<1> QED
  BY <1>2, <1>3

\* The other steps of the serve loop and of the request handlers.
LEMMA EmptySound ==
    ASSUME ReloadInv, AlertInv, SoundInv,
           \/ Start \/ ReadDays \/ Prune \/ Hangup \/ Shutdown \/ Tick
           \/ \E c \in Clients : AskReload(c)
           \/ \E c \in Callers : Lock(c)
    PROVE  SoundInv'
<1>1. "loop" \in Callers /\ Clients \subseteq Callers
  BY DEF Callers
<1>2. UNCHANGED <<inForce, got>>
  BY DEF Start, ReadDays, Prune, Hangup, Shutdown, Tick, AskReload, Lock, callers
<1>3. /\ at["loop"] \in {"days", "prune"} => up \notin {"down", "loading"}
      /\ up = "serving" => Serving
  BY DEF ReloadInv, Mutex, Serving
<1>4. Serving' => Serving
  BY <1>3 DEF Start, ReadDays, Prune, Hangup, Shutdown, Tick, AskReload, Lock, LoopRests, Serving,
              AlertInv, Around
<1>5. SoundForce'
  BY <1>2, <1>4, SameForce
<1>6. SoundDays'
  <2>1. CASE ReadDays
    <3>1. Serving /\ days' = inForce.retention.daemon.retentionDays
      BY <1>3, <2>1 DEF ReadDays, AlertInv, Around, Serving
    <3>2. days' \in Retentions
      BY <3>1 DEF SoundInv, SoundForce
    <3> QED
      BY <3>2, RetentionsType DEF SoundDays
  <2>2. CASE Prune
    <3>1. days' = 0 /\ at'["loop"] = "idle"
      BY <1>1, <2>2 DEF Prune, Goto, ReloadInv, Shape
    <3> QED
      BY <3>1 DEF SoundDays
  <2>3. CASE \/ Start \/ Hangup \/ Shutdown \/ Tick
             \/ \E c \in Clients : AskReload(c)
             \/ \E c \in Callers : Lock(c)
    <3>1. days' = days
      BY <2>3 DEF Start, Hangup, Shutdown, Tick, AskReload, Lock, pruning
    <3>2. at'["loop"] = at["loop"] \/ at'["loop"] \in {"toml", "lock", "days"}
      BY <1>1, <2>3 DEF Start, Hangup, Shutdown, Tick, AskReload, Lock, Acquire, Enter, Goto, callers,
                        ReloadInv, Shape
    <3> QED
      BY <3>1, <3>2 DEF SoundDays, SoundInv
  <2> QED
    BY <2>1, <2>2, <2>3
<1>7. \/ at' = at
      \/ \E c \in Callers : \E point \in {"idle", "toml", "lock", "prune", "days"} : at' = [at EXCEPT ![c] = point]
  BY <1>1 DEF Start, ReadDays, Prune, Hangup, Shutdown, Tick, AskReload, Lock, Acquire, Enter, Goto, callers
<1>8. \A c \in Callers : at'[c] \in {"idle", "toml", "lock", "prune", "days"} \/ at'[c] = at[c]
  BY <1>7 DEF ReloadInv, Shape
<1> QED
  BY <1>2, <1>5, <1>6, <1>8 DEF SoundInv, HeldLoads

LEMMA NextSound == ReloadInv /\ FreshInv /\ AlertInv /\ SoundInv /\ [Next]_vars => SoundInv'
<1> SUFFICES ASSUME ReloadInv, FreshInv, AlertInv, SoundInv, [Next]_vars PROVE SoundInv'
  OBVIOUS
<1>1. CASE \/ Start \/ ReadDays \/ Prune \/ Hangup \/ Shutdown \/ Tick
           \/ \E c \in Clients : AskReload(c)
           \/ \E c \in Callers : Lock(c)
  BY <1>1, EmptySound
<1>2. CASE Serve
  BY <1>2, ServeSound
<1>3. CASE \E c \in Callers : LoadDaemon(c) \/ LoadTasks(c) \/ InstallTasks(c) \/ SetNotifier(c) \/ Finish(c)
  BY <1>3, LoadDaemonSound, LoadTasksSound, InstallSound
<1>4. CASE \E logs : Die(logs)
  <2>1. days' = 0 /\ up' = "down" /\ "loop" \in Callers /\ \A c \in Callers : at'[c] = "idle"
    BY <1>4 DEF Die, Each, Callers
  <2> QED
    BY <2>1 DEF SoundInv, HeldLoads, SoundForce, SoundDays, Serving
<1>5. CASE \/ RunFails \/ HookEnds \/ Edit \/ NextDay \/ UNCHANGED vars
           \/ \E s \in {"HUP", "TERM"} : Deliver(s) /\ up \in {"up", "stopping"}
  <2>1. UNCHANGED <<up, at, got, inForce>>
    BY <1>5, Elsewhere DEF Untouched
  <2>2. days' = days
    BY <1>5 DEF RunFails, HookEnds, Edit, NextDay, vars, Deliver, pruning
  <2> QED
    BY <2>1, <2>2 DEF SoundInv, HeldLoads, SoundForce, SoundDays, Serving
<1>6. (\E c \in Callers : Reload(c)) =>
        \E c \in Callers : Lock(c) \/ LoadDaemon(c) \/ LoadTasks(c) \/ InstallTasks(c) \/ SetNotifier(c) \/ Finish(c)
  BY DEF Reload
<1> QED
  BY NextCases, <1>1, <1>2, <1>3, <1>4, <1>5, <1>6

-----------------------------------------------------------------------------
(* Types *)

Answers == {"none", "ok", "failed"}

CallersTyped ==
    /\ at \in [Callers -> Points] /\ got \in [Callers -> Load]
    /\ asked \in [Callers -> Nat] /\ told \in [Callers -> Answers]
    /\ held \in Callers \cup {NoOne}

EngineTyped ==
    /\ inForce \in [tasks : Load, notifier : Load, retention : Load]
    /\ streak \in Nat /\ threshold \in Nat /\ alerts \in Nat /\ disturbed \in Nat
    /\ hookRuns \in Nat

WorldTyped ==
    /\ tfiles \in TasksDirs /\ sigCh \in {"none", "HUP", "TERM"} /\ history \subseteq Nat
    /\ edition \in Nat /\ day \in Nat /\ lastPrune \in Nat /\ moves \in Nat

TypeInv == CallersTyped /\ EngineTyped /\ WorldTyped

LEMMA NoLoadType == NoLoad \in Load
BY DEF NoLoad, NoDaemon, Load, DaemonConfig

LEMMA ReadLoadFields ==
    ASSUME NEW d, NEW n, NEW l, l = [NoLoad EXCEPT !.daemon = d, !.read = n]
    PROVE  l = [daemon |-> d, tasks |-> <<>>, read |-> n, done |-> 0]
BY DEF NoLoad

LEMMA ReadLoadType ==
    ASSUME NEW d \in DaemonConfig, NEW n \in Nat
    PROVE  [NoLoad EXCEPT !.daemon = d, !.read = n] \in Load
<1>1. [NoLoad EXCEPT !.daemon = d, !.read = n] = [daemon |-> d, tasks |-> <<>>, read |-> n, done |-> 0]
  BY ReadLoadFields
<1>2. <<>> \in Seq(TaskTable)
  OBVIOUS
<1>3. [daemon |-> d, tasks |-> <<>>, read |-> n, done |-> 0] \in Load
  BY <1>2 DEF Load
<1> QED
  BY <1>1, <1>3

LEMMA InitType == Init => TypeInv
<1> SUFFICES ASSUME Init PROVE TypeInv
  OBVIOUS
<1>1. CallersTyped
  BY NoLoadType DEF Init, CallersTyped, Each, Points, Answers, NoOne
<1>2. EngineTyped
  BY NoLoadType DEF Init, EngineTyped, Nothing
<1>3. WorldTyped
  BY DEF Init, WorldTyped
<1> QED
  BY <1>1, <1>2, <1>3 DEF TypeInv

\* A caller's step: to another point, with another load, request or answer.
GoesOn(c) ==
    /\ \E point \in Points : at' = [at EXCEPT ![c] = point]
    /\ got' = got \/ \E l \in Load : got' = [got EXCEPT ![c] = l]
    /\ asked' = asked \/ asked' = [asked EXCEPT ![c] = edition]
    /\ told' = told \/ \E answer \in Answers : told' = [told EXCEPT ![c] = answer]
    /\ held' \in {held, c, NoOne}

LEMMA GoesOnTyped ==
    ASSUME TypeInv, NEW c \in Callers, GoesOn(c)
    PROVE  CallersTyped'
<1>1. at' \in [Callers -> Points]
  BY DEF TypeInv, CallersTyped, GoesOn
<1>2. got' \in [Callers -> Load]
  BY DEF TypeInv, CallersTyped, GoesOn
<1>3. asked' \in [Callers -> Nat]
  BY DEF TypeInv, CallersTyped, WorldTyped, GoesOn
<1>4. told' \in [Callers -> Answers]
  BY DEF TypeInv, CallersTyped, GoesOn
<1>5. held' \in Callers \cup {NoOne}
  BY DEF TypeInv, CallersTyped, GoesOn
<1> QED
  BY <1>1, <1>2, <1>3, <1>4, <1>5 DEF CallersTyped

LEMMA QuitGoesOn ==
    ASSUME TypeInv, NEW c \in Callers, Quit(c), asked' = asked
    PROVE  GoesOn(c)
<1>1. "idle" \in Points /\ "failed" \in Answers /\ NoLoad \in Load
  BY NoLoadType DEF Points, Answers
<1>2. /\ at' = [at EXCEPT ![c] = "idle"] /\ got' = [got EXCEPT ![c] = NoLoad]
      /\ told' = told \/ told' = [told EXCEPT ![c] = "failed"]
      /\ held' \in {held, NoOne}
  BY DEF Quit, Goto
<1> QED
  BY <1>1, <1>2 DEF GoesOn

LEMMA LoadDaemonGoesOn ==
    ASSUME TypeInv, AlertInv, NEW c \in Callers, LoadDaemon(c)
    PROVE  GoesOn(c)
<1>1. asked' = asked
  BY DEF LoadDaemon
<1>2. CASE DaemonLoads(dfile)
  <2> DEFINE l == [NoLoad EXCEPT !.daemon = applyDefaults(dfile), !.read = edition]
  <2>1. /\ at' = [at EXCEPT ![c] = "tasks"] /\ UNCHANGED <<told, held>>
        /\ got' = [got EXCEPT ![c] = l]
    BY <1>2 DEF LoadDaemon, Goto
  <2>2. applyDefaults(dfile) \in DaemonConfig /\ edition \in Nat
    BY DefaultsType, DaemonAssumption DEF AlertInv, Around, TypeInv, WorldTyped
  <2>3. l \in Load
    BY <2>2, ReadLoadType
  <2> HIDE DEF l
  <2>4. "tasks" \in Points
    BY DEF Points
  <2> QED
    BY <1>1, <2>1, <2>3, <2>4 DEF GoesOn
<1>3. CASE ~DaemonLoads(dfile)
  BY <1>1, <1>3, QuitGoesOn DEF LoadDaemon
<1> QED
  BY <1>2, <1>3

LEMMA LoadTasksGoesOn ==
    ASSUME TypeInv, NEW c \in Callers, LoadTasks(c)
    PROVE  GoesOn(c)
<1>1. asked' = asked
  BY DEF LoadTasks
<1>2. CASE Accepts(got[c].daemon, tfiles)
  <2> DEFINE l == [got[c] EXCEPT !.tasks = Tables(tfiles), !.done = edition]
  <2>1. got \in [Callers -> Load] /\ got[c] \in Load /\ edition \in Nat
    BY DEF TypeInv, CallersTyped, WorldTyped
  <2>2. /\ at' = [at EXCEPT ![c] = "configure"] /\ UNCHANGED <<told, held>>
        /\ got' = [got EXCEPT ![c] = l]
    BY <1>2, <2>1 DEF LoadTasks, Goto
  <2>3. Tables(tfiles) \in Seq(TaskTable)
    BY TablesType, DaemonAssumption DEF TypeInv, WorldTyped
  <2>4. l \in Load
    BY <2>1, <2>3 DEF Load
  <2> HIDE DEF l
  <2>5. "configure" \in Points
    BY DEF Points
  <2> QED
    BY <1>1, <2>2, <2>4, <2>5 DEF GoesOn
<1>3. CASE ~Accepts(got[c].daemon, tfiles)
  BY <1>1, <1>3, QuitGoesOn DEF LoadTasks
<1> QED
  BY <1>2, <1>3

LEMMA ReloadGoesOn ==
    ASSUME TypeInv, AlertInv, NEW c \in Callers, Reload(c)
    PROVE  GoesOn(c)
<1>1. {"toml", "notifier", "retention", "idle"} \subseteq Points /\ "ok" \in Answers /\ NoLoad \in Load
  BY NoLoadType DEF Points, Answers
<1>2. CASE Lock(c)
  BY <1>1, <1>2 DEF Lock, Acquire, Enter, Goto, GoesOn
<1>3. CASE InstallTasks(c)
  BY <1>1, <1>3 DEF InstallTasks, Goto, GoesOn
<1>4. CASE SetNotifier(c)
  BY <1>1, <1>4 DEF SetNotifier, Goto, GoesOn
<1>5. CASE Finish(c)
  BY <1>1, <1>5 DEF Finish, Goto, GoesOn
<1> QED
  BY <1>2, <1>3, <1>4, <1>5, LoadDaemonGoesOn, LoadTasksGoesOn DEF Reload

LEMMA NextCallers == TypeInv /\ AlertInv /\ [Next]_vars => CallersTyped'
<1> SUFFICES ASSUME TypeInv, AlertInv, [Next]_vars PROVE CallersTyped'
  OBVIOUS
<1>1. /\ "loop" \in Callers /\ Clients \subseteq Callers
      /\ {"toml", "days", "prune", "idle", "lock"} \subseteq Points /\ "none" \in Answers
      /\ NoLoad \in Load
  BY NoLoadType DEF Callers, Points, Answers
<1>2. CASE \/ ReadDays \/ Prune \/ Hangup \/ Start
           \/ Tick /\ PruneDue
           \/ \E c \in Clients : AskReload(c)
  <2>1. \E c \in Callers : GoesOn(c)
    BY <1>1, <1>2 DEF ReadDays, Prune, Hangup, Start, Tick, AskReload, Goto, GoesOn
  <2> QED
    BY <2>1, GoesOnTyped
<1>3. CASE Serve
  <2>1. CASE got["loop"].daemon.apiKey
    BY <1>1, <1>3, <2>1, GoesOnTyped DEF Serve, Goto, GoesOn
  <2>2. CASE ~got["loop"].daemon.apiKey
    BY <1>1, <1>3, <2>2, QuitGoesOn, GoesOnTyped DEF Serve
  <2> QED
    BY <2>1, <2>2
<1>4. CASE \E c \in Callers : Reload(c)
  BY <1>4, ReloadGoesOn, GoesOnTyped
<1>5. CASE \E logs : Die(logs)
  BY <1>1, <1>5 DEF Die, Each, CallersTyped
<1>6. CASE \/ RunFails \/ HookEnds \/ Edit \/ NextDay \/ UNCHANGED vars \/ Shutdown
           \/ Tick /\ ~PruneDue
           \/ \E s \in {"HUP", "TERM"} : Deliver(s) /\ up \in {"up", "stopping"}
  <2>1. UNCHANGED <<at, got, asked, told, held>>
    BY <1>6 DEF RunFails, HookEnds, Edit, NextDay, vars, Shutdown, Tick, Deliver, callers
  <2> QED
    BY <2>1 DEF TypeInv, CallersTyped
<1> QED
  BY NextCases, <1>2, <1>3, <1>4, <1>5, <1>6

\* The hooks of one event or of several are finitely many goroutines.
LEMMA HooksType ==
    ASSUME NEW l, NEW events \in SUBSET EventTypes
    PROVE  Hooks(l, events) \in Nat
<1> DEFINE hooked == {e \in events : l.daemon.hooks[e] = "command"}
<1>1. IsFiniteSet({"missed", "failure"} \cup {"overrun_streak"})
  <2>1. IsFiniteSet({}) /\ {} \cup {"missed"} = {"missed"} /\ {"missed"} \cup {"failure"} = {"missed", "failure"}
    BY FS_EmptySet
  <2> QED
    BY <2>1, FS_AddElement
<1>2. hooked \subseteq {"missed", "failure"} \cup {"overrun_streak"}
  BY DEF EventTypes
<1>3. Cardinality(hooked) \in Nat
  <2> HIDE DEF hooked
  <2> QED
    BY <1>1, <1>2, FS_Subset, FS_CardinalityType
<1> QED
  BY <1>3 DEF Hooks

LEMMA NoteFireTyped ==
    ASSUME TypeInv, NEW onTime \in BOOLEAN, NEW missed \in BOOLEAN, NoteFire(onTime, missed), inForce' = inForce
    PROVE  EngineTyped'
<1> DEFINE n     == StreakAfter(onTime)
           alert == ~onTime /\ StreakReached(n)
           sent  == (IF alert THEN {"overrun_streak"} ELSE {}) \cup (IF missed THEN {"missed"} ELSE {})
<1>1. /\ streak \in Nat /\ alerts \in Nat /\ disturbed \in Nat /\ threshold \in Nat /\ hookRuns \in Nat
      /\ inForce \in [tasks : Load, notifier : Load, retention : Load]
  BY DEF TypeInv, EngineTyped
<1>2. sent \in SUBSET EventTypes
  BY DEF EventTypes
<1>3. streak' \in Nat /\ alerts' \in Nat
  BY <1>1 DEF NoteFire, StreakAfter
<1>4. disturbed' \in Nat /\ threshold' = threshold
  BY <1>1 DEF NoteFire
<1>5. hookRuns' = hookRuns + Hooks(inForce.notifier, sent)
  BY DEF NoteFire
<1>6. hookRuns' \in Nat
  <2> HIDE DEF sent
  <2> QED
    BY <1>1, <1>2, <1>5, HooksType
<1> QED
  BY <1>1, <1>3, <1>4, <1>6 DEF EngineTyped

\* A caller at a statement that sets the threshold has one to set.
LEMMA NextEngine == TypeInv /\ AlertInv /\ [Next]_vars => EngineTyped'
<1> SUFFICES ASSUME TypeInv, AlertInv, [Next]_vars PROVE EngineTyped'
  OBVIOUS
<1>1. /\ inForce \in [tasks : Load, notifier : Load, retention : Load]
      /\ streak \in Nat /\ threshold \in Nat /\ alerts \in Nat /\ disturbed \in Nat
      /\ hookRuns \in Nat
      /\ \A c \in Callers : got[c] \in Load
      /\ "loop" \in Callers
  BY DEF TypeInv, EngineTyped, CallersTyped, Callers
<1>2. CASE \E c \in Callers : InstallTasks(c) \/ Finish(c)
  <2>1. PICK c \in Callers : InstallTasks(c) \/ Finish(c)
    BY <1>2
  <2>2. inForce' \in [tasks : Load, notifier : Load, retention : Load]
    BY <1>1, <2>1 DEF InstallTasks, Finish
  <2>3. CASE InstallTasks(c)
    <3>1. streak' = 0 /\ disturbed' \in Nat /\ UNCHANGED <<threshold, alerts, hookRuns>>
      BY <1>1, <2>3 DEF InstallTasks
    <3> QED
      BY <1>1, <2>2, <3>1 DEF EngineTyped
  <2>4. CASE Finish(c)
    <3>1. UNCHANGED <<streak, threshold, alerts, disturbed, hookRuns>>
      BY <2>4 DEF Finish, alarm
    <3> QED
      BY <1>1, <2>2, <3>1 DEF EngineTyped
  <2> QED
    BY <2>1, <2>3, <2>4
<1>3. CASE \E c \in Callers : SetNotifier(c)
  <2>1. PICK c \in Callers : SetNotifier(c)
    BY <1>3
  <2>2. inForce' \in [tasks : Load, notifier : Load, retention : Load]
    BY <1>1, <2>1 DEF SetNotifier
  <2>3. got[c].daemon.threshold \in Threshold
    BY <2>1 DEF SetNotifier, AlertInv, Loads
  <2>4. threshold' \in Nat
    BY <1>1, <2>1, <2>3 DEF SetNotifier, Threshold
  <2>5. streak' \in Nat /\ alerts' \in Nat /\ disturbed' \in Nat /\ hookRuns' \in Nat
    BY <1>1, <2>1 DEF SetNotifier
  <2> QED
    BY <2>2, <2>4, <2>5 DEF EngineTyped
<1>4. CASE Serve /\ got["loop"].daemon.apiKey
  <2>1. inForce' \in [tasks : Load, notifier : Load, retention : Load]
    BY <1>1, <1>4 DEF Serve
  <2>2. threshold' \in Nat
    BY <1>1, <1>4 DEF Serve, AlertInv, Loads, Threshold
  <2>3. streak' \in Nat /\ alerts' \in Nat /\ disturbed' \in Nat /\ hookRuns' \in Nat
    BY <1>1, <1>4 DEF Serve
  <2> QED
    BY <2>1, <2>2, <2>3 DEF EngineTyped
<1>5. CASE \E logs : Die(logs)
  <2>1. inForce' \in [tasks : Load, notifier : Load, retention : Load]
    BY <1>5, NoLoadType DEF Die, Nothing
  <2>2. /\ streak' \in Nat /\ threshold' \in Nat /\ alerts' \in Nat /\ disturbed' \in Nat
        /\ hookRuns' \in Nat
    BY <1>5 DEF Die
  <2> QED
    BY <2>1, <2>2 DEF EngineTyped
<1>6. CASE Tick
  <2>1. inForce' = inForce /\ \/ UNCHANGED <<streak, threshold, alerts, disturbed, hookRuns>>
                              \/ \E onTime, missed \in BOOLEAN : NoteFire(onTime, missed)
    BY <1>6 DEF Tick, alarm
  <2> QED
    BY <2>1, NoteFireTyped DEF TypeInv, EngineTyped
<1>7. CASE RunFails \/ HookEnds
  <2>1. UNCHANGED <<inForce, streak, threshold, alerts, disturbed>>
    BY <1>7 DEF RunFails, HookEnds, alarm
  <2>2. Hooks(inForce.notifier, {"failure"}) \in Nat
    BY HooksType DEF EventTypes
  <2>3. hookRuns' \in Nat
    BY <1>1, <1>7, <2>2 DEF RunFails, HookEnds
  <2> QED
    BY <1>1, <2>1, <2>3 DEF EngineTyped
<1>8. CASE \/ Start \/ ReadDays \/ Prune \/ Hangup \/ Shutdown \/ Edit \/ NextDay \/ UNCHANGED vars
           \/ \E c \in Clients : AskReload(c)
           \/ \E c \in Callers : Lock(c) \/ LoadDaemon(c) \/ LoadTasks(c)
           \/ Serve /\ ~got["loop"].daemon.apiKey
           \/ \E s \in {"HUP", "TERM"} : Deliver(s) /\ up \in {"up", "stopping"}
  <2>1. UNCHANGED <<inForce, streak, threshold, alerts, disturbed, hookRuns>>
    BY <1>8 DEF Start, ReadDays, Prune, Hangup, Shutdown, Edit, NextDay, vars, AskReload, Lock, LoadDaemon,
                LoadTasks, Serve, Deliver, alarm
  <2> QED
    BY <1>1, <2>1 DEF EngineTyped
<1>9. (\E c \in Callers : Reload(c)) =>
        \E c \in Callers : Lock(c) \/ LoadDaemon(c) \/ LoadTasks(c) \/ InstallTasks(c) \/ SetNotifier(c) \/ Finish(c)
  BY DEF Reload
<1> QED
  BY NextCases, <1>2, <1>3, <1>4, <1>5, <1>6, <1>7, <1>8, <1>9

LEMMA NextWorld == TypeInv /\ [Next]_vars => WorldTyped'
<1> SUFFICES ASSUME TypeInv, [Next]_vars PROVE WorldTyped'
  OBVIOUS
<1>1. /\ tfiles \in TasksDirs /\ sigCh \in {"none", "HUP", "TERM"} /\ history \subseteq Nat
      /\ edition \in Nat /\ day \in Nat /\ lastPrune \in Nat /\ moves \in Nat
  BY DEF TypeInv, WorldTyped
<1>2. Move => moves' \in Nat
  BY <1>1 DEF Move
<1>3. CASE Edit
  <2>1. tfiles' \in TasksDirs /\ edition' \in Nat /\ moves' \in Nat
    BY <1>1, <1>2, <1>3 DEF Edit
  <2> QED
    BY <1>1, <1>3, <2>1 DEF Edit, WorldTyped, pruning
<1>4. CASE NextDay
  <2>1. day' \in Nat /\ history' \subseteq Nat /\ moves' \in Nat
    BY <1>1, <1>2, <1>4 DEF NextDay
  <2> QED
    BY <1>1, <1>4, <2>1 DEF NextDay, WorldTyped, files
<1>5. CASE Prune
  <2>1. history' \subseteq Nat /\ lastPrune' = day
    BY <1>1, <1>5 DEF Prune
  <2> QED
    BY <1>1, <1>5, <2>1 DEF Prune, WorldTyped, files
<1>6. CASE Crash \/ Drained
  <2>1. sigCh' = "none" /\ lastPrune' = 0 /\ moves' \in Nat
    BY <1>1, <1>2, <1>6 DEF Crash, Drained, Die
  <2> QED
    BY <1>1, <1>6, <2>1 DEF Crash, Drained, Die, WorldTyped, files
<1>7. CASE \E s \in {"HUP", "TERM"} : Deliver(s)
  <2>1. /\ sigCh' \in {"none", "HUP", "TERM"} /\ lastPrune' \in {lastPrune, 0} /\ moves' \in Nat
        /\ UNCHANGED <<tfiles, edition, day, history>>
    BY <1>1, <1>2, <1>7 DEF Deliver, Die, files, pruning
  <2> QED
    BY <1>1, <2>1 DEF WorldTyped
<1>8. CASE Hangup \/ Shutdown
  <2>1. sigCh' = "none" /\ UNCHANGED <<tfiles, edition, day, history, lastPrune, moves>>
    BY <1>8 DEF Hangup, Shutdown, files, pruning
  <2> QED
    BY <1>1, <2>1 DEF WorldTyped
<1>9. CASE Start \/ RunFails \/ HookEnds \/ Tick \/ \E c \in Clients : AskReload(c)
  <2>1. /\ moves' \in Nat
        /\ UNCHANGED <<tfiles, edition, sigCh, day, history, lastPrune>>
    BY <1>1, <1>2, <1>9 DEF Start, RunFails, HookEnds, Tick, AskReload, files, pruning
  <2> QED
    BY <1>1, <2>1 DEF WorldTyped
<1>10. CASE ReadDays \/ Serve \/ UNCHANGED vars \/ \E c \in Callers : Reload(c)
  <2>1. UNCHANGED <<tfiles, edition, sigCh, day, history, lastPrune, moves>>
    BY <1>10 DEF ReadDays, Serve, vars, Reload, Lock, LoadDaemon, LoadTasks, InstallTasks, SetNotifier, Finish,
                 files, pruning
  <2> QED
    BY <1>1, <2>1 DEF WorldTyped
<1>11. "loop" \in Callers /\ Clients \subseteq Callers
  BY DEF Callers
<1> QED
  BY <1>3, <1>4, <1>5, <1>6, <1>7, <1>8, <1>9, <1>10, <1>11 DEF Next, Main

\* All of the above together.
DaemonInv == ReloadInv /\ FreshInv /\ AlertInv /\ LogKept /\ SoundInv /\ TypeInv

LEMMA DaemonInvAlways == Spec => []DaemonInv
<1>1. Init => DaemonInv
  BY InitReload, InitFresh, InitAlert, InitLog, InitSound, InitType DEF DaemonInv
<1>2. DaemonInv /\ [Next]_vars => DaemonInv'
  BY NextKeeps, NextFresh, NextAlert, NextLog, NextSound, NextCallers, NextEngine, NextWorld
  DEF DaemonInv, TypeInv
<1> QED
  BY <1>1, <1>2, PTL DEF Spec

\* Every variable keeps its type: among others no counter of the daemon (its
\* hook goroutines, the streak, prune's days) ever goes below zero, and a
\* caller is always at one of the statements of reload() or prune.
THEOREM DaemonTypes == Spec => []TypeOK
<1>1. DaemonInv => TypeOK
  <2> SUFFICES ASSUME DaemonInv PROVE TypeOK
    OBVIOUS
  <2>1. /\ dfile \in DaemonFiles /\ up \in {"down", "loading", "serving", "up", "stopping"}
        /\ log \in Log /\ days \in Nat
    BY DEF DaemonInv, AlertInv, Around, LogKept, LogInv, SoundInv, SoundDays
  <2>2. CallersTyped /\ EngineTyped /\ WorldTyped
    BY DEF DaemonInv, TypeInv
  <2>3. alarm \in Nat \X Nat \X Nat \X Nat
    BY <2>2 DEF EngineTyped, alarm
  <2>4. <<edition, day, lastPrune, days, moves>> \in Nat \X Nat \X Nat \X Nat \X Nat
    BY <2>1, <2>2 DEF WorldTyped
  <2> QED
    BY <2>1, <2>2, <2>3, <2>4 DEF TypeOK, CallersTyped, EngineTyped, WorldTyped, Answers
<1> QED
  BY <1>1, DaemonInvAlways, PTL

\* The engine only ever has tasks it can schedule and start, under names of
\* their own, a threshold a streak can reach and a retention of a day at
\* least (config.Validate before Configure, in serve and in reload()):
\* whatever the files contain and whenever they are edited.
THEOREM SoundInForce == Spec => []InForceIsSound
<1>1. DaemonInv => InForceIsSound
  <2> SUFFICES ASSUME DaemonInv, Serving PROVE InForceIsSound
    BY DEF InForceIsSound
  <2> DEFINE ts == inForce.tasks.tasks
  <2>1. ts \in Seq(TaskTable)
    BY DEF DaemonInv, TypeInv, EngineTyped, Load
  <2>2. ValidTables(ts) /\ inForce.retention.daemon.retentionDays \in Retentions
    BY DEF DaemonInv, SoundInv, SoundForce
  <2>3. \A i \in DOMAIN ts : Schedulable(ts[i])
    <3> HIDE DEF ts
    <3>1. \A i \in DOMAIN ts : ts[i] \in TaskTable /\ ValidTask(ts[i])
      BY <2>1, <2>2 DEF ValidTables
    <3> QED
      BY <3>1, ValidSchedulable
  <2>4. Cardinality({ts[i].name : i \in DOMAIN ts}) = Len(ts)
    <3> HIDE DEF ts
    <3> QED
      BY <2>1, <2>2, ValidNames
  <2>5. threshold >= 1
    BY DEF DaemonInv, AlertInv, Alarm, Threshold
  <2>6. inForce.retention.daemon.retentionDays >= 1
    <3>1. \A r \in Retentions : r >= 1
      BY RetentionsType
    <3> QED
      BY <2>2, <3>1, Zenon
  <2> QED
    BY <2>3, <2>4, <2>5, <2>6 DEF InForceIsSound
<1> QED
  BY <1>1, DaemonInvAlways, PTL

\* prune removes no row that is younger than the least retention the files
\* ever asked for, though the days it prunes by were read under the mutex
\* and used after its release, while a reload may have replaced them.
THEOREM RowsStay == Spec => RecentRowsStay
<1>1. DaemonInv /\ [Next]_vars => [\A d \in history \ history' : d < day - LeastRetention]_vars
  <2> SUFFICES ASSUME DaemonInv, [Next]_vars, NEW d \in history \ history'
               PROVE  d < day - LeastRetention
    OBVIOUS
  <2>1. d \in Nat /\ day \in Nat /\ history \subseteq Nat
    BY DEF DaemonInv, TypeInv, WorldTyped
  <2>2. history' # history /\ ~(history \subseteq history')
    OBVIOUS
  <2>3. Prune
    <3>1. (\E c \in Callers : Reload(c)) => history' = history
      BY DEF Reload, Lock, LoadDaemon, LoadTasks, InstallTasks, SetNotifier, Finish, pruning
    <3>2. (\E logs : Die(logs)) => history' = history
      BY DEF Die
    <3>3. (Start \/ Serve \/ ReadDays \/ Hangup \/ Shutdown \/ Tick \/ \E c \in Clients : AskReload(c))
            => history' = history
      BY DEF Start, Serve, ReadDays, Hangup, Shutdown, Tick, AskReload, pruning
    <3>4. (RunFails \/ HookEnds \/ Edit \/ UNCHANGED vars
             \/ \E s \in {"HUP", "TERM"} : Deliver(s) /\ up \in {"up", "stopping"})
            => history' = history
      BY DEF RunFails, HookEnds, Edit, vars, Deliver, pruning
    <3>5. NextDay => history \subseteq history'
      BY DEF NextDay
    <3> QED
      BY NextCases, <2>2, <3>1, <3>2, <3>3, <3>4, <3>5
  <2>4. days \in Retentions /\ ~(d >= day - days)
    BY <2>3 DEF Prune, DaemonInv, SoundInv, SoundDays
  <2>5. days \in Nat /\ LeastRetention \in Nat /\ LeastRetention <= days
    BY <2>4, RetentionsType, LeastRetentionLeast
  <2> QED
    BY <2>1, <2>4, <2>5
<1> QED
  BY <1>1, DaemonInvAlways, PTL DEF Spec, RecentRowsStay
=============================================================================

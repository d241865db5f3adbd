-------------------------------- MODULE Trial --------------------------------
(***************************************************************************)
(* Timed trials: the agent's handlers (POST /v1/trial) start --trial, which*)
(* starts the launcher, observes it, stops it and reports.  Every wait of  *)
(* the agent and of the trial has a bound; nothing bounds what launcher    *)
(* and game do.  Time passes in units of 5 s; what the code does without   *)
(* waiting takes no time.                                                  *)
(***************************************************************************)
EXTENDS Naturals

CONSTANTS
    Req,       \* slots for requests to the agent
    Duration,  \* the duration asked for, in units
    Losses     \* TRUE: the trial itself may be killed (OOM, user)

ASSUME TrialAssumption == Duration \in Nat \ {0} /\ Losses \in BOOLEAN

\* The bounds, in units of 5 s: SIGTERM of the prefix, then SIGKILL; the end of
\* the launcher by itself; SIGTERM of the launcher, then SIGKILL.
TermWait == 1
ExitWait == 6

\* Mutant: the launcher has 40 s to clean up.
LongKillWait == 8

KillWait == 4

\* trialStopDelay: SIGTERM of the trial, then SIGKILL.
StopDelay == 12

\* What the agent grants beyond the duration (180 s).
Margin == 36

VARIABLES
    handler,   \* of each request: "off", "waiting" for the trial, "stopping" it
    clock,     \* time the handler has left
    trial,     \* where the trial is
    timer,     \* time the trial has left where it waits
    stop,      \* a SIGTERM waits in the trial's channel
    launcher,  \* what the trial started: how far the launch is
    place,     \* who runs it: the process the trial started, trying the kernel
               \* overlay first ("try") or on its own ("fuse"), a launcher in a
               \* namespace that it waits for ("ns") or has left behind ("orphan")
    late,      \* its main thread goes on although it was told to stop
               \* (place and late of a launcher that is gone are as at the start)
    procs,     \* processes in the prefix
    mounts,    \* the game is mounted, where the trial can see it
    left,      \* the report: processes and mounts left
    hung       \* xprop or grim took time

agentVars == <<handler, clock>>
trialVars == <<trial, timer, stop, left, hung>>
launcherVars == <<launcher, place, late, procs, mounts>>
vars == <<agentVars, trialVars, launcherVars>>

Timed == {"observe", "termwait", "exitwait", "killwait", "stopwait"}
TrialPc == Timed \cup {"off", "check", "start", "collect", "term", "stoplauncher",
                       "count", "ended", "lost", "killed"}
Over == {"off", "ended", "lost", "killed"}

LauncherAlive(r) == launcher[r] \notin {"none", "gone"}

\* The process the trial started runs: a host does as long as its namespace launcher.
Started(r) == LauncherAlive(r) /\ place[r] # "orphan"

TypeOK ==
    /\ handler \in [Req -> {"off", "waiting", "stopping"}]
    /\ clock \in [Req -> 0..(Duration + Margin + StopDelay)]
    /\ trial \in [Req -> TrialPc] /\ timer \in [Req -> 0..(Duration + ExitWait)]
    /\ stop \in [Req -> BOOLEAN]
    /\ launcher \in [Req -> {"none", "boot", "prepare", "play", "cleanup", "wait", "gone"}]
    /\ place \in [Req -> {"try", "fuse", "ns", "orphan"}]
    /\ late \in [Req -> BOOLEAN] /\ procs \in [Req -> BOOLEAN] /\ mounts \in [Req -> BOOLEAN]
    /\ left \in [Req -> [procs : BOOLEAN, mounts : BOOLEAN]] /\ hung \in [Req -> BOOLEAN]
    /\ \A r \in Req : trial[r] \in Timed => launcher[r] # "none"
    /\ \A r \in Req : handler[r] # "off" => trial[r] # "off"

Nobody == [r \in Req |-> FALSE]

Init ==
    /\ handler = [r \in Req |-> "off"] /\ clock = [r \in Req |-> 0]
    /\ trial = [r \in Req |-> "off"] /\ timer = [r \in Req |-> 0]
    /\ stop = Nobody /\ hung = Nobody /\ late = Nobody /\ procs = Nobody /\ mounts = Nobody
    /\ launcher = [r \in Req |-> "none"] /\ place = [r \in Req |-> "try"]
    /\ left = [r \in Req |-> [procs |-> FALSE, mounts |-> FALSE]]

-----------------------------------------------------------------------------
(* The agent's handler.                                                    *)

Handler(r, from, to) == handler[r] = from /\ handler' = [handler EXCEPT ![r] = to]
SetClock(r, n) == clock' = [clock EXCEPT ![r] = n]
Trial(r, from, to) == trial[r] = from /\ trial' = [trial EXCEPT ![r] = to]

\* The mutex of the agent: TryLock, held until the handler returns.
SlotFree == \A r \in Req : handler[r] = "off"

\* A request that finds the mutex taken is answered 409.  A slot is used again
\* when nothing of its last trial runs.
Request(r) ==
    /\ Handler(r, "off", "waiting") /\ SlotFree
    /\ ~LauncherAlive(r) /\ ~procs[r]
    /\ SetClock(r, Duration + Margin)
    /\ trial' = [trial EXCEPT ![r] = "check"]
    /\ stop' = [stop EXCEPT ![r] = FALSE] /\ hung' = [hung EXCEPT ![r] = FALSE]
    /\ timer' = [timer EXCEPT ![r] = 0]
    /\ launcher' = [launcher EXCEPT ![r] = "none"] /\ place' = [place EXCEPT ![r] = "try"]
    /\ late' = [late EXCEPT ![r] = FALSE] /\ mounts' = [mounts EXCEPT ![r] = FALSE]
    /\ UNCHANGED <<procs, left>>

\* cmd.Output returns; the report, if any, is the answer.
Answer(r) ==
    /\ handler[r] # "off" /\ trial[r] \in Over
    /\ handler' = [handler EXCEPT ![r] = "off"]
    /\ SetClock(r, 0)
    /\ UNCHANGED <<trialVars, launcherVars>>

\* The client left, or the context has expired: cmd.Cancel sends SIGTERM, which
\* ends a trial that has not called signal.Notify yet.
Cancel(r) ==
    /\ Handler(r, "waiting", "stopping") /\ trial[r] \notin Over
    /\ SetClock(r, StopDelay)
    /\ IF trial[r] = "check"
       THEN trial' = [trial EXCEPT ![r] = "lost"] /\ UNCHANGED stop
       ELSE stop' = [stop EXCEPT ![r] = TRUE] /\ UNCHANGED trial
    /\ UNCHANGED <<timer, left, hung, launcherVars>>

\* cmd.WaitDelay has passed: SIGKILL.
KillTrial(r) ==
    /\ handler[r] = "stopping" /\ clock[r] = 0 /\ trial[r] \notin Over
    /\ trial' = [trial EXCEPT ![r] = "killed"]
    /\ UNCHANGED <<agentVars, timer, stop, left, hung, launcherVars>>

-----------------------------------------------------------------------------
(* --trial.                                                                *)

Wait(r, n) == timer' = [timer EXCEPT ![r] = n]
Alone(r) == UNCHANGED <<agentVars, stop, left, hung>>

\* Mutant: nobody looks for other launchers.
NeverRunning == FALSE

\* launcherRunning: a launcher of any earlier trial still runs; one in a namespace
\* has the same name and arguments.
LauncherRunning == \E r \in Req : LauncherAlive(r)

Check(r) ==
    /\ Trial(r, "check", IF LauncherRunning THEN "ended" ELSE "start")
    /\ left' = [left EXCEPT ![r] = [procs |-> procs[r], mounts |-> mounts[r]]]
    /\ UNCHANGED <<agentVars, timer, stop, hung, launcherVars>>

\* The observation may end one turn (3 s) late.
Start(r) ==
    /\ \/ /\ Trial(r, "start", "observe")
          /\ \E n \in {Duration, Duration + 1} : Wait(r, n)
          /\ launcher' = [launcher EXCEPT ![r] = "boot"]
       \/ Trial(r, "start", "ended") /\ UNCHANGED <<timer, launcher>>
    /\ UNCHANGED <<place, late, procs, mounts>>
    /\ Alone(r)

\* The time is over, or the process the trial started has ended.
Expired(r) == timer[r] = 0 \/ ~Started(r)

\* A SIGTERM is noticed during the observation only, and ends it at once.
Interrupt(r) ==
    /\ Trial(r, "observe", "term") /\ stop[r]
    /\ Wait(r, 1)
    /\ UNCHANGED launcherVars
    /\ Alone(r)

ObserveEnd(r) ==
    /\ Trial(r, "observe", "collect") /\ Expired(r)
    /\ Wait(r, 0)
    /\ UNCHANGED launcherVars
    /\ Alone(r)

\* xprop and grim, which nothing bounds, return at once or, after a Hang, late;
\* an interrupted trial skips them.
CollectEnd(r) ==
    /\ Trial(r, "collect", "term")
    /\ UNCHANGED <<timer, launcherVars>>
    /\ Alone(r)

\* SIGTERM to the prefix: its processes may end or not.  The timer remembers
\* whether the trial was interrupted.
TermPrefix(r) ==
    /\ trial[r] = "term"
    /\ trial' = [trial EXCEPT ![r] = IF timer[r] = 1 THEN "stopwait" ELSE "termwait"]
    /\ Wait(r, TermWait)
    /\ procs' \in {procs, [procs EXCEPT ![r] = FALSE]}
    /\ UNCHANGED <<launcher, place, late, mounts>>
    /\ Alone(r)

\* SIGKILL to what is left of it; an interrupted trial does not wait for the
\* launcher to end by itself.
KillPrefix(r) ==
    /\ \/ Trial(r, "termwait", "exitwait") /\ Wait(r, ExitWait)
       \/ Trial(r, "stopwait", "stoplauncher") /\ Wait(r, 0)
    /\ Expired(r)
    /\ procs' = [procs EXCEPT ![r] = FALSE]
    /\ UNCHANGED <<launcher, place, late, mounts>>
    /\ Alone(r)

ExitWaitEnd(r) ==
    /\ Trial(r, "exitwait", "stoplauncher") /\ Expired(r)
    /\ Wait(r, 0)
    /\ UNCHANGED launcherVars
    /\ Alone(r)

Place(r, to) == place' = [place EXCEPT ![r] = to]

\* The launcher is told, a host passes it on.  A host that still tries the kernel
\* overlay ends; or starts over without, if the namespace launcher took the
\* signal; or ends before it knows that one, which goes on (KernelStage, early).
ToldEarly(r) ==
    /\ launcher[r] = "boot"
    /\ \/ launcher' = [launcher EXCEPT ![r] = "cleanup"] /\ Place(r, "fuse")
       \/ Place(r, "fuse") /\ UNCHANGED launcher
       \/ Place(r, "orphan") /\ UNCHANGED launcher
    /\ UNCHANGED late

\* Once mounted, it goes on before its game although it cleans up.
ToldMounted(r) ==
    /\ launcher[r] # "boot"
    /\ launcher' = [launcher EXCEPT ![r] = IF @ = "wait" THEN @ ELSE "cleanup"]
    /\ late' = [late EXCEPT ![r] = @ \/ launcher[r] = "prepare"]
    /\ UNCHANGED place

StopLauncher(r) ==
    /\ \/ Started(r) /\ Trial(r, "stoplauncher", "killwait") /\ Wait(r, KillWait)
          /\ (ToldEarly(r) \/ ToldMounted(r))
       \/ ~Started(r) /\ Trial(r, "stoplauncher", "count")
          /\ UNCHANGED <<launcher, place, late, timer>>
    /\ UNCHANGED <<procs, mounts>>
    /\ Alone(r)

\* Mutant: the trial waits for the launcher without a bound.
WaitForLauncher(r) ==
    /\ Trial(r, "killwait", "count") /\ ~Started(r)
    /\ UNCHANGED launcherVars
    /\ Wait(r, 0)
    /\ Alone(r)

\* Mutant: the trial reports without killing the launcher.
LeaveLauncher(r) ==
    /\ Trial(r, "killwait", "count") /\ Expired(r)
    /\ UNCHANGED launcherVars
    /\ Wait(r, 0)
    /\ Alone(r)

\* SIGKILL to the process the trial started, which leaves mounts and prefix as they
\* are: a launcher in a namespace goes on by itself.
KillStarted(r) ==
    IF place[r] \in {"ns", "orphan"}
    THEN Place(r, "orphan") /\ UNCHANGED launcher
    ELSE launcher' = [launcher EXCEPT ![r] = "gone"] /\ Place(r, "try")

KillWaitEnd(r) ==
    /\ Trial(r, "killwait", "count") /\ Expired(r)
    /\ KillStarted(r)
    /\ Wait(r, 0)
    /\ UNCHANGED <<late, procs, mounts>>
    /\ Alone(r)

Count(r) ==
    /\ Trial(r, "count", "ended")
    /\ left' = [left EXCEPT ![r] = [procs |-> procs[r], mounts |-> mounts[r]]]
    /\ UNCHANGED <<agentVars, timer, stop, hung, launcherVars>>

-----------------------------------------------------------------------------
(* The launcher and the processes of the prefix (ExitPath).                *)

Launcher(r, from, to) == launcher[r] = from /\ launcher' = [launcher EXCEPT ![r] = to]
NotTrial == UNCHANGED <<agentVars, trialVars>>

\* It mounts the game, on its own or in a namespace, where the trial does not see
\* it, and runs Wine tools.
LauncherMounts(r) ==
    /\ Launcher(r, "boot", "prepare")
    /\ \/ place[r] \in {"try", "fuse"} /\ Place(r, "fuse")
          /\ mounts' = [mounts EXCEPT ![r] = TRUE]
       \/ place[r] = "try" /\ Place(r, "ns") /\ UNCHANGED mounts
       \/ place[r] = "orphan" /\ UNCHANGED <<place, mounts>>
    /\ procs' = [procs EXCEPT ![r] = TRUE]
    /\ UNCHANGED late /\ NotTrial

\* Then it plays, or ends with an error.
LauncherGoesOn(r) ==
    /\ \/ Launcher(r, "prepare", "play") /\ procs' = [procs EXCEPT ![r] = TRUE]
       \/ launcher[r] \in {"boot", "prepare"} /\ launcher' = [launcher EXCEPT ![r] = "cleanup"]
          /\ UNCHANGED procs
       \/ Launcher(r, "play", "cleanup") /\ ~procs[r] /\ UNCHANGED procs
    /\ UNCHANGED <<place, late, mounts>> /\ NotTrial

\* The main thread of a launcher that was told to stop starts the game.
LateGame(r) ==
    /\ late[r] /\ LauncherAlive(r)
    /\ procs' = [procs EXCEPT ![r] = TRUE] /\ late' = [late EXCEPT ![r] = FALSE]
    /\ UNCHANGED <<launcher, place, mounts>> /\ NotTrial

\* cleanup: wineserver -k, wineserver -w, both mounts.
LauncherCleanup(r) ==
    /\ \/ Launcher(r, "cleanup", "wait") /\ procs' = [procs EXCEPT ![r] = FALSE]
          /\ UNCHANGED <<place, late, mounts>>
       \/ Launcher(r, "wait", "gone") /\ ~procs[r] /\ mounts' = [mounts EXCEPT ![r] = FALSE]
          /\ Place(r, "try") /\ late' = [late EXCEPT ![r] = FALSE] /\ UNCHANGED procs
    /\ NotTrial

ProcsEnd(r) ==
    /\ procs[r] /\ procs' = [procs EXCEPT ![r] = FALSE]
    /\ UNCHANGED <<launcher, place, late, mounts>> /\ NotTrial

\* The trial is killed by somebody else; its launcher has a session of its own.
LoseTrial(r) ==
    /\ Losses /\ trial[r] \notin Over
    /\ trial' = [trial EXCEPT ![r] = "lost"]
    /\ UNCHANGED <<agentVars, timer, stop, left, hung, launcherVars>>

\* Time passes while everybody waits.
Waits(r) ==
    /\ trial[r] \in Over \cup Timed
    /\ trial[r] \in Timed => ~Expired(r) /\ ~(trial[r] = "observe" /\ stop[r])
    /\ handler[r] # "off" => clock[r] > 0 /\ trial[r] \notin Over

Less(f) == [r \in Req |-> IF f[r] = 0 THEN 0 ELSE f[r] - 1]

Tick ==
    /\ \A r \in Req : Waits(r)
    /\ \E r \in Req : handler[r] # "off" \/ trial[r] \in Timed
    /\ clock' = Less(clock) /\ timer' = Less(timer)
    /\ UNCHANGED <<handler, trial, stop, left, hung, launcherVars>>

\* xprop or grim takes all the time the handler has.
Hang(r) ==
    /\ trial[r] = "collect" /\ clock[r] > 0
    /\ SetClock(r, 0) /\ hung' = [hung EXCEPT ![r] = TRUE]
    /\ UNCHANGED <<handler, trial, timer, stop, left, launcherVars>>

\* The context expires by itself only when its time has passed.
ContextExpires(r) == clock[r] = 0 /\ Cancel(r)
ClientLeaves(r) == clock[r] > 0 /\ Cancel(r)

Agent(r) == Answer(r) \/ ContextExpires(r) \/ KillTrial(r)
TrialStep(r) ==
    \/ Check(r) \/ Start(r) \/ Interrupt(r) \/ ObserveEnd(r) \/ TermPrefix(r)
    \/ KillPrefix(r) \/ ExitWaitEnd(r) \/ StopLauncher(r) \/ KillWaitEnd(r) \/ Count(r)
LauncherStep(r) == LauncherMounts(r) \/ LauncherGoesOn(r) \/ LateGame(r) \/ LauncherCleanup(r)

Next ==
    \/ Tick
    \/ \E r \in Req :
        \/ Request(r) \/ ClientLeaves(r) \/ Agent(r) \/ TrialStep(r) \/ CollectEnd(r)
        \/ Hang(r) \/ LauncherStep(r) \/ ProcsEnd(r) \/ LoseTrial(r)

Spec == Init /\ [][Next]_vars

\* Time passes, agent and trial go on, xprop and grim return or hang; launcher,
\* game and clients need not do anything.
FairSpec ==
    /\ Spec /\ WF_vars(Tick)
    /\ \A r \in Req : /\ WF_vars(Agent(r)) /\ WF_vars(TrialStep(r))
                      /\ WF_vars(CollectEnd(r) \/ Hang(r))

-----------------------------------------------------------------------------
(* Properties.                                                             *)

\* Trials never run two launchers at a time, even when one was lost and left
\* its launcher behind (trialRoute, launcherRunning).
OneTrialLauncher ==
    \A r, s \in Req : LauncherAlive(r) /\ LauncherAlive(s) => r = s

\* Unless xprop or grim hung, a trial the agent interrupts ends before
\* trialStopDelay, so that no SIGKILL leaves its launcher behind, and one nobody
\* interrupts ends before the agent's own limit (trialRoute's Duration + 180 s),
\* however launcher and game behave (trialRoute, runTrial).
WaitsAddUp ==
    \A r \in Req : ~hung[r] =>
        /\ trial[r] # "killed"
        /\ handler[r] = "waiting" /\ clock[r] = 0 => trial[r] \in Over

\* A report that says nothing is left is true, and stays true until the next
\* trial; of the processes, unless the launcher of a namespace was left behind,
\* which the SIGKILL of the host does not reach (runTrial, stageInNamespace).
ReportIsFinal ==
    \A r \in Req : trial[r] = "ended" =>
        /\ mounts[r] => left[r].mounts
        /\ procs[r] => left[r].procs \/ place[r] = "orphan"

\* What the trial started does not outlive it for ever, whatever it does, unless
\* the trial itself was killed or hung (runTrial: TERM, then KILL).  Nor does a
\* launcher in a namespace, except one whose host was stopped without it.
LauncherEnds ==
    \A r \in Req : LauncherAlive(r) ~> \/ ~LauncherAlive(r) \/ place[r] = "orphan"
                                       \/ trial[r] = "lost" \/ hung[r]
=============================================================================

---------------------------- MODULE TrialProofs -----------------------------
(***************************************************************************)
(* Theorems about Trial, for any set of requests, any duration and any     *)
(* interleaving of agent, trial, launcher and time.  TrialInv has a part   *)
(* for the agent's mutex, for the launchers, for the report and for time.  *)
(***************************************************************************)
EXTENDS Trial, TLAPS

\* The trial is at work, or has yet to begin.
Active(r) == trial[r] \notin Over

\* The agent's mutex: one trial at a time, and none that the agent has given up.
SlotFits ==
    /\ \A r, s \in Req : handler[r] # "off" /\ handler[s] # "off" => r = s
    /\ \A r \in Req : Active(r) => handler[r] # "off"

\* The launchers there are, by the trial that started them.
LaunchersFit ==
    /\ \A r \in Req : trial[r] \in {"check", "start"} => launcher[r] = "none"
    /\ \A r \in Req : trial[r] = "start" => ~LauncherRunning
    /\ \A r \in Req : trial[r] \in {"collect", "term"} => launcher[r] # "none"
    /\ \A r \in Req : trial[r] \in {"count", "ended"} => ~Started(r)

\* What the report says, or what it would say if the launcher did not start.
ReportFits ==
    \A r \in Req : trial[r] \in {"start", "ended"} =>
        /\ mounts[r] => left[r].mounts
        /\ procs[r] => left[r].procs \/ place[r] = "orphan"

\* The waits still before a trial that has to stop the prefix, and its launcher.
Stops == TermWait + ExitWait + KillWait

\* The time a trial may still need.
Needs(r) ==
    IF trial[r] \in {"check", "start"} THEN Duration + 1 + Stops
    ELSE IF trial[r] = "observe" THEN timer[r] + Stops
    ELSE IF trial[r] \in {"collect", "term"} THEN Stops
    ELSE IF trial[r] = "termwait" THEN timer[r] + ExitWait + KillWait
    ELSE IF trial[r] \in {"exitwait", "stopwait"} THEN timer[r] + KillWait
    ELSE IF trial[r] = "stoplauncher" THEN KillWait
    ELSE IF trial[r] = "killwait" THEN timer[r]
    ELSE 0

\* The same once it has been told to stop: it does not observe any more.
NeedsTold(r) == IF trial[r] \in {"start", "observe"} THEN Stops ELSE Needs(r)

\* The agent's clock always has more than that left.
TimeFits ==
    \A r \in Req :
        /\ trial[r] = "termwait" => timer[r] <= TermWait
        /\ trial[r] = "stopwait" => timer[r] <= TermWait
        /\ trial[r] = "exitwait" => timer[r] <= ExitWait
        /\ trial[r] = "killwait" => timer[r] <= KillWait
        /\ ~hung[r] =>
             /\ trial[r] # "killed"
             /\ Active(r) /\ handler[r] = "waiting" => clock[r] > Needs(r)
             /\ Active(r) /\ handler[r] = "stopping" =>
                  stop[r] /\ trial[r] # "check" /\ clock[r] > NeedsTold(r)

-----------------------------------------------------------------------------
(* One step.                                                               *)

\* Types: the sets of Trial are kept, bounds of the clocks included.
LEMMA TypeKept == TypeOK /\ LaunchersFit /\ [Next]_vars => TypeOK'
  <1> SUFFICES ASSUME TypeOK, LaunchersFit, [Next]_vars PROVE TypeOK'
    OBVIOUS
  <1> USE DEF agentVars, trialVars, launcherVars, TypeOK, LaunchersFit, TrialPc, Timed, Over,
          TermWait, ExitWait, KillWait, StopDelay, Margin
  <1>1. ASSUME NEW r \in Req, Request(r) PROVE TypeOK'
    BY <1>1, TrialAssumption DEF Request, Handler, SetClock
  <1>2. ASSUME NEW r \in Req, Cancel(r) PROVE TypeOK'
    <2>1. handler' \in [Req -> {"off", "waiting", "stopping"}]
          /\ clock' \in [Req -> 0..(Duration + Margin + StopDelay)]
      BY <1>2, TrialAssumption DEF Cancel, Handler, SetClock
    <2>2. trial' \in [Req -> TrialPc]
      BY <1>2 DEF Cancel
    <2>3. timer' \in [Req -> 0..(Duration + ExitWait)]
      BY <1>2 DEF Cancel
    <2>4. stop' \in [Req -> BOOLEAN] /\ hung' \in [Req -> BOOLEAN]
          /\ left' \in [Req -> [procs : BOOLEAN, mounts : BOOLEAN]]
      BY <1>2 DEF Cancel
    <2>5. /\ launcher' \in [Req ->
               {"none", "boot", "prepare", "play", "cleanup", "wait", "gone"}]
          /\ place' \in [Req -> {"try", "fuse", "ns", "orphan"}]
          /\ late' \in [Req -> BOOLEAN]
          /\ procs' \in [Req -> BOOLEAN] /\ mounts' \in [Req -> BOOLEAN]
      BY <1>2 DEF Cancel
    <2>6. \A s \in Req : /\ (trial[s] \in Timed => launcher[s] # "none")'
                        /\ (handler[s] # "off" => trial[s] # "off")'
      BY <1>2 DEF Cancel, Handler
    <2> QED
      BY <2>1, <2>2, <2>3, <2>4, <2>5, <2>6
  <1>3. ASSUME NEW r \in Req, Answer(r) PROVE TypeOK'
    BY <1>3, TrialAssumption DEF Answer, SetClock
  <1>4. ASSUME NEW r \in Req, KillTrial(r) PROVE TypeOK'
    BY <1>4 DEF KillTrial
  <1>5. ASSUME NEW r \in Req, Check(r) PROVE TypeOK'
    BY <1>5 DEF Check, Trial
  <1>6. ASSUME NEW r \in Req, Start(r) PROVE TypeOK'
    <2>1. handler' \in [Req -> {"off", "waiting", "stopping"}]
          /\ clock' \in [Req -> 0..(Duration + Margin + StopDelay)]
      BY <1>6 DEF Start, Alone
    <2>2. trial' \in [Req -> TrialPc]
      BY <1>6 DEF Start, Trial
    <2>3. timer' \in [Req -> 0..(Duration + ExitWait)]
      <3>1. Duration \in Nat
        BY TrialAssumption
      <3>2. ASSUME NEW n \in {Duration, Duration + 1}, timer' = [timer EXCEPT ![r] = n]
            PROVE  timer' \in [Req -> 0..(Duration + ExitWait)]
        BY <3>1, <3>2
      <3>3. \/ UNCHANGED timer
            \/ \E n \in {Duration, Duration + 1} : timer' = [timer EXCEPT ![r] = n]
        BY <1>6 DEF Start, Wait
      <3> QED
        BY <3>2, <3>3
    <2>4. stop' \in [Req -> BOOLEAN] /\ hung' \in [Req -> BOOLEAN]
          /\ left' \in [Req -> [procs : BOOLEAN, mounts : BOOLEAN]]
      BY <1>6 DEF Start, Alone
    <2>5. /\ launcher' \in [Req ->
               {"none", "boot", "prepare", "play", "cleanup", "wait", "gone"}]
          /\ place' \in [Req -> {"try", "fuse", "ns", "orphan"}]
          /\ late' \in [Req -> BOOLEAN]
          /\ procs' \in [Req -> BOOLEAN] /\ mounts' \in [Req -> BOOLEAN]
      BY <1>6 DEF Start
    <2>6. \A s \in Req : /\ (trial[s] \in Timed => launcher[s] # "none")'
                        /\ (handler[s] # "off" => trial[s] # "off")'
      BY <1>6 DEF Start, Trial, Alone
    <2> QED
      BY <2>1, <2>2, <2>3, <2>4, <2>5, <2>6
  <1>7. ASSUME NEW r \in Req, Interrupt(r) PROVE TypeOK'
    BY <1>7, TrialAssumption DEF Interrupt, Trial, Alone, Wait
  <1>8. ASSUME NEW r \in Req, ObserveEnd(r) PROVE TypeOK'
    BY <1>8, TrialAssumption DEF ObserveEnd, Trial, Alone, Wait
  <1>9. ASSUME NEW r \in Req, TermPrefix(r) PROVE TypeOK'
    <2>1. handler' \in [Req -> {"off", "waiting", "stopping"}]
          /\ clock' \in [Req -> 0..(Duration + Margin + StopDelay)]
      BY <1>9 DEF TermPrefix, Alone
    <2>2. trial' \in [Req -> TrialPc]
      BY <1>9 DEF TermPrefix
    <2>3. timer' \in [Req -> 0..(Duration + ExitWait)]
      BY <1>9, TrialAssumption DEF TermPrefix, Wait
    <2>4. stop' \in [Req -> BOOLEAN] /\ hung' \in [Req -> BOOLEAN]
          /\ left' \in [Req -> [procs : BOOLEAN, mounts : BOOLEAN]]
      BY <1>9 DEF TermPrefix, Alone
    <2>5. /\ launcher' \in [Req ->
               {"none", "boot", "prepare", "play", "cleanup", "wait", "gone"}]
          /\ place' \in [Req -> {"try", "fuse", "ns", "orphan"}]
          /\ late' \in [Req -> BOOLEAN]
          /\ procs' \in [Req -> BOOLEAN] /\ mounts' \in [Req -> BOOLEAN]
      BY <1>9 DEF TermPrefix
    <2>6. \A s \in Req : /\ (trial[s] \in Timed => launcher[s] # "none")'
                        /\ (handler[s] # "off" => trial[s] # "off")'
      BY <1>9 DEF TermPrefix, Alone
    <2> QED
      BY <2>1, <2>2, <2>3, <2>4, <2>5, <2>6
  <1>10. ASSUME NEW r \in Req, KillPrefix(r) PROVE TypeOK'
    <2>1. handler' \in [Req -> {"off", "waiting", "stopping"}]
          /\ clock' \in [Req -> 0..(Duration + Margin + StopDelay)]
      BY <1>10 DEF KillPrefix, Alone
    <2>2. trial' \in [Req -> TrialPc]
      BY <1>10 DEF KillPrefix, Trial
    <2>3. timer' \in [Req -> 0..(Duration + ExitWait)]
      BY <1>10, TrialAssumption DEF KillPrefix, Wait
    <2>4. stop' \in [Req -> BOOLEAN] /\ hung' \in [Req -> BOOLEAN]
          /\ left' \in [Req -> [procs : BOOLEAN, mounts : BOOLEAN]]
      BY <1>10 DEF KillPrefix, Alone
    <2>5. /\ launcher' \in [Req ->
               {"none", "boot", "prepare", "play", "cleanup", "wait", "gone"}]
          /\ place' \in [Req -> {"try", "fuse", "ns", "orphan"}]
          /\ late' \in [Req -> BOOLEAN]
          /\ procs' \in [Req -> BOOLEAN] /\ mounts' \in [Req -> BOOLEAN]
      BY <1>10 DEF KillPrefix
    <2>6. \A s \in Req : /\ (trial[s] \in Timed => launcher[s] # "none")'
                        /\ (handler[s] # "off" => trial[s] # "off")'
      BY <1>10 DEF KillPrefix, Trial, Alone
    <2> QED
      BY <2>1, <2>2, <2>3, <2>4, <2>5, <2>6
  <1>11. ASSUME NEW r \in Req, ExitWaitEnd(r) PROVE TypeOK'
    BY <1>11, TrialAssumption DEF ExitWaitEnd, Trial, Alone, Wait
  <1>12. ASSUME NEW r \in Req, StopLauncher(r) PROVE TypeOK'
    <2>1. handler' \in [Req -> {"off", "waiting", "stopping"}]
          /\ clock' \in [Req -> 0..(Duration + Margin + StopDelay)]
      BY <1>12 DEF StopLauncher, Alone
    <2>2. trial' \in [Req -> TrialPc]
      BY <1>12 DEF StopLauncher, Trial
    <2>3. timer' \in [Req -> 0..(Duration + ExitWait)]
      BY <1>12, TrialAssumption DEF StopLauncher, Wait
    <2>4. stop' \in [Req -> BOOLEAN] /\ hung' \in [Req -> BOOLEAN]
          /\ left' \in [Req -> [procs : BOOLEAN, mounts : BOOLEAN]]
      BY <1>12 DEF StopLauncher, Alone
    <2>5. /\ launcher' \in [Req ->
               {"none", "boot", "prepare", "play", "cleanup", "wait", "gone"}]
          /\ place' \in [Req -> {"try", "fuse", "ns", "orphan"}]
          /\ late' \in [Req -> BOOLEAN]
          /\ procs' \in [Req -> BOOLEAN] /\ mounts' \in [Req -> BOOLEAN]
      BY <1>12 DEF StopLauncher, ToldEarly, ToldMounted, Place
    <2>6. \A s \in Req : /\ (trial[s] \in Timed => launcher[s] # "none")'
                        /\ (handler[s] # "off" => trial[s] # "off")'
      BY <1>12 DEF StopLauncher, Trial, Alone, ToldEarly, ToldMounted, Place
    <2> QED
      BY <2>1, <2>2, <2>3, <2>4, <2>5, <2>6
  <1>13. ASSUME NEW r \in Req, KillWaitEnd(r) PROVE TypeOK'
    <2>1. /\ UNCHANGED <<agentVars, stop, left, hung, late, procs, mounts>>
          /\ trial' = [trial EXCEPT ![r] = "count"] /\ timer' = [timer EXCEPT ![r] = 0]
          /\ launcher' \in {launcher, [launcher EXCEPT ![r] = "gone"]}
          /\ place' \in {[place EXCEPT ![r] = "orphan"], [place EXCEPT ![r] = "try"]}
      BY <1>13 DEF KillWaitEnd, KillStarted, Place, Trial, Alone, Wait
    <2>2. timer' \in [Req -> 0..(Duration + ExitWait)]
      BY <2>1, TrialAssumption
    <2>3. /\ launcher' \in [Req ->
               {"none", "boot", "prepare", "play", "cleanup", "wait", "gone"}]
          /\ place' \in [Req -> {"try", "fuse", "ns", "orphan"}]
          /\ late' \in [Req -> BOOLEAN]
          /\ procs' \in [Req -> BOOLEAN] /\ mounts' \in [Req -> BOOLEAN]
      BY <2>1
    <2>4. \A s \in Req : /\ (trial[s] \in Timed => launcher[s] # "none")'
                        /\ (handler[s] # "off" => trial[s] # "off")'
      BY <2>1
    <2> QED
      BY <2>1, <2>2, <2>3, <2>4
  <1>14. ASSUME NEW r \in Req, Count(r) PROVE TypeOK'
    BY <1>14 DEF Count, Trial
  <1>15. ASSUME NEW r \in Req, CollectEnd(r) PROVE TypeOK'
    BY <1>15 DEF CollectEnd, Trial, Alone
  <1>16. ASSUME NEW r \in Req, Hang(r) PROVE TypeOK'
    BY <1>16, TrialAssumption DEF Hang, SetClock
  <1>17. ASSUME NEW r \in Req, LauncherGoesOn(r) PROVE TypeOK'
    BY <1>17 DEF LauncherGoesOn, Launcher, NotTrial
  <1>18. ASSUME NEW r \in Req, LateGame(r) PROVE TypeOK'
    BY <1>18 DEF LateGame, NotTrial
  <1>19. ASSUME NEW r \in Req, LauncherCleanup(r) PROVE TypeOK'
    <2>1. UNCHANGED <<agentVars, trialVars>>
      BY <1>19 DEF LauncherCleanup, NotTrial
    <2>2. /\ launcher' \in [Req ->
               {"none", "boot", "prepare", "play", "cleanup", "wait", "gone"}]
          /\ place' \in [Req -> {"try", "fuse", "ns", "orphan"}]
          /\ late' \in [Req -> BOOLEAN]
          /\ procs' \in [Req -> BOOLEAN] /\ mounts' \in [Req -> BOOLEAN]
      BY <1>19 DEF LauncherCleanup, Place, Launcher
    <2>3. \A s \in Req : (trial[s] \in Timed => launcher[s] # "none")'
      BY <1>19, <2>1 DEF LauncherCleanup, Launcher
    <2> QED
      BY <2>1, <2>2, <2>3
  <1>20. ASSUME NEW r \in Req, ProcsEnd(r) PROVE TypeOK'
    BY <1>20 DEF ProcsEnd, NotTrial
  <1>21. ASSUME NEW r \in Req, LoseTrial(r) PROVE TypeOK'
    BY <1>21 DEF LoseTrial
  <1>24. ASSUME NEW r \in Req, LauncherMounts(r) PROVE TypeOK'
    BY <1>24 DEF LauncherMounts, Launcher, Place, NotTrial
  <1>22. CASE Tick
    <2>1. clock' \in [Req -> 0..(Duration + Margin + StopDelay)]
      <3>1. Duration + Margin + StopDelay \in Nat
        BY TrialAssumption
      <3>2. ASSUME NEW s \in Req
            PROVE  (IF clock[s] = 0 THEN 0 ELSE clock[s] - 1)
                     \in 0..(Duration + Margin + StopDelay)
        <4>1. clock[s] \in 0..(Duration + Margin + StopDelay)
          OBVIOUS
        <4> QED
          BY <3>1, <4>1, TrialAssumption
      <3> QED
        BY <1>22, <3>2 DEF Tick, Less
    <2>2. timer' \in [Req -> 0..(Duration + ExitWait)]
      BY <1>22, TrialAssumption DEF Tick, Less
    <2> QED
      BY <1>22, <2>1, <2>2 DEF Tick
  <1>23. CASE UNCHANGED vars
    BY <1>23 DEF vars
  <1> QED
    BY <1>1, <1>2, <1>3, <1>4, <1>5, <1>6, <1>7, <1>8, <1>9, <1>10, <1>11, <1>12, <1>13, <1>14,
       <1>15, <1>16, <1>17, <1>18, <1>19, <1>20, <1>21, <1>22, <1>23, <1>24
       DEF Next, Agent, TrialStep, LauncherStep, ClientLeaves, ContextExpires

\* The slot: a request takes the mutex when it is free, and gives it back with its answer.
LEMMA SlotKept == TypeOK /\ SlotFits /\ [Next]_vars => SlotFits'
  <1> SUFFICES ASSUME TypeOK, SlotFits, [Next]_vars PROVE SlotFits'
    OBVIOUS
  <1> USE DEF agentVars, trialVars, launcherVars, TypeOK, SlotFits, Over, Active, SlotFree
  <1>1. ASSUME NEW r \in Req, Request(r) PROVE SlotFits'
    BY <1>1 DEF Request, Handler
  <1>2. ASSUME NEW r \in Req, Cancel(r) PROVE SlotFits'
    BY <1>2 DEF Cancel, Handler
  <1>3. ASSUME NEW r \in Req, Answer(r) PROVE SlotFits'
    BY <1>3 DEF Answer
  <1>4. ASSUME NEW r \in Req, KillTrial(r) PROVE SlotFits'
    BY <1>4 DEF KillTrial
  <1>5. ASSUME NEW r \in Req, Check(r) PROVE SlotFits'
    BY <1>5 DEF Check, Trial
  <1>6. ASSUME NEW r \in Req, Start(r) PROVE SlotFits'
    BY <1>6 DEF Start, Trial, Alone
  <1>7. ASSUME NEW r \in Req, Interrupt(r) PROVE SlotFits'
    BY <1>7 DEF Interrupt, Trial, Alone
  <1>8. ASSUME NEW r \in Req, ObserveEnd(r) PROVE SlotFits'
    BY <1>8 DEF ObserveEnd, Trial, Alone
  <1>9. ASSUME NEW r \in Req, TermPrefix(r) PROVE SlotFits'
    BY <1>9 DEF TermPrefix, Alone
  <1>10. ASSUME NEW r \in Req, KillPrefix(r) PROVE SlotFits'
    BY <1>10 DEF KillPrefix, Trial, Alone
  <1>11. ASSUME NEW r \in Req, ExitWaitEnd(r) PROVE SlotFits'
    BY <1>11 DEF ExitWaitEnd, Trial, Alone
  <1>12. ASSUME NEW r \in Req, StopLauncher(r) PROVE SlotFits'
    BY <1>12 DEF StopLauncher, Trial, Alone
  <1>13. ASSUME NEW r \in Req, KillWaitEnd(r) PROVE SlotFits'
    BY <1>13 DEF KillWaitEnd, KillStarted, Place, Trial, Alone
  <1>14. ASSUME NEW r \in Req, Count(r) PROVE SlotFits'
    BY <1>14 DEF Count, Trial
  <1>15. ASSUME NEW r \in Req, CollectEnd(r) PROVE SlotFits'
    BY <1>15 DEF CollectEnd, Trial, Alone
  <1>16. ASSUME NEW r \in Req, Hang(r) PROVE SlotFits'
    BY <1>16 DEF Hang
  <1>17. ASSUME NEW r \in Req, LauncherGoesOn(r) PROVE SlotFits'
    BY <1>17 DEF LauncherGoesOn, NotTrial
  <1>18. ASSUME NEW r \in Req, LateGame(r) PROVE SlotFits'
    BY <1>18 DEF LateGame, NotTrial
  <1>19. ASSUME NEW r \in Req, LauncherCleanup(r) PROVE SlotFits'
    BY <1>19 DEF LauncherCleanup, Place, NotTrial
  <1>20. ASSUME NEW r \in Req, ProcsEnd(r) PROVE SlotFits'
    BY <1>20 DEF ProcsEnd, NotTrial
  <1>21. ASSUME NEW r \in Req, LoseTrial(r) PROVE SlotFits'
    BY <1>21 DEF LoseTrial
  <1>24. ASSUME NEW r \in Req, LauncherMounts(r) PROVE SlotFits'
    BY <1>24 DEF LauncherMounts, NotTrial
  <1>22. CASE Tick
    BY <1>22 DEF Tick
  <1>23. CASE UNCHANGED vars
    BY <1>23 DEF vars
  <1> QED
    BY <1>1, <1>2, <1>3, <1>4, <1>5, <1>6, <1>7, <1>8, <1>9, <1>10, <1>11, <1>12, <1>13, <1>14,
       <1>15, <1>16, <1>17, <1>18, <1>19, <1>20, <1>21, <1>22, <1>23, <1>24
       DEF Next, Agent, TrialStep, LauncherStep, ClientLeaves, ContextExpires

\* The launchers: Start looks for one first, and StopLauncher and KillWaitEnd see the end
\* of what it started.
LEMMA LaunchersKept ==
    TypeOK /\ SlotFits /\ LaunchersFit /\ OneTrialLauncher /\ [Next]_vars
        => (LaunchersFit /\ OneTrialLauncher)'
  <1> SUFFICES ASSUME TypeOK, SlotFits, LaunchersFit, OneTrialLauncher, [Next]_vars
               PROVE  (LaunchersFit /\ OneTrialLauncher)'
    OBVIOUS
  <1> USE DEF agentVars, trialVars, launcherVars, TypeOK, SlotFits, LaunchersFit,
          OneTrialLauncher, Over, Timed, Active, SlotFree, LauncherRunning, LauncherAlive,
          Started
  <1>1. ASSUME NEW r \in Req, Request(r) PROVE (LaunchersFit /\ OneTrialLauncher)'
    BY <1>1 DEF Request
  <1>2. ASSUME NEW r \in Req, Cancel(r) PROVE (LaunchersFit /\ OneTrialLauncher)'
    BY <1>2 DEF Cancel, Handler
  <1>3. ASSUME NEW r \in Req, Answer(r) PROVE (LaunchersFit /\ OneTrialLauncher)'
    BY <1>3 DEF Answer
  <1>4. ASSUME NEW r \in Req, KillTrial(r) PROVE (LaunchersFit /\ OneTrialLauncher)'
    BY <1>4 DEF KillTrial
  <1>5. ASSUME NEW r \in Req, Check(r) PROVE (LaunchersFit /\ OneTrialLauncher)'
    BY <1>5 DEF Check, Trial
  <1>6. ASSUME NEW r \in Req, Start(r) PROVE (LaunchersFit /\ OneTrialLauncher)'
    <2>1. \A s \in Req : trial[s] = "start" => s = r
      BY <1>6 DEF Start, Trial
    <2>2. \A s \in Req : launcher[s] \in {"none", "gone"}
      BY <1>6 DEF Start, Trial
    <2>3. UNCHANGED handler
          /\ \A s \in Req \ {r} : launcher'[s] = launcher[s] /\ trial'[s] = trial[s]
      BY <1>6 DEF Start, Trial, Alone
    <2>4. trial'[r] \in {"observe", "ended"} /\ (trial'[r] = "ended" => launcher'[r] = "none")
      BY <1>6 DEF Start, Trial
    <2>5. \A s \in Req : LauncherAlive(s)' => s = r
      BY <2>2, <2>3
    <2>6. LaunchersFit'
      <3>1. \A s \in Req \ {r} : trial'[s] # "start"
        BY <2>1, <2>3
      <3>2. trial'[r] \notin {"start", "check", "collect", "term", "count"}
            /\ (trial'[r] = "ended" => ~LauncherAlive(r)')
        BY <2>4
      <3> QED
        BY <2>2, <2>3, <3>1, <3>2
    <2>7. OneTrialLauncher'
      BY <2>5
    <2> QED
      BY <2>6, <2>7
  <1>7. ASSUME NEW r \in Req, Interrupt(r) PROVE (LaunchersFit /\ OneTrialLauncher)'
    BY <1>7 DEF Interrupt, Trial
  <1>8. ASSUME NEW r \in Req, ObserveEnd(r) PROVE (LaunchersFit /\ OneTrialLauncher)'
    BY <1>8 DEF ObserveEnd, Trial
  <1>9. ASSUME NEW r \in Req, TermPrefix(r) PROVE (LaunchersFit /\ OneTrialLauncher)'
    BY <1>9 DEF TermPrefix
  <1>10. ASSUME NEW r \in Req, KillPrefix(r) PROVE (LaunchersFit /\ OneTrialLauncher)'
    BY <1>10 DEF KillPrefix, Trial, Wait, Expired
  <1>11. ASSUME NEW r \in Req, ExitWaitEnd(r) PROVE (LaunchersFit /\ OneTrialLauncher)'
    BY <1>11 DEF ExitWaitEnd, Trial
  <1>12. ASSUME NEW r \in Req, StopLauncher(r) PROVE (LaunchersFit /\ OneTrialLauncher)'
    <2>1. CASE Started(r)
      <3>1. trial' = [trial EXCEPT ![r] = "killwait"]
        BY <1>12, <2>1 DEF StopLauncher, Trial
      <3>2. launcher' = launcher \/ launcher' = [launcher EXCEPT ![r] = "cleanup"]
        BY <1>12, <2>1 DEF StopLauncher, ToldEarly, ToldMounted
      <3>3. \A s \in Req \ {r} : place'[s] = place[s]
        BY <1>12, <2>1 DEF StopLauncher, ToldEarly, ToldMounted, Place
      <3> QED
        BY <2>1, <3>1, <3>2, <3>3
    <2>2. CASE ~Started(r)
      <3>1. trial' = [trial EXCEPT ![r] = "count"] /\ UNCHANGED <<launcher, place>>
        BY <1>12, <2>2 DEF StopLauncher, Trial
      <3> QED
        BY <2>2, <3>1
    <2> QED
      BY <2>1, <2>2
  <1>13. ASSUME NEW r \in Req, KillWaitEnd(r) PROVE (LaunchersFit /\ OneTrialLauncher)'
    <2>1. trial' = [trial EXCEPT ![r] = "count"]
      BY <1>13 DEF KillWaitEnd, Trial
    <2>2. CASE place[r] \in {"ns", "orphan"}
      <3>1. launcher' = launcher /\ place' = [place EXCEPT ![r] = "orphan"]
        BY <1>13, <2>2 DEF KillWaitEnd, KillStarted, Place
      <3> QED
        BY <2>1, <3>1
    <2>3. CASE place[r] \notin {"ns", "orphan"}
      <3>1. launcher' = [launcher EXCEPT ![r] = "gone"]
            /\ place' = [place EXCEPT ![r] = "try"]
        BY <1>13, <2>3 DEF KillWaitEnd, KillStarted, Place
      <3> QED
        BY <2>1, <3>1
    <2> QED
      BY <2>2, <2>3
  <1>14. ASSUME NEW r \in Req, Count(r) PROVE (LaunchersFit /\ OneTrialLauncher)'
    BY <1>14 DEF Count, Trial
  <1>15. ASSUME NEW r \in Req, CollectEnd(r) PROVE (LaunchersFit /\ OneTrialLauncher)'
    BY <1>15 DEF CollectEnd, Trial
  <1>16. ASSUME NEW r \in Req, Hang(r) PROVE (LaunchersFit /\ OneTrialLauncher)'
    BY <1>16 DEF Hang
  <1>17. ASSUME NEW r \in Req, LauncherGoesOn(r) PROVE (LaunchersFit /\ OneTrialLauncher)'
    <2>1. UNCHANGED <<trial, handler, place>>
      BY <1>17 DEF LauncherGoesOn, NotTrial
    <2>2. \A s \in Req : (launcher'[s] = "none") <=> (launcher[s] = "none")
      BY <1>17 DEF LauncherGoesOn, Launcher
    <2>3. \A s \in Req : LauncherAlive(s)' <=> LauncherAlive(s)
      BY <1>17 DEF LauncherGoesOn, Launcher
    <2> QED
      BY <2>1, <2>2, <2>3
  <1>18. ASSUME NEW r \in Req, LateGame(r) PROVE (LaunchersFit /\ OneTrialLauncher)'
    BY <1>18 DEF LateGame, NotTrial
  <1>19. ASSUME NEW r \in Req, LauncherCleanup(r) PROVE (LaunchersFit /\ OneTrialLauncher)'
    <2>1. LaunchersFit'
      <3>1. UNCHANGED trial
        BY <1>19 DEF LauncherCleanup, Place, NotTrial
      <3>2. \A s \in Req : (launcher'[s] = "none") <=> (launcher[s] = "none")
        BY <1>19 DEF LauncherCleanup, Place, Launcher
      <3>3. \A s \in Req : ~LauncherAlive(s) => ~LauncherAlive(s)'
        BY <1>19 DEF LauncherCleanup, Place, Launcher
      <3>4. ~LauncherRunning => ~LauncherRunning'
        BY <3>3
      <3>5. \A s \in Req : ~Started(s) => ~Started(s)'
        BY <1>19 DEF LauncherCleanup, Place, Launcher
      <3> QED
        BY <3>1, <3>2, <3>4, <3>5
    <2>2. OneTrialLauncher'
      BY <1>19 DEF LauncherCleanup, Place, Launcher
    <2> QED
      BY <2>1, <2>2
  <1>20. ASSUME NEW r \in Req, ProcsEnd(r) PROVE (LaunchersFit /\ OneTrialLauncher)'
    BY <1>20 DEF ProcsEnd, NotTrial
  <1>21. ASSUME NEW r \in Req, LoseTrial(r) PROVE (LaunchersFit /\ OneTrialLauncher)'
    BY <1>21 DEF LoseTrial
  <1>24. ASSUME NEW r \in Req, LauncherMounts(r) PROVE (LaunchersFit /\ OneTrialLauncher)'
    BY <1>24 DEF LauncherMounts, Launcher, Place, NotTrial
  <1>22. CASE Tick
    BY <1>22 DEF Tick
  <1>23. CASE UNCHANGED vars
    BY <1>23 DEF vars
  <1> QED
    BY <1>1, <1>2, <1>3, <1>4, <1>5, <1>6, <1>7, <1>8, <1>9, <1>10, <1>11, <1>12, <1>13, <1>14,
       <1>15, <1>16, <1>17, <1>18, <1>19, <1>20, <1>21, <1>22, <1>23, <1>24
       DEF Next, Agent, TrialStep, LauncherStep, ClientLeaves, ContextExpires

\* The report: a trial counts when what it started is gone; a launcher left behind in its
\* namespace adds no mount that the trial could see.
LEMMA ReportKept == TypeOK /\ LaunchersFit /\ ReportFits /\ [Next]_vars => ReportFits'
  <1> SUFFICES ASSUME TypeOK, LaunchersFit, ReportFits, [Next]_vars PROVE ReportFits'
    OBVIOUS
  <1> USE DEF agentVars, trialVars, launcherVars, TypeOK, LaunchersFit, ReportFits,
          LauncherAlive, Started
  <1>1. ASSUME NEW r \in Req, Request(r) PROVE ReportFits'
    BY <1>1 DEF Request
  <1>2. ASSUME NEW r \in Req, Cancel(r) PROVE ReportFits'
    BY <1>2 DEF Cancel
  <1>3. ASSUME NEW r \in Req, Answer(r) PROVE ReportFits'
    BY <1>3 DEF Answer
  <1>4. ASSUME NEW r \in Req, KillTrial(r) PROVE ReportFits'
    BY <1>4 DEF KillTrial
  <1>5. ASSUME NEW r \in Req, Check(r) PROVE ReportFits'
    BY <1>5 DEF Check, Trial
  <1>6. ASSUME NEW r \in Req, Start(r) PROVE ReportFits'
    BY <1>6 DEF Start, Trial, Alone
  <1>7. ASSUME NEW r \in Req, Interrupt(r) PROVE ReportFits'
    BY <1>7 DEF Interrupt, Trial, Alone
  <1>8. ASSUME NEW r \in Req, ObserveEnd(r) PROVE ReportFits'
    BY <1>8 DEF ObserveEnd, Trial, Alone
  <1>9. ASSUME NEW r \in Req, TermPrefix(r) PROVE ReportFits'
    BY <1>9 DEF TermPrefix, Alone
  <1>10. ASSUME NEW r \in Req, KillPrefix(r) PROVE ReportFits'
    BY <1>10 DEF KillPrefix, Trial, Alone
  <1>11. ASSUME NEW r \in Req, ExitWaitEnd(r) PROVE ReportFits'
    BY <1>11 DEF ExitWaitEnd, Trial, Alone
  <1>12. ASSUME NEW r \in Req, StopLauncher(r) PROVE ReportFits'
    BY <1>12 DEF StopLauncher, Trial, Alone, ToldEarly, ToldMounted, Place
  <1>13. ASSUME NEW r \in Req, KillWaitEnd(r) PROVE ReportFits'
    BY <1>13 DEF KillWaitEnd, KillStarted, Place, Trial, Alone
  <1>14. ASSUME NEW r \in Req, Count(r) PROVE ReportFits'
    BY <1>14 DEF Count, Trial
  <1>15. ASSUME NEW r \in Req, CollectEnd(r) PROVE ReportFits'
    BY <1>15 DEF CollectEnd, Trial, Alone
  <1>16. ASSUME NEW r \in Req, Hang(r) PROVE ReportFits'
    BY <1>16 DEF Hang
  <1>17. ASSUME NEW r \in Req, LauncherGoesOn(r) PROVE ReportFits'
    BY <1>17 DEF LauncherGoesOn, Launcher, NotTrial
  <1>18. ASSUME NEW r \in Req, LateGame(r) PROVE ReportFits'
    BY <1>18 DEF LateGame, NotTrial
  <1>19. ASSUME NEW r \in Req, LauncherCleanup(r) PROVE ReportFits'
    BY <1>19 DEF LauncherCleanup, Place, NotTrial
  <1>20. ASSUME NEW r \in Req, ProcsEnd(r) PROVE ReportFits'
    BY <1>20 DEF ProcsEnd, NotTrial
  <1>21. ASSUME NEW r \in Req, LoseTrial(r) PROVE ReportFits'
    BY <1>21 DEF LoseTrial
  <1>24. ASSUME NEW r \in Req, LauncherMounts(r) PROVE ReportFits'
    BY <1>24 DEF LauncherMounts, Launcher, Place, NotTrial
  <1>22. CASE Tick
    BY <1>22 DEF Tick
  <1>23. CASE UNCHANGED vars
    BY <1>23 DEF vars
  <1> QED
    BY <1>1, <1>2, <1>3, <1>4, <1>5, <1>6, <1>7, <1>8, <1>9, <1>10, <1>11, <1>12, <1>13, <1>14,
       <1>15, <1>16, <1>17, <1>18, <1>19, <1>20, <1>21, <1>22, <1>23, <1>24
       DEF Next, Agent, TrialStep, LauncherStep, ClientLeaves, ContextExpires

\* The time: every wait of runTrial takes from the clock what it takes from its timer.
LEMMA TimeKept == TypeOK /\ TimeFits /\ [Next]_vars => TimeFits'
  <1> SUFFICES ASSUME TypeOK, TimeFits, [Next]_vars PROVE TimeFits'
    OBVIOUS
  <1> USE DEF agentVars, trialVars, launcherVars, TypeOK, TimeFits, Over, Active, Timed, Needs,
          NeedsTold, Stops, TermWait, ExitWait, KillWait, StopDelay, Margin
  <1>1. ASSUME NEW r \in Req, Request(r) PROVE TimeFits'
    BY <1>1, TrialAssumption DEF Request, Handler, SetClock
  <1>2. ASSUME NEW r \in Req, Cancel(r) PROVE TimeFits'
    BY <1>2 DEF Cancel, Handler, SetClock
  <1>3. ASSUME NEW r \in Req, Answer(r) PROVE TimeFits'
    BY <1>3 DEF Answer, SetClock
  <1>4. ASSUME NEW r \in Req, KillTrial(r) PROVE TimeFits'
    BY <1>4 DEF KillTrial
  <1>5. ASSUME NEW r \in Req, Check(r) PROVE TimeFits'
    BY <1>5 DEF Check, Trial
  <1>6. ASSUME NEW r \in Req, Start(r) PROVE TimeFits'
    BY <1>6, TrialAssumption DEF Start, Trial, Alone, Wait
  <1>7. ASSUME NEW r \in Req, Interrupt(r) PROVE TimeFits'
    BY <1>7 DEF Interrupt, Trial, Alone, Wait
  <1>8. ASSUME NEW r \in Req, ObserveEnd(r) PROVE TimeFits'
    BY <1>8 DEF ObserveEnd, Trial, Alone, Wait
  <1>9. ASSUME NEW r \in Req, TermPrefix(r) PROVE TimeFits'
    BY <1>9 DEF TermPrefix, Alone, Wait
  <1>10. ASSUME NEW r \in Req, KillPrefix(r) PROVE TimeFits'
    BY <1>10 DEF KillPrefix, Trial, Alone, Wait
  <1>11. ASSUME NEW r \in Req, ExitWaitEnd(r) PROVE TimeFits'
    BY <1>11 DEF ExitWaitEnd, Trial, Alone, Wait
  <1>12. ASSUME NEW r \in Req, StopLauncher(r) PROVE TimeFits'
    BY <1>12, TrialAssumption DEF StopLauncher, Trial, Alone, Wait
  <1>13. ASSUME NEW r \in Req, KillWaitEnd(r) PROVE TimeFits'
    BY <1>13 DEF KillWaitEnd, KillStarted, Place, Trial, Alone, Wait
  <1>14. ASSUME NEW r \in Req, Count(r) PROVE TimeFits'
    BY <1>14 DEF Count, Trial
  <1>15. ASSUME NEW r \in Req, CollectEnd(r) PROVE TimeFits'
    BY <1>15 DEF CollectEnd, Trial, Alone
  <1>16. ASSUME NEW r \in Req, Hang(r) PROVE TimeFits'
    BY <1>16 DEF Hang, SetClock
  <1>17. ASSUME NEW r \in Req, LauncherGoesOn(r) PROVE TimeFits'
    BY <1>17 DEF LauncherGoesOn, NotTrial
  <1>18. ASSUME NEW r \in Req, LateGame(r) PROVE TimeFits'
    BY <1>18 DEF LateGame, NotTrial
  <1>19. ASSUME NEW r \in Req, LauncherCleanup(r) PROVE TimeFits'
    BY <1>19 DEF LauncherCleanup, Place, NotTrial
  <1>20. ASSUME NEW r \in Req, ProcsEnd(r) PROVE TimeFits'
    BY <1>20 DEF ProcsEnd, NotTrial
  <1>21. ASSUME NEW r \in Req, LoseTrial(r) PROVE TimeFits'
    BY <1>21 DEF LoseTrial
  <1>24. ASSUME NEW r \in Req, LauncherMounts(r) PROVE TimeFits'
    BY <1>24 DEF LauncherMounts, NotTrial
  <1>22. CASE Tick
    BY <1>22 DEF Tick, Waits, Less, Expired, Started
  <1>23. CASE UNCHANGED vars
    BY <1>23 DEF vars
  <1> QED
    BY <1>1, <1>2, <1>3, <1>4, <1>5, <1>6, <1>7, <1>8, <1>9, <1>10, <1>11, <1>12, <1>13, <1>14,
       <1>15, <1>16, <1>17, <1>18, <1>19, <1>20, <1>21, <1>22, <1>23, <1>24
       DEF Next, Agent, TrialStep, LauncherStep, ClientLeaves, ContextExpires

-----------------------------------------------------------------------------
(* What holds of every history.                                            *)

\* The inductive invariant.
TrialInv == TypeOK /\ SlotFits /\ LaunchersFit /\ OneTrialLauncher /\ ReportFits /\ TimeFits

\* No request and no launcher.
LEMMA InitTrial == Init => TrialInv
  <1> SUFFICES ASSUME Init PROVE TrialInv
    OBVIOUS
  <1> USE DEF Init, Nobody
  <1>1. TypeOK
    <2>1. clock \in [Req -> 0..(Duration + Margin + StopDelay)]
      BY TrialAssumption DEF Margin, StopDelay
    <2>2. timer \in [Req -> 0..(Duration + ExitWait)]
      BY TrialAssumption DEF ExitWait
    <2>3. left \in [Req -> [procs : BOOLEAN, mounts : BOOLEAN]]
      OBVIOUS
    <2> QED
      BY <2>1, <2>2, <2>3 DEF TypeOK, TrialPc, Timed
  <1>2. SlotFits /\ LaunchersFit /\ OneTrialLauncher /\ ReportFits
    BY DEF SlotFits, LaunchersFit, OneTrialLauncher, ReportFits, LauncherAlive, Started, Active,
           Over
  <1>3. TimeFits
    BY DEF TimeFits
  <1> QED
    BY <1>1, <1>2, <1>3 DEF TrialInv

\* Spec keeps TrialInv.
LEMMA TrialAlways == Spec => []TrialInv
  <1>1. TrialInv /\ [Next]_vars => TrialInv'
    BY TypeKept, SlotKept, LaunchersKept, ReportKept, TimeKept DEF TrialInv
  <1> QED
    BY <1>1, InitTrial, PTL DEF Spec

\* Every variable keeps its type, and a trial that observes has started a launcher.
THEOREM TrialTypeCorrect == Spec => []TypeOK
  <1>1. TrialInv => TypeOK
    BY DEF TrialInv
  <1> QED
    BY <1>1, TrialAlways, PTL

\* A trial starts its launcher while it has the agent's mutex and after it has seen that
\* no other launcher runs, one that a lost trial left included (launcherRunning).
THEOREM OneLauncherAtATime == Spec => []OneTrialLauncher
  <1>1. TrialInv => OneTrialLauncher
    BY DEF TrialInv
  <1> QED
    BY <1>1, TrialAlways, PTL

\* Whatever the duration asked for, the bounds of runTrial add up to less than what the
\* agent grants, before and after its SIGTERM (trialStopDelay).
THEOREM WaitsFitTheAgent == Spec => []WaitsAddUp
  <1>1. TrialInv => WaitsAddUp
    <2> SUFFICES ASSUME TrialInv, NEW r \in Req, ~hung[r]
                 PROVE  /\ trial[r] # "killed"
                        /\ handler[r] = "waiting" /\ clock[r] = 0 => trial[r] \in Over
      BY DEF WaitsAddUp
    <2>1. trial[r] # "killed"
      BY DEF TrialInv, TimeFits
    <2>2. ASSUME handler[r] = "waiting", trial[r] \notin Over PROVE clock[r] # 0
      <3>1. clock[r] > Needs(r)
        BY <2>2 DEF TrialInv, TimeFits, Active
      <3>2. timer[r] \in Nat /\ clock[r] \in Nat /\ Duration \in Nat
        BY TrialAssumption DEF TrialInv, TypeOK
      <3>3. Needs(r) \in Nat
        BY <3>2 DEF Needs, Stops, TermWait, ExitWait, KillWait
      <3> QED
        BY <3>1, <3>2, <3>3
    <2> QED
      BY <2>1, <2>2
  <1> QED
    BY <1>1, TrialAlways, PTL

\* Once a trial has counted what is left, nothing of it mounts a game where the trial looks,
\* and nothing starts a process, unless a launcher was left behind in its namespace: what the
\* trial started is gone by then, or was never there (runTrial, stageInNamespace).
THEOREM ReportStaysTrue == Spec => []ReportIsFinal
  <1>1. TrialInv => ReportIsFinal
    BY DEF TrialInv, ReportFits, ReportIsFinal
  <1> QED
    BY <1>1, TrialAlways, PTL
===============================================================================

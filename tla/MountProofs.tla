------------------------------ MODULE MountProofs ------------------------------
(***************************************************************************)
(* Theorems about what is mounted for a game.  KernelStage, one launch in  *)
(* a namespace, for every choice of signals and with or without --umount:  *)
(* the launch plays once, a second launch comes in only after it, the host *)
(* outlives its child, and --umount tells the truth.  GameTree, launch     *)
(* after launch, for any images: the game sees the image it was given, and *)
(* nothing but an old copy is deleted.                                     *)
(***************************************************************************)
EXTENDS KernelStage, GameTree, TLAPS

-----------------------------------------------------------------------------
(* KernelStage.                                                            *)

\* The host has not begun its fallback game nor its exit.
BeforeFallback == {"mount", "stage", "started", "waiting", "reaped", "status", "fuse"}

\* Where the child and its status can be, whatever the host does.
StagesFit ==
    /\ host \in {"mount", "stage"} => child = "none"
    /\ host \in {"reaped", "status"} => child = "reaped"
    /\ host \in {"fuse", "fusegame", "exit"} => child \in {"none", "reaped"}
    /\ host \in {"waiting", "reaped"} => nsPID
    /\ status = "ready" => child \in {"ready", "game", "exit", "gone", "reaped"}

\* Who may still play: a child on its way to the game, or the host on its way
\* to the fallback, and then the child has not played.
PlaysLeft ==
    /\ child \in {"exec", "boot", "squash", "overlay", "ready"} => played = 0
    /\ host \in {"mount", "stage"} => played = 0
    /\ host \in BeforeFallback => played <= 1
    /\ ~full => played <= 1
    /\ ~full /\ child = "ready" => status = "ready"
    /\ ~full /\ host \in BeforeFallback /\ status # "ready" => played = 0
    /\ ~full /\ host = "fuse" => played = 0

\* A game in the namespace dies with its launcher unless that one was killed.
\* The lock is with the host, then also with the child: whoever has it after
\* them finds both gone, and nothing left that could start a game.
GamesFit ==
    /\ "ns" \in games /\ ~killed => child = "game"
    /\ locked /\ ~HostGone => "host" \in lockers
    /\ locked /\ ChildAlive => "child" \in lockers
    /\ locked /\ second # "none" => HostGone /\ ~ChildAlive
    /\ locked /\ second = "in" => games = {}

\* The host's exit: ordered by a signal it took before nsPID.Store, or after
\* the child was reaped.
ExitsFit ==
    /\ hostSig = "exit" /\ ~early
         => host \in {"status", "fuse", "fusegame", "exit", "ended", "killed"}
    /\ hostSig # "exit" => ~early
    /\ host = "ended" /\ ~early => child \in {"none", "reaped"}

StageInv == TypeOK /\ StagesFit /\ PlaysLeft /\ GamesFit /\ ExitsFit

\* A launch starts with nothing started.
LEMMA InitStage == Init => StageInv
  <1> SUFFICES ASSUME Init PROVE StageInv
    OBVIOUS
  <1> USE DEF Init
  <1>1. TypeOK
    <2>1. /\ dir \subseteq {"game", "pid"} /\ games \subseteq {"ns", "fuse"}
          /\ lockers \subseteq {"host", "child", "squashfuse", "ns", "fuse"}
      OBVIOUS
    <2>2. host \in HostPc /\ child \in ChildPc /\ ~ChildAlive /\ played \in 0..2
      BY DEF HostPc, ChildPc, ChildAlive
    <2> QED BY <2>1, <2>2 DEF TypeOK
  <1>2. StagesFit /\ PlaysLeft
    BY DEF StagesFit, PlaysLeft
  <1>3. GamesFit /\ ExitsFit
    BY DEF GamesFit, ExitsFit, HostGone, ChildAlive
  <1> QED BY <1>1, <1>2, <1>3 DEF StageInv

\* SIGTERM ends a child that has not installed its handler, and is only noted
\* by one that has.
LEMMA TermStep ==
  ASSUME TypeOK, Term
  PROVE  /\ told' = TRUE /\ childSig' \in BOOLEAN
         /\ \/ child' = child /\ lockers' = lockers
            \/ child = "exec" /\ child' = "gone" /\ lockers' = lockers \ {"child"}
  BY DEF Term, TypeOK

\* One step of a launcher, of --umount or of the kernel keeps StageInv.
LEMMA NextStage == StageInv /\ [Next]_vars => StageInv'
  <1> SUFFICES ASSUME StageInv, [Next]_vars PROVE StageInv'
    OBVIOUS
  <1> USE DEF StageInv, TypeOK, HostPc, ChildPc, HostGone, ChildAlive, BeforeFallback, setup,
              hostVars, childVars, history, cmds
  <1>1. CASE TryKernel
    <2>1. TypeOK'
      BY <1>1 DEF TryKernel, Host
    <2>2. StagesFit'
      BY <1>1 DEF TryKernel, Host, StagesFit
    <2>3. PlaysLeft'
      BY <1>1 DEF TryKernel, Host, PlaysLeft
    <2>4. GamesFit'
      BY <1>1 DEF TryKernel, Host, GamesFit
    <2>5. ExitsFit'
      BY <1>1 DEF TryKernel, Host, ExitsFit
    <2> QED BY <2>1, <2>2, <2>3, <2>4, <2>5 DEF StageInv
  <1>2. CASE StageStart
    <2>1. TypeOK'
      <3>1. /\ dir' \subseteq {"game", "pid"} /\ games' \subseteq {"ns", "fuse"}
            /\ lockers' \subseteq {"host", "child", "squashfuse", "ns", "fuse"}
        BY <1>2 DEF StageStart, WriteFile, Pass
      <3> QED BY <1>2, <3>1 DEF StageStart, Host, WriteFile, Pass
    <2>2. StagesFit'
      BY <1>2 DEF StageStart, Host, StagesFit
    <2>3. PlaysLeft'
      BY <1>2 DEF StageStart, Host, PlaysLeft
    <2>4. GamesFit'
      BY <1>2 DEF StageStart, Host, Pass, GamesFit
    <2>5. ExitsFit'
      BY <1>2 DEF StageStart, Host, ExitsFit
    <2> QED BY <2>1, <2>2, <2>3, <2>4, <2>5 DEF StageInv
  <1>3. CASE StorePID
    <2>1. TypeOK'
      BY <1>3 DEF StorePID, Host
    <2>2. StagesFit'
      BY <1>3 DEF StorePID, Host, StagesFit
    <2>3. PlaysLeft'
      BY <1>3 DEF StorePID, Host, PlaysLeft
    <2>4. GamesFit'
      BY <1>3 DEF StorePID, Host, GamesFit
    <2>5. ExitsFit'
      BY <1>3 DEF StorePID, Host, ExitsFit
    <2> QED BY <2>1, <2>2, <2>3, <2>4, <2>5 DEF StageInv
  <1>4. CASE Wait
    <2>1. TypeOK'
      BY <1>4 DEF Wait, Host
    <2>2. StagesFit'
      BY <1>4 DEF Wait, Host, StagesFit
    <2>3. PlaysLeft'
      BY <1>4 DEF Wait, Host, PlaysLeft
    <2>4. GamesFit'
      BY <1>4 DEF Wait, Host, GamesFit
    <2>5. ExitsFit'
      BY <1>4 DEF Wait, Host, ExitsFit
    <2> QED BY <2>1, <2>2, <2>3, <2>4, <2>5 DEF StageInv
  <1>5. CASE ClearPID
    <2>1. TypeOK'
      <3>1. child = "reaped" /\ child' = child
        BY <1>5 DEF ClearPID, Host, StagesFit
      <3>2. nsPID' = FALSE /\ host' = "status"
        BY <1>5 DEF ClearPID, Host
      <3>3. ~(nsPID' /\ ~HostGone') /\ ~ChildAlive'
        BY <3>1, <3>2
      <3>4. nsPID' \in BOOLEAN /\ host' \in HostPc
        BY <3>2
      <3>5. UNCHANGED <<setup, hostSig, childVars, dir, games, lockers, played, history, cmds>>
        BY <1>5 DEF ClearPID
      <3> QED
        BY <3>3, <3>4, <3>5
    <2>2. StagesFit'
      BY <1>5 DEF ClearPID, Host, StagesFit
    <2>3. PlaysLeft'
      BY <1>5 DEF ClearPID, Host, PlaysLeft
    <2>4. GamesFit'
      BY <1>5 DEF ClearPID, Host, GamesFit
    <2>5. ExitsFit'
      BY <1>5 DEF ClearPID, Host, ExitsFit
    <2> QED BY <2>1, <2>2, <2>3, <2>4, <2>5 DEF StageInv
  <1>6. CASE ReadStatus
    <2>1. TypeOK'
      BY <1>6 DEF ReadStatus, Host, NextAfterStatus
    <2>2. StagesFit'
      BY <1>6 DEF ReadStatus, Host, NextAfterStatus, StagesFit
    <2>3. PlaysLeft'
      BY <1>6 DEF ReadStatus, Host, NextAfterStatus, PlaysLeft
    <2>4. GamesFit'
      BY <1>6 DEF ReadStatus, Host, NextAfterStatus, GamesFit
    <2>5. ExitsFit'
      BY <1>6 DEF ReadStatus, Host, NextAfterStatus, ExitsFit
    <2> QED BY <2>1, <2>2, <2>3, <2>4, <2>5 DEF StageInv
  <1>7. CASE FallBack
    <2>1. TypeOK'
      <3>1. /\ dir' \subseteq {"game", "pid"} /\ games' \subseteq {"ns", "fuse"}
            /\ lockers' \subseteq {"host", "child", "squashfuse", "ns", "fuse"}
        BY <1>7 DEF FallBack, Play, Pass
      <3> QED BY <1>7, <3>1 DEF FallBack, Host, Play, PlaysLeft
    <2>2. StagesFit'
      BY <1>7 DEF FallBack, Host, StagesFit
    <2>3. PlaysLeft'
      BY <1>7 DEF FallBack, Host, Play, PlaysLeft
    <2>4. GamesFit'
      BY <1>7 DEF FallBack, Host, Play, Pass, GamesFit
    <2>5. ExitsFit'
      BY <1>7 DEF FallBack, Host, ExitsFit
    <2> QED BY <2>1, <2>2, <2>3, <2>4, <2>5 DEF StageInv
  <1>8. CASE FuseGameOver
    <2>1. TypeOK'
      BY <1>8 DEF FuseGameOver, Host
    <2>2. StagesFit'
      BY <1>8 DEF FuseGameOver, Host, StagesFit
    <2>3. PlaysLeft'
      BY <1>8 DEF FuseGameOver, Host, PlaysLeft
    <2>4. GamesFit'
      BY <1>8 DEF FuseGameOver, Host, GamesFit
    <2>5. ExitsFit'
      BY <1>8 DEF FuseGameOver, Host, ExitsFit
    <2> QED BY <2>1, <2>2, <2>3, <2>4, <2>5 DEF StageInv
  <1>9. CASE HostExit
    <2>1. TypeOK'
      BY <1>9 DEF HostExit
    <2>2. StagesFit'
      BY <1>9 DEF HostExit, StagesFit
    <2>3. PlaysLeft'
      BY <1>9 DEF HostExit, PlaysLeft
    <2>4. GamesFit'
      BY <1>9 DEF HostExit, GamesFit
    <2>5. ExitsFit'
      BY <1>9 DEF HostExit, StagesFit, ExitsFit
    <2> QED BY <2>1, <2>2, <2>3, <2>4, <2>5 DEF StageInv
  <1>10. CASE Notify
    <2>1. TypeOK'
      BY <1>10 DEF Notify
    <2>2. StagesFit'
      BY <1>10 DEF Notify, StagesFit
    <2>3. PlaysLeft'
      BY <1>10 DEF Notify, PlaysLeft
    <2>4. GamesFit'
      BY <1>10 DEF Notify, GamesFit
    <2>5. ExitsFit'
      BY <1>10 DEF Notify, ExitsFit
    <2> QED BY <2>1, <2>2, <2>3, <2>4, <2>5 DEF StageInv
  <1>11. CASE HandleSignal
    <2>1. CASE nsPID /\ hostSig' = "none" /\ Term /\ UNCHANGED early
      <3>1. /\ told' = TRUE /\ childSig' \in BOOLEAN
            /\ \/ child' = child /\ lockers' = lockers
               \/ child = "exec" /\ child' = "gone" /\ lockers' = lockers \ {"child"}
        BY <2>1, TermStep
      <3>2. UNCHANGED <<setup, host, nsPID, status, dir, games, played, killed, cmds>>
        BY <1>11 DEF HandleSignal
      <3>3. TypeOK'
        <4>1. /\ dir' \subseteq {"game", "pid"} /\ games' \subseteq {"ns", "fuse"}
              /\ lockers' \subseteq {"host", "child", "squashfuse", "ns", "fuse"}
          BY <3>1, <3>2
        <4> QED BY <2>1, <3>1, <3>2, <4>1
      <3>4. StagesFit' /\ PlaysLeft'
        BY <2>1, <3>1, <3>2 DEF StagesFit, PlaysLeft
      <3>5. GamesFit' /\ ExitsFit'
        BY <1>11, <2>1, <3>1, <3>2 DEF HandleSignal, GamesFit, ExitsFit
      <3> QED BY <3>3, <3>4, <3>5
    <2>2. CASE ~nsPID /\ hostSig' = "exit"
      <3>1. early' = (host \in {"mount", "stage", "started"})
                   /\ hostSig = "pending" /\ ~HostGone
        BY <1>11, <2>2 DEF HandleSignal
      <3>2. UNCHANGED <<setup, host, nsPID, status, dir, games, played, killed, cmds, child,
                        childSig, lockers, told>>
        BY <1>11, <2>2 DEF HandleSignal
      <3>3. early' \in BOOLEAN
        BY <3>1
      <3>4. TypeOK'
        BY <2>2, <3>2, <3>3
      <3>5. StagesFit' /\ PlaysLeft' /\ GamesFit'
        BY <3>2 DEF StagesFit, PlaysLeft, GamesFit
      <3>6. ~early' <=> host \notin {"mount", "stage", "started"}
        BY <3>1
      <3>7. ExitsFit'
        BY <2>2, <3>1, <3>2, <3>6 DEF StagesFit, ExitsFit
      <3> QED BY <3>4, <3>5, <3>7
    <2> QED BY <1>11, <2>1, <2>2 DEF HandleSignal
  <1>12. CASE ChildBoot
    <2>1. TypeOK'
      <3>1. /\ dir' \subseteq {"game", "pid"} /\ games' \subseteq {"ns", "fuse"}
            /\ lockers' \subseteq {"host", "child", "squashfuse", "ns", "fuse"}
        BY <1>12 DEF ChildBoot
      <3> QED BY <1>12, <3>1 DEF ChildBoot, Child
    <2>2. StagesFit'
      BY <1>12 DEF ChildBoot, Child, StagesFit
    <2>3. PlaysLeft'
      BY <1>12 DEF ChildBoot, Child, PlaysLeft
    <2>4. GamesFit'
      BY <1>12 DEF ChildBoot, Child, GamesFit
    <2>5. ExitsFit'
      BY <1>12 DEF ChildBoot, Child, ExitsFit
    <2> QED BY <2>1, <2>2, <2>3, <2>4, <2>5 DEF StageInv
  <1>13. CASE ChildSquash
    <2>1. TypeOK'
      <3>1. /\ dir' \subseteq {"game", "pid"} /\ games' \subseteq {"ns", "fuse"}
            /\ lockers' \subseteq {"host", "child", "squashfuse", "ns", "fuse"}
        BY <1>13 DEF ChildSquash, WriteFile, Pass
      <3> QED BY <1>13, <3>1 DEF ChildSquash, Child, WriteFile
    <2>2. StagesFit'
      BY <1>13 DEF ChildSquash, Child, StagesFit
    <2>3. PlaysLeft'
      BY <1>13 DEF ChildSquash, Child, PlaysLeft
    <2>4. GamesFit'
      BY <1>13 DEF ChildSquash, Child, Pass, GamesFit
    <2>5. ExitsFit'
      BY <1>13 DEF ChildSquash, Child, ExitsFit
    <2> QED BY <2>1, <2>2, <2>3, <2>4, <2>5 DEF StageInv
  <1>14. CASE ChildMount
    <2>1. TypeOK'
      BY <1>14 DEF ChildMount, Child, WriteStatus
    <2>2. StagesFit'
      BY <1>14 DEF ChildMount, Child, StagesFit
    <2>3. PlaysLeft'
      BY <1>14 DEF ChildMount, Child, PlaysLeft
    <2>4. GamesFit'
      BY <1>14 DEF ChildMount, Child, GamesFit
    <2>5. ExitsFit'
      BY <1>14 DEF ChildMount, Child, ExitsFit
    <2> QED BY <2>1, <2>2, <2>3, <2>4, <2>5 DEF StageInv
  <1>15. CASE ChildReady
    <2>1. TypeOK'
      BY <1>15 DEF ChildReady, Child, WriteStatus
    <2>2. StagesFit'
      BY <1>15 DEF ChildReady, Child, StagesFit
    <2>3. PlaysLeft'
      BY <1>15 DEF ChildReady, Child, WriteStatus, PlaysLeft
    <2>4. GamesFit'
      BY <1>15 DEF ChildReady, Child, GamesFit
    <2>5. ExitsFit'
      BY <1>15 DEF ChildReady, Child, ExitsFit
    <2> QED BY <2>1, <2>2, <2>3, <2>4, <2>5 DEF StageInv
  <1>16. CASE ChildPlay
    <2>1. TypeOK'
      <3>1. /\ dir' \subseteq {"game", "pid"} /\ games' \subseteq {"ns", "fuse"}
            /\ lockers' \subseteq {"host", "child", "squashfuse", "ns", "fuse"}
        BY <1>16 DEF ChildPlay, Play, Pass
      <3> QED BY <1>16, <3>1 DEF ChildPlay, Child, Play, PlaysLeft
    <2>2. StagesFit'
      BY <1>16 DEF ChildPlay, Child, StagesFit
    <2>3. PlaysLeft'
      BY <1>16 DEF ChildPlay, Child, Play, PlaysLeft
    <2>4. GamesFit'
      BY <1>16 DEF ChildPlay, Child, Play, Pass, GamesFit
    <2>5. ExitsFit'
      BY <1>16 DEF ChildPlay, Child, ExitsFit
    <2> QED BY <2>1, <2>2, <2>3, <2>4, <2>5 DEF StageInv
  <1>17. CASE ChildGameOver
    <2>1. TypeOK'
      BY <1>17 DEF ChildGameOver, Child
    <2>2. StagesFit'
      BY <1>17 DEF ChildGameOver, Child, StagesFit
    <2>3. PlaysLeft'
      BY <1>17 DEF ChildGameOver, Child, PlaysLeft
    <2>4. GamesFit'
      BY <1>17 DEF ChildGameOver, Child, GamesFit
    <2>5. ExitsFit'
      BY <1>17 DEF ChildGameOver, Child, ExitsFit
    <2> QED BY <2>1, <2>2, <2>3, <2>4, <2>5 DEF StageInv
  <1>18. CASE ChildExit
    <2>1. TypeOK'
      BY <1>18 DEF ChildExit
    <2>2. StagesFit'
      BY <1>18 DEF ChildExit, StagesFit
    <2>3. PlaysLeft'
      BY <1>18 DEF ChildExit, PlaysLeft
    <2>4. GamesFit'
      BY <1>18 DEF ChildExit, GamesFit
    <2>5. ExitsFit'
      BY <1>18 DEF ChildExit, ExitsFit
    <2> QED BY <2>1, <2>2, <2>3, <2>4, <2>5 DEF StageInv
  <1>19. CASE UmountFind
    <2>1. /\ UNCHANGED <<setup, host, hostSig, nsPID, status, dir, played, early, killed,
                        second>>
          /\ um' \in {"wait", "unmounted"} /\ told' \in BOOLEAN /\ childSig' \in BOOLEAN
      BY <1>19, TermStep DEF UmountFind
    <2>2. \/ child' = child /\ lockers' = lockers /\ games' = games
          \/ /\ child = "exec" /\ child' = "gone"
             /\ lockers' = lockers \ {"child"} /\ games' = games
          \/ child' = child /\ games' = games \ {"fuse"} /\ lockers' = lockers \ {"fuse"}
      BY <1>19, TermStep DEF UmountFind
    <2>3. TypeOK'
      <3>1. /\ dir' \subseteq {"game", "pid"} /\ games' \subseteq {"ns", "fuse"}
            /\ lockers' \subseteq {"host", "child", "squashfuse", "ns", "fuse"}
        BY <2>1, <2>2
      <3> QED BY <2>1, <2>2, <3>1
    <2>4. StagesFit' /\ PlaysLeft'
      BY <2>1, <2>2 DEF StagesFit, PlaysLeft
    <2>5. GamesFit' /\ ExitsFit'
      BY <2>1, <2>2 DEF GamesFit, ExitsFit
    <2> QED BY <2>3, <2>4, <2>5
  <1>20. CASE UmountWait
    <2>1. TypeOK'
      BY <1>20 DEF UmountWait
    <2>2. StagesFit'
      BY <1>20 DEF UmountWait, StagesFit
    <2>3. PlaysLeft'
      BY <1>20 DEF UmountWait, PlaysLeft
    <2>4. GamesFit'
      BY <1>20 DEF UmountWait, GamesFit
    <2>5. ExitsFit'
      BY <1>20 DEF UmountWait, ExitsFit
    <2> QED BY <2>1, <2>2, <2>3, <2>4, <2>5 DEF StageInv
  <1>21. CASE SquashfuseEnds
    <2>1. TypeOK'
      BY <1>21 DEF SquashfuseEnds
    <2>2. StagesFit'
      BY <1>21 DEF SquashfuseEnds, StagesFit
    <2>3. PlaysLeft'
      BY <1>21 DEF SquashfuseEnds, PlaysLeft
    <2>4. GamesFit'
      BY <1>21 DEF SquashfuseEnds, GamesFit
    <2>5. ExitsFit'
      BY <1>21 DEF SquashfuseEnds, ExitsFit
    <2> QED BY <2>1, <2>2, <2>3, <2>4, <2>5 DEF StageInv
  <1>22. CASE InitReaps
    <2>1. TypeOK'
      BY <1>22 DEF InitReaps, Child
    <2>2. StagesFit'
      BY <1>22 DEF InitReaps, Child, StagesFit
    <2>3. PlaysLeft'
      BY <1>22 DEF InitReaps, Child, PlaysLeft
    <2>4. GamesFit'
      BY <1>22 DEF InitReaps, Child, GamesFit
    <2>5. ExitsFit'
      BY <1>22 DEF InitReaps, Child, ExitsFit
    <2> QED BY <2>1, <2>2, <2>3, <2>4, <2>5 DEF StageInv
  <1>23. ASSUME NEW where \in {"ns", "fuse"}, GameEnds(where) PROVE StageInv'
    BY <1>23 DEF GameEnds, StagesFit, PlaysLeft, GamesFit, ExitsFit
  <1>24. CASE KillHost
    <2>1. TypeOK'
      BY <1>24 DEF KillHost
    <2>2. StagesFit'
      BY <1>24 DEF KillHost, StagesFit
    <2>3. PlaysLeft'
      BY <1>24 DEF KillHost, PlaysLeft
    <2>4. GamesFit'
      BY <1>24 DEF KillHost, GamesFit
    <2>5. ExitsFit'
      BY <1>24 DEF KillHost, ExitsFit
    <2> QED BY <2>1, <2>2, <2>3, <2>4, <2>5 DEF StageInv
  <1>25. CASE KillChild
    <2>1. TypeOK'
      BY <1>25 DEF KillChild
    <2>2. StagesFit'
      BY <1>25 DEF KillChild, StagesFit
    <2>3. PlaysLeft'
      BY <1>25 DEF KillChild, PlaysLeft
    <2>4. GamesFit'
      BY <1>25 DEF KillChild, GamesFit
    <2>5. ExitsFit'
      BY <1>25 DEF KillChild, ExitsFit
    <2> QED BY <2>1, <2>2, <2>3, <2>4, <2>5 DEF StageInv
  <1>26. CASE UNCHANGED vars
    BY <1>26 DEF vars, StagesFit, PlaysLeft, GamesFit, ExitsFit
  <1>27. CASE SecondLock
    <2>1. TypeOK' /\ StagesFit' /\ PlaysLeft' /\ ExitsFit'
      BY <1>27 DEF SecondLock, StagesFit, PlaysLeft, ExitsFit
    <2>2. GamesFit'
      BY <1>27 DEF SecondLock, GamesFit
    <2> QED BY <2>1, <2>2
  <1>28. CASE SecondCheck
    <2>1. TypeOK' /\ StagesFit' /\ PlaysLeft' /\ ExitsFit'
      BY <1>28 DEF SecondCheck, StagesFit, PlaysLeft, ExitsFit
    <2>2. GamesFit'
      BY <1>28 DEF SecondCheck, GamesFit
    <2> QED BY <2>1, <2>2
  <1> QED
    BY <1>1, <1>2, <1>3, <1>4, <1>5, <1>6, <1>7, <1>8, <1>9, <1>10, <1>11, <1>12, <1>13, <1>14,
       <1>15, <1>16, <1>17, <1>18, <1>19, <1>20, <1>21, <1>22, <1>23, <1>24, <1>25, <1>26,
       <1>27, <1>28
       DEF Next, HostMain, ChildMain, Over

\* Type correctness of the whole specification.
THEOREM StageTypeCorrect == Spec => []TypeOK
  <1>1. StageInv => TypeOK
    BY DEF StageInv
  <1> QED BY <1>1, InitStage, NextStage, PTL DEF Spec

\* One launch plays once, whatever is killed and whenever, as long as the
\* status can be written (runInKernelOverlay, stageInNamespace).
THEOREM GamePlayedOnce == Spec => []PlayedOnce
  <1>1. StageInv => PlayedOnce
    BY DEF StageInv, PlaysLeft, PlayedOnce
  <1> QED BY <1>1, InitStage, NextStage, PTL DEF Spec

\* Whoever is killed or signalled and whenever, another launch is let in only
\* when both launchers are gone and their game is over (acquireGameLock,
\* stageInNamespace, mountImage).
THEOREM SecondIsAlone == Spec => []SecondLaunchAlone
  <1>1. StageInv => SecondLaunchAlone
    BY DEF StageInv, GamesFit, SecondLaunchAlone
  <1> QED BY <1>1, InitStage, NextStage, PTL DEF Spec

\* The host ends after its child, except when killed or signalled before it
\* knew the pid (installSignals, stageInNamespace).
THEOREM HostWaits == Spec => []HostWaitsForChild
  <1>1. StageInv => HostWaitsForChild
    BY DEF StageInv, ExitsFit, HostWaitsForChild
  <1> QED BY <1>1, InitStage, NextStage, PTL DEF Spec

\* --umount says "stopped" only of a game that has stopped (umountGame,
\* nsLauncherPID): the zombie it waits for has no game left.
THEOREM StoppedIsTrue == Spec => StoppedMeansStopped
  <1>1. ASSUME StageInv, [Next]_vars
        PROVE  [um' = "stopped" /\ um # "stopped" /\ ~killed => "ns" \notin games]_vars
    <2>1. CASE UmountWait
      BY <1>1, <2>1 DEF UmountWait, StageInv, GamesFit
    <2>2. CASE UmountFind
      BY <2>2 DEF UmountFind
    <2>3. CASE ~UmountWait /\ ~UmountFind
      <3>1. um' = um
        BY <1>1, <2>3
           DEF Next, vars, HostMain, ChildMain, Over, TryKernel, StageStart, StorePID, Wait,
               ClearPID, ReadStatus, FallBack, FuseGameOver, HostExit, Notify, HandleSignal,
               ChildBoot, ChildSquash, ChildMount, ChildReady, ChildPlay, ChildGameOver,
               ChildExit, SecondLock, SecondCheck, SquashfuseEnds, InitReaps, GameEnds,
               KillHost, KillChild, cmds
      <3> QED BY <3>1
    <2> QED BY <2>1, <2>2, <2>3
  <1> QED BY <1>1, InitStage, NextStage, PTL DEF Spec, StoppedMeansStopped

-----------------------------------------------------------------------------
(* GameTree.                                                               *)

\* A launch on its way to what it will show, and one that shows it.
Launching == {"mount", "overlay", "copy", "check", "remove", "copying", "mark"}
Mounted == {"prepare", "reload", "ready", "play", "cleanup"}

\* Images only succeed each other: what was saved or marked is never ahead of the
\* image, and the saves of a copy that has a marker are not ahead of it.
MarkersFit ==
    /\ saved <= image /\ marker <= image /\ wanted <= image
    /\ marker # Nothing => saved <= marker
    /\ mode = "copy" /\ marker # Nothing => wanted <= marker
    /\ pc \in Launching \cup Mounted => wanted # Nothing
    /\ mode # "none" => pc \in Mounted
    /\ pc \in {"copying", "mark"} => marker = Nothing

\* What is deleted has nothing mounted over it, and its marker is one of an older
\* image unless a mount that somebody held has hidden it.
MountsFit ==
    /\ pc \in {"remove", "copying", "mark", "clean"} => lower = Nothing
    /\ held => Has("hold")
    /\ pc \in Launching /\ ~Has("hold") => lower = Nothing
    /\ pc \in {"check", "remove"} /\ ~Has("hold") => marker # image
    /\ pc = "overlay" => Has("folder") \/ squash # Nothing

TreeInv == TreeTypeOK /\ MarkersFit /\ MountsFit

\* A game starts with nothing mounted and nothing copied.
LEMMA InitTree == TreeInit => TreeInv
  <1> SUFFICES ASSUME TreeInit PROVE TreeInv
    OBVIOUS
  <1> USE GameTreeAssumption DEF TreeInit, Image, Nothing
  <1>1. TreeTypeOK
    <2>1. 1 \in Image /\ {marker, saved} \subseteq Image \cup {Nothing}
      OBVIOUS
    <2> QED BY <2>1 DEF TreeTypeOK, Layer
  <1>2. MarkersFit /\ MountsFit
    BY DEF MarkersFit, MountsFit, Launching, Mounted
  <1> QED BY <1>1, <1>2 DEF TreeInv

\* One step of a launch, of --clean or of the outside keeps TreeInv.
LEMMA NextTree == TreeInv /\ [TreeNext]_treeVars => TreeInv'
  <1> SUFFICES ASSUME TreeInv, [TreeNext]_treeVars PROVE TreeInv'
    OBVIOUS
  <1> USE GameTreeAssumption DEF TreeInv, TreeTypeOK, Image, Nothing, EmptyDir, Layer,
                                 Launching, Mounted, At, Goto, Has, tree, mounts, launch
  <1>1. CASE Start
    BY <1>1 DEF Start, FuseUmount, MarkersFit, MountsFit
  <1>2. CASE MountSquash
    BY <1>2 DEF MountSquash, MarkersFit, MountsFit
  <1>3. CASE MountOverlay
    <2>1. TreeTypeOK'
      BY <1>3 DEF MountOverlay, End, LowerLayer, MountsFit
    <2>2. MarkersFit'
      BY <1>3 DEF MountOverlay, End, MarkersFit
    <2>3. MountsFit'
      BY <1>3 DEF MountOverlay, End, MountsFit
    <2> QED BY <2>1, <2>2, <2>3
  <1>4. CASE UseCopyMode
    BY <1>4 DEF UseCopyMode, CopyValid, MarkersFit, MountsFit
  <1>5. CASE CheckMount
    BY <1>5 DEF CheckMount, End, FuseUmount, MarkersFit, MountsFit
  <1>6. CASE RemoveFile
    BY <1>6 DEF RemoveFile, MarkersFit, MountsFit
  <1>7. CASE Removed
    BY <1>7 DEF Removed, NoFile, MarkersFit, MountsFit
  <1>8. CASE CopyFile
    BY <1>8 DEF CopyFile, End, MarkersFit, MountsFit
  <1>9. CASE Copied
    BY <1>9 DEF Copied, MarkersFit, MountsFit
  <1>10. CASE WriteMarker
    BY <1>10 DEF WriteMarker, MarkersFit, MountsFit
  <1>11. CASE ReportMount
    BY <1>11 DEF ReportMount, End, MarkersFit, MountsFit
  <1>12. CASE Prepare
    BY <1>12 DEF Prepare, MarkersFit, MountsFit
  <1>13. CASE Reload
    <2>1. TreeTypeOK'
      BY <1>13 DEF Reload, End, ReloadLayer
    <2>2. MarkersFit'
      BY <1>13 DEF Reload, End, MarkersFit
    <2>3. MountsFit'
      BY <1>13 DEF Reload, End, MountsFit
    <2> QED BY <2>1, <2>2, <2>3
  <1>14. CASE PlayGame
    BY <1>14 DEF PlayGame, MarkersFit, MountsFit
  <1>15. CASE AfterGame
    BY <1>15 DEF AfterGame, MarkersFit, MountsFit
  <1>16. CASE Cleanup
    <2>1. TreeTypeOK'
      BY <1>16 DEF Cleanup, End
    <2>2. MarkersFit'
      BY <1>16 DEF Cleanup, End, MarkersFit
    <2>3. MountsFit'
      BY <1>16 DEF Cleanup, End, MountsFit
    <2> QED BY <2>1, <2>2, <2>3
  <1>17. CASE StartClean
    BY <1>17 DEF StartClean, FuseUmount, MarkersFit, MountsFit
  <1>18. CASE EndClean
    BY <1>18 DEF EndClean, End, MarkersFit, MountsFit
  <1>19. CASE ReplaceImage
    BY <1>19 DEF ReplaceImage, MarkersFit, MountsFit
  <1>20. CASE Hold
    BY <1>20 DEF Hold, MarkersFit, MountsFit
  <1>21. CASE Crash
    BY <1>21 DEF Crash, End, MarkersFit, MountsFit
  <1>22. CASE UNCHANGED treeVars
    BY <1>22 DEF treeVars, MarkersFit, MountsFit
  <1> QED BY <1>1, <1>2, <1>3, <1>4, <1>5, <1>6, <1>7, <1>8, <1>9, <1>10, <1>11, <1>12, <1>13,
     <1>14, <1>15, <1>16, <1>17, <1>18, <1>19, <1>20, <1>21, <1>22
     DEF TreeNext, Mounting, Copying, Playing, Outside

\* The histories in which a game sees its image (README.md, section 5, has the others):
\* nobody replaces an image while it is used, a .pc folder is not reloaded, and no
\* command is cut short that deletes a whole copy below its marker.  --clean does so
\* with any copy, a launch if a mount that somebody held has hidden the marker.
SafeHistory(s) ==
    /\ "replacedWhileUsed" \notin s
    /\ "reload" \in s => "folder" \notin s
    /\ "crash" \in s => "folder" \in s \/ ("clean" \notin s /\ "hold" \notin s)

SafeHistories == \A s \in Setups : SafeHistory(s)

Whole(i) == \A f \in Part : copy[f] = i

\* A launch opens no other image than the one it was given, and what it mounts, or
\* mounts again, is that one.
WantedFits ==
    /\ pc \in Launching \cup Mounted => wanted = image
    /\ source \in {Nothing, wanted} /\ (pc \in {"idle", "clean"} => source = Nothing)
    /\ pc = "overlay" => Has("folder") \/ squash = image
    /\ mode = "overlay" => lower = image /\ (Has("folder") \/ squash = image)
    /\ pc \in Mounted => mode # "none"
    /\ pc = "reload" => Has("reload") /\ mode = "overlay"

\* A marker stands for a whole copy, or is that of an older image, below which an
\* interrupted launch has deleted files: no launch takes such a copy.
CopyFits ==
    /\ mode = "copy" \/ pc = "mark" => Whole(image)
    /\ pc = "copying" => \A f \in Part : copy[f] \in {Nothing, image}
    /\ marker # Nothing /\ pc \notin {"remove", "clean"}
         => Whole(marker) \/ (Has("crash") /\ marker # image)
    /\ pc \in {"check", "remove"} /\ Has("crash") => marker # image
    /\ Has("folder")
         => pc \notin {"copy", "check", "remove", "copying", "mark"} /\ marker = Nothing
    /\ pc = "clean" /\ Has("crash") => Has("folder")

ShowInv == TreeInv /\ WantedFits /\ CopyFits

\* A game starts in ShowInv: no launch, no copy, no marker.
LEMMA InitShow == TreeInit => ShowInv
  <1> SUFFICES ASSUME TreeInit PROVE WantedFits /\ CopyFits
    BY InitTree DEF ShowInv
  <1> QED BY DEF TreeInit, WantedFits, CopyFits, Launching, Mounted

\* One step keeps ShowInv in a safe history.
LEMMA NextShow == SafeHistories /\ ShowInv /\ [TreeNext]_treeVars => ShowInv'
  <1> SUFFICES ASSUME SafeHistories, TreeInv, WantedFits, CopyFits, [TreeNext]_treeVars
               PROVE  WantedFits' /\ CopyFits'
    BY NextTree DEF ShowInv
  <1>history. SafeHistory(traits) /\ MountsFit
    BY DEF SafeHistories, TreeInv, TreeTypeOK
  <1>images. image \in Nat \ {0} /\ marker \in Nat /\ copy \in [Part -> Image \cup {0}]
    BY DEF TreeInv, TreeTypeOK, Image, Nothing
  <1>phases. /\ mode # "none" => pc \in Mounted
             /\ pc \in {"copying", "mark"} => marker = Nothing
             /\ pc = "copying" => source # Nothing
    BY DEF TreeInv, TreeTypeOK, MarkersFit
  <1> USE <1>history, <1>images, <1>phases
      DEF SafeHistory, MountsFit, Nothing, Launching, Mounted, At, Goto, Has, Whole,
           tree, mounts, launch
  <1>1. CASE Start
    BY <1>1 DEF Start, WantedFits, CopyFits
  <1>2. CASE MountSquash
    BY <1>2 DEF MountSquash, WantedFits, CopyFits
  <1>3. CASE MountOverlay
    BY <1>3 DEF MountOverlay, End, LowerLayer, WantedFits, CopyFits
  <1>4. CASE UseCopyMode
    BY <1>4 DEF UseCopyMode, CopyValid, WantedFits, CopyFits
  <1>5. CASE CheckMount
    BY <1>5 DEF CheckMount, End, WantedFits, CopyFits
  <1>6. CASE RemoveFile
    BY <1>6 DEF RemoveFile, WantedFits, CopyFits
  <1>7. CASE Removed
    BY <1>7 DEF Removed, NoFile, WantedFits, CopyFits
  <1>8. CASE CopyFile
    BY <1>8 DEF CopyFile, End, WantedFits, CopyFits
  <1>9. CASE Copied
    BY <1>9 DEF Copied, WantedFits, CopyFits
  <1>10. CASE WriteMarker
    BY <1>10 DEF WriteMarker, WantedFits, CopyFits
  <1>11. CASE ReportMount
    BY <1>11 DEF ReportMount, End, WantedFits, CopyFits
  <1>12. CASE Prepare
    BY <1>12 DEF Prepare, WantedFits, CopyFits
  <1>13. CASE Reload
    BY <1>13 DEF Reload, End, ReloadLayer, WantedFits, CopyFits
  <1>14. CASE PlayGame
    BY <1>14 DEF PlayGame, WantedFits, CopyFits
  <1>15. CASE AfterGame
    BY <1>15 DEF AfterGame, WantedFits, CopyFits
  <1>16. CASE Cleanup
    BY <1>16 DEF Cleanup, End, WantedFits, CopyFits
  <1>17. CASE StartClean
    BY <1>17 DEF StartClean, WantedFits, CopyFits
  <1>18. CASE EndClean
    BY <1>18 DEF EndClean, End, NoFile, WantedFits, CopyFits
  <1>19. CASE ReplaceImage
    <2>1. marker' # image'
      BY <1>19 DEF ReplaceImage, TreeInv, MarkersFit
    <2> QED BY <1>19, <2>1 DEF ReplaceImage, WantedFits, CopyFits
  <1>20. CASE Hold
    BY <1>20 DEF Hold, WantedFits, CopyFits
  <1>21. CASE Crash
    BY <1>21 DEF Crash, End, WantedFits, CopyFits
  <1>22. CASE UNCHANGED treeVars
    BY <1>22 DEF treeVars, WantedFits, CopyFits
  <1> QED BY <1>1, <1>2, <1>3, <1>4, <1>5, <1>6, <1>7, <1>8, <1>9, <1>10, <1>11, <1>12, <1>13,
     <1>14, <1>15, <1>16, <1>17, <1>18, <1>19, <1>20, <1>21, <1>22
     DEF TreeNext, Mounting, Copying, Playing, Outside

\* Type correctness of the whole specification.
THEOREM TreeTypeCorrect == TreeSpec => []TreeTypeOK
  <1>1. TreeInv => TreeTypeOK
    BY DEF TreeInv
  <1> QED BY <1>1, InitTree, NextTree, PTL DEF TreeSpec

\* The game that plays sees the whole image its launch was given, overlay or copy,
\* for any number of images and parts (useCopyMode, extractImage, reloadOverlay).
THEOREM ShowsImage == ASSUME SafeHistories PROVE TreeSpec => []PlaysTheImage
  <1>1. ShowInv => PlaysTheImage
    <2> SUFFICES ASSUME ShowInv, pc = "play" PROVE Shown(wanted)
      BY DEF PlaysTheImage
    <2>1. /\ wanted = image /\ copy \in [Part -> Image \cup {Nothing}]
          /\ mode \in {"overlay", "copy"}
      BY DEF ShowInv, WantedFits, Mounted, TreeInv, TreeTypeOK
    <2>2. CASE mode = "overlay"
      BY <2>1, <2>2 DEF ShowInv, WantedFits, Shown
    <2>3. CASE mode = "copy"
      BY <2>1, <2>3 DEF ShowInv, CopyFits, Whole, Shown
    <2> QED BY <2>1, <2>2, <2>3
  <1>2. TreeInit => ShowInv
    BY InitShow
  <1>3. ShowInv /\ [TreeNext]_treeVars => ShowInv'
    BY NextShow
  <1> QED BY <1>1, <1>2, <1>3, PTL DEF TreeSpec

\* In every history, whatever is interrupted or replaced: nothing is deleted through
\* a mount, and no launch deletes saves made with the image it launches, in a copy
\* that has its marker (removeCopy, useCopyMode, extractImage, cleanCache).
THEOREM DeletesOnlyOld == TreeSpec => DeletesOnlyOldCopies
  <1>1. ASSUME TreeInv, [TreeNext]_treeVars
        PROVE [/\ (\E f \in Part : copy'[f] = Nothing /\ copy[f] # Nothing) => lower = Nothing
               /\ marker' = Nothing /\ marker # Nothing => lower = Nothing
               /\ saved # Nothing /\ saved' = Nothing
                    => pc = "clean" \/ saved # image \/ Has("hold") \/ marker = Nothing]_treeVars
    <2> USE <1>1 DEF TreeInv
    <2>1. CASE RemoveFile
      <3>1. lower = Nothing /\ (pc = "clean" \/ Has("hold") \/ marker # image)
        BY <2>1 DEF RemoveFile, MountsFit
      <3>2. marker # image => saved # image \/ marker = Nothing
        BY DEF MarkersFit, TreeTypeOK, Image, Nothing
      <3> QED BY <3>1, <3>2
    <2>2. CASE CopyFile
      <3>1. marker' = marker /\ saved' = saved
        BY <2>2 DEF CopyFile
      <3>2. \A f \in Part : copy[f] # Nothing => copy'[f] = copy[f]
        BY <2>2 DEF CopyFile, TreeTypeOK
      <3> QED BY <3>1, <3>2
    <2>3. CASE WriteMarker
      <3>1. marker = Nothing /\ copy' = copy /\ saved' = saved
        BY <2>3 DEF WriteMarker, At, MarkersFit
      <3> QED BY <3>1
    <2>4. CASE PlayGame
      <3>1. marker' = marker /\ copy' = copy
        BY <2>4 DEF PlayGame
      <3>2. saved' \in {saved, wanted} /\ wanted # Nothing
        BY <2>4 DEF PlayGame, At, MarkersFit, Mounted
      <3> QED BY <3>1, <3>2
    <2>5. CASE ~RemoveFile /\ ~CopyFile /\ ~WriteMarker /\ ~PlayGame
      <3>1. UNCHANGED tree
        BY <2>5
           DEF TreeNext, treeVars, Mounting, Copying, Playing, Outside, tree, Start,
               MountSquash, MountOverlay, UseCopyMode, CheckMount, Removed, Copied, ReportMount,
               Prepare, Reload, AfterGame, Cleanup, StartClean, EndClean, ReplaceImage, Hold,
               Crash
      <3> QED BY <3>1 DEF tree
    <2> QED BY <2>1, <2>2, <2>3, <2>4, <2>5
  <1> QED BY <1>1, InitTree, NextTree, PTL DEF TreeSpec, DeletesOnlyOldCopies
=============================================================================

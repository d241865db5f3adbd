----------------------------- MODULE KernelStage -----------------------------
(***************************************************************************)
(* One launch that tries the kernel overlay: the host launcher starts      *)
(* itself again in a user namespace, waits, and reads NS_DIR/status to     *)
(* know whether the game ran there or whether to fall back on              *)
(* fuse-overlayfs.  A second command may run --umount meanwhile, another   *)
(* launch of the game may come, and signals may hit either launcher.       *)
(*                                                                         *)
(* The exit of each launcher is one step: ExitPath has its threads.        *)
(***************************************************************************)
EXTENDS Naturals, FiniteSets

CONSTANTS
    Signals,     \* signals considered: "TERM" to the host, "KILL" to either
    Umount       \* TRUE: a --umount of the game may run

ASSUME KernelStageAssumption == Signals \subseteq {"TERM", "KILL"} /\ Umount \in BOOLEAN

VARIABLES
    forced,     \* WSQUASHFS_OVERLAY=kernel: no fallback
    sudo,       \* dropsToTargetUser: root launches, the game runs through sudo
    locked,     \* acquireGameLock got the lock (it says yes without, too)
    full,       \* the disk of the cache is full: what is written to dir may be lost
    host,       \* the host's main thread
    hostSig,    \* its signal goroutine
    nsPID,      \* the host knows the child's pid
    child,      \* the launcher in the namespace
    childSig,   \* the child's signal goroutine has a SIGTERM
    dir,        \* files of the exchange directory (game, pid)
    status,     \* NS_DIR/status
    games,      \* games running: "ns" in the namespace, "fuse" in the fallback
    lockers,    \* processes with a descriptor of the game's lock
    played,     \* history: games started
    told,       \* history: the child was sent SIGTERM
    early,      \* history: the host's own exit began before nsPID.Store
    killed,     \* history: a launcher was killed
    um,         \* the --umount command
    second      \* another launch of the game: has the lock, has seen it quiet

vars == <<forced, sudo, locked, full, host, hostSig, nsPID, child, childSig, dir, status,
          games, lockers, played, told, early, killed, um, second>>
setup == <<forced, sudo, locked, full>>
hostVars == <<setup, host, hostSig, nsPID>>
childVars == <<child, childSig, status>>
history == <<told, early, killed>>
cmds == <<um, second>>

HostPc == {"mount", "stage", "started", "waiting", "reaped", "status", "fuse",
           "fusegame", "exit", "ended", "killed"}
ChildPc == {"none", "exec", "boot", "squash", "overlay", "ready", "game", "exit",
            "gone", "reaped"}

HostGone == host \in {"ended", "killed"}
ChildAlive == child \notin {"none", "gone", "reaped"}

TypeOK ==
    /\ forced \in BOOLEAN /\ sudo \in BOOLEAN /\ locked \in BOOLEAN
    /\ full \in BOOLEAN /\ killed \in BOOLEAN
    /\ host \in HostPc /\ hostSig \in {"none", "pending", "exit"}
    /\ nsPID \in BOOLEAN
    /\ child \in ChildPc /\ childSig \in BOOLEAN
    /\ dir \subseteq {"game", "pid"} /\ status \in {"none", "failed", "ready"}
    /\ games \subseteq {"ns", "fuse"}
    /\ lockers \subseteq {"host", "child", "squashfuse", "ns", "fuse"}
    /\ played \in 0..2 /\ told \in BOOLEAN /\ early \in BOOLEAN
    /\ um \in {"idle", "wait", "stopped", "giveup", "unmounted"}
    /\ second \in {"none", "locked", "in"}
    /\ nsPID /\ ~HostGone => host \in {"waiting", "reaped"}
    /\ ChildAlive /\ ~HostGone => host \in {"started", "waiting"}

Init ==
    /\ forced \in BOOLEAN /\ sudo \in BOOLEAN /\ locked \in BOOLEAN
    /\ full \in BOOLEAN /\ killed = FALSE
    /\ host = "mount" /\ hostSig = "none" /\ nsPID = FALSE
    /\ child = "none" /\ childSig = FALSE /\ dir = {} /\ status = "none"
    /\ games = {} /\ lockers = {p \in {"host"} : locked}
    /\ played = 0 /\ told = FALSE /\ early = FALSE /\ um = "idle" /\ second = "none"

-----------------------------------------------------------------------------
(* The host.                                                               *)

Host(from, to) == host = from /\ host' = to

\* os.WriteFile, whose result nobody looks at.
WriteFile(name) == dir' = dir \cup {name} \/ (full /\ UNCHANGED dir)

\* Who starts a process passes it the lock it has (cmd.ExtraFiles, lockFile).
Pass(who, to) == IF who \in lockers THEN lockers \cup {to} ELSE lockers

\* Start a game in the namespace or in the fallback.  It inherits the lock of
\* its launcher, unless sudo is in between, which closes the descriptor.
Play(who, where) ==
    /\ games' = games \cup {where}
    /\ lockers' = IF sudo THEN lockers ELSE Pass(who, where)
    /\ played' = played + 1

\* kernelOverlayUnavailable (always, for root), the dry run and the conversion
\* of the saves.
TryKernel ==
    /\ \/ ~sudo /\ Host("mount", "stage")
       \/ Host("mount", IF forced THEN "exit" ELSE "fuse")
    /\ UNCHANGED <<setup, hostSig, nsPID, childVars, dir, games, lockers, played,
                   history, cmds>>

\* Mutant: the lock is not passed on to the namespace.
StageUnlocked ==
    /\ \/ Host("stage", "started") /\ child' = "exec"
       \/ Host("stage", IF forced THEN "exit" ELSE "fuse") /\ UNCHANGED child
    /\ WriteFile("game")
    /\ UNCHANGED <<setup, hostSig, nsPID, childSig, status, games, lockers, played, history,
                   cmds>>

\* stageInNamespace up to cmd.Start; the lock is passed as descriptor 3.
StageStart ==
    /\ \/ /\ Host("stage", "started")
          /\ child' = "exec" /\ lockers' = Pass("host", "child")
       \/ /\ Host("stage", IF forced THEN "exit" ELSE "fuse")
          /\ UNCHANGED <<child, lockers>>
    /\ WriteFile("game")
    /\ UNCHANGED <<setup, hostSig, nsPID, childSig, status, games, played, history, cmds>>

StorePID ==
    /\ Host("started", "waiting")
    /\ nsPID' = TRUE
    /\ UNCHANGED <<setup, hostSig, childVars, dir, games, lockers, played, history, cmds>>

Wait ==
    /\ Host("waiting", "reaped") /\ child = "gone"
    /\ child' = "reaped"
    /\ UNCHANGED <<setup, hostSig, nsPID, childSig, status, dir, games, lockers, played,
                   history, cmds>>

ClearPID ==
    /\ Host("reaped", "status")
    /\ nsPID' = FALSE
    /\ UNCHANGED <<setup, hostSig, childVars, dir, games, lockers, played, history, cmds>>

\* Mutant: the status is not read.
StatusIgnored == IF forced THEN "exit" ELSE "fuse"

\* Only "ready" says that the game ran in the namespace.
NextAfterStatus == IF status = "ready" \/ forced THEN "exit" ELSE "fuse"

ReadStatus ==
    /\ Host("status", NextAfterStatus)
    /\ dir' = {}
    /\ UNCHANGED <<setup, hostSig, nsPID, childVars, games, lockers, played, history, cmds>>

\* tryOverlayMountGated or useCopyMode, then the game, or an error (die).
FallBack ==
    /\ \/ Host("fuse", "fusegame") /\ Play("host", "fuse")
       \/ Host("fuse", "exit") /\ UNCHANGED <<games, lockers, played>>
    /\ UNCHANGED <<setup, hostSig, nsPID, childVars, dir, history, cmds>>

FuseGameOver ==
    /\ Host("fusegame", "exit") /\ "fuse" \notin games
    /\ UNCHANGED <<setup, hostSig, nsPID, childVars, dir, games, lockers, played,
                   history, cmds>>

\* exitNow: cleanup stops a game of the fallback.
HostExit ==
    /\ ~HostGone /\ (host = "exit" \/ hostSig = "exit")
    /\ host' = "ended"
    /\ games' = games \ {"fuse"} /\ lockers' = lockers \ {"host", "fuse"}
    /\ UNCHANGED <<setup, hostSig, nsPID, childVars, dir, played, history, cmds>>

-----------------------------------------------------------------------------
(* Signals of the host.                                                    *)

Notify ==
    /\ "TERM" \in Signals /\ ~HostGone /\ hostSig = "none"
    /\ hostSig' = "pending"
    /\ UNCHANGED <<setup, host, nsPID, childVars, dir, games, lockers, played, history, cmds>>

\* SIGTERM to the child: it ends at once before its own installSignals.
Term ==
    /\ told' = TRUE
    /\ \/ child = "exec" /\ child' = "gone" /\ lockers' = lockers \ {"child"}
          /\ UNCHANGED childSig
       \/ child # "exec" /\ ChildAlive /\ childSig' = TRUE /\ UNCHANGED <<child, lockers>>
       \/ ~ChildAlive /\ UNCHANGED <<child, childSig, lockers>>

\* Mutant: the host ends on a signal although the namespace runs.
HandleSignalHere ==
    /\ ~HostGone /\ hostSig = "pending"
    /\ hostSig' = "exit"
    /\ early' = (host \in {"mount", "stage", "started"})
    /\ UNCHANGED <<setup, host, nsPID, childVars, dir, games, lockers, played, told, killed,
                   cmds>>

\* installSignals: forwarded while the namespace runs, otherwise the exit.
HandleSignal ==
    /\ ~HostGone /\ hostSig = "pending"
    /\ \/ nsPID /\ hostSig' = "none" /\ Term /\ UNCHANGED early
       \/ /\ ~nsPID /\ hostSig' = "exit"
          /\ early' = (host \in {"mount", "stage", "started"})
          /\ UNCHANGED <<child, childSig, lockers, told>>
    /\ UNCHANGED <<setup, host, nsPID, status, dir, games, played, killed, cmds>>

-----------------------------------------------------------------------------
(* The launcher in the namespace.                                          *)

Child(from, to) == child = from /\ child' = to

\* unshare may be refused; then main until installSignals.
ChildBoot ==
    /\ \/ Child("exec", "boot") /\ UNCHANGED lockers
       \/ Child("exec", "gone") /\ lockers' = lockers \ {"child"}
    /\ UNCHANGED <<hostVars, childSig, status, dir, games, played, history, cmds>>

\* useKernelOverlay writes its pid and starts squashfuse_ll, which inherits
\* descriptor 3: os.NewFile does not make it close-on-exec.
ChildSquash ==
    /\ Child("boot", "squash")
    /\ WriteFile("pid")
    /\ lockers' = Pass("child", "squashfuse")
    /\ UNCHANGED <<hostVars, childSig, status, games, played, history, cmds>>

WriteStatus(s) == status' = s \/ (full /\ UNCHANGED status)

ChildMount ==
    /\ \/ Child("squash", "overlay") /\ UNCHANGED status
       \/ child \in {"squash", "overlay"} /\ child' = "exit" /\ WriteStatus("failed")
    /\ UNCHANGED <<hostVars, childSig, dir, games, lockers, played, history, cmds>>

ChildReady ==
    /\ Child("overlay", "ready") /\ WriteStatus("ready")
    /\ UNCHANGED <<hostVars, childSig, dir, games, lockers, played, history, cmds>>

\* The rest of launchGame: any error is a die.
ChildPlay ==
    /\ \/ Child("ready", "game") /\ Play("child", "ns")
       \/ Child("ready", "exit") /\ UNCHANGED <<games, lockers, played>>
    /\ UNCHANGED <<hostVars, childSig, status, dir, history, cmds>>

ChildGameOver ==
    /\ Child("game", "exit") /\ "ns" \notin games
    /\ UNCHANGED <<hostVars, childSig, status, dir, games, lockers, played, history, cmds>>

\* exitNow, of the main thread or of the signal goroutine: cleanup stops Wine.
ChildExit ==
    /\ ChildAlive /\ (child = "exit" \/ childSig)
    /\ child' = "gone"
    /\ games' = games \ {"ns"} /\ lockers' = lockers \ {"child", "ns"}
    /\ UNCHANGED <<hostVars, childSig, status, dir, played, history, cmds>>

-----------------------------------------------------------------------------
(* --umount of the game, by another process.                               *)

\* nsLauncherPID: the game's name and the pid of a living launcher.
Listed == {"game", "pid"} \subseteq dir /\ ChildAlive

UmountFind ==
    /\ Umount /\ um = "idle"
    /\ \/ Listed /\ Term /\ um' = "wait" /\ UNCHANGED games
       \/ /\ ~Listed /\ um' = "unmounted"
          /\ games' = games \ {"fuse"}
          /\ lockers' = lockers \ {"fuse"}
          /\ UNCHANGED <<child, childSig, told>>
    /\ UNCHANGED <<hostVars, status, dir, played, early, killed, second>>

\* Mutant: --umount does not wait for the end of the launcher.
UmountAtOnce ==
    /\ um = "wait" /\ um' = "stopped"
    /\ UNCHANGED <<hostVars, childVars, dir, games, lockers, played, history, second>>

\* kill(pid, 0), thirty times; a zombie still answers.
UmountWait ==
    /\ um = "wait"
    /\ \/ child = "reaped" /\ um' = "stopped"
       \/ child # "reaped" /\ um' = "giveup"
    /\ UNCHANGED <<hostVars, childVars, dir, games, lockers, played, history, second>>

-----------------------------------------------------------------------------
(* Another launch of the game.                                             *)

\* acquireGameLock: it waits for nobody, and is over when the lock is held.
SecondLock ==
    /\ second = "none" /\ lockers = {}
    /\ second' = "locked"
    /\ UNCHANGED <<hostVars, childVars, dir, games, lockers, played, history, um>>

\* gameInUse finds a game of this prefix by its environment, or lets it in.
SecondCheck ==
    /\ second = "locked"
    /\ second' = IF games = {} THEN "in" ELSE "none"
    /\ UNCHANGED <<hostVars, childVars, dir, games, lockers, played, history, um>>

-----------------------------------------------------------------------------
(* The environment.                                                        *)

GameEnds(where) ==
    /\ where \in games
    /\ games' = games \ {where} /\ lockers' = lockers \ {where}
    /\ UNCHANGED <<hostVars, childVars, dir, played, history, cmds>>

\* Pdeathsig: squashfuse_ll dies with the child, a moment later.
SquashfuseEnds ==
    /\ "squashfuse" \in lockers /\ ~ChildAlive
    /\ lockers' = lockers \ {"squashfuse"}
    /\ UNCHANGED <<hostVars, childVars, dir, games, played, history, cmds>>

\* The child of a host that is gone is reaped by init.
InitReaps ==
    /\ HostGone /\ Child("gone", "reaped")
    /\ UNCHANGED <<hostVars, childSig, status, dir, games, lockers, played, history, cmds>>

KillHost ==
    /\ "KILL" \in Signals /\ ~HostGone
    /\ host' = "killed" /\ lockers' = lockers \ {"host"} /\ killed' = TRUE
    /\ UNCHANGED <<setup, hostSig, nsPID, childVars, dir, games, played, told, early, cmds>>

KillChild ==
    /\ "KILL" \in Signals /\ ChildAlive
    /\ child' = "gone" /\ lockers' = lockers \ {"child"} /\ killed' = TRUE
    /\ UNCHANGED <<hostVars, childSig, status, dir, games, played, told, early, cmds>>

HostMain == TryKernel \/ StageStart \/ StorePID \/ Wait \/ ClearPID \/ ReadStatus
            \/ FallBack \/ FuseGameOver \/ HostExit
ChildMain == ChildBoot \/ ChildSquash \/ ChildMount \/ ChildReady \/ ChildPlay
             \/ ChildGameOver \/ ChildExit

Over == HostGone /\ ~ChildAlive /\ games = {} /\ UNCHANGED vars

Next ==
    \/ HostMain \/ Notify \/ HandleSignal \/ ChildMain
    \/ UmountFind \/ UmountWait \/ SecondLock \/ SecondCheck \/ SquashfuseEnds \/ InitReaps
    \/ GameEnds("ns") \/ GameEnds("fuse") \/ KillHost \/ KillChild \/ Over

Spec == Init /\ [][Next]_vars

\* Both launchers and the kernel go on; nothing makes a game end.
FairSpec ==
    /\ Spec
    /\ WF_vars(HostMain) /\ WF_vars(HandleSignal) /\ WF_vars(HostExit)
    /\ WF_vars(ChildMain) /\ WF_vars(ChildExit) /\ WF_vars(InitReaps)

-----------------------------------------------------------------------------
(* Properties.                                                             *)

\* A launch plays the game at most once, in the namespace or in the fallback,
\* whichever launcher is killed and whenever, unless the status was lost on a full
\* disk: it is written before the game starts (kernel.go:128, runInKernelOverlay
\* "ne revient pas si le jeu y a été lancé").
PlayedOnce == ~full => played <= 1

\* Another launch of the game comes in only when both launchers of the first
\* are gone and its game has ended, whoever was killed or signalled and also
\* where sudo kept the lock from the game; unless the first never had the lock
\* (acquireGameLock, stageInNamespace, playGame, mountImage).
SecondLaunchAlone == locked /\ second = "in" => HostGone /\ ~ChildAlive /\ games = {}

\* The host does not end before the child it started, except when it is
\* killed or was signalled before it knew the child's pid (stageInNamespace,
\* installSignals).
HostWaitsForChild == host = "ended" /\ ~early => child \in {"none", "reaped"}

\* A --umount that says the game is stopped has stopped it, unless its
\* launcher was killed (umountGame, nsLauncherPID).
StoppedMeansStopped ==
    [][um' = "stopped" /\ um # "stopped" /\ ~killed => "ns" \notin games]_vars

\* A SIGTERM the child gets during its game ends both launchers and the game,
\* whatever the game does, unless one of them is killed or the status was lost
\* (installSignals, cleanup).
TermDuringGameEnds ==
    (childSig /\ child = "game") ~> (full \/ killed \/ (HostGone /\ games = {}))
=============================================================================

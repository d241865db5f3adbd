------------------------------ MODULE GameLocks ------------------------------
(***************************************************************************)
(* Several wsquashfs-launcher processes of one machine: launches, --mount, *)
(* --umount, --clear / --clean and --list, sharing per-game flocks         *)
(* (locks/<game>.lock), the WINEPREFIX processes seen in /proc and the     *)
(* mounts wine/<game> and mnt/<game> of the FUSE overlay.                  *)
(*                                                                         *)
(* One process runs one command at a time; a process that ends may start   *)
(* another one.  SIGKILL (Crash) may hit any process at any point: the     *)
(* kernel then drops its flocks, but neither its mounts nor the game it    *)
(* started.                                                                *)
(***************************************************************************)
EXTENDS Naturals, FiniteSets

CONSTANTS
    Proc,       \* launcher processes
    Game,       \* games, named as their lock, mounts and saves
    DirGame,    \* the games that run in place (.wine folder, no mount)
    Commands,   \* the commands processes may run
    SudoGame,   \* the games started by sudo, which closes the lock fd
    OpenFails,  \* the games whose lock file an open may fail at (rights, limits)
    Signals,    \* the signals considered: "TERM" (or INT), "KILL"
    None, Free, Orphan

AllCommands == {"run", "mount", "umount", "clear", "list"}

ASSUME GameLocksAssumption ==
    /\ DirGame \subseteq Game
    /\ OpenFails \subseteq Game
    /\ Commands \subseteq AllCommands
    /\ Signals \subseteq {"TERM", "KILL"}
    /\ None \notin Proc \cup Game
    /\ Free # Orphan /\ Free \notin Proc /\ Orphan \notin Proc

VARIABLES
    lock,    \* owner of each game's flock: a process, Free, or Orphan (the
             \* game itself, which outlived its launcher with the inherited fd)
    users,   \* processes with the game's WINEPREFIX: none, a Wine tool, the game
    mounts,  \* mount points of each game: "wine" (overlay), "mnt" (image)
    pc, role, game, mode,
    locked,  \* lockedGame: the process holds the lock of its game
    lockless, \* history: the games a launch went on with without their lock
    scan,    \* the sweep of unmountAllStale: current directory, games left
    target,  \* the game a check-then-act is about
    raced    \* history: a launch took or lost target's lock since its check,
             \* or the check could not open it

shared == <<lock, users, mounts>>
job == <<role, game, mode, locked, lockless>>
vars == <<lock, users, mounts, pc, role, game, mode, locked, lockless, scan, target, raced>>

Mounts == {"wine", "mnt"}
Launches == {"run", "mount"}

\* A launch is past its lock at these points.
QuietPc == {"snap", "scan", "probe", "unlock", "umount", "squash", "overlay",
            "copy", "prepare", "reload", "remount", "ready"}
HeldPc == QuietPc \cup {"inuse", "tool", "play", "cleanup", "cleanwine", "cleanmnt"}

\* Where a process acts on target after its check of it.
CheckPc == {"probe", "unlock", "bprobe", "bunlock"}
ActPc == {"umount", "ismount", "delete"}

Pc ==
    HeldPc \cup CheckPc \cup ActPc
        \cup {"idle", "lock", "busy", "refused", "kill", "umwine", "ummnt"}

Launching(p) == role[p] \in Launches /\ pc[p] \in HeldPc
Holder(p, g) == Launching(p) /\ game[p] = g

\* A launch (not a probe) or a surviving game has g.
HeldByLaunch(g) == lock[g] = Orphan \/ \E p \in Proc : Holder(p, g)

NoScan == [sub |-> "wine", todo |-> {}]

TypeOK ==
    /\ lock \in [Game -> Proc \cup {Free, Orphan}]
    /\ users \in [Game -> {"none", "tool", "game"}]
    /\ mounts \in [Game -> SUBSET Mounts]
    /\ pc \in [Proc -> Pc]
    /\ role \in [Proc -> AllCommands \cup {None}]
    /\ game \in [Proc -> Game \cup {None}]
    /\ mode \in [Proc -> {"none", "dir", "copy", "overlay"}]
    /\ locked \in [Proc -> BOOLEAN] /\ lockless \subseteq OpenFails
    /\ scan \in [Proc -> [sub : Mounts, todo : SUBSET Game]]
    /\ target \in [Proc -> Game \cup {None}]
    /\ raced \in [Proc -> BOOLEAN]
    /\ \A p \in Proc : pc[p] # "idle" => game[p] \in Game /\ role[p] \in AllCommands
    /\ \A p \in Proc : pc[p] \in CheckPc \cup ActPc => target[p] \in Game

Init ==
    /\ lock = [g \in Game |-> Free]
    /\ users = [g \in Game |-> "none"]
    /\ mounts = [g \in Game |-> {}]
    /\ pc = [p \in Proc |-> "idle"]
    /\ role = [p \in Proc |-> None]
    /\ game = [p \in Proc |-> None]
    /\ mode = [p \in Proc |-> "none"]
    /\ locked = [p \in Proc |-> FALSE]
    /\ lockless = {}
    /\ scan = [p \in Proc |-> NoScan]
    /\ target = [p \in Proc |-> None]
    /\ raced = [p \in Proc |-> FALSE]

-----------------------------------------------------------------------------
(* What the kernel does when a process ends.                               *)

\* The game holds the inherited fd 3 of the launcher (playGame, ExtraFiles).
GameKeepsLock(g, p) ==
    locked[p] /\ Holder(p, g) /\ users[g] = "game" /\ g \notin SudoGame

LocksWithout(p) ==
    [g \in Game |-> IF lock[g] # p THEN lock[g]
                    ELSE IF GameKeepsLock(g, p) THEN Orphan ELSE Free]

\* History: taking or dropping the lock of g spoils the checks of g under way.
Spoil(g) ==
    raced' = [q \in Proc |-> raced[q] \/ (target[q] = g /\ pc[q] \in CheckPc \cup ActPc)]

\* p ends: its variables return to their initial values.
Reset(p) ==
    /\ pc' = [pc EXCEPT ![p] = "idle"]
    /\ role' = [role EXCEPT ![p] = None]
    /\ game' = [game EXCEPT ![p] = None]
    /\ mode' = [mode EXCEPT ![p] = "none"]
    /\ locked' = [locked EXCEPT ![p] = FALSE]
    /\ scan' = [scan EXCEPT ![p] = NoScan]
    /\ target' = [target EXCEPT ![p] = None]
    /\ UNCHANGED lockless

\* End of a launch: os.Exit closes the lock file.
Exit(p) == lock' = LocksWithout(p) /\ Spoil(game[p]) /\ Reset(p)

\* End of a command that holds nothing.
Leave(p) == Reset(p) /\ UNCHANGED <<lock, raced>>

Goto(p, l) == pc' = [pc EXCEPT ![p] = l]

\* p goes on at l; its locks, role and targets stay.
Step(p, l) == Goto(p, l) /\ UNCHANGED <<lock, job, scan, target, raced>>

\* A mount is busy while a process works below it; the image mount while the
\* overlay uses it as its lower layer.
Busy(g, m) ==
    \/ m = "wine" /\ users[g] # "none"
    \/ m = "wine" /\ \E p \in Proc : Holder(p, g) /\ pc[p] = "play"
    \/ m = "mnt" /\ "wine" \in mounts[g]

\* fuseUmount fails on a busy mount; umountRetry ends with a lazy unmount.
FuseUmount(g, m) ==
    mounts' = IF Busy(g, m) THEN mounts ELSE [mounts EXCEPT ![g] = @ \ {m}]
UmountRetry(g, m) == mounts' = [mounts EXCEPT ![g] = @ \ {m}]

-----------------------------------------------------------------------------
(* Checks of the lock and of the processes of a game.                      *)

\* Mutants: only the game counts as use, not its tools; the lock alone counts.
InUseByGameOnly(g) == users[g] = "game"
PrefixNeverInUse(g) == FALSE

\* gameInUse looks for WINEPREFIX below the cache directory: it never sees an
\* installed folder, whose own launch checks the folder itself.
InUse(g) == users[g] # "none" /\ g \notin DirGame
PrefixInUse(g) == users[g] # "none"

\* Mutant: a launch takes its own lock for another launch.
OwnForgotten(p, g) == FALSE

\* p's own launch: gameLocked answers no for lockedGame.
Own(p, g) == locked[p] /\ game[p] = g

\* gameLocked(g) probes the flock by taking it: yes -> the check ends at
\* "busyPc", no -> the flock is dropped at "unlockPc" or was never needed.  A
\* lock file that cannot be opened says no without a look.
ProbeLock(p, from, busyPc, unlockPc, freePc) ==
    /\ pc[p] = from
    /\ \/ Own(p, target[p]) /\ Step(p, freePc)
       \/ ~Own(p, target[p]) /\ lock[target[p]] # Free /\ Step(p, busyPc)
       \/ /\ ~Own(p, target[p]) /\ lock[target[p]] = Free
          /\ lock' = [lock EXCEPT ![target[p]] = p]
          /\ Goto(p, unlockPc)
          /\ UNCHANGED <<job, scan, target, raced>>
       \/ /\ ~Own(p, target[p]) /\ target[p] \in OpenFails
          /\ raced' = [raced EXCEPT ![p] = TRUE]
          /\ Goto(p, freePc)
          /\ UNCHANGED <<lock, job, scan, target>>
    /\ UNCHANGED <<users, mounts>>

ProbeUnlock(p, from, freePc) ==
    /\ pc[p] = from
    /\ lock' = [lock EXCEPT ![target[p]] = Free]
    /\ Goto(p, freePc)
    /\ UNCHANGED <<users, mounts, job, scan, target, raced>>

\* Mutant: the game being checked is not remembered.
AimForgotten(p, g) ==
    /\ raced' = [raced EXCEPT ![p] = FALSE]
    /\ UNCHANGED target

\* The check of g starts: what is read from now on may be spoilt.
Aim(p, g) ==
    /\ target' = [target EXCEPT ![p] = g]
    /\ raced' = [raced EXCEPT ![p] = FALSE]

-----------------------------------------------------------------------------
(* Launch: lock, check, sweep of the abandoned mounts, mount, game.        *)

Start(p) ==
    /\ pc[p] = "idle"
    /\ \E c \in Commands, g \in Game :
        /\ role' = [role EXCEPT ![p] = c]
        /\ game' = [game EXCEPT ![p] = g]
        /\ \/ c \in Launches /\ Goto(p, "lock")
           \/ c = "clear" /\ Goto(p, "snap")
           \/ c = "list" /\ Goto(p, "busy")
           \/ c = "umount" /\ Goto(p, "kill")
    /\ UNCHANGED <<shared, mode, locked, lockless, scan, target, raced>>

\* Mutant: the result of flock is ignored.
LockIgnored(p) == FALSE

\* acquireGameLock: LOCK_NB, a lock that is held ends the launch (die); when
\* the lock file cannot be opened the launch goes on without a lock.
LockTaken(p) == lock[game[p]] # Free

AcquireGameLock(p) ==
    /\ pc[p] = "lock"
    /\ \/ LockTaken(p) /\ Leave(p)
       \/ /\ ~LockTaken(p)
          /\ lock' = [lock EXCEPT ![game[p]] = p]
          /\ locked' = [locked EXCEPT ![p] = TRUE]
          /\ Goto(p, "inuse")
          /\ Spoil(game[p])
          /\ UNCHANGED <<role, game, mode, lockless, scan, target>>
       \/ /\ game[p] \in OpenFails
          /\ lockless' = lockless \cup {game[p]}
          /\ Goto(p, "inuse")
          /\ UNCHANGED <<lock, role, game, mode, locked, scan, target, raced>>
    /\ UNCHANGED <<users, mounts>>

\* mountImage / useInstalledDir: a process of the prefix ends the launch (die).
CheckInUse(p) ==
    /\ pc[p] = "inuse"
    /\ \/ PrefixInUse(game[p]) /\ Exit(p)
       \/ ~PrefixInUse(game[p]) /\ Step(p, "snap")
    /\ UNCHANGED <<users, mounts>>

\* unmountAllStale reads the mount table once per directory.
Snapshot(p) ==
    /\ pc[p] = "snap"
    /\ scan' = [scan EXCEPT ![p].todo = {g \in Game : scan[p].sub \in mounts[g]}]
    /\ Goto(p, "scan")
    /\ UNCHANGED <<shared, job, target, raced>>

\* gameRunning, first half: a mount whose game has processes is skipped.
ScanInUse(p) ==
    /\ pc[p] = "scan"
    /\ \E g \in scan[p].todo :
        /\ scan' = [scan EXCEPT ![p].todo = @ \ {g}]
        /\ \/ InUse(g) /\ UNCHANGED <<pc, target, raced>>
           \/ ~InUse(g) /\ Goto(p, "probe") /\ Aim(p, g)
    /\ UNCHANGED <<shared, job>>

ScanProbe(p) ==
    \/ ProbeLock(p, "probe", "scan", "unlock", "umount")
    \/ ProbeUnlock(p, "unlock", "umount")

ScanUmount(p) ==
    /\ pc[p] = "umount"
    /\ FuseUmount(target[p], scan[p].sub)
    /\ Step(p, "scan")
    /\ UNCHANGED users

NextDirectory(p) ==
    /\ pc[p] = "scan" /\ scan[p].todo = {} /\ scan[p].sub = "wine"
    /\ scan' = [scan EXCEPT ![p].sub = "mnt"]
    /\ Goto(p, "snap")
    /\ UNCHANGED <<shared, job, target, raced>>

SetMode(p, m) == mode' = [mode EXCEPT ![p] = m]
Continue(p, m, l) ==
    /\ SetMode(p, m) /\ Goto(p, l)
    /\ UNCHANGED <<lock, role, game, locked, lockless, scan, target, raced>>

\* A launch goes on to its mount, --clear to its own check of the game.
EndSweep(p) ==
    /\ pc[p] = "scan" /\ scan[p].todo = {} /\ scan[p].sub = "mnt"
    /\ \/ role[p] = "clear" /\ Step(p, "busy")
       \/ role[p] # "clear" /\ game[p] \in DirGame /\ Continue(p, "dir", "prepare")
       \/ role[p] # "clear" /\ game[p] \notin DirGame /\ Step(p, "squash")
    /\ UNCHANGED <<users, mounts>>

\* tryOverlayMount, image layer; when squashfuse fails the launch copies.
MountSquash(p) ==
    /\ pc[p] = "squash"
    /\ \/ mounts' = [mounts EXCEPT ![game[p]] = @ \cup {"mnt"}] /\ Step(p, "overlay")
       \/ Step(p, "copy") /\ UNCHANGED mounts
    /\ UNCHANGED users

\* tryOverlayMount, saves layer; when it fails the image is unmounted again.
MountOverlay(p) ==
    /\ pc[p] = "overlay"
    /\ \/ /\ mounts' = [mounts EXCEPT ![game[p]] = @ \cup {"wine"}]
          /\ Continue(p, "overlay", "prepare")
       \/ FuseUmount(game[p], "mnt") /\ Step(p, "copy")
    /\ UNCHANGED users

\* useCopyMode; removeCopy never goes through an overlay left mounted (die).
UseCopyMode(p) ==
    /\ pc[p] = "copy"
    /\ FuseUmount(game[p], "wine")
    /\ \/ "wine" \in mounts'[game[p]] /\ Exit(p)
       \/ "wine" \notin mounts'[game[p]] /\ Continue(p, "copy", "prepare")
    /\ UNCHANGED users

\* --mount leaves the game mounted and unlocked.
ReportMount(p) ==
    /\ pc[p] = "prepare" /\ role[p] = "mount"
    /\ Exit(p)
    /\ UNCHANGED <<users, mounts>>

SetUsers(g, u) == users' = [users EXCEPT ![g] = u]

\* preparePrefix runs Wine tools in the prefix, one after the other.
StartTool(p) ==
    /\ pc[p] = "prepare" /\ role[p] = "run"
    /\ SetUsers(game[p], "tool")
    /\ Step(p, "tool")
    /\ UNCHANGED mounts

\* installPrefixDlls: the FUSE overlay is unmounted and mounted again.
AfterTool(p) ==
    /\ pc[p] = "tool" /\ users[game[p]] = "none"
    /\ Step(p, IF mode[p] = "overlay" THEN "reload" ELSE "ready")
    /\ UNCHANGED <<users, mounts>>

ReloadUmount(p) ==
    /\ pc[p] = "reload"
    /\ FuseUmount(game[p], "wine")
    /\ Step(p, "remount")
    /\ UNCHANGED users

ReloadMount(p) ==
    /\ pc[p] = "remount"
    /\ \/ mounts' = [mounts EXCEPT ![game[p]] = @ \cup {"wine"}] /\ Step(p, "ready")
       \/ Step(p, "cleanup") /\ UNCHANGED mounts
    /\ UNCHANGED users

PlayGame(p) ==
    /\ pc[p] = "ready"
    /\ SetUsers(game[p], "game")
    /\ Step(p, "play")
    /\ UNCHANGED mounts

\* runGame: every process of the prefix has ended (wineserver -w).
AfterGame(p) ==
    /\ pc[p] = "play" /\ users[game[p]] = "none"
    /\ Step(p, "cleanup")
    /\ UNCHANGED <<users, mounts>>

\* SIGINT / SIGTERM; signalGate delays it during tryOverlayMount.
Signal(p) ==
    /\ "TERM" \in Signals
    /\ Launching(p) /\ pc[p] \notin {"overlay", "cleanup", "cleanwine", "cleanmnt"}
    /\ Step(p, "cleanup")
    /\ UNCHANGED <<users, mounts>>

\* cleanup: Wine is stopped if mounted is set (never for an installed folder),
\* then an overlay is unmounted.
CleanupWine(p) ==
    /\ pc[p] = "cleanup"
    /\ \/ mode[p] \in {"overlay", "copy"} /\ SetUsers(game[p], "none")
       \/ mode[p] \in {"none", "dir"} /\ UNCHANGED users
    /\ Step(p, "cleanwine")
    /\ UNCHANGED mounts

CleanupOverlay(p) ==
    /\ pc[p] = "cleanwine"
    /\ IF mode[p] = "overlay" THEN UmountRetry(game[p], "wine") ELSE UNCHANGED mounts
    /\ Step(p, "cleanmnt")
    /\ UNCHANGED users

CleanupSquash(p) ==
    /\ pc[p] = "cleanmnt"
    /\ IF mode[p] = "overlay" THEN UmountRetry(game[p], "mnt") ELSE UNCHANGED mounts
    /\ Exit(p)
    /\ UNCHANGED users

-----------------------------------------------------------------------------
(* --umount, --clear and --list hold no lock.                              *)

\* umountGame: wineserver -k, then both mounts, whoever uses them; an
\* installed folder has no prefix in the cache.
UmountKill(p) ==
    /\ pc[p] = "kill"
    /\ \/ game[p] \in DirGame /\ Leave(p) /\ UNCHANGED users
       \/ /\ game[p] \notin DirGame
          /\ SetUsers(game[p], "none")
          /\ lock' = [lock EXCEPT ![game[p]] = IF @ = Orphan THEN Free ELSE @]
          /\ Goto(p, "umwine")
          /\ UNCHANGED <<job, scan, target, raced>>
    /\ UNCHANGED mounts

UmountWine(p) ==
    /\ pc[p] = "umwine"
    /\ UmountRetry(game[p], "wine")
    /\ Step(p, "ummnt")
    /\ UNCHANGED users

UmountMnt(p) ==
    /\ pc[p] = "ummnt"
    /\ UmountRetry(game[p], "mnt")
    /\ Leave(p)
    /\ UNCHANGED users

\* savesBusy (--clear, --clean) and gameState (--list) start as gameRunning.
BusyInUse(p) ==
    /\ pc[p] = "busy"
    /\ \/ InUse(game[p]) /\ Leave(p)
       \/ ~InUse(game[p]) /\ Goto(p, "bprobe") /\ Aim(p, game[p])
                          /\ UNCHANGED <<lock, job, scan>>
    /\ UNCHANGED <<users, mounts>>

BusyProbe(p) ==
    \/ ProbeLock(p, "bprobe", "refused", "bunlock", "ismount")
    \/ ProbeUnlock(p, "bunlock", "ismount")

IsMount(p) ==
    /\ pc[p] = "ismount"
    /\ \/ (role[p] = "list" \/ "wine" \in mounts[game[p]]) /\ Leave(p)
       \/ role[p] = "clear" /\ "wine" \notin mounts[game[p]] /\ Step(p, "delete")
    /\ UNCHANGED <<users, mounts>>

\* The check said no (game busy), or the deletion of the saves is over.
Done(p) ==
    /\ pc[p] \in {"refused", "delete"}
    /\ Leave(p)
    /\ UNCHANGED <<users, mounts>>

-----------------------------------------------------------------------------
(* The environment.                                                        *)

\* Tools and games end by themselves; a surviving game then frees its lock.
UsersEnd(g) ==
    /\ users[g] # "none"
    /\ SetUsers(g, "none")
    /\ lock' = [lock EXCEPT ![g] = IF @ = Orphan THEN Free ELSE @]
    /\ UNCHANGED <<mounts, pc, job, scan, target, raced>>

\* SIGKILL: no cleanup; the mounts and the processes of the prefix stay.
Crash(p) ==
    /\ "KILL" \in Signals /\ pc[p] # "idle"
    /\ lock' = LocksWithout(p)
    /\ IF Launching(p) THEN Spoil(game[p]) ELSE UNCHANGED raced
    /\ Reset(p)
    /\ UNCHANGED <<users, mounts>>

Launch(p) ==
    \/ AcquireGameLock(p) \/ CheckInUse(p) \/ MountSquash(p) \/ MountOverlay(p)
    \/ UseCopyMode(p) \/ ReportMount(p) \/ StartTool(p) \/ AfterTool(p)
    \/ ReloadUmount(p) \/ ReloadMount(p) \/ PlayGame(p) \/ AfterGame(p)

Sweep(p) == Snapshot(p) \/ ScanInUse(p) \/ ScanProbe(p) \/ ScanUmount(p)
            \/ NextDirectory(p) \/ EndSweep(p)

Cleanup(p) == CleanupWine(p) \/ CleanupOverlay(p) \/ CleanupSquash(p)

Maintenance(p) == UmountKill(p) \/ UmountWine(p) \/ UmountMnt(p) \/ BusyInUse(p)
                  \/ BusyProbe(p) \/ IsMount(p) \/ Done(p)

Next ==
    \/ \E p \in Proc : Start(p) \/ Launch(p) \/ Sweep(p) \/ Cleanup(p)
                       \/ Maintenance(p) \/ Signal(p) \/ Crash(p)
    \/ \E g \in Game : UsersEnd(g)

Spec == Init /\ [][Next]_vars

-----------------------------------------------------------------------------
(* Properties.                                                             *)

\* Two launches of a game are past its lock only when one of them could not open
\* the lock file: a lock that was had is exclusive and never left behind, whatever
\* crashed before (acquireGameLock).
OneLaunchPerGame ==
    \A p, q \in Proc :
        Launching(p) /\ Launching(q) /\ game[p] = game[q] /\ locked[p] /\ locked[q] => p = q

\* From the check of prefixInUse to the first process it starts itself, a
\* launch finds nobody in its prefix: no game a killed launcher left behind is
\* ever joined by a second one, even when sudo dropped the lock; a game that was
\* once launched without its lock is excepted (mountImage, useInstalledDir).
PrefixStaysQuiet ==
    \A p \in Proc : Launching(p) /\ pc[p] \in QuietPc /\ game[p] \notin lockless
                      => users[game[p]] = "none"

\* The launch that is past both checks of g and has not begun to end.
Granted(p, g) ==
    g \notin lockless /\ Holder(p, g) /\ pc[p] \in QuietPc \cup {"tool", "play"}
GrantedTo(g) == IF \E p \in Proc : Granted(p, g)
                THEN CHOOSE p \in Proc : Granted(p, g) ELSE None

Exclusion == INSTANCE OneGamePerPrefix
    WITH owner <- [g \in Game |-> GrantedTo(g)],
         active <- [g \in Game |-> g \notin lockless /\ users[g] # "none"],
         lost <- lockless

\* Locks and checks implement the promise of OneGamePerPrefix: no interleaving
\* of launches, maintenance and SIGKILL grants a prefix twice, or one in which
\* processes still run, as long as no launch of the game went on without its
\* lock (acquireGameLock, mountImage, playGame).
GrantsExclude == Exclusion!Spec

\* A check of another game (gameRunning, savesBusy) still holds when it is
\* acted upon, unless a launch took or dropped that game's lock meanwhile, or its
\* lock file could not be opened: by the check, or by a launch of the game.
ChecksHoldUnlessRaced ==
    \A p \in Proc :
        pc[p] \in ActPc /\ ~Own(p, target[p]) /\ ~raced[p] /\ target[p] \notin lockless
          => /\ ~HeldByLaunch(target[p])
             /\ target[p] \notin DirGame => users[target[p]] = "none"

\* Nothing but p itself keeps a mount of g.
Abandoned(p, g) ==
    /\ mounts[g] # {} /\ users[g] = "none" /\ lock[g] # Orphan
    /\ \A q \in Proc \ {p} : ~Holder(q, g)

\* A mount nobody uses when a launch starts its sweep is unmounted, the
\* launch's own game included, although two sweeps may probe the same lock and
\* each take the other for a launch (unmountAllStale, gameLocked).  Stated for
\* OpenFails = {}: a launch without its lock may take the other's probe of its own
\* game for a launch, and leaves the mount.
AbandonedIsUnmounted ==
    \A p \in Proc, g \in Game :
        (pc[p] = "snap" /\ scan[p].sub = "wine" /\ Abandoned(p, g)) ~> ~Abandoned(p, g)

\* The sweep is scheduled like any code of a running process; games, tools,
\* users and signals are not.
FairSpec == Spec /\ \A p \in Proc : WF_vars(Sweep(p))
=============================================================================

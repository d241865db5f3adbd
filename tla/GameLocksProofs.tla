--------------------------- MODULE GameLocksProofs ---------------------------
(***************************************************************************)
(* Theorems about GameLocks, for any number of processes and games: the     *)
(* flock excludes (LockInv), a prefix stays quiet, checks hold until they   *)
(* are acted upon (ChecksFit), and the steps refine OneGamePerPrefix.       *)
(***************************************************************************)
EXTENDS GameLocks, TLAPS

\* The points of the code only launches, and only other commands, can be at.
LaunchPc == {"lock", "inuse", "squash", "overlay", "copy", "prepare", "reload",
             "remount", "ready", "tool", "play", "cleanup", "cleanwine", "cleanmnt"}
OtherPc == {"busy", "refused", "kill", "umwine", "ummnt", "bprobe", "bunlock",
            "ismount", "delete"}

SweepPc == {"snap", "scan", "probe", "unlock", "umount"}

RolesFit ==
    \A p \in Proc :
        /\ pc[p] \in LaunchPc => role[p] \in Launches
        /\ pc[p] \in OtherPc => role[p] \notin Launches
        /\ pc[p] \in SweepPc => role[p] \in Launches \cup {"clear"}

\* A launch holds its lock, or its game is known for a lock that could not be
\* opened; a probe owns the flock it is about to release.
LocksFit ==
    /\ \A p \in Proc : Launching(p) => IF locked[p] THEN lock[game[p]] = p
                                       ELSE game[p] \in lockless
    /\ \A p \in Proc : ~Launching(p) => ~locked[p]
    /\ \A p \in Proc : pc[p] \in {"unlock", "bunlock"} =>
            lock[target[p]] = p /\ ~Own(p, target[p])

LockInv == TypeOK /\ RolesFit /\ LocksFit

\* The types of the variables an action may change besides pc and lock.
TypesKept ==
    /\ users' \in [Game -> {"none", "tool", "game"}]
    /\ mounts' \in [Game -> SUBSET Mounts]
    /\ mode' \in [Proc -> {"none", "dir", "copy", "overlay"}]
    /\ locked' \in [Proc -> BOOLEAN] /\ lockless' \subseteq OpenFails
    /\ lockless \subseteq lockless'
    /\ scan' \in [Proc -> [sub : Mounts, todo : SUBSET Game]]
    /\ raced' \in [Proc -> BOOLEAN]

-----------------------------------------------------------------------------

\* Nothing runs and nothing is held at first.
LEMMA InitLockInv == Init => LockInv
  BY DEF Init, LockInv, TypeOK, RolesFit, LocksFit, Launching, NoScan, Mounts, Pc, HeldPc,
             QuietPc, CheckPc, ActPc, LaunchPc, OtherPc, SweepPc

\* Typing of a step of p from one point to another.
LEMMA GotoType ==
  ASSUME TypeOK, NEW p \in Proc, NEW l \in Pc, pc[p] # "idle", Goto(p, l),
         lock' \in [Game -> Proc \cup {Free, Orphan}], UNCHANGED <<role, game>>, TypesKept,
         NEW t \in Game \cup {None}, target' = target \/ target' = [target EXCEPT ![p] = t],
         l \in CheckPc \cup ActPc => target'[p] \in Game
  PROVE  TypeOK'
  <1>1. pc' \in [Proc -> Pc] /\ target' \in [Proc -> Game \cup {None}]
    BY DEF TypeOK, Goto
  <1>2. role' \in [Proc -> AllCommands \cup {None}] /\ game' \in [Proc -> Game \cup {None}]
    BY DEF TypeOK
  <1>3. \A q \in Proc : pc'[q] # "idle" => game'[q] \in Game /\ role'[q] \in AllCommands
    BY DEF TypeOK, Goto
  <1>4. \A q \in Proc : pc'[q] \in CheckPc \cup ActPc => target'[q] \in Game
    BY DEF TypeOK, Goto
  <1> QED BY <1>1, <1>2, <1>3, <1>4 DEF TypeOK, TypesKept

\* p moves to l, which fits its role, without touching a lock.
LEMMA MoveInv ==
  ASSUME LockInv, NEW p \in Proc, NEW l \in Pc \ {"unlock", "bunlock"},
         pc[p] # "idle", Goto(p, l), UNCHANGED <<lock, role, game, locked, target>>, TypesKept,
         l \in LaunchPc => role[p] \in Launches,
         l \in OtherPc => role[p] \notin Launches,
         l \in SweepPc => role[p] \in Launches \cup {"clear"},
         l \in CheckPc \cup ActPc => target[p] \in Game,
         role[p] \in Launches => (l \in HeldPc <=> pc[p] \in HeldPc)
  PROVE  LockInv'
  <1>1. TypeOK'
    BY DEF LockInv, TypeOK, Goto, TypesKept
  <1>2. RolesFit'
    BY DEF LockInv, RolesFit, Goto
  <1>3. LocksFit'
    BY DEF LockInv, LocksFit, Launching, Own, Goto, TypesKept
  <1> QED BY <1>1, <1>2, <1>3 DEF LockInv

\* p ends, releasing the locks it owns or leaving every lock alone.
LEMMA ResetInv ==
  ASSUME LockInv, NEW p \in Proc, Reset(p), TypesKept,
         lock' = lock \/ lock' = LocksWithout(p)
  PROVE  LockInv'
  <1> USE GameLocksAssumption
  <1>1. TypeOK'
    BY DEF LockInv, TypeOK, Reset, TypesKept, LocksWithout, Pc, CheckPc, ActPc
  <1>2. RolesFit'
    BY DEF LockInv, TypeOK, RolesFit, Reset, LaunchPc, OtherPc, SweepPc
  <1>3. ASSUME NEW q \in Proc, q # p, NEW g \in Game, lock[g] = q
        PROVE  lock'[g] = q
    BY <1>3 DEF LocksWithout
  <1>4. LocksFit'
    BY <1>3 DEF LockInv, TypeOK, LocksFit, Launching, Own, Reset, HeldPc, QuietPc, CheckPc
  <1> QED BY <1>1, <1>2, <1>4 DEF LockInv

\* Typing of the pieces actions are made of.
LEMMA PieceTypes ==
  ASSUME TypeOK, NEW p \in Proc, NEW g \in Game
  PROVE  /\ UNCHANGED users => users' \in [Game -> {"none", "tool", "game"}]
         /\ \A u \in {"none", "tool", "game"} :
                SetUsers(g, u) => users' \in [Game -> {"none", "tool", "game"}]
         /\ UNCHANGED mounts => mounts' \in [Game -> SUBSET Mounts]
         /\ \A m \in Mounts : UmountRetry(g, m) => mounts' \in [Game -> SUBSET Mounts]
         /\ \A m \in Mounts : FuseUmount(g, m) => mounts' \in [Game -> SUBSET Mounts]
         /\ \A m \in Mounts : mounts' = [mounts EXCEPT ![g] = @ \cup {m}]
                                => mounts' \in [Game -> SUBSET Mounts]
         /\ Spoil(g) \/ UNCHANGED raced => raced' \in [Proc -> BOOLEAN]
         /\ Reset(p) \/ UNCHANGED <<mode, scan>> =>
                /\ mode' \in [Proc -> {"none", "dir", "copy", "overlay"}]
                /\ scan' \in [Proc -> [sub : Mounts, todo : SUBSET Game]]
         /\ Reset(p) \/ UNCHANGED <<locked, lockless>> =>
                /\ locked' \in [Proc -> BOOLEAN] /\ lockless' \subseteq OpenFails
                /\ lockless \subseteq lockless'
  <1>1. UNCHANGED users => users' \in [Game -> {"none", "tool", "game"}]
    BY DEF TypeOK
  <1>2. \A u \in {"none", "tool", "game"} :
            SetUsers(g, u) => users' \in [Game -> {"none", "tool", "game"}]
    BY DEF TypeOK, SetUsers
  <1>3. UNCHANGED mounts => mounts' \in [Game -> SUBSET Mounts]
    BY DEF TypeOK
  <1>4. \A m \in Mounts : UmountRetry(g, m) => mounts' \in [Game -> SUBSET Mounts]
    BY DEF TypeOK, UmountRetry
  <1>5. \A m \in Mounts : FuseUmount(g, m) => mounts' \in [Game -> SUBSET Mounts]
    <2> SUFFICES ASSUME NEW m \in Mounts, FuseUmount(g, m)
                 PROVE  mounts' \in [Game -> SUBSET Mounts]
      OBVIOUS
    <2>1. mounts' = mounts \/ mounts' = [mounts EXCEPT ![g] = @ \ {m}]
      BY DEF FuseUmount
    <2> QED BY <2>1 DEF TypeOK
  <1>6. \A m \in Mounts : mounts' = [mounts EXCEPT ![g] = @ \cup {m}]
                            => mounts' \in [Game -> SUBSET Mounts]
    BY DEF TypeOK
  <1>7. Spoil(g) \/ UNCHANGED raced => raced' \in [Proc -> BOOLEAN]
    BY DEF TypeOK, Spoil
  <1>8. ASSUME Reset(p) \/ UNCHANGED <<mode, scan>>
        PROVE  /\ mode' \in [Proc -> {"none", "dir", "copy", "overlay"}]
               /\ scan' \in [Proc -> [sub : Mounts, todo : SUBSET Game]]
    <2>1. mode' \in [Proc -> {"none", "dir", "copy", "overlay"}]
      BY <1>8 DEF TypeOK, Reset
    <2>2. NoScan \in [sub : Mounts, todo : SUBSET Game]
      BY DEF NoScan, Mounts
    <2>3. scan' \in [Proc -> [sub : Mounts, todo : SUBSET Game]]
      BY <1>8, <2>2 DEF TypeOK, Reset
    <2> QED BY <2>1, <2>3
  <1>9. ASSUME Reset(p) \/ UNCHANGED <<locked, lockless>>
        PROVE  /\ locked' \in [Proc -> BOOLEAN] /\ lockless' \subseteq OpenFails
               /\ lockless \subseteq lockless'
    BY <1>9 DEF TypeOK, Reset
  <1> QED BY <1>1, <1>2, <1>3, <1>4, <1>5, <1>6, <1>7, <1>8, <1>9

\* gameLocked takes a free flock and gives it back.
LEMMA ProbeLockInv ==
  ASSUME LockInv, NEW p \in Proc,
         \/ ProbeLock(p, "probe", "scan", "unlock", "umount")
         \/ ProbeLock(p, "bprobe", "refused", "bunlock", "ismount")
  PROVE  LockInv'
  <1> USE GameLocksAssumption
      DEF Pc, HeldPc, QuietPc, CheckPc, ActPc, LaunchPc, OtherPc, SweepPc, Launches
  <1>1. target[p] \in Game /\ game[p] \in Game /\ pc[p] \in {"probe", "bprobe"}
    BY DEF ProbeLock, LockInv, TypeOK
  <1>2. TypeOK'
    <2>1. TypesKept
      BY <1>1 DEF ProbeLock, Step, TypesKept, LockInv, TypeOK, job
    <2>2. lock' \in [Game -> Proc \cup {Free, Orphan}]
      BY <1>1 DEF ProbeLock, Step, LockInv, TypeOK
    <2>3. PICK l \in {"scan", "unlock", "umount", "refused", "bunlock", "ismount"} : Goto(p, l)
      BY <1>1 DEF ProbeLock, Step
    <2>4. UNCHANGED <<role, game, target>>
      BY <1>1 DEF ProbeLock, Step, job
    <2> QED BY <1>1, <2>1, <2>2, <2>3, <2>4, GotoType DEF LockInv
  <1>3. RolesFit'
    <2>1. PICK l \in {"scan", "unlock", "umount", "refused", "bunlock", "ismount"} :
            /\ Goto(p, l)
            /\ pc[p] = "probe" <=> l \in {"scan", "unlock", "umount"}
      BY <1>1 DEF ProbeLock, Step
    <2>2. role' = role
      BY DEF ProbeLock, Step, job
    <2>3. pc \in [Proc -> Pc] /\ RolesFit
      BY DEF LockInv, TypeOK
    <2> QED BY <1>1, <2>1, <2>2, <2>3 DEF Goto, RolesFit
  <1>4. LocksFit'
    BY <1>1 DEF ProbeLock, Step, Goto, LockInv, TypeOK, RolesFit, LocksFit, Launching, Own, job
  <1> QED BY <1>2, <1>3, <1>4 DEF LockInv

\* The probe that found the flock free gives it back.
LEMMA ProbeUnlockInv ==
  ASSUME LockInv, NEW p \in Proc,
         ProbeUnlock(p, "unlock", "umount") \/ ProbeUnlock(p, "bunlock", "ismount")
  PROVE  LockInv'
  <1> USE GameLocksAssumption
      DEF Pc, HeldPc, QuietPc, CheckPc, ActPc, LaunchPc, OtherPc, SweepPc, Launches
  <1>1. target[p] \in Game /\ game[p] \in Game /\ pc[p] \in {"unlock", "bunlock"}
    BY DEF ProbeUnlock, LockInv, TypeOK
  <1>2. TypeOK'
    <2>1. TypesKept
      BY <1>1 DEF ProbeUnlock, TypesKept, LockInv, TypeOK, job
    <2>2. lock' \in [Game -> Proc \cup {Free, Orphan}]
      BY <1>1 DEF ProbeUnlock, LockInv, TypeOK
    <2>3. PICK l \in {"umount", "ismount"} : Goto(p, l)
      BY <1>1 DEF ProbeUnlock
    <2>4. UNCHANGED <<role, game, target>>
      BY <1>1 DEF ProbeUnlock, job
    <2> QED BY <1>1, <2>1, <2>2, <2>3, <2>4, GotoType DEF LockInv
  <1>3. RolesFit'
    <2>1. \/ pc[p] = "unlock" /\ Goto(p, "umount")
          \/ pc[p] = "bunlock" /\ Goto(p, "ismount")
      BY DEF ProbeUnlock
    <2>2. role' = role
      BY DEF ProbeUnlock, job
    <2>3. pc \in [Proc -> Pc] /\ RolesFit
      BY DEF LockInv, TypeOK
    <2> QED BY <2>1, <2>2, <2>3 DEF Goto, RolesFit
  <1>4. LocksFit'
    BY <1>1 DEF ProbeUnlock, Goto, LockInv, TypeOK, RolesFit, LocksFit, Launching, Own, job
  <1> QED BY <1>2, <1>3, <1>4 DEF LockInv

\* One step of the code or of its environment keeps LockInv.
LEMMA NextLockInv == LockInv /\ [Next]_vars => LockInv'
  <1> SUFFICES ASSUME LockInv, [Next]_vars PROVE LockInv'
    OBVIOUS
  <1> USE GameLocksAssumption
      DEF Pc, HeldPc, QuietPc, CheckPc, ActPc, LaunchPc, OtherPc, SweepPc, Launches
  <1>p. ASSUME NEW p \in Proc, pc[p] # "idle"
        PROVE  game[p] \in Game /\ (pc[p] \in CheckPc \cup ActPc => target[p] \in Game)
    BY <1>p DEF LockInv, TypeOK
  <1>1. ASSUME NEW p \in Proc, Start(p) PROVE LockInv'
    <2>1. PICK c \in Commands, g \in Game, l \in {"lock", "snap", "busy", "kill"} :
            /\ role' = [role EXCEPT ![p] = c] /\ game' = [game EXCEPT ![p] = g]
            /\ Goto(p, l) /\ pc[p] = "idle"
            /\ c \in Launches <=> l = "lock"
            /\ l = "snap" => c = "clear"
      BY <1>1 DEF Start
    <2>2. c \in AllCommands /\ UNCHANGED <<lock, users, mounts, mode, locked, lockless,
                                          scan, target, raced>>
      BY <1>1 DEF Start, shared
    <2>3. TypeOK'
      BY <2>1, <2>2 DEF Goto, LockInv, TypeOK
    <2>4. RolesFit'
      BY <2>1, <2>2 DEF Goto, LockInv, TypeOK, RolesFit
    <2>5. LocksFit'
      BY <2>1, <2>2 DEF Goto, LockInv, TypeOK, LocksFit, Launching, Own
    <2> QED BY <2>3, <2>4, <2>5 DEF LockInv
  <1>2. ASSUME NEW p \in Proc, AcquireGameLock(p) PROVE LockInv'
    <2>1. CASE Leave(p) /\ UNCHANGED <<users, mounts>>
      <3>1. TypesKept
        BY <1>2, <1>p, <2>1, PieceTypes DEF TypesKept, Leave, LockInv, AcquireGameLock
      <3> QED BY <2>1, <3>1, ResetInv DEF Leave
    <2>2. CASE /\ ~LockTaken(p) /\ Goto(p, "inuse") /\ Spoil(game[p])
               /\ lock' = [lock EXCEPT ![game[p]] = p]
               /\ locked' = [locked EXCEPT ![p] = TRUE]
               /\ UNCHANGED <<role, game, mode, lockless, scan, target>>
      <3>1. TypeOK'
        <4>1. TypesKept
          BY <1>2, <1>p, <2>2 DEF AcquireGameLock, TypesKept, LockInv, TypeOK, Spoil
        <4>2. lock' \in [Game -> Proc \cup {Free, Orphan}]
          BY <1>2, <1>p, <2>2 DEF AcquireGameLock, LockInv, TypeOK
        <4> QED
          BY <1>2, <1>p, <2>2, <4>1, <4>2, GotoType DEF AcquireGameLock, LockInv, job
      <3>2. RolesFit'
        BY <1>2, <1>p, <2>2 DEF AcquireGameLock, Goto, LockInv, TypeOK, RolesFit, job
      <3>3. lock[game[p]] = Free /\ lock' = [lock EXCEPT ![game[p]] = p]
        BY <1>2, <2>2 DEF AcquireGameLock, LockTaken
      <3>4. ASSUME NEW g \in Game, lock[g] \in Proc PROVE lock'[g] = lock[g]
        BY <1>2, <1>p, <3>3, <3>4
      <3>5. pc' = [pc EXCEPT ![p] = "inuse"] /\ UNCHANGED <<role, game, target>>
        BY <1>2, <2>2 DEF AcquireGameLock, Goto, job
      <3>6. lock'[game[p]] = p
        BY <1>2, <1>p, <3>3 DEF AcquireGameLock, LockInv, TypeOK
      <3>7. role[p] \in Launches /\ UNCHANGED lockless
        BY <1>2, <2>2 DEF AcquireGameLock, LockInv, RolesFit
      <3>8. LocksFit'
        BY <2>2, <3>4, <3>5, <3>6, <3>7 DEF LockInv, TypeOK, LocksFit, Launching, Own
      <3> QED BY <3>1, <3>2, <3>8 DEF LockInv
    <2>3. CASE /\ game[p] \in OpenFails /\ lockless' = lockless \cup {game[p]}
               /\ Goto(p, "inuse")
               /\ UNCHANGED <<lock, role, game, mode, locked, scan, target, raced>>
      <3>1. /\ pc[p] = "lock" /\ role[p] \in Launches /\ game[p] \in Game
            /\ UNCHANGED <<users, mounts>>
        BY <1>2, <1>p DEF AcquireGameLock, LockInv, RolesFit
      <3>2. TypesKept
        BY <2>3, <3>1 DEF TypesKept, LockInv, TypeOK
      <3>3. TypeOK'
        BY <2>3, <3>1, <3>2, GotoType DEF LockInv, TypeOK
      <3>4. RolesFit'
        BY <2>3, <3>1 DEF Goto, LockInv, TypeOK, RolesFit
      <3>5. LocksFit'
        BY <2>3, <3>1 DEF Goto, LockInv, TypeOK, LocksFit, Launching, Own
      <3> QED BY <3>3, <3>4, <3>5 DEF LockInv
    <2> QED BY <1>2, <2>1, <2>2, <2>3 DEF AcquireGameLock
  <1>3. ASSUME NEW p \in Proc, CheckInUse(p) PROVE LockInv'
    BY <1>3, <1>p, PieceTypes, MoveInv, ResetInv
       DEF CheckInUse, Step, Exit, TypesKept, LockInv, RolesFit, job
  <1>4. ASSUME NEW p \in Proc, MountSquash(p) PROVE LockInv'
    BY <1>4, <1>p, PieceTypes, MoveInv
       DEF MountSquash, Step, TypesKept, LockInv, RolesFit, job, Mounts
  <1>5. ASSUME NEW p \in Proc, MountOverlay(p) PROVE LockInv'
    <2>1. CASE mounts' = [mounts EXCEPT ![game[p]] = @ \cup {"wine"}] /\ Continue(p, "overlay",
       "prepare")
      <3>1. TypesKept
        BY <1>5, <1>p, <2>1
           DEF MountOverlay, Continue, SetMode, TypesKept, LockInv, TypeOK, Mounts
      <3> QED
        BY <1>5, <2>1, <3>1, MoveInv DEF MountOverlay, Continue, LockInv, RolesFit
    <2>2. CASE FuseUmount(game[p], "mnt") /\ Step(p, "copy")
      <3>1. TypesKept
        BY <1>5, <1>p, <2>2, PieceTypes DEF MountOverlay, Step, TypesKept, LockInv, Mounts, job
      <3> QED
        BY <1>5, <2>2, <3>1, MoveInv DEF MountOverlay, Step, job, LockInv, RolesFit
    <2> QED BY <1>5, <2>1, <2>2 DEF MountOverlay
  <1>6. ASSUME NEW p \in Proc, UseCopyMode(p) PROVE LockInv'
    <2>1. pc[p] = "copy" /\ role[p] \in Launches /\ game[p] \in Game
      BY <1>6, <1>p DEF UseCopyMode, LockInv, RolesFit
    <2>2. mounts' \in [Game -> SUBSET Mounts] /\ UNCHANGED users
      BY <1>6, <2>1, PieceTypes DEF UseCopyMode, LockInv, Mounts
    <2>3. CASE Exit(p)
      <3>1. TypesKept
        BY <2>1, <2>2, <2>3, PieceTypes DEF Exit, TypesKept, LockInv
      <3> QED BY <2>3, <3>1, ResetInv DEF Exit
    <2>4. CASE Continue(p, "copy", "prepare")
      <3>1. TypesKept
        BY <2>2, <2>4 DEF Continue, SetMode, TypesKept, LockInv, TypeOK
      <3> QED BY <2>1, <2>4, <3>1, MoveInv DEF Continue
    <2> QED BY <1>6, <2>3, <2>4 DEF UseCopyMode
  <1>7. ASSUME NEW p \in Proc, ReportMount(p) PROVE LockInv'
    BY <1>7, <1>p, PieceTypes, ResetInv DEF ReportMount, Exit, TypesKept, LockInv
  <1>8. ASSUME NEW p \in Proc, StartTool(p) PROVE LockInv'
    BY <1>8, <1>p, PieceTypes, MoveInv DEF StartTool, Step, TypesKept, LockInv, job
  <1>9. ASSUME NEW p \in Proc, AfterTool(p) PROVE LockInv'
    BY <1>9, <1>p, PieceTypes, MoveInv DEF AfterTool, Step, TypesKept, LockInv, RolesFit, job
  <1>10. ASSUME NEW p \in Proc, ReloadUmount(p) PROVE LockInv'
    BY <1>10, <1>p, PieceTypes, MoveInv
       DEF ReloadUmount, Step, TypesKept, LockInv, RolesFit, job, Mounts
  <1>11. ASSUME NEW p \in Proc, ReloadMount(p) PROVE LockInv'
    BY <1>11, <1>p, PieceTypes, MoveInv
       DEF ReloadMount, Step, TypesKept, LockInv, RolesFit, job, Mounts
  <1>12. ASSUME NEW p \in Proc, PlayGame(p) PROVE LockInv'
    BY <1>12, <1>p, PieceTypes, MoveInv DEF PlayGame, Step, TypesKept, LockInv, RolesFit, job
  <1>13. ASSUME NEW p \in Proc, AfterGame(p) PROVE LockInv'
    BY <1>13, <1>p, PieceTypes, MoveInv DEF AfterGame, Step, TypesKept, LockInv, RolesFit, job
  <1>14. ASSUME NEW p \in Proc, Snapshot(p) PROVE LockInv'
    <2>1. scan' \in [Proc -> [sub : Mounts, todo : SUBSET Game]]
      BY <1>14 DEF Snapshot, LockInv, TypeOK
    <2>2. TypesKept
      BY <1>14, <2>1 DEF Snapshot, TypesKept, LockInv, TypeOK, shared, job
    <2> QED
      BY <1>14, <2>2, MoveInv DEF Snapshot, shared, job, LockInv, RolesFit
  <1>15. ASSUME NEW p \in Proc, ScanInUse(p) PROVE LockInv'
    <2>1. PICK g \in scan[p].todo : ScanInUse(p)!2!(g)
      BY <1>15 DEF ScanInUse
    <2>2. g \in Game /\ pc[p] = "scan"
      BY <1>15, <2>1 DEF ScanInUse, LockInv, TypeOK
    <2>3. TypeOK'
      <3>0. scan' \in [Proc -> [sub : Mounts, todo : SUBSET Game]]
        BY <2>1, <2>2 DEF LockInv, TypeOK
      <3>1. TypesKept
        BY <1>15, <2>1, <3>0 DEF ScanInUse, Aim, TypesKept, LockInv, TypeOK, shared, job
      <3>2. UNCHANGED <<lock, role, game>> /\ game[p] \in Game
        BY <1>15, <2>2 DEF ScanInUse, LockInv, TypeOK, shared, job
      <3>3. CASE InUse(g)
        BY <2>1, <3>1, <3>2, <3>3 DEF TypeOK, TypesKept, LockInv
      <3>4. CASE ~InUse(g)
        <4>1. Goto(p, "probe") /\ target' = [target EXCEPT ![p] = g] /\ target'[p] \in Game
          BY <2>1, <2>2, <3>4 DEF Aim, LockInv, TypeOK
        <4> QED BY <2>2, <3>1, <3>2, <4>1, GotoType DEF LockInv, TypeOK
      <3> QED BY <3>3, <3>4
    <2>4. RolesFit'
      BY <1>15, <2>1, <2>2 DEF ScanInUse, Goto, LockInv, TypeOK, RolesFit, job
    <2>5. LocksFit'
      BY <1>15, <2>1, <2>2
         DEF ScanInUse, Goto, Aim, LockInv, TypeOK, LocksFit, Launching, Own, shared, job
    <2> QED BY <2>3, <2>4, <2>5 DEF LockInv
  <1>16. ASSUME NEW p \in Proc, ScanProbe(p) PROVE LockInv'
    <2>1. CASE ProbeLock(p, "probe", "scan", "unlock", "umount")
      BY <1>16, <1>p, <2>1, ProbeLockInv
    <2>2. CASE ProbeUnlock(p, "unlock", "umount")
      BY <1>16, <1>p, <2>2, ProbeUnlockInv
    <2> QED BY <1>16, <2>1, <2>2 DEF ScanProbe
  <1>17. ASSUME NEW p \in Proc, ScanUmount(p) PROVE LockInv'
    <2>1. TypesKept
      BY <1>17, <1>p, PieceTypes DEF ScanUmount, TypesKept, LockInv, Step, job
    <2> QED
      BY <1>17, <1>p, <2>1, MoveInv DEF ScanUmount, Step, LockInv, RolesFit, job
  <1>18. ASSUME NEW p \in Proc, NextDirectory(p) PROVE LockInv'
    <2>1. TypesKept
      BY <1>18, <1>p, PieceTypes
         DEF NextDirectory, TypesKept, LockInv, TypeOK, shared, job, Mounts
    <2> QED
      BY <1>18, <1>p, <2>1, MoveInv DEF NextDirectory, LockInv, RolesFit, shared, job
  <1>19. ASSUME NEW p \in Proc, EndSweep(p) PROVE LockInv'
    <2>1. TypesKept
      BY <1>19, <1>p DEF EndSweep, Step, Continue, SetMode, TypesKept, LockInv, TypeOK, job
    <2>2. CASE role[p] = "clear" /\ Step(p, "busy")
      BY <1>19, <2>1, <2>2, MoveInv DEF EndSweep, Step, job
    <2>3. role[p] # "clear" => role[p] \in Launches
      BY <1>19 DEF EndSweep, LockInv, RolesFit
    <2>4. CASE role[p] # "clear" /\ Continue(p, "dir", "prepare")
      BY <1>19, <2>1, <2>3, <2>4, MoveInv DEF EndSweep, Continue
    <2>5. CASE role[p] # "clear" /\ Step(p, "squash")
      BY <1>19, <2>1, <2>3, <2>5, MoveInv DEF EndSweep, Step, job
    <2> QED BY <1>19, <2>2, <2>4, <2>5 DEF EndSweep
  <1>20. ASSUME NEW p \in Proc, CleanupWine(p) PROVE LockInv'
    BY <1>20, <1>p, PieceTypes, MoveInv DEF CleanupWine, Step, TypesKept, LockInv, RolesFit, job
  <1>21. ASSUME NEW p \in Proc, CleanupOverlay(p) PROVE LockInv'
    BY <1>21, <1>p, PieceTypes, MoveInv
       DEF CleanupOverlay, Step, TypesKept, LockInv, RolesFit, job, Mounts
  <1>22. ASSUME NEW p \in Proc, CleanupSquash(p) PROVE LockInv'
    <2>1. TypesKept
      BY <1>22, <1>p, PieceTypes DEF CleanupSquash, Exit, TypesKept, LockInv, Mounts
    <2> QED
      BY <1>22, <1>p, <2>1, ResetInv DEF CleanupSquash, Exit
  <1>23. ASSUME NEW p \in Proc, UmountKill(p) PROVE LockInv'
    <2>1. TypesKept
      BY <1>23, <1>p, PieceTypes DEF UmountKill, TypesKept, Leave, LockInv, job
    <2>2. CASE Leave(p)
      BY <2>1, <2>2, ResetInv DEF Leave
    <2>3. CASE ~Leave(p)
      <3>1. TypeOK'
        <4>1. lock' \in [Game -> Proc \cup {Free, Orphan}]
          BY <1>23, <1>p, <2>3 DEF UmountKill, LockInv, TypeOK
        <4>2. pc[p] = "kill" /\ Goto(p, "umwine") /\ UNCHANGED <<role, game, target>>
          BY <1>23, <2>3 DEF UmountKill, job
        <4> QED
          BY <1>p, <2>1, <4>1, <4>2, GotoType DEF LockInv
      <3>2. RolesFit'
        BY <1>23, <1>p, <2>3 DEF UmountKill, Goto, LockInv, TypeOK, RolesFit, job
      <3>3. LocksFit'
        BY <1>23, <1>p, <2>3
           DEF UmountKill, Goto, LockInv, TypeOK, LocksFit, Launching, Own, job
      <3> QED BY <3>1, <3>2, <3>3 DEF LockInv
    <2> QED BY <2>2, <2>3
  <1>24. ASSUME NEW p \in Proc, UmountWine(p) PROVE LockInv'
    BY <1>24, <1>p, PieceTypes, MoveInv
       DEF UmountWine, Step, TypesKept, LockInv, RolesFit, job, Mounts
  <1>25. ASSUME NEW p \in Proc, UmountMnt(p) PROVE LockInv'
    <2>1. TypesKept
      BY <1>25, <1>p, PieceTypes DEF UmountMnt, Leave, TypesKept, LockInv, Mounts
    <2> QED
      BY <1>25, <1>p, <2>1, ResetInv DEF UmountMnt, Leave
  <1>26. ASSUME NEW p \in Proc, BusyInUse(p) PROVE LockInv'
    <2>1. CASE Leave(p) /\ UNCHANGED <<users, mounts>>
      <3>1. TypesKept
        BY <1>p, <1>26, <2>1, PieceTypes DEF TypesKept, Leave, LockInv, BusyInUse
      <3> QED BY <2>1, <3>1, ResetInv DEF Leave
    <2>2. CASE /\ Goto(p, "bprobe") /\ Aim(p, game[p])
               /\ UNCHANGED <<lock, job, scan, users, mounts>>
      <3>1. TypeOK'
        BY <1>26, <1>p, <2>2 DEF BusyInUse, Goto, Aim, LockInv, TypeOK, job
      <3>2. RolesFit'
        BY <1>26, <1>p, <2>2 DEF BusyInUse, Goto, LockInv, RolesFit, job
      <3>3. LocksFit'
        BY <1>26, <1>p, <2>2
           DEF BusyInUse, Goto, Aim, LockInv, TypeOK, RolesFit, LocksFit, Launching, Own, job
      <3> QED BY <3>1, <3>2, <3>3 DEF LockInv
    <2> QED BY <1>26, <2>1, <2>2 DEF BusyInUse
  <1>27. ASSUME NEW p \in Proc, BusyProbe(p) PROVE LockInv'
    <2>1. CASE ProbeLock(p, "bprobe", "refused", "bunlock", "ismount")
      BY <1>27, <1>p, <2>1, ProbeLockInv
    <2>2. CASE ProbeUnlock(p, "bunlock", "ismount")
      BY <1>27, <1>p, <2>2, ProbeUnlockInv
    <2> QED BY <1>27, <2>1, <2>2 DEF BusyProbe
  <1>28. ASSUME NEW p \in Proc, IsMount(p) PROVE LockInv'
    BY <1>28, <1>p, PieceTypes, MoveInv, ResetInv
       DEF IsMount, Step, Leave, TypesKept, LockInv, job
  <1>29. ASSUME NEW p \in Proc, Done(p) PROVE LockInv'
    BY <1>29, <1>p, PieceTypes, ResetInv DEF Done, Leave, TypesKept, LockInv
  <1>30. ASSUME NEW p \in Proc, Signal(p) PROVE LockInv'
    BY <1>30, <1>p, PieceTypes, MoveInv DEF Signal, Step, TypesKept, LockInv, job, Launching
  <1>31. ASSUME NEW p \in Proc, Crash(p) PROVE LockInv'
    BY <1>31, <1>p, PieceTypes, ResetInv DEF Crash, TypesKept, LockInv
  <1>32. ASSUME NEW g \in Game, UsersEnd(g) PROVE LockInv'
    BY <1>32 DEF UsersEnd, SetUsers, LockInv, TypeOK, RolesFit, LocksFit, Launching, Own, job
  <1>33. CASE UNCHANGED vars
    BY <1>33 DEF vars, LockInv, TypeOK, RolesFit, LocksFit, Launching, Own
  <1> QED
    BY <1>1, <1>2, <1>3, <1>4, <1>5, <1>6, <1>7, <1>8, <1>9, <1>10, <1>11, <1>12, <1>13, <1>14,
       <1>15, <1>16, <1>17, <1>18, <1>19, <1>20, <1>21, <1>22, <1>23, <1>24, <1>25, <1>26,
       <1>27, <1>28, <1>29, <1>30, <1>31, <1>32, <1>33
       DEF Next, Launch, Sweep, Cleanup, Maintenance

\* Type correctness of the whole specification.
THEOREM TypeCorrect == Spec => []TypeOK
  <1>1. LockInv => TypeOK
    BY DEF LockInv
  <1> QED BY <1>1, InitLockInv, NextLockInv, PTL DEF Spec

\* Two launches of a game would both own its flock.
LEMMA LockInvExclusive == LockInv => OneLaunchPerGame
  BY DEF LockInv, LocksFit, OneLaunchPerGame

\* All launches of a game hold its lock if none went on without it.
LEMMA LockedLaunches ==
  ASSUME LockInv, NEW p \in Proc, NEW q \in Proc, Launching(p), Launching(q),
         game[p] = game[q], game[p] \notin lockless
  PROVE  p = q
  BY DEF LockInv, LocksFit, Launching

\* The flock of a game admits one launch at a time, whatever crashes; launches
\* that could not open the lock file are the only ones beside it.
THEOREM LaunchExclusion == Spec => []OneLaunchPerGame
  BY InitLockInv, NextLockInv, LockInvExclusive, PTL DEF Spec

-----------------------------------------------------------------------------

\* A step that adds no process to a prefix, and takes no launch to a quiet
\* point it was not at, keeps every prefix quiet.
LEMMA NoNewUser ==
  ASSUME LockInv, PrefixStaysQuiet, lockless \subseteq lockless',
         \A g \in Game : users'[g] = "none" \/ users'[g] = users[g],
         \A q \in Proc : Launching(q)' /\ pc'[q] \in QuietPc =>
            /\ pc[q] # "idle" /\ game'[q] = game[q]
            /\ \/ Launching(q) /\ pc[q] \in QuietPc
               \/ users[game[q]] = "none"
  PROVE  PrefixStaysQuiet'
  <1>1. ASSUME NEW q \in Proc, Launching(q)', pc'[q] \in QuietPc, game'[q] \notin lockless'
        PROVE  users'[game'[q]] = "none"
    <2>1. pc[q] # "idle" /\ game'[q] = game[q] /\ users[game[q]] = "none"
      BY <1>1 DEF PrefixStaysQuiet
    <2>2. game[q] \in Game
      BY <2>1 DEF LockInv, TypeOK
    <2> QED BY <2>1, <2>2
  <1> QED BY <1>1 DEF PrefixStaysQuiet

\* The processes a launch starts run in its own prefix.
LEMMA OwnUser ==
  ASSUME LockInv, PrefixStaysQuiet, NEW p \in Proc, Launching(p),
         NEW u \in {"tool", "game"}, SetUsers(game[p], u),
         NEW l \in {"tool", "play"}, Goto(p, l), UNCHANGED <<role, game, lockless>>
  PROVE  PrefixStaysQuiet'
  <1>1. ASSUME NEW q \in Proc, Launching(q)', pc'[q] \in QuietPc, game'[q] \notin lockless'
        PROVE  users'[game'[q]] = "none"
    <2>1. q # p
      BY <1>1 DEF Goto, LockInv, TypeOK, QuietPc
    <2>2. Launching(q) /\ pc[q] \in QuietPc
      BY <1>1, <2>1 DEF Goto, Launching
    <2>3. game[q] # game[p]
      BY <1>1, <2>1, <2>2, LockedLaunches DEF LockInv, TypeOK
    <2> QED
      BY <1>1, <2>1, <2>2, <2>3 DEF PrefixStaysQuiet, SetUsers, Goto
  <1> QED BY <1>1 DEF PrefixStaysQuiet, Launching

\* One step of the code or of its environment keeps every prefix quiet.
LEMMA NextQuiet == LockInv /\ PrefixStaysQuiet /\ [Next]_vars => PrefixStaysQuiet'
  <1> SUFFICES ASSUME LockInv, PrefixStaysQuiet, [Next]_vars PROVE PrefixStaysQuiet'
    OBVIOUS
  <1> USE DEF HeldPc, QuietPc, Launches
  <1>1. ASSUME NEW p \in Proc, Start(p) PROVE PrefixStaysQuiet'
    BY <1>1, NoNewUser DEF Start, LockInv, TypeOK, Launching, Goto, shared
  <1>2. ASSUME NEW p \in Proc, AcquireGameLock(p) PROVE PrefixStaysQuiet'
    BY <1>2, NoNewUser DEF AcquireGameLock, LockInv, TypeOK, Launching, Goto, Reset, job, Leave
  <1>3. ASSUME NEW p \in Proc, CheckInUse(p) PROVE PrefixStaysQuiet'
    BY <1>3, NoNewUser
       DEF CheckInUse, LockInv, TypeOK, Launching, Step, Goto, Reset, job, Exit, PrefixInUse
  <1>4. ASSUME NEW p \in Proc, MountSquash(p) PROVE PrefixStaysQuiet'
    BY <1>4, NoNewUser DEF MountSquash, LockInv, TypeOK, Launching, Step, Goto, job
  <1>5. ASSUME NEW p \in Proc, MountOverlay(p) PROVE PrefixStaysQuiet'
    BY <1>5, NoNewUser DEF MountOverlay, LockInv, TypeOK, Launching, Step, Goto, job, Continue
  <1>6. ASSUME NEW p \in Proc, UseCopyMode(p) PROVE PrefixStaysQuiet'
    BY <1>6, NoNewUser DEF UseCopyMode, LockInv, TypeOK, Launching, Goto, Reset, Exit, Continue
  <1>7. ASSUME NEW p \in Proc, ReportMount(p) PROVE PrefixStaysQuiet'
    BY <1>7, NoNewUser DEF ReportMount, LockInv, TypeOK, Launching, Reset, Exit
  <1>8. ASSUME NEW p \in Proc, AfterTool(p) PROVE PrefixStaysQuiet'
    BY <1>8, NoNewUser DEF AfterTool, Launching, Step, Goto, job
  <1>9. ASSUME NEW p \in Proc, ReloadUmount(p) PROVE PrefixStaysQuiet'
    BY <1>9, NoNewUser DEF ReloadUmount, Launching, Step, Goto, job
  <1>10. ASSUME NEW p \in Proc, ReloadMount(p) PROVE PrefixStaysQuiet'
    BY <1>10, NoNewUser DEF ReloadMount, LockInv, TypeOK, Launching, Step, Goto, job
  <1>11. ASSUME NEW p \in Proc, AfterGame(p) PROVE PrefixStaysQuiet'
    BY <1>11, NoNewUser DEF AfterGame, Launching, Step, Goto, job
  <1>12. ASSUME NEW p \in Proc, Snapshot(p) PROVE PrefixStaysQuiet'
    BY <1>12, NoNewUser DEF Snapshot, Launching, Goto, shared, job
  <1>13. ASSUME NEW p \in Proc, ScanInUse(p) PROVE PrefixStaysQuiet'
    BY <1>13, NoNewUser DEF ScanInUse, LockInv, TypeOK, Launching, Goto, shared, job
  <1>14. ASSUME NEW p \in Proc, ScanProbe(p) PROVE PrefixStaysQuiet'
    BY <1>14, NoNewUser
       DEF ScanProbe, LockInv, TypeOK, Launching, Step, Goto, job, ProbeLock, ProbeUnlock
  <1>15. ASSUME NEW p \in Proc, ScanUmount(p) PROVE PrefixStaysQuiet'
    BY <1>15, NoNewUser DEF ScanUmount, Launching, Step, Goto, job
  <1>16. ASSUME NEW p \in Proc, NextDirectory(p) PROVE PrefixStaysQuiet'
    BY <1>16, NoNewUser DEF NextDirectory, Launching, Goto, shared, job
  <1>17. ASSUME NEW p \in Proc, EndSweep(p) PROVE PrefixStaysQuiet'
    BY <1>17, NoNewUser DEF EndSweep, LockInv, TypeOK, Launching, Step, Goto, job, Continue
  <1>18. ASSUME NEW p \in Proc, CleanupWine(p) PROVE PrefixStaysQuiet'
    BY <1>18, NoNewUser DEF CleanupWine, LockInv, TypeOK, Launching, Step, Goto, job, SetUsers
  <1>19. ASSUME NEW p \in Proc, CleanupOverlay(p) PROVE PrefixStaysQuiet'
    BY <1>19, NoNewUser DEF CleanupOverlay, Launching, Step, Goto, job
  <1>20. ASSUME NEW p \in Proc, CleanupSquash(p) PROVE PrefixStaysQuiet'
    BY <1>20, NoNewUser DEF CleanupSquash, Launching, Reset, Exit
  <1>21. ASSUME NEW p \in Proc, UmountKill(p) PROVE PrefixStaysQuiet'
    BY <1>21, NoNewUser
       DEF UmountKill, LockInv, TypeOK, Launching, Goto, Reset, job, SetUsers, Leave
  <1>22. ASSUME NEW p \in Proc, UmountWine(p) PROVE PrefixStaysQuiet'
    BY <1>22, NoNewUser DEF UmountWine, Launching, Step, Goto, job
  <1>23. ASSUME NEW p \in Proc, UmountMnt(p) PROVE PrefixStaysQuiet'
    BY <1>23, NoNewUser DEF UmountMnt, Launching, Reset, Leave
  <1>24. ASSUME NEW p \in Proc, BusyInUse(p) PROVE PrefixStaysQuiet'
    BY <1>24, NoNewUser DEF BusyInUse, LockInv, TypeOK, Launching, Goto, Reset, job, Leave
  <1>25. ASSUME NEW p \in Proc, BusyProbe(p) PROVE PrefixStaysQuiet'
    BY <1>25, NoNewUser
       DEF BusyProbe, LockInv, TypeOK, Launching, Step, Goto, job, ProbeLock, ProbeUnlock
  <1>26. ASSUME NEW p \in Proc, IsMount(p) PROVE PrefixStaysQuiet'
    BY <1>26, NoNewUser DEF IsMount, LockInv, TypeOK, Launching, Step, Goto, Reset, job, Leave
  <1>27. ASSUME NEW p \in Proc, Done(p) PROVE PrefixStaysQuiet'
    BY <1>27, NoNewUser DEF Done, Launching, Reset, Leave
  <1>28. ASSUME NEW p \in Proc, Signal(p) PROVE PrefixStaysQuiet'
    BY <1>28, NoNewUser DEF Signal, Launching, Step, Goto, job
  <1>29. ASSUME NEW p \in Proc, Crash(p) PROVE PrefixStaysQuiet'
    BY <1>29, NoNewUser DEF Crash, LockInv, TypeOK, Launching, Reset
  <1>30. ASSUME NEW p \in Proc, StartTool(p) PROVE PrefixStaysQuiet'
    BY <1>30, OwnUser DEF StartTool, Step, job, Launching
  <1>31. ASSUME NEW p \in Proc, PlayGame(p) PROVE PrefixStaysQuiet'
    BY <1>31, OwnUser DEF PlayGame, Step, job, LockInv, RolesFit, LaunchPc, Launching
  <1>32. ASSUME NEW g \in Game, UsersEnd(g) PROVE PrefixStaysQuiet'
    BY <1>32, NoNewUser DEF UsersEnd, SetUsers, Launching, job
  <1>33. CASE UNCHANGED vars
    BY <1>33, NoNewUser DEF vars, Launching
  <1> QED
    BY <1>1, <1>2, <1>3, <1>4, <1>5, <1>6, <1>7, <1>8, <1>9, <1>10, <1>11, <1>12, <1>13, <1>14,
       <1>15, <1>16, <1>17, <1>18, <1>19, <1>20, <1>21, <1>22, <1>23, <1>24, <1>25, <1>26,
       <1>27, <1>28, <1>29, <1>30, <1>31, <1>32, <1>33
       DEF Next, Launch, Sweep, Cleanup, Maintenance

\* No launch ever starts a process in a prefix where another one runs, be it a
\* game that outlived a killed launcher without its lock.
THEOREM PrefixesStayQuiet == Spec => []PrefixStaysQuiet
  <1>1. Init => PrefixStaysQuiet
    BY DEF Init, PrefixStaysQuiet, QuietPc
  <1> QED BY <1>1, InitLockInv, NextLockInv, NextQuiet, PTL DEF Spec

-----------------------------------------------------------------------------

\* What a check of another game has established at each of its points: from the
\* probe of the flock on, nobody holds the game and nobody uses it; before the
\* probe a launch may still hold it, and the probe will find out.
CheckAt(q) ==
    pc[q] \in CheckPc \cup ActPc /\ ~Own(q, target[q]) /\ ~raced[q]
            /\ target[q] \notin lockless =>
        \/ HeldByLaunch(target[q]) /\ pc[q] \in {"probe", "bprobe"}
        \/ /\ ~HeldByLaunch(target[q])
           /\ target[q] \notin DirGame => users[target[q]] = "none"

ChecksFit == \A q \in Proc : CheckAt(q)

\* Steps of others keep the check of q: the holder of the game changes with
\* Spoil only, and only a launch of the game adds processes to its prefix.
LEMMA CheckKept ==
  ASSUME LockInv, NEW q \in Proc, CheckAt(q),
         pc'[q] = pc[q], locked'[q] = locked[q], game'[q] = game[q], target'[q] = target[q],
         raced[q] => raced'[q], lockless \subseteq lockless',
         \A g \in Game :
            \/ g \in lockless'
            \/ Spoil(g)
            \/ users'[g] = "none" /\ ~HeldByLaunch(g)'
            \/ /\ HeldByLaunch(g)' <=> HeldByLaunch(g)
               /\ users'[g] \in {users[g], "none"} \/ HeldByLaunch(g)
  PROVE  CheckAt(q)'
  <1> DEFINE g == target[q]
  <1> SUFFICES ASSUME pc[q] \in CheckPc \cup ActPc, ~Own(q, g), ~raced'[q], g \notin lockless'
               PROVE  \/ HeldByLaunch(g)' /\ pc[q] \in {"probe", "bprobe"}
                      \/ /\ ~HeldByLaunch(g)'
                         /\ g \notin DirGame => users'[g] = "none"
    BY DEF CheckAt, Own
  <1>1. g \in Game
    BY DEF LockInv, TypeOK
  <1>2. ~Spoil(g)
    BY DEF Spoil
  <1> QED BY <1>1, <1>2 DEF CheckAt

\* Who holds a game depends on the launches and on the games that outlived one.
LEMMA HeldKept ==
  ASSUME NEW g \in Game, lock'[g] = Orphan <=> lock[g] = Orphan,
         \A q \in Proc : Holder(q, g)' <=> Holder(q, g)
  PROVE  HeldByLaunch(g)' <=> HeldByLaunch(g)
  BY DEF HeldByLaunch

\* p moves to l, where it acts on no check.
LEMMA ChecksMove ==
  ASSUME LockInv, ChecksFit, NEW p \in Proc, NEW l \in Pc \ (CheckPc \cup ActPc),
         Goto(p, l), UNCHANGED <<lock, role, game, locked, lockless, target, raced>>,
         role[p] \in Launches => (pc[p] \in HeldPc <=> l \in HeldPc),
         \A g \in Game : users'[g] \in {users[g], "none"} \/ HeldByLaunch(g)
  PROVE  ChecksFit'
  <1>1. ASSUME NEW q \in Proc, NEW g \in Game
        PROVE  Holder(q, g)' <=> Holder(q, g)
    BY DEF Goto, Holder, Launching
  <1>2. \A g \in Game : HeldByLaunch(g)' <=> HeldByLaunch(g)
    BY <1>1, HeldKept
  <1>3. ASSUME NEW q \in Proc, q # p PROVE CheckAt(q)'
    <2>1. pc'[q] = pc[q]
      BY <1>3 DEF Goto
    <2> QED BY <1>2, <2>1, CheckKept DEF ChecksFit
  <1>4. CheckAt(p)'
    BY DEF CheckAt, Goto, LockInv, TypeOK
  <1> QED BY <1>3, <1>4 DEF ChecksFit

\* p ends: a launch spoils the checks of its game.
LEMMA ChecksReset ==
  ASSUME LockInv, ChecksFit, NEW p \in Proc, Reset(p),
         \/ UNCHANGED <<lock, raced>> /\ ~Launching(p)
         \/ lock' = LocksWithout(p) /\ IF Launching(p) THEN Spoil(game[p]) ELSE UNCHANGED raced,
         \A g \in Game : users'[g] \in {users[g], "none"} \/ HeldByLaunch(g)
  PROVE  ChecksFit'
  <1> USE GameLocksAssumption
  <1>1. ASSUME NEW g \in Game, ~(Launching(p) /\ game[p] = g)
        PROVE  HeldByLaunch(g)' <=> HeldByLaunch(g)
    <2>1. ~Holder(p, g) /\ ~Holder(p, g)'
      BY <1>1 DEF Holder, Reset, LockInv, TypeOK
    <2>2. lock'[g] = Orphan <=> lock[g] = Orphan
      BY <2>1 DEF LocksWithout, GameKeepsLock
    <2>3. \A q \in Proc \ {p} : Holder(q, g)' <=> Holder(q, g)
      BY DEF Holder, Launching, Reset
    <2> QED BY <2>1, <2>2, <2>3, HeldKept
  <1>2. ASSUME NEW q \in Proc, q # p PROVE CheckAt(q)'
    <2>1. /\ pc'[q] = pc[q] /\ locked'[q] = locked[q] /\ lockless' = lockless
          /\ game'[q] = game[q] /\ target'[q] = target[q]
      BY <1>2 DEF Reset
    <2>2. raced[q] => raced'[q]
      BY DEF Spoil
    <2> QED BY <1>1, <2>1, <2>2, CheckKept DEF ChecksFit
  <1>3. CheckAt(p)'
    BY DEF CheckAt, Reset, LockInv, TypeOK, CheckPc, ActPc
  <1> QED BY <1>2, <1>3 DEF ChecksFit

\* The step that starts or ends a probe of the flock, for p's own check.
LEMMA ChecksProbe ==
  ASSUME LockInv, ChecksFit, NEW p \in Proc, NEW l \in Pc, Goto(p, l),
         pc[p] \in {"probe", "unlock", "bprobe", "bunlock"},
         UNCHANGED <<users, role, game, locked, lockless, target>>, raced[p] => raced'[p],
         \A q \in Proc \ {p} : raced'[q] = raced[q],
         \/ lock' = lock /\ (Own(p, target[p]) \/ raced'[p] \/ l \notin CheckPc \cup ActPc)
         \/ lock[target[p]] \in {Free, p} /\ \E w \in {Free,
            p} : lock' = [lock EXCEPT ![target[p]] = w],
         role[p] \in Launches => (pc[p] \in HeldPc <=> l \in HeldPc)
  PROVE  ChecksFit'
  <1> USE GameLocksAssumption
  <1>1. target[p] \in Game
    BY DEF LockInv, TypeOK, CheckPc
  <1>2. ASSUME NEW g \in Game PROVE HeldByLaunch(g)' <=> HeldByLaunch(g)
    <2>1. \A q \in Proc : Holder(q, g)' <=> Holder(q, g)
      BY DEF Goto, Holder, Launching
    <2>2. lock'[g] = Orphan <=> lock[g] = Orphan
      BY <1>1 DEF LockInv, TypeOK
    <2> QED BY <2>1, <2>2, HeldKept
  <1>3. ASSUME NEW q \in Proc, q # p PROVE CheckAt(q)'
    <2>1. pc'[q] = pc[q]
      BY <1>3 DEF Goto
    <2> QED BY <1>2, <2>1, CheckKept DEF ChecksFit
  <1>4. CheckAt(p)'
    <2> SUFFICES ASSUME pc'[p] \in CheckPc \cup ActPc, ~Own(p, target[p]), ~raced'[p],
                        target[p] \notin lockless
                 PROVE  /\ ~HeldByLaunch(target[p])'
                        /\ target[p] \notin DirGame => users[target[p]] = "none"
      BY DEF CheckAt, Own
    <2>1. lock[target[p]] \in {Free, p}
      BY DEF Goto, LockInv, TypeOK
    <2>2. ~HeldByLaunch(target[p])
      <3>1. lock[target[p]] # Orphan
        BY <2>1
      <3>2. ASSUME NEW q \in Proc, Holder(q, target[p]) PROVE FALSE
        BY <2>1, <3>2 DEF Holder, LockInv, LocksFit, Own, Launching
      <3> QED BY <3>1, <3>2 DEF HeldByLaunch
    <2>3. CheckAt(p)
      BY DEF ChecksFit
    <2> QED BY <1>1, <1>2, <2>2, <2>3 DEF CheckAt, CheckPc
  <1> QED BY <1>3, <1>4 DEF ChecksFit

\* p starts its check of g, which nobody uses at that moment.
LEMMA ChecksAim ==
  ASSUME LockInv, ChecksFit, NEW p \in Proc, NEW g \in Game, ~InUse(g), Aim(p, g),
         NEW l \in {"probe", "bprobe"}, Goto(p, l),
         UNCHANGED <<lock, users, role, game, locked, lockless>>,
         role[p] \in Launches => (pc[p] \in HeldPc <=> l \in HeldPc)
  PROVE  ChecksFit'
  <1>1. \A h \in Game : HeldByLaunch(h)' <=> HeldByLaunch(h)
    BY HeldKept DEF Goto, Holder, Launching
  <1>2. ASSUME NEW q \in Proc, q # p PROVE CheckAt(q)'
    <2>1. pc'[q] = pc[q] /\ target'[q] = target[q] /\ raced'[q] = raced[q]
      BY <1>2 DEF Goto, Aim
    <2> QED BY <1>1, <2>1, CheckKept DEF ChecksFit
  <1>3. CheckAt(p)'
    <2>1. pc'[p] = l /\ target'[p] = g
      BY DEF Goto, Aim, LockInv, TypeOK
    <2>2. g \notin DirGame => users'[g] = "none"
      BY DEF InUse
    <2> QED BY <1>1, <2>1, <2>2 DEF CheckAt
  <1> QED BY <1>2, <1>3 DEF ChecksFit

\* The processes of a prefix end or are killed: a game that outlived its
\* launcher frees its flock.
LEMMA ChecksKill ==
  ASSUME LockInv, ChecksFit, NEW g \in Game, users' = [users EXCEPT ![g] = "none"],
         lock' = [lock EXCEPT ![g] = IF @ = Orphan THEN Free ELSE @],
         \/ UNCHANGED pc
         \/ \E p \in Proc : pc[p] = "kill" /\ role[p] \notin Launches /\ Goto(p, "umwine"),
         UNCHANGED <<role, game, locked, lockless, target, raced>>
  PROVE  ChecksFit'
  <1> USE GameLocksAssumption
  <1>1. ASSUME NEW q \in Proc, NEW h \in Game PROVE Holder(q, h)' <=> Holder(q, h)
    BY DEF Goto, Holder, Launching, LockInv, TypeOK
  <1>2. ASSUME NEW h \in Game, h # g
        PROVE  (HeldByLaunch(h)' <=> HeldByLaunch(h)) /\ users'[h] = users[h]
    BY <1>1, <1>2, HeldKept
  <1>3. lock'[g] # Orphan /\ users'[g] = "none"
    BY DEF LockInv, TypeOK
  <1>4. ASSUME lock[g] # Orphan PROVE HeldByLaunch(g)' <=> HeldByLaunch(g)
    BY <1>1, <1>3, <1>4, HeldKept
  <1>5. ASSUME lock[g] = Orphan, g \notin lockless PROVE ~HeldByLaunch(g)'
    BY <1>1, <1>3, <1>5 DEF HeldByLaunch, Holder, LockInv, LocksFit
  <1>6. ASSUME NEW q \in Proc PROVE CheckAt(q)'
    <2>1. CASE pc'[q] = pc[q]
      BY <1>2, <1>3, <1>4, <1>5, <2>1, CheckKept DEF ChecksFit
    <2>2. CASE pc'[q] # pc[q]
      <3>1. pc'[q] = "umwine"
        BY <2>2 DEF Goto, LockInv, TypeOK
      <3> QED BY <3>1 DEF CheckAt, HeldByLaunch, Holder, CheckPc, ActPc
    <2> QED BY <2>1, <2>2
  <1> QED BY <1>6 DEF ChecksFit

\* One step of the code or of its environment keeps every check.
LEMMA NextChecks == LockInv /\ ChecksFit /\ [Next]_vars => ChecksFit'
  <1> SUFFICES ASSUME LockInv, ChecksFit, [Next]_vars PROVE ChecksFit'
    OBVIOUS
  <1> USE GameLocksAssumption DEF Pc, HeldPc, QuietPc, CheckPc, ActPc, Launches
  <1>1. ASSUME NEW p \in Proc, Start(p) PROVE ChecksFit'
    <2>1. pc[p] = "idle" /\ UNCHANGED <<lock, users, locked, lockless, target, raced>>
      BY <1>1 DEF Start, shared
    <2>2. PICK l \in {"lock", "snap", "busy", "kill"} : Goto(p, l)
      BY <1>1 DEF Start
    <2>3. \A q \in Proc \ {p} : role'[q] = role[q] /\ game'[q] = game[q] /\ pc'[q] = pc[q]
      BY <1>1, <2>2 DEF Start, Goto
    <2>4. ~Launching(p) /\ ~Launching(p)'
      BY <1>1, <2>1 DEF Start, Goto, Launching, LockInv, TypeOK
    <2>5. \A g \in Game : HeldByLaunch(g)' <=> HeldByLaunch(g)
      BY <2>1, <2>3, <2>4, HeldKept DEF Holder, Launching
    <2>6. ASSUME NEW q \in Proc, q # p PROVE CheckAt(q)'
      BY <2>1, <2>3, <2>5, <2>6, CheckKept DEF ChecksFit
    <2>7. CheckAt(p)'
      BY <2>2 DEF CheckAt, Goto, LockInv, TypeOK
    <2> QED BY <2>6, <2>7 DEF ChecksFit
  <1>2. ASSUME NEW p \in Proc, AcquireGameLock(p) PROVE ChecksFit'
    <2>1. pc[p] = "lock" /\ role[p] \in Launches /\ game[p] \in Game /\ UNCHANGED users
      BY <1>2 DEF AcquireGameLock, LockInv, TypeOK, RolesFit, LaunchPc
    <2>2. CASE Leave(p)
      BY <2>1, <2>2, ChecksReset DEF Leave, Launching
    <2>3. CASE /\ ~LockTaken(p) /\ Goto(p, "inuse") /\ Spoil(game[p])
               /\ lock' = [lock EXCEPT ![game[p]] = p]
               /\ locked' = [locked EXCEPT ![p] = TRUE]
               /\ UNCHANGED <<role, game, mode, lockless, scan, target>>
      <3>1. /\ lock' = [lock EXCEPT ![game[p]] = p] /\ lock[game[p]] = Free
            /\ Goto(p, "inuse") /\ Spoil(game[p]) /\ UNCHANGED <<role, game, lockless, target>>
        BY <1>2, <2>3 DEF AcquireGameLock, LockTaken
      <3>2. ASSUME NEW g \in Game, g # game[p] PROVE HeldByLaunch(g)' <=> HeldByLaunch(g)
        <4>1. \A q \in Proc : Holder(q, g)' <=> Holder(q, g)
          BY <3>1, <3>2 DEF Goto, Holder, Launching
        <4>2. lock'[g] = Orphan <=> lock[g] = Orphan
          BY <3>1, <3>2
        <4> QED BY <4>1, <4>2, HeldKept
      <3>3. ASSUME NEW q \in Proc, q # p PROVE CheckAt(q)'
        <4>1. pc'[q] = pc[q] /\ locked'[q] = locked[q]
          BY <2>3, <3>1, <3>3 DEF Goto
        <4>2. raced[q] => raced'[q]
          BY <3>1 DEF Spoil
        <4> QED BY <2>1, <3>1, <3>2, <4>1, <4>2, CheckKept DEF ChecksFit
      <3>4. CheckAt(p)'
        BY <3>1 DEF CheckAt, Goto, LockInv, TypeOK
      <3> QED BY <3>3, <3>4 DEF ChecksFit
    <2>4. CASE /\ lockless' = lockless \cup {game[p]} /\ Goto(p, "inuse")
               /\ UNCHANGED <<lock, role, game, locked, target, raced>>
      <3>1. ASSUME NEW g \in Game, g # game[p] PROVE HeldByLaunch(g)' <=> HeldByLaunch(g)
        BY <2>4, <3>1, HeldKept DEF Goto, Holder, Launching
      <3>2. ASSUME NEW q \in Proc, q # p PROVE CheckAt(q)'
        <4>1. pc'[q] = pc[q]
          BY <2>4, <3>2 DEF Goto
        <4> QED BY <2>1, <2>4, <3>1, <4>1, CheckKept DEF ChecksFit
      <3>3. CheckAt(p)'
        BY <2>4 DEF CheckAt, Goto, LockInv, TypeOK
      <3> QED BY <3>2, <3>3 DEF ChecksFit
    <2> QED BY <1>2, <2>2, <2>3, <2>4 DEF AcquireGameLock
  <1>3. ASSUME NEW p \in Proc, CheckInUse(p) PROVE ChecksFit'
    BY <1>3, ChecksReset, ChecksMove
       DEF CheckInUse, Step, LockInv, RolesFit, LaunchPc, Launching, job, Exit
  <1>4. ASSUME NEW p \in Proc, MountSquash(p) PROVE ChecksFit'
    BY <1>4, ChecksMove DEF MountSquash, Step, job
  <1>5. ASSUME NEW p \in Proc, MountOverlay(p) PROVE ChecksFit'
    BY <1>5, ChecksMove DEF MountOverlay, Step, Continue, job
  <1>6. ASSUME NEW p \in Proc, UseCopyMode(p) PROVE ChecksFit'
    <2>1. pc[p] = "copy" /\ role[p] \in Launches /\ UNCHANGED users
      BY <1>6 DEF UseCopyMode, LockInv, RolesFit, LaunchPc
    <2>2. CASE Exit(p)
      BY <2>1, <2>2, ChecksReset DEF Exit, Launching
    <2>3. CASE Continue(p, "copy", "prepare")
      BY <2>1, <2>3, ChecksMove DEF Continue
    <2> QED BY <1>6, <2>2, <2>3 DEF UseCopyMode
  <1>7. ASSUME NEW p \in Proc, ReportMount(p) PROVE ChecksFit'
    BY <1>7, ChecksReset DEF ReportMount, Launching, Exit
  <1>8. ASSUME NEW p \in Proc, StartTool(p) PROVE ChecksFit'
    BY <1>8, ChecksMove DEF StartTool, Step, Launching, job, SetUsers, HeldByLaunch, Holder
  <1>9. ASSUME NEW p \in Proc, AfterTool(p) PROVE ChecksFit'
    BY <1>9, ChecksMove DEF AfterTool, Step, job
  <1>10. ASSUME NEW p \in Proc, ReloadUmount(p) PROVE ChecksFit'
    BY <1>10, ChecksMove DEF ReloadUmount, Step, job
  <1>11. ASSUME NEW p \in Proc, ReloadMount(p) PROVE ChecksFit'
    BY <1>11, ChecksMove DEF ReloadMount, Step, job
  <1>12. ASSUME NEW p \in Proc, PlayGame(p) PROVE ChecksFit'
    BY <1>12, ChecksMove
       DEF PlayGame, Step, LockInv, RolesFit, LaunchPc, Launching, job, SetUsers, HeldByLaunch,
           Holder
  <1>13. ASSUME NEW p \in Proc, AfterGame(p) PROVE ChecksFit'
    BY <1>13, ChecksMove DEF AfterGame, Step, job
  <1>14. ASSUME NEW p \in Proc, Snapshot(p) PROVE ChecksFit'
    BY <1>14, ChecksMove DEF Snapshot, shared, job
  <1>15. ASSUME NEW p \in Proc, ScanInUse(p) PROVE ChecksFit'
    <2>1. pc[p] = "scan" /\ UNCHANGED <<lock, users, role, game, locked, lockless>>
      BY <1>15 DEF ScanInUse, shared, job
    <2>2. CASE UNCHANGED <<pc, target, raced>>
      BY <2>1, <2>2 DEF ChecksFit, CheckAt, Own, HeldByLaunch, Holder, Launching
    <2>3. CASE \E g \in Game : ~InUse(g) /\ Goto(p, "probe") /\ Aim(p, g)
      BY <2>1, <2>3, ChecksAim
    <2>4. scan[p].todo \subseteq Game
      BY DEF LockInv, TypeOK
    <2> QED BY <1>15, <2>2, <2>3, <2>4 DEF ScanInUse
  <1>16. ASSUME NEW p \in Proc, ScanProbe(p) PROVE ChecksFit'
    <2>1. CASE ProbeLock(p, "probe", "scan", "unlock", "umount")
      <3>1. raced' = raced \/ raced' = [raced EXCEPT ![p] = TRUE]
        BY <2>1 DEF ProbeLock, Step
      <3>2. (raced[p] => raced'[p]) /\ \A q \in Proc \ {p} : raced'[q] = raced[q]
        BY <3>1 DEF LockInv, TypeOK
      <3>3. raced' = [raced EXCEPT ![p] = TRUE] => raced'[p]
        BY DEF LockInv, TypeOK
      <3> QED BY <2>1, <3>2, <3>3, ChecksProbe DEF ProbeLock, Step, job
    <2>2. CASE ProbeUnlock(p, "unlock", "umount")
      BY <2>2, ChecksProbe DEF ProbeUnlock, job, LockInv, LocksFit
    <2> QED BY <1>16, <2>1, <2>2 DEF ScanProbe
  <1>17. ASSUME NEW p \in Proc, ScanUmount(p) PROVE ChecksFit'
    BY <1>17, ChecksMove DEF ScanUmount, Step, job
  <1>18. ASSUME NEW p \in Proc, NextDirectory(p) PROVE ChecksFit'
    BY <1>18, ChecksMove DEF NextDirectory, shared, job
  <1>19. ASSUME NEW p \in Proc, EndSweep(p) PROVE ChecksFit'
    <2>1. pc[p] = "scan" /\ pc[p] # "idle" /\ UNCHANGED users
      BY <1>19 DEF EndSweep
    <2>2. PICK l \in {"busy", "prepare", "squash"} :
            /\ Goto(p, l) /\ UNCHANGED <<lock, role, game, locked, lockless, target, raced>>
            /\ l = "busy" => role[p] = "clear"
      BY <1>19 DEF EndSweep, Step, Continue, job
    <2> QED BY <2>1, <2>2, ChecksMove
  <1>20. ASSUME NEW p \in Proc, CleanupWine(p) PROVE ChecksFit'
    BY <1>20, ChecksMove DEF CleanupWine, Step, LockInv, TypeOK, job, SetUsers
  <1>21. ASSUME NEW p \in Proc, CleanupOverlay(p) PROVE ChecksFit'
    BY <1>21, ChecksMove DEF CleanupOverlay, Step, job
  <1>22. ASSUME NEW p \in Proc, CleanupSquash(p) PROVE ChecksFit'
    BY <1>22, ChecksReset DEF CleanupSquash, LockInv, RolesFit, LaunchPc, Launching, Exit
  <1>23. ASSUME NEW p \in Proc, UmountKill(p) PROVE ChecksFit'
    <2>1. pc[p] = "kill" /\ role[p] \notin Launches /\ game[p] \in Game
      BY <1>23 DEF UmountKill, LockInv, TypeOK, RolesFit, OtherPc
    <2>2. CASE game[p] \in DirGame
      BY <1>23, <2>1, <2>2, ChecksReset DEF UmountKill, Leave, Launching
    <2>3. CASE game[p] \notin DirGame
      <3>1. /\ users' = [users EXCEPT ![game[p]] = "none"]
            /\ lock' = [lock EXCEPT ![game[p]] = IF @ = Orphan THEN Free ELSE @]
            /\ Goto(p, "umwine") /\ UNCHANGED <<role, game, locked, lockless, target, raced>>
        BY <1>23, <2>3 DEF UmountKill, SetUsers, job
      <3> QED BY <2>1, <3>1, ChecksKill
    <2> QED BY <2>2, <2>3
  <1>24. ASSUME NEW p \in Proc, UmountWine(p) PROVE ChecksFit'
    BY <1>24, ChecksMove DEF UmountWine, Step, job
  <1>25. ASSUME NEW p \in Proc, UmountMnt(p) PROVE ChecksFit'
    BY <1>25, ChecksReset DEF UmountMnt, Launching, Leave
  <1>26. ASSUME NEW p \in Proc, BusyInUse(p) PROVE ChecksFit'
    <2>1. pc[p] = "busy" /\ game[p] \in Game /\ role[p] \notin Launches /\ UNCHANGED users
      BY <1>26 DEF BusyInUse, LockInv, TypeOK, RolesFit, OtherPc
    <2>2. CASE Leave(p)
      BY <2>1, <2>2, ChecksReset DEF Leave, Launching
    <2>3. CASE ~Leave(p)
      BY <1>26, <2>1, <2>3, ChecksAim DEF BusyInUse, job
    <2> QED BY <2>2, <2>3
  <1>27. ASSUME NEW p \in Proc, BusyProbe(p) PROVE ChecksFit'
    <2>1. CASE ProbeLock(p, "bprobe", "refused", "bunlock", "ismount")
      <3>1. raced' = raced \/ raced' = [raced EXCEPT ![p] = TRUE]
        BY <2>1 DEF ProbeLock, Step
      <3>2. (raced[p] => raced'[p]) /\ \A q \in Proc \ {p} : raced'[q] = raced[q]
        BY <3>1 DEF LockInv, TypeOK
      <3>3. raced' = [raced EXCEPT ![p] = TRUE] => raced'[p]
        BY DEF LockInv, TypeOK
      <3> QED BY <2>1, <3>2, <3>3, ChecksProbe DEF ProbeLock, Step, job
    <2>2. CASE ProbeUnlock(p, "bunlock", "ismount")
      BY <2>2, ChecksProbe DEF ProbeUnlock, job, LockInv, LocksFit
    <2> QED BY <1>27, <2>1, <2>2 DEF BusyProbe
  <1>28. ASSUME NEW p \in Proc, IsMount(p) PROVE ChecksFit'
    <2>1. pc[p] = "ismount" /\ role[p] \notin Launches /\ UNCHANGED users
      BY <1>28 DEF IsMount, LockInv, RolesFit, OtherPc
    <2>2. CASE Leave(p)
      BY <2>1, <2>2, ChecksReset DEF Leave, Launching
    <2>3. CASE Step(p, "delete")
      BY <2>1, <2>3
         DEF Step, Goto, job, ChecksFit, CheckAt, Own, HeldByLaunch, Holder, Launching
    <2> QED BY <1>28, <2>2, <2>3 DEF IsMount
  <1>29. ASSUME NEW p \in Proc, Done(p) PROVE ChecksFit'
    BY <1>29, ChecksReset DEF Done, Launching, Leave
  <1>30. ASSUME NEW p \in Proc, Signal(p) PROVE ChecksFit'
    BY <1>30, ChecksMove DEF Signal, Step, Launching, job
  <1>31. ASSUME NEW p \in Proc, Crash(p) PROVE ChecksFit'
    BY <1>31, ChecksReset DEF Crash
  <1>32. ASSUME NEW g \in Game, UsersEnd(g) PROVE ChecksFit'
    <2>1. UNCHANGED <<pc, role, game, locked, lockless, target, raced>>
      BY <1>32 DEF UsersEnd, job
    <2>2. users' = [users EXCEPT ![g] = "none"]
      BY <1>32 DEF UsersEnd, SetUsers
    <2>3. lock' = [lock EXCEPT ![g] = IF @ = Orphan THEN Free ELSE @]
      BY <1>32 DEF UsersEnd
    <2> QED BY <2>1, <2>2, <2>3, ChecksKill
  <1>33. CASE UNCHANGED vars
    BY <1>33 DEF vars, ChecksFit, CheckAt, Own, HeldByLaunch, Holder, Launching
  <1> QED
    BY <1>1, <1>2, <1>3, <1>4, <1>5, <1>6, <1>7, <1>8, <1>9, <1>10, <1>11, <1>12, <1>13, <1>14,
       <1>15, <1>16, <1>17, <1>18, <1>19, <1>20, <1>21, <1>22, <1>23, <1>24, <1>25, <1>26,
       <1>27, <1>28, <1>29, <1>30, <1>31, <1>32, <1>33
       DEF Next, Launch, Sweep, Cleanup, Maintenance

\* A check holds until it is acted upon, unless a launch took or lost the flock
\* meanwhile, or the lock file could not be opened, by the check or by a launch of
\* the game: for any number of launchers and games, nothing else spoils it
\* (gameRunning, savesBusy).
THEOREM ChecksHold == Spec => []ChecksHoldUnlessRaced
  <1>1. Init => ChecksFit
    BY DEF Init, ChecksFit, CheckAt, CheckPc, ActPc
  <1>2. ChecksFit => ChecksHoldUnlessRaced
    BY DEF ChecksFit, CheckAt, ChecksHoldUnlessRaced, ActPc
  <1> QED BY <1>1, <1>2, InitLockInv, NextLockInv, NextChecks, PTL DEF Spec

-----------------------------------------------------------------------------

\* What OneGamePerPrefix sees of the launches and of the processes.
Owner == [g \in Game |-> GrantedTo(g)]
Active == [g \in Game |-> g \notin lockless /\ users[g] # "none"]
Seen == <<Owner, Active, lockless>>

\* Where a launch has its grant.
GrantPc == QuietPc \cup {"tool", "play"}

\* A game is granted to one launch at most, and GrantedTo names it.
GrantsUnique ==
    \A g \in Game :
        /\ \A p \in Proc : Granted(p, g) <=> GrantedTo(g) = p
        /\ (\A p \in Proc : ~Granted(p, g)) => GrantedTo(g) = None

\* The flock makes the grants unique.
LEMMA LockInvGrants == LockInv => GrantsUnique
  <1> USE GameLocksAssumption
  <1> SUFFICES ASSUME LockInv, NEW g \in Game
               PROVE  /\ \A p \in Proc : Granted(p, g) <=> GrantedTo(g) = p
                      /\ (\A p \in Proc : ~Granted(p, g)) => GrantedTo(g) = None
    BY DEF GrantsUnique
  <1>1. CASE \A p \in Proc : ~Granted(p, g)
    BY <1>1 DEF GrantedTo
  <1>2. CASE \E p \in Proc : Granted(p, g)
    <2>1. GrantedTo(g) \in Proc /\ Granted(GrantedTo(g), g)
      BY <1>2 DEF GrantedTo
    <2>2. ASSUME NEW p \in Proc, Granted(p, g) PROVE p = GrantedTo(g)
      BY <2>1, <2>2, LockedLaunches DEF Granted, Holder
    <2> QED BY <2>1, <2>2, <1>2
  <1> QED BY <1>1, <1>2

\* A step that changes no grant ends the processes of one prefix at most.
LEMMA KeepMaps ==
  ASSUME GrantsUnique, GrantsUnique', TypeOK, NEW g \in Game, UNCHANGED lockless,
         \A h \in Game, q \in Proc : Granted(q, h)' <=> Granted(q, h),
         users' = users \/ users' = [users EXCEPT ![g] = "none"]
  PROVE  [Exclusion!Next]_Seen
  <1>1. \A h \in Game : GrantedTo(h)' = GrantedTo(h)
    BY DEF GrantsUnique
  <1>2. Owner' = Owner
    BY <1>1 DEF Owner
  <1>3. CASE users[g] = "none" \/ users' = users \/ g \in lockless
    <2>1. \A h \in Game \ lockless : users'[h] = users[h]
      BY <1>3 DEF TypeOK
    <2>2. Active' = Active
      BY <2>1 DEF Active
    <2> QED BY <1>2, <2>2 DEF Seen
  <1>4. CASE users[g] # "none" /\ users' = [users EXCEPT ![g] = "none"] /\ g \notin lockless
    <2>1. Active[g]
      BY <1>4 DEF Active
    <2>2. Active' = [Active EXCEPT ![g] = FALSE]
      BY <1>4 DEF Active, TypeOK
    <2>3. Exclusion!End(g)
      BY <1>2, <2>1, <2>2 DEF Exclusion!End, Owner, Active
    <2> QED BY <2>3 DEF Exclusion!Next
  <1> QED BY <1>3, <1>4

\* p moves on and keeps, or does not get, its grant.
LEMMA MoveMaps ==
  ASSUME TypeOK, GrantsUnique, GrantsUnique', NEW p \in Proc, NEW l \in Pc, Goto(p, l),
         pc[p] # "idle", UNCHANGED <<users, role, game, lockless>>,
         role[p] \in Launches => (pc[p] \in GrantPc <=> l \in GrantPc)
  PROVE  [Exclusion!Next]_Seen
  <1>1. game[p] \in Game
    BY DEF TypeOK
  <1>2. \A h \in Game, q \in Proc : Granted(q, h)' <=> Granted(q, h)
    BY DEF Goto, Granted, Holder, Launching, GrantPc, HeldPc
  <1> QED BY <1>1, <1>2, KeepMaps

\* The grants of p end, or it had none.
LEMMA ReleaseMaps ==
  ASSUME GrantsUnique, GrantsUnique', TypeOK, NEW p \in Proc, UNCHANGED <<users, lockless>>,
         \A h \in Game : ~Granted(p, h)',
         \A h \in Game, q \in Proc \ {p} : Granted(q, h)' <=> Granted(q, h)
  PROVE  [Exclusion!Next]_Seen
  <1>1. Active' = Active
    BY DEF Active
  <1>2. CASE \A h \in Game : ~Granted(p, h)
    <2>1. \A h \in Game : GrantedTo(h)' = GrantedTo(h)
      BY <1>2 DEF GrantsUnique
    <2> QED BY <1>1, <2>1 DEF Owner, Seen
  <1>3. ASSUME NEW g \in Game, Granted(p, g) PROVE Exclusion!Next
    <2>1. Owner[g] = p
      BY <1>3 DEF Owner, GrantsUnique
    <2>2. ASSUME NEW h \in Game, h # g PROVE GrantedTo(h)' = GrantedTo(h)
      <3>1. ~Granted(p, h)
        BY <1>3, <2>2 DEF Granted, Holder
      <3> QED BY <3>1 DEF GrantsUnique
    <2>3. GrantedTo(g)' = None
      <3>1. ASSUME NEW q \in Proc \ {p} PROVE ~Granted(q, g)
        BY <1>3, <3>1 DEF GrantsUnique
      <3> QED BY <3>1 DEF GrantsUnique
    <2>4. Owner' = [Owner EXCEPT ![g] = None]
      BY <2>2, <2>3 DEF Owner
    <2>5. Exclusion!Release(p, g)
      BY <1>1, <2>1, <2>4 DEF Exclusion!Release, Owner
    <2> QED BY <2>5 DEF Exclusion!Next
  <1> QED BY <1>2, <1>3

\* p passes both checks: nobody else holds its game.
LEMMA GrantMaps ==
  ASSUME LockInv, GrantsUnique, GrantsUnique', NEW p \in Proc, pc[p] = "inuse",
         Launching(p), ~PrefixInUse(game[p]), Goto(p, "snap"),
         UNCHANGED <<users, role, game, lockless>>
  PROVE  [Exclusion!Next]_Seen
  <1> DEFINE g == game[p]
  <1>1. g \in Game /\ TypeOK
    BY DEF LockInv, TypeOK
  <1>2. ASSUME NEW h \in Game, h # g \/ h \in lockless, NEW q \in Proc
        PROVE  Granted(q, h)' <=> Granted(q, h)
    BY <1>2 DEF Granted, Holder, Launching, Goto
  <1>3. CASE g \in lockless
    BY <1>1, <1>2, <1>3, KeepMaps
  <1>4. CASE g \notin lockless
    <2>1. Active' = Active /\ ~Active[g]
      BY <1>1 DEF Active, PrefixInUse
    <2>2. \A q \in Proc : ~Granted(q, g)
      BY <1>4, LockedLaunches DEF Granted, Holder, QuietPc
    <2>3. Granted(p, g)'
      BY <1>4 DEF Granted, Holder, Launching, Goto, LockInv, TypeOK, HeldPc, QuietPc
    <2>4. GrantedTo(g)' = p /\ GrantedTo(g) = None
      BY <1>1, <2>2, <2>3 DEF GrantsUnique
    <2>5. \A h \in Game : h # g => GrantedTo(h)' = GrantedTo(h)
      BY <1>2 DEF GrantsUnique
    <2>6. Owner' = [Owner EXCEPT ![g] = p]
      BY <2>4, <2>5 DEF Owner
    <2>7. Exclusion!Grant(p, g)
      BY <1>1, <1>4, <2>1, <2>4, <2>6 DEF Exclusion!Grant, Owner, Active
    <2> QED BY <1>1, <2>7 DEF Exclusion!Next
  <1> QED BY <1>3, <1>4

\* p starts a process in the prefix it was granted.
LEMMA BeginMaps ==
  ASSUME LockInv, PrefixStaysQuiet, GrantsUnique, GrantsUnique', NEW p \in Proc,
         pc[p] \in {"prepare", "ready"}, Launching(p),
         NEW u \in {"tool", "game"}, SetUsers(game[p], u),
         NEW l \in {"tool", "play"}, Goto(p, l), UNCHANGED <<role, game, lockless>>
  PROVE  [Exclusion!Next]_Seen
  <1> DEFINE g == game[p]
  <1>1. g \in Game
    BY DEF LockInv, TypeOK
  <1>2. \A h \in Game, q \in Proc : Granted(q, h)' <=> Granted(q, h)
    BY DEF Granted, Holder, Launching, Goto, HeldPc, QuietPc
  <1>3. Owner' = Owner
    BY <1>2 DEF GrantsUnique, Owner
  <1>4. CASE g \in lockless
    <2>1. Active' = Active
      BY <1>4 DEF Active, SetUsers
    <2> QED BY <1>3, <2>1 DEF Seen
  <1>5. CASE g \notin lockless
    <2>1. Active' = [Active EXCEPT ![g] = TRUE] /\ ~Active[g]
      BY <1>1, <1>5 DEF Active, SetUsers, PrefixStaysQuiet, QuietPc, LockInv, TypeOK
    <2>2. Granted(p, g)
      BY <1>5 DEF Granted, Holder, QuietPc
    <2>3. Owner[g] = p
      BY <1>1, <2>2 DEF Owner, GrantsUnique
    <2>4. Exclusion!Begin(p, g)
      BY <1>3, <2>1, <2>3 DEF Exclusion!Begin, Owner, Active
    <2> QED BY <1>1, <2>4 DEF Exclusion!Next, Exclusion!Begin
  <1> QED BY <1>4, <1>5

\* p goes on without its lock: its game is out of the promise.
LEMMA LoseMaps ==
  ASSUME TypeOK, GrantsUnique, GrantsUnique', NEW p \in Proc, pc[p] = "lock",
         Goto(p, "inuse"), lockless' = lockless \cup {game[p]},
         UNCHANGED <<users, role, game>>
  PROVE  [Exclusion!Next]_Seen
  <1> DEFINE g == game[p]
  <1>1. g \in Game
    BY DEF TypeOK
  <1>2. ASSUME NEW h \in Game, h # g \/ h \in lockless, NEW q \in Proc
        PROVE  Granted(q, h)' <=> Granted(q, h)
    BY <1>2 DEF Granted, Holder, Launching, Goto, QuietPc
  <1>3. CASE g \in lockless
    BY <1>1, <1>2, <1>3, KeepMaps
  <1>4. CASE g \notin lockless
    <2>1. \A q \in Proc : ~Granted(q, g)'
      BY DEF Granted
    <2>2. GrantedTo(g)' = None
      BY <1>1, <2>1 DEF GrantsUnique
    <2>3. \A h \in Game : h # g => GrantedTo(h)' = GrantedTo(h)
      BY <1>2 DEF GrantsUnique
    <2>4. Owner' = [Owner EXCEPT ![g] = None]
      BY <2>2, <2>3 DEF Owner
    <2>5. Active' = [Active EXCEPT ![g] = FALSE]
      BY <1>1 DEF Active
    <2>6. Exclusion!Lose(g)
      BY <1>4, <2>4, <2>5 DEF Exclusion!Lose, Owner, Active
    <2> QED BY <1>1, <2>6 DEF Exclusion!Next, Exclusion!Lose
  <1> QED BY <1>3, <1>4

\* p ends, with its grant.
LEMMA LeaveMaps ==
  ASSUME TypeOK, GrantsUnique, GrantsUnique', NEW p \in Proc, Reset(p), UNCHANGED users
  PROVE  [Exclusion!Next]_Seen
  <1>1. \A h \in Game : ~Granted(p, h)'
    BY DEF Reset, TypeOK, Granted, QuietPc
  <1>2. \A h \in Game, q \in Proc \ {p} : Granted(q, h)' <=> Granted(q, h)
    BY DEF Reset, Granted, Holder, Launching
  <1> QED BY <1>1, <1>2, ReleaseMaps DEF Reset

\* Every step of GameLocks is a step of OneGamePerPrefix or a stutter.
LEMMA NextMaps ==
  LockInv /\ LockInv' /\ PrefixStaysQuiet /\ GrantsUnique /\ GrantsUnique' /\ [Next]_vars
    => [Exclusion!Next]_Seen
  <1> SUFFICES ASSUME LockInv, LockInv', PrefixStaysQuiet, GrantsUnique, GrantsUnique', [Next]_vars
               PROVE  [Exclusion!Next]_Seen
    OBVIOUS
  <1> USE GameLocksAssumption DEF Pc, HeldPc, QuietPc, CheckPc, ActPc, GrantPc, Launches
  <1>t. TypeOK
    BY DEF LockInv
  <1>1. ASSUME NEW p \in Proc, Start(p) PROVE [Exclusion!Next]_Seen
    BY <1>1, <1>t, KeepMaps DEF Start, TypeOK, Granted, Holder, Launching, Goto, shared
  <1>2. ASSUME NEW p \in Proc, AcquireGameLock(p) PROVE [Exclusion!Next]_Seen
    <2>1. pc[p] = "lock" /\ UNCHANGED users
      BY <1>2 DEF AcquireGameLock
    <2>2. CASE Leave(p)
      BY <2>1, <2>2, <1>t, LeaveMaps DEF Leave
    <2>3. CASE Goto(p, "inuse") /\ UNCHANGED <<role, game, lockless>>
      <3>1. \A h \in Game, q \in Proc : Granted(q, h)' <=> Granted(q, h)
        BY <2>1, <2>3, <1>t DEF Goto, Granted, Holder, Launching
      <3>2. game[p] \in Game
        BY <2>1, <1>t DEF TypeOK
      <3> QED BY <2>1, <2>3, <1>t, <3>1, <3>2, KeepMaps
    <2>4. CASE /\ Goto(p, "inuse") /\ lockless' = lockless \cup {game[p]}
               /\ UNCHANGED <<role, game>>
      BY <2>1, <2>4, <1>t, LoseMaps
    <2> QED BY <1>2, <2>2, <2>3, <2>4 DEF AcquireGameLock
  <1>3. ASSUME NEW p \in Proc, CheckInUse(p) PROVE [Exclusion!Next]_Seen
    <2>1. pc[p] = "inuse" /\ Launching(p) /\ UNCHANGED users
      BY <1>3 DEF CheckInUse, Launching, LockInv, RolesFit, LaunchPc
    <2>2. CASE Exit(p)
      BY <2>1, <2>2, <1>t, ReleaseMaps DEF Exit, Reset, Granted, Holder, Launching
    <2>3. CASE ~PrefixInUse(game[p]) /\ Step(p, "snap")
      BY <2>1, <2>3, GrantMaps DEF Step, job
    <2> QED BY <1>3, <2>2, <2>3 DEF CheckInUse
  <1>4. ASSUME NEW p \in Proc, MountSquash(p) PROVE [Exclusion!Next]_Seen
    BY <1>4, <1>t, MoveMaps DEF MountSquash, Step, job
  <1>5. ASSUME NEW p \in Proc, MountOverlay(p) PROVE [Exclusion!Next]_Seen
    BY <1>5, <1>t, MoveMaps DEF MountOverlay, Step, Continue, job
  <1>6. ASSUME NEW p \in Proc, UseCopyMode(p) PROVE [Exclusion!Next]_Seen
    <2>1. pc[p] = "copy" /\ game[p] \in Game /\ UNCHANGED users
      BY <1>6 DEF UseCopyMode, LockInv, TypeOK
    <2>2. CASE Exit(p)
      BY <2>1, <2>2, <1>t, ReleaseMaps DEF Exit, Reset, TypeOK, Granted, Holder, Launching
    <2>3. CASE Continue(p, "copy", "prepare")
      BY <2>1, <2>3, <1>t, KeepMaps DEF Continue, Goto, Granted, Holder, Launching
    <2> QED BY <1>6, <2>2, <2>3 DEF UseCopyMode
  <1>7. ASSUME NEW p \in Proc, ReportMount(p) PROVE [Exclusion!Next]_Seen
    BY <1>7, <1>t, LeaveMaps DEF ReportMount, Exit
  <1>8. ASSUME NEW p \in Proc, StartTool(p) PROVE [Exclusion!Next]_Seen
    BY <1>8, BeginMaps DEF StartTool, Step, job, Launching
  <1>9. ASSUME NEW p \in Proc, AfterTool(p) PROVE [Exclusion!Next]_Seen
    BY <1>9, <1>t, MoveMaps DEF AfterTool, Step, job
  <1>10. ASSUME NEW p \in Proc, ReloadUmount(p) PROVE [Exclusion!Next]_Seen
    BY <1>10, <1>t, MoveMaps DEF ReloadUmount, Step, job
  <1>11. ASSUME NEW p \in Proc, ReloadMount(p) PROVE [Exclusion!Next]_Seen
    <2>1. pc[p] = "remount" /\ game[p] \in Game /\ UNCHANGED users
      BY <1>11 DEF ReloadMount, LockInv, TypeOK
    <2>2. CASE Step(p, "ready")
      BY <2>1, <2>2, <1>t, KeepMaps DEF Step, job, Goto, Granted, Holder, Launching
    <2>3. CASE Step(p, "cleanup")
      BY <2>1, <2>3, <1>t, ReleaseMaps DEF Step, job, Goto, TypeOK, Granted, Holder, Launching
    <2> QED BY <1>11, <2>2, <2>3 DEF ReloadMount
  <1>12. ASSUME NEW p \in Proc, PlayGame(p) PROVE [Exclusion!Next]_Seen
    BY <1>12, BeginMaps DEF PlayGame, Step, job, LockInv, RolesFit, LaunchPc, Launching
  <1>13. ASSUME NEW p \in Proc, AfterGame(p) PROVE [Exclusion!Next]_Seen
    BY <1>13, <1>t, ReleaseMaps
       DEF AfterGame, TypeOK, Granted, Holder, Launching, Step, Goto, job
  <1>14. ASSUME NEW p \in Proc, Snapshot(p) PROVE [Exclusion!Next]_Seen
    BY <1>14, <1>t, MoveMaps DEF Snapshot, shared, job
  <1>15. ASSUME NEW p \in Proc, ScanInUse(p) PROVE [Exclusion!Next]_Seen
    <2>1. pc[p] = "scan" /\ UNCHANGED <<users, role, game, lockless>>
      BY <1>15 DEF ScanInUse, shared, job
    <2>2. PICK l \in {"scan", "probe"} : Goto(p, l)
      BY <1>15, <2>1, <1>t DEF ScanInUse, Goto, TypeOK
    <2> QED BY <2>1, <2>2, <1>t, MoveMaps
  <1>16. ASSUME NEW p \in Proc, ScanProbe(p) PROVE [Exclusion!Next]_Seen
    <2>1. PICK l \in {"scan", "unlock", "umount"} : Goto(p, l)
      BY <1>16 DEF ScanProbe, ProbeLock, ProbeUnlock, Step
    <2>2. pc[p] \in {"probe", "unlock"} /\ UNCHANGED <<users, role, game, lockless>>
      BY <1>16 DEF ScanProbe, ProbeLock, ProbeUnlock, Step, job
    <2> QED BY <2>1, <2>2, <1>t, MoveMaps
  <1>17. ASSUME NEW p \in Proc, ScanUmount(p) PROVE [Exclusion!Next]_Seen
    BY <1>17, <1>t, MoveMaps DEF ScanUmount, Step, job
  <1>18. ASSUME NEW p \in Proc, NextDirectory(p) PROVE [Exclusion!Next]_Seen
    BY <1>18, <1>t, MoveMaps DEF NextDirectory, shared, job
  <1>19. ASSUME NEW p \in Proc, EndSweep(p) PROVE [Exclusion!Next]_Seen
    BY <1>19, <1>t, MoveMaps DEF EndSweep, Step, Continue, job
  <1>20. ASSUME NEW p \in Proc, CleanupWine(p) PROVE [Exclusion!Next]_Seen
    BY <1>20, <1>t, KeepMaps
       DEF CleanupWine, TypeOK, Granted, Holder, Launching, Step, Goto, job, SetUsers
  <1>21. ASSUME NEW p \in Proc, CleanupOverlay(p) PROVE [Exclusion!Next]_Seen
    BY <1>21, <1>t, MoveMaps DEF CleanupOverlay, Step, job
  <1>22. ASSUME NEW p \in Proc, CleanupSquash(p) PROVE [Exclusion!Next]_Seen
    BY <1>22, <1>t, LeaveMaps DEF CleanupSquash, Exit
  <1>23. ASSUME NEW p \in Proc, UmountKill(p) PROVE [Exclusion!Next]_Seen
    <2>1. pc[p] = "kill" /\ game[p] \in Game
      BY <1>23 DEF UmountKill, LockInv, TypeOK
    <2>2. CASE game[p] \in DirGame
      BY <1>23, <2>1, <2>2, <1>t, LeaveMaps DEF UmountKill, Leave
    <2>3. CASE game[p] \notin DirGame
      <3>1. /\ Goto(p, "umwine") /\ UNCHANGED <<role, game, lockless>>
            /\ users' = [users EXCEPT ![game[p]] = "none"]
        BY <1>23, <2>3 DEF UmountKill, SetUsers, job
      <3>2. \A h \in Game, q \in Proc : Granted(q, h)' <=> Granted(q, h)
        BY <2>1, <3>1, <1>t DEF Goto, Granted, Holder, Launching
      <3> QED BY <2>1, <3>1, <3>2, <1>t, KeepMaps
    <2> QED BY <2>2, <2>3
  <1>24. ASSUME NEW p \in Proc, UmountWine(p) PROVE [Exclusion!Next]_Seen
    BY <1>24, <1>t, MoveMaps DEF UmountWine, Step, job
  <1>25. ASSUME NEW p \in Proc, UmountMnt(p) PROVE [Exclusion!Next]_Seen
    BY <1>25, <1>t, LeaveMaps DEF UmountMnt, Leave
  <1>26. ASSUME NEW p \in Proc, BusyInUse(p) PROVE [Exclusion!Next]_Seen
    <2>1. pc[p] = "busy" /\ role[p] \notin Launches /\ UNCHANGED users
      BY <1>26 DEF BusyInUse, LockInv, RolesFit, OtherPc
    <2>2. CASE Leave(p)
      BY <2>1, <2>2, <1>t, LeaveMaps DEF Leave
    <2>3. CASE ~Leave(p)
      BY <1>26, <2>1, <2>3, <1>t, MoveMaps DEF BusyInUse, job
    <2> QED BY <2>2, <2>3
  <1>27. ASSUME NEW p \in Proc, BusyProbe(p) PROVE [Exclusion!Next]_Seen
    <2>1. PICK l \in {"refused", "bunlock", "ismount"} : Goto(p, l)
      BY <1>27 DEF BusyProbe, ProbeLock, ProbeUnlock, Step
    <2>2. pc[p] \in {"bprobe", "bunlock"} /\ UNCHANGED <<users, role, game, lockless>>
      BY <1>27 DEF BusyProbe, ProbeLock, ProbeUnlock, Step, job
    <2>3. role[p] \notin Launches
      BY <2>2 DEF LockInv, RolesFit, OtherPc
    <2> QED BY <2>1, <2>2, <2>3, <1>t, MoveMaps
  <1>28. ASSUME NEW p \in Proc, IsMount(p) PROVE [Exclusion!Next]_Seen
    <2>1. pc[p] = "ismount" /\ role[p] \notin Launches /\ UNCHANGED users
      BY <1>28 DEF IsMount, LockInv, RolesFit, OtherPc
    <2>2. CASE Leave(p)
      BY <2>1, <2>2, <1>t, LeaveMaps DEF Leave
    <2>3. CASE ~Leave(p)
      BY <1>28, <2>1, <2>3, <1>t, MoveMaps DEF IsMount, Step, job
    <2> QED BY <2>2, <2>3
  <1>29. ASSUME NEW p \in Proc, Done(p) PROVE [Exclusion!Next]_Seen
    BY <1>29, <1>t, LeaveMaps DEF Done, Leave
  <1>30. ASSUME NEW p \in Proc, Signal(p) PROVE [Exclusion!Next]_Seen
    BY <1>30, <1>t, ReleaseMaps DEF Signal, TypeOK, Granted, Holder, Launching, Step, Goto, job
  <1>31. ASSUME NEW p \in Proc, Crash(p) PROVE [Exclusion!Next]_Seen
    BY <1>31, <1>t, LeaveMaps DEF Crash
  <1>32. ASSUME NEW g \in Game, UsersEnd(g) PROVE [Exclusion!Next]_Seen
    <2>1. UNCHANGED <<pc, role, game, lockless>> /\ users' = [users EXCEPT ![g] = "none"]
      BY <1>32 DEF UsersEnd, SetUsers, job
    <2>2. \A h \in Game, q \in Proc : Granted(q, h)' <=> Granted(q, h)
      BY <2>1 DEF Granted, Holder, Launching
    <2> QED BY <2>1, <2>2, <1>t, KeepMaps
  <1>33. CASE UNCHANGED vars
    BY <1>33 DEF vars, Seen, Owner, Active, GrantedTo, Granted, Holder, Launching
  <1> QED
    BY <1>1, <1>2, <1>3, <1>4, <1>5, <1>6, <1>7, <1>8, <1>9, <1>10, <1>11, <1>12, <1>13, <1>14,
       <1>15, <1>16, <1>17, <1>18, <1>19, <1>20, <1>21, <1>22, <1>23, <1>24, <1>25, <1>26,
       <1>27, <1>28, <1>29, <1>30, <1>31, <1>32, <1>33
       DEF Next, Launch, Sweep, Cleanup, Maintenance

\* Locks and checks implement OneGamePerPrefix for any number of launchers and
\* games: every step of the code is a step of the abstract specification or
\* changes neither grants nor processes (acquireGameLock, mountImage, playGame).
THEOREM GrantsAreExclusive == Spec => GrantsExclude
  <1>1. Init => Exclusion!Init
    <2> SUFFICES ASSUME Init
                 PROVE  /\ Owner = [g \in Game |-> None] /\ Active = [g \in Game |-> FALSE]
                        /\ lockless = {}
      BY DEF Exclusion!Init, Owner, Active
    <2>1. \A g \in Game : GrantedTo(g) = None
      BY DEF Init, GrantedTo, Granted, QuietPc
    <2> QED BY <2>1 DEF Init, Owner, Active
  <1>2. Init => PrefixStaysQuiet
    BY DEF Init, PrefixStaysQuiet, QuietPc
  <1> QED
    BY <1>1, <1>2, InitLockInv, NextLockInv, NextQuiet, LockInvGrants, NextMaps, PTL
       DEF Spec, GrantsExclude, Exclusion!Spec, Owner, Active, Seen
=============================================================================

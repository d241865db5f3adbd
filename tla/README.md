# Verification of wsquashfs-launcher

`wsquashfs-launcher` (Go, `src/cmd/wsquashfs-launcher/`) runs Windows games that
are packed as `.wsquashfs` images or kept in `.pc` / `.wine` folders: it mounts
the image, lays a writable layer of saves over it, prepares a Wine or Proton
prefix, runs the game and undoes everything at the end.  This directory holds
TLA+ models of it, the TLC runs that check them and the theorems TLAPS proves.

Source lines below are relative to `src/cmd/wsquashfs-launcher/`.  How to run:
`tlc -config X.cfg M`, with the pairs of `PROJECT.json`; `tlapm M.tla` for each
module `*Proofs`.

## 1. Inventory

| Component | State | Operations | Interacts with | What is hard |
|---|---|---|---|---|
| Launch lock, stale mounts (`image.go`, `fs.go`) | `locks/<game>.lock` (flock), mount table, WINEPREFIX of the running processes | `acquireGameLock`, `gameLocked`, `prefixInUse`, `unmountAllStale`, `umountGame` | every launcher process of the machine, `--list`, `--clear`, `--clean` | check-then-act on shared state, SIGKILL, the game outliving its launcher |
| Exit path (`main.go`, `util.go`) | `exitOnce`, `signalGate`, `signalExiting`, `mounted`, `mountMode`, `attachStop` | `exitNow`, `die`, `cleanup`, signal goroutine, `stopAttachCommand` | main thread, ATTACH goroutine, Wine | three threads, locks taken inside `sync.Once`, a signal at any instant |
| Kernel overlay (`kernel.go`) | `ns/<pid>/` (game, pid, status), `nsPID` | `stageInNamespace`, `useKernelOverlay`, `nsLauncherPID` | a child launcher in a user namespace, `--umount` | a signal forwarded to a child that may not listen yet, fallback on failure |
| Mounts and copy (`mount.go`, `image.go`) | mount points, `.wsquashfs_cache` | `tryOverlayMount`, `useCopyMode`, `extractImage`, `reloadOverlay`, `--clean` | exit path, prefix | partial failure, a copy cut short, image replaced |
| Player's saves (`prefix.go`, `maintenance.go`) | prefix, links, library `saves/<system>/<game>` | `applySavedir`, `clearSaves`, `copyGameSaves` | the game | several steps that must not lose a file, wherever they stop |
| Saves layer (`maintenance.go`, `kernel.go`) | upper layer: files, whiteouts, opaque directories, in two formats | `cleanSaves`, `savesToKernelFormat` | both overlays, the game | the merged view must not change, wherever a conversion or a `--clean` stops |
| Installation (`setup_fs.go`, `setup_runtime.go`, `maintenance.go`, `setup.go`) | runners, components, images, the binary, each with `.new`, `.part`, `.old` beside | `installTree`, `copyFile`, `packPrefix`, `installGame`, `cmdUpdate`, `installRepoFile` | launches read what is installed | replacing in several steps, wrong downloads |
| Prefix (`prefix.go`, `launch.go`) | system32, `.update-timestamp`, registry | `preparePrefix`, `updatePrefixIfNeeded`, `syncWineStubs`, `linkRunnerComponents`, `linkRuntimeDlls` | Wine tools, overlay, what is installed | links of one launch are found by the next, under another runner or other settings |
| Layered settings (`layers.go`) | `machineVal`, `layerVal`, `envVal`, ... | `loadLayers`, `layerLookup`, `mergedEnv` | launch | precedence, empty values, removals |
| Runner choice (`runners.go`) | `wineBinary`, `imageRunner`, `umuRun`, ... | `selectRunner`, `findProtonRunner`, `versionLess` | prefix | a decision table of five steps, version order |
| Agent (`agent.go`, `agent_http.go`, `setup.go`) | `agent.json`, the port, `last`, `busy`, the doctor cache | `auth` and the routes, `idleWatchdog`, `serveAgent`, `--pair`, `--setup --agent` | trial, maintenance, systemd | requests against shutdown and against `--pair`, who owns the port |
| Trial (`trial.go`, `agent_http.go`) | the trial's process, its launcher | `trialRoute`, `runTrial`, `stopLauncher` | agent, launcher | time bounds that must add up, TERM then KILL |
| Controllers (`launch.go`) | `dsBridgePID`, `DisableHidraw` in the registry | `startDualsenseBridge`, `stopDualsenseBridge`, `writeHidrawSetting` | exit path, Wine tools | a helper process beside a signal |
| Arguments, configuration, packages of `--setup`, doctor | - | - | - | sequential, mostly input and output |

What makes each component correct:

- **Launch lock**: one launch of a game at a time, and none while processes of
  an earlier one still run; abandoned mounts go away, mounts in use stay; saves
  of a game in use are not deleted.
- **Exit path**: once, whatever the instant; nothing mounted, no process of the
  prefix left; no thread waits for another for ever.
- **Kernel overlay**: a game runs once per launch, in the namespace or in the
  fallback; its lock is held as long as it runs; a signal ends both launchers.
- **Mounts and copy**: the game sees the whole current image and nothing else;
  nothing is deleted through a mount.
- **Saves**: the game sees its newest saves after any sequence of links, clears
  and stops; `drive_c/users` survives `--clear`.
- **Saves layer**: only the game changes what the player sees in its files; the
  overlay of the kernel shows what fuse-overlayfs would.
- **Installation**: what has a name is whole, and what was there is not lost.
- **Prefix**: the game loads the DLLs its settings and its runner say, whatever
  earlier launches have left.
- **Trial**: one launcher at a time, an interrupted trial ends before the agent
  kills it, no launcher left behind, a report that is true.
- **Settings, runner**: the documented order of precedence.
- **Agent**: an accepted request is answered, nobody acts without the token.

The components meet in these places: the launch lock is taken before the mount
and inherited by the game (`GameLocks`, `KernelStage`); the exit path runs on
whatever the launch has mounted so far (`ExitPath`); the working copy is built
by one launch and found by the next (`GameTree`); a launch links what an
installation has put in place (`PrefixDlls`); a trial observes a launcher
that ends by the exit path (`Trial`, whose launcher is `ExitPath` in one step);
a trial is one of the requests the agent counts (`Agent`).

## 2. Modules

| Module | Models | Kind |
|---|---|---|
| `GameLocks` | the launches and maintenance commands of one machine | state machine |
| `OneGamePerPrefix` | what lock and process check promise together | abstract specification |
| `MCGameLocks` | symmetry of the processes, and a view of what their checks still hold | model checking |
| `ExitPath` | the threads of one launcher from the mount to `os.Exit` | state machine |
| `KernelStage` | host launcher, namespace launcher, `--umount` | state machine |
| `GameTree` | what a game sees in `wine/<game>` over many launches | state machine |
| `Trial` | agent handler, `--trial`, launcher, with time | state machine |
| `PlayerSaves` | a player's files over launches, `--clear`, `--saves` | state machine |
| `GameFiles` | when the files of a game may change | abstract specification |
| `SavesLayer` | one upper layer under two overlays, conversions and `--clean` | state machine |
| `MCSavesLayer` | paths and three images | model checking |
| `Installs` | how something new takes its place on the disk | state machine |
| `PrefixDlls` | one DLL of system32 over launches, beside an installation (extends `Installs`) | state machine |
| `MCPrefixDlls` | DLLs of every sort in prefixes of every sort | model checking |
| `Settings` | the five layers of autorun lines, `layerLookup`, the merge of `ENV=` | operators with a reference definition |
| `VersionOrder` | `versionLess`, with a reference order | operators |
| `RunnerChoice` | the steps of `selectRunner`, on the settings of `Settings` | state machine |
| `MCRunnerChoice` | keys, Protons and the launches to look at | model checking |
| `Agent` | requests, watchdog, `--pair`, `--setup --agent` on one port | state machine |
| `MCAgent` | two sets of histories | model checking |
| `GameLocksProofs`, `TrialProofs`, `PlayerSavesProofs`, `SavesLayerProofs`, `AgentProofs` | theorems about the module of that name | proofs |
| `MountProofs` | theorems about `KernelStage` and `GameTree` | proofs |
| `PrefixDllsProofs` | theorems about `Installs` and `PrefixDlls` | proofs |
| `LaunchProofs` | theorems about `Settings`, `RunnerChoice` and `ExitPath` | proofs |

Operators whose comment begins with "Mutant" are variants of the definition
below them with a plausible bug; `PROJECT.json` says which property each breaks.
`TypeOK`, `TreeTypeOK`, `RunnerTypeOK`, `PrefixType` and `PlaceType` say what the
variables hold; that of `GameLocks` is checked by a run, and most are proved (section
4).  Where two modules meet in one of proofs, the names of the second say whose they
are (`TreeInit`, `RunnerNext`).

### GameLocks

One process runs one command at a time (`role`, `game`) and is somewhere in it (`pc`).
`lock` is the owner of each flock.  Where the lock file cannot be opened (`OpenFails`)
`acquireGameLock` says yes all the same: `locked` says whether a launch has its lock,
`lockless` (history) of which games one went on without.  `users` says what runs with
the game's WINEPREFIX; `mounts` is the mount table.  Each action is one step between two
system calls another process can observe: taking the lock (`AcquireGameLock`), reading
`/proc` (`CheckInUse`, `ScanInUse`, `BusyInUse`), probing a flock and releasing the
probe (`ScanProbe`, `BusyProbe`), reading the mount table (`Snapshot`), one mount or
unmount.

`unmountAllStale` is the loop `Snapshot` / `ScanInUse` / `ScanProbe` /
`ScanUmount` over the two directories.  A launch skips the probe of its own game
(`lockedGame`); `--clear` runs the same sweep first.  `Crash` is SIGKILL: the
kernel drops the flock, unless the game inherited the descriptor (`Orphan`);
games of `SudoGame` are started by sudo, which closes it.  `raced` is a history
variable: a launch took or lost the lock of the game that is being checked.

`OneGamePerPrefix` says that a prefix is granted to one process at a time and
only when nothing runs in it, as long as no launch could not have its lock (`Lose`);
`GrantsExclude` is its refinement.  What a launch without its lock does to the others is
in the model, and the properties about exclusion say nothing of its game from then on.

### ExitPath

`main`, `sig` and `attachGo` are the three threads; `once`, `gate`, `attachMu`
are `exitOnce`, `signalGate` and `attachMu`; `cl` is where `cleanup` is, on
whichever thread runs it.  A wait (`Lock`, `wineserver -w`, a channel) is a
guard.  `setup` is the launch: what is launched (`Sources`), whether the overlay
is reloaded after the prefix was prepared, `--prepare`, ATTACH.  `bridge` is the
DualSense bridge, which the main thread starts and waits for 3 s at most, and
`bridgePID` what `cleanup` knows of it.  After `os.Exit` nothing moves.  The
namespace is not part of it.

### KernelStage

`host` and `child` are the two launchers, each with its signal goroutine; `nsPID` is
what the host's handler reads, `dir` and `status` the exchange directory, `lockers` the
processes that hold a descriptor of the lock (squashfuse_ll inherits it, a game that
root or sudo starts in the fallback does not: `Play`, under `sudo`, where the namespace
is not tried at all).  `second` is another launch of the game, which takes the lock once
nobody holds it (`SecondLock`) and then looks whether a game runs (`SecondCheck`):
`SecondLaunchAlone` says of the two steps together what neither lock nor check gives by
itself.  `locked` is FALSE when the lock could not be had.  A child in `"exec"` dies of
SIGTERM at once, later it catches it.  `forced` is `WSQUASHFS_OVERLAY=kernel`; with
`full` whatever is written to the exchange directory may be lost, since no result is
looked at.  `killed`, `told`, `early`, `played` are history.  The exit of a launcher is
one step here.

### GameTree

One game.  `image` is the number of the image file that has the name now;
`copy` gives for each part of the working copy the image it comes from and
`marker` the image whose signature `.wsquashfs_cache` holds, if it could be written
(`WriteMarker`: the code ignores the result); a signature (path, size, date in seconds)
is taken to tell the images apart; `lower` is the
lower layer of the overlay on `wine/<game>`, which hides the copy.  Removal and
copy go file by file, so a launch can end in the middle.  `traits` says what a
history may meet: which of folder, reload, `--clean`, replaced image, crash and held
mount.

### Trial

Time in units of 5 s: `TermWait` 1 (`trial.go`: 5 s), `ExitWait` 6 (30 s), `KillWait` 4
(20 s), `StopDelay` 12 (60 s), `Margin` 36 (180 s).  `Tick` passes one unit when nobody
has anything to do; steps that wait for nothing take no time.  `handler` and `clock` are
the agent's request and its context; `trial` and `timer` are `runTrial`; `launcher`,
`late`, `procs`, `mounts` what it started.  `place` is who runs the launcher: the
process the trial started, trying the kernel's overlay (`"try"`) or on fuse-overlayfs
(`"fuse"`), a launcher in a namespace under it (`"ns"`), or one whose host is gone
(`"orphan"`).  SIGKILL ends only the host (`KillStarted`), and SIGTERM may end it alone
too (section 5); what is mounted in the namespace is not seen by the trial.  `Hang` is
an xprop or grim that takes all the time the handler has: these two calls have no bound
in the code.  `late` is a launcher whose main thread goes on after a SIGTERM (see
`ExitPath`).

### PlayerSaves

A save is the date it was written.  `tree` holds the files outside
`drive_c/users` in the prefix, `link` those that are links to `library`, `users`
the profile, `stash` the `.users` of `--clear`, `copied` what `--saves` wrote;
`ResetSaves` is that of `--pack`.
The steps of `applySavedir` (`CopyFile`, `RemoveFile`, `LinkDir`; `MoveFile`,
`LinkFile`) and of `clearSaves` are actions, so either may stop between two.
`newest` and `newestUser` are history: what the game should see.  `faults` is
history too: a `cp` that failed, a `--clear` that was interrupted.

### GameFiles and SavesLayer

`upper` is what the layer holds under each path, `"chr"` being a whiteout of
either overlay; `dots` are the `.wh.` files of fuse-overlayfs and `opaque` the
three marks of an opaque directory.  `FuseShows` and `KernelShows` read them the
way each overlay does.  `Write`, `Delete` and `MakeDirectory` are the game's;
`StartConversion` to `DropDotFile` are `savesToKernelFormat`, file by file;
`StartClean`, `CleanFile`, `EndClean` are `cleanSaves`.  `Interrupted` ends
either anywhere, and `FallBack` is a launch that goes on with fuse-overlayfs.
The code walks a list it made before (`todo`, `whiteouts`), in no order.

`GameFiles` says that files change only while somebody plays, one name at a time, or
with the image.  `KeepsTheFiles` is its refinement: conversion, `--clean`, fall back
and everything that is interrupted are stutters for the player.

### Installs and PrefixDlls

`Installs` follows one thing, of nine kinds, over many attempts: `dst` under its
name, `fresh` and `old` beside it, each nothing, a part, a version, or something
`Damaged`.  The steps are those all the ways share (`drop old`, `aside`, `in`,
`back`, `tidy` of `installTree`; `copy` to `in` of what is written beside and
renamed; `copy` of what is copied where it belongs), and `First`, `Installed`,
`Verified` say where they differ.

`PrefixDlls` is one name in system32: `upper` in the layer that is written,
`Shown` what Wine sees.  A launch goes through `clearGeneratedSystemDlls`, the
settings, `initPrefixIfNeeded`, `updatePrefixIfNeeded` (`stamp` is the date of a
`wine.inf`, which a runner may lack and two may share), the stubs, the runner's
and the component's links in the order of the code, one action per change, with
a kill after each.  `case` is which DLL in which prefix.  `Loaded` is what the
override of `configureDllOverrides` makes of it.  What the link leads to is an
`Installs`, which goes on meanwhile.

### Settings, VersionOrder and RunnerChoice

`Settings` has the layers of `loadLayers`, weakest first, as sequences of lines.
`LayerLookup` and `WineEnv` are the code's; `Promised` and its like say what
README.md promises, without a reference to how the code walks the layers.

`RunnerChoice` is one launch: `pc` goes through `readAutorun`, then the five steps
of `selectRunner` in their order, `ensureWin32Runner` and `buildRunCommand`.  The
variables have the names of the code's package variables (`wineBinary`,
`imageRunner`, `runnerKey`, ...).  `host` is the machine: which runners the image
and the machine have, the prefix, `--wine`, whether `umu-run` is there.  A launch
that dies goes to `"refused"`.  `Blank` is the empty value, the code's `""`.  The
Protons of a machine have a path (`Path`) and, most of them, a family; among those of a
family `LastVersion` chooses, and if there is none of any family the first one that was
found (`host.first`) is taken.  `VersionLess` is the code's loop over two paths, `Earlier`
says by words and numbers, without it, what the loop should tell: a number is one word,
worth its value, any other character another.  `Newest` is stated with `Earlier`;
`Substitute` is `Newest` in a family, the first one found without.

### Agent

`port` says who listens: nobody, the socket of systemd, or the detached agent
`--pair` starts.  A request goes from `"queued"` (in the socket, no agent yet) or
`"accepted"` through `Begin` (`auth`, which reads `agent.json` anew) to its route,
and `"flush"` is the answer net/http still has to write after `busy` went down.
`WatchIdle`, `WatchBusy`, `Shutdown` are the two reads and the call of
`idleWatchdog`, one step each.  `--pair` saves twice when it resets the token
(`Save`).  `known`, `asked`, `since` and `issued` are history: what a client could
know when it sent its request, and which requests began after the watchdog had
decided.  `bound` picks the bounds of a history once.

## 3. Runs

| Run | Bounds | Shows |
|---|---|---|
| `locks` | 2 processes, an image game under sudo, whose lock file may fail to open, and an installed folder, all commands, SIGTERM and SIGKILL | one launch of a game past its lock; a checked prefix stays quiet; lock and check implement `OneGamePerPrefix`; a check holds until a launch moves |
| `locks_sweep` | 2 processes, 2 games, launches and `--mount`, no signal, every lock file opens | an abandoned mount that a sweep finds is unmounted |
| `exit` | image, `.pc`, `.wine`; reload, `--prepare`, ATTACH, DualSense bridge or not; a signal at every instant | nothing left mounted, ATTACH stopped once, no helper left, a signal during the game stops it and ends the launcher |
| `stage` | SIGTERM, SIGKILL of either launcher, `--umount`, a second launch, a full disk, sudo, no lock | played once, a second launch is let in only after the first one's game and launchers, what is told to stop stops |
| `tree` | 2 parts, 3 images, three sets of traits | the game sees the whole current image; nothing is deleted through a mount; saves of a copy stay |
| `trial` | 2 requests, 10 s, lost trials, launchers on either overlay | one launcher, waits that add up, a true report, the launcher ends, unless it was left in its namespace |
| `saves` | 2 files, 4 dates after the image's, five sets of traits | newest saves seen, users kept, whole copies |
| `saves_files` | 1 file, SAVEFILES in an overlay | finding: the save is removed without having been copied |
| `layer` | a directory with a file and a directory that holds a file; 2 contents, 3 images, one replacement | only the game changes its files; the kernel shows what fuse-overlayfs would; `--clean` leaves no duplicate |
| `rendering` | 7 sorts of DLL, 48 prefixes, 2 Wines and umu, with any `wine.inf` missing or of another's date; 9 things to install, 2 versions | what is asked for is loaded, what is not is not; no DLL of another runner; what is installed is whole and not lost |
| `runner` | three studies: one key over all mixtures of the layers, `ENV=` with removals, all launches of `MCLaunches` | the documented precedence; the runner that was asked for runs; a prefix stays with what made it, else the newest of the family, of no family the first found; `versionLess` is a strict weak order, and that of `Earlier`, on all paths of up to 3 characters |
| `agent` | 2 requests; either three routes and two machines, or 2 tokens and `--pair` at any time; idle limit and cache life of 1 turn | only idle agents stop, and do; only replaced tokens are refused; `refresh=1` is fresh |

Why the bounds are enough.  In `GameLocks` every race involves one process that checks
and one that moves, and two games let each sweep the other's mounts; the view of
`MCGameLocks` forgets of a process only what its last check found, which nothing reads
before the next one writes it; the theorems remove the bound for exclusion and quiet
prefixes.  `ExitPath` and `KernelStage` have no bound: one launch is a finite protocol.
In `GameTree` two parts make a partial copy and three images make an old, a current and
a next one; more parts or images only repeat these.  In `Trial` the property is about
sums of waits, which `Duration` enters once; two requests are needed for a launcher left
by the one and found by the other.  In `PlayerSaves` two files make a directory that is
half moved, and four dates allow a save before and after two commands.  `RunnerChoice`
is a decision table: the launches are all combinations of what its conditions read.  In
`SavesLayer` a name has at most two directories above it: a mark matters on the one next
to it and on one further up; one replacement of the image makes a file of the saves
equal to the image's, or different from it.  In `PrefixDlls` a name meets no other one;
the sorts are all that its conditions tell apart, and two runners and two settings in
turn leave everything a launch can find; missing and equal dates are tried with a DLL
that one Wine has and the other has not, whose link nothing else replaces; an
installation runs next to launches for a component, for what is copied in place and for
a runner.  Two versions are one that is there and one to install.  In `Agent` a race is
between two requests, or one and the watchdog or `--pair`; limits of one turn let a
request fall before and after them (12 and 60 turns in the code), two tokens make an old
and a new one.

Fairness.  `GameLocks`: a running sweep goes on (no call in it waits for another
process).  `ExitPath`: each thread of a running process goes on.  `KernelStage`:
both launchers go on.  `Trial`: time passes, agent and trial go on, xprop and grim
return or hang; nothing of the launcher.  `Agent`: time passes, systemd starts the
service a connection waits for, watchdog and handlers go on; the work of a request
takes as long as it takes.  The other modules state safety only and assume none.
Nothing is ever assumed of games, tools, clients, users and signals.

### Finding

- `saves_files`: the result of `os.Rename` is ignored, across file systems it
  fails, and the file is then removed (`prefix.go:665`, against `prefix.go:629-630`).

## 4. Proofs

Each theorem holds for every value of the constants that the assumption of its
module allows: any processes and games, requests, tokens, files, versions, paths,
images, durations, keys, lines and words of settings, Protons and machines.  The
assumptions say what the constants are; six say more:

- `AgentAssumption`: the requests are finitely many, so that `busy` can count them;
- `LayerAssumption`: an image is a tree, and a path leads elsewhere than its name
  says only through a directory that is a link;
- `CasesAssumption` (`PrefixDlls`): the cases are of the sorts the launcher tells apart;
- `ProtonAssumption`: the Protons of a machine are finitely many, so that there is a
  last one, and each has a path;
- `RenameWorks`, the hypothesis of `NewestIsSeen`: SAVEFILES is not used on an overlay,
  where the property does not hold (finding `saves_files`);
- `SafeHistories`, the hypothesis of `ShowsImage`: in the other histories the property
  does not hold (section 5: an image replaced while it is used, a reloaded `.pc`
  folder, and a command that is cut short while it deletes a copy below its marker,
  which is `--clean`, or a launch if somebody held the mount that hid the marker).  A
  folder has no copy and is allowed every crash.  The three sets of traits of the run
  `tree` satisfy it.

| Theorem | States | Rests on |
|---|---|---|
| `TypeCorrect`, `LaunchExclusion` | `TypeOK`, `OneLaunchPerGame` | `LockInv` |
| `PrefixesStayQuiet` | `PrefixStaysQuiet` | `LockInv` and itself |
| `ChecksHold` | `ChecksHoldUnlessRaced` | `LockInv`, `ChecksFit` |
| `GrantsAreExclusive` | `GrantsExclude` (refinement of `OneGamePerPrefix`) | `LockInv`, `PrefixStaysQuiet` |
| `AttachStopClosedOnce`, `NothingMountedAtExit`, `SignalStops` | `AttachClosedOnce`, `NothingLeftMounted`, `SignalStopsGame` | `ExitInv` |
| `GamePlayedOnce`, `SecondIsAlone`, `HostWaits`, `StoppedIsTrue` | `PlayedOnce`, `SecondLaunchAlone`, `HostWaitsForChild`, `StoppedMeansStopped` (of a step) | `StageInv` |
| `ShowsImage` | `PlaysTheImage` | `ShowInv` |
| `DeletesOnlyOld` | `DeletesOnlyOldCopies` (of a step) | `TreeInv` |
| `StrongestLayerWins`, `EnvIsMerged` | `StrongestWins`, `EnvMerged` | `LayersInv`, `EnvInv` |
| `VersionsAreOrdered`, `VersionsAreWords` | `versionLess` is a strict weak order, and the order of `Earlier` | induction over the places of two and three paths |
| `RunnerAsked`, `PrefixGoesOn` | `AskedRunnerRuns`, `PrefixKept` | `RunnerInv`, `Unasked` |
| `OneLauncherAtATime`, `WaitsFitTheAgent`, `ReportStaysTrue` | `OneTrialLauncher`, `WaitsAddUp`, `ReportIsFinal` | `TrialInv` |
| `NewestIsSeen`, `ProfileIsKept`, `CopyIsUpToDate` | `SeesNewest`, `UsersKept`, `UpToDate` | `FilesFit`, `ProfileFits`, `CopyFits` |
| `KernelShowsTheSame`, `CleanLeavesNoDuplicate` | `KernelSeesTheSame`, `NoDuplicateLeft` | `LayerInv` |
| `FilesAreKept` | `KeepsTheFiles` (refinement of `GameFiles`) | `LayerInv` |
| `NamesAreWhole`, `VersionIsKept` | `NameMeansWhole`, `StaysInstalled` | `InstallInv` |
| `ComponentLoads`, `UnaskedStaysOut`, `RunnersDllsOrGames` | `AskedIsLoaded`, `OffMeansOff`, `RunnersOrGames` | `LinkInv`, `InstallInv` |
| `IdleStopOnly`, `TokensAreMeant`, `RefreshAnswers` | `StopsOnlyIdle`, `TokensMean`, `RefreshIsNew` | `AgentInv` |
| `ExitTypeCorrect`, `StageTypeCorrect`, `TreeTypeCorrect`, `TrialTypeCorrect`, `SavesTypeCorrect`, `LayerTypeCorrect` | `TypeOK` of each module | the same |

Why each invariant is needed:

- `LockInv`: `OneLaunchPerGame` alone is not inductive, since a launch could release a
  lock it does not own.  Each role stays in its own part of the program (`RolesFit`),
  and who is past the lock, or holds a probe, owns the flock it is about (`LocksFit`);
  two launches of a game would both own its lock.  `PrefixStaysQuiet` follows because
  only the owner starts processes in a prefix.  `ChecksFit` says for each probe, check
  and decision what of it is still true; a lock that changes hands sets `raced`.
- `ExitInv`: who holds `exitOnce` and `signalGate` at each point (`HoldersFit`), so that
  `cleanup` never runs beside a gated mount; what is mounted by then (`MountsFit`); a
  channel set to nil means that the ATTACH goroutine is over (`AttachFit`); what
  `cleanup` has stopped is not started again (`StopsFit`).
- `StageInv`: who may still play, by where host, child and status are (`PlaysLeft`,
  `StagesFit`): a child that has not written "ready" has not played.  Launchers, and games
  that no sudo started, hold the lock, and the second launch is let in with the lock and
  no game there (`GamesFit`); a host that exits was told to, or has reaped its
  child (`ExitsFit`).
- `TreeInv`, `ShowInv`: a marker and a copy are looked at by one launch and were left by
  another one, which may have ended anywhere.  `TreeInv` says where a launch can be
  while something is mounted over the copy, and that a copy is removed or filled without
  a marker; a copy is removed with nothing over it.  A copy whose marker could not be
  written is removed like a part of one.  `ShowInv` adds that a marker stands for a
  whole copy, or for an older image than that of the launch, so that a part of a copy is
  never taken for the image (`CopyFits`), and that a launch opens, mounts and mounts
  again the one image it was given (`WantedFits`).
- `LayersInv`, `EnvInv`: after each layer, `layerVal`, `layerSrc` and `envVal` are what
  the strongest of the layers read so far says.  `layerLookup` and `mergeEnvLayer` go
  word by word, and the promise speaks of the last word about a variable: that they
  agree on a line of any number of words is shown by induction on the number of words
  that count.
- `RunnerInv`: at each step of `selectRunner` the runner is the one asked for, or what an
  exception makes of it (`Choosing`).  It needs that the keys are those of the layers, or
  the single runner of the image (`KeysRead`), and what the prefix and `--wine` ask for
  (`PrefixSeen`, `ForcedSeen`).  `Unasked` is its counterpart for a launch without a
  wish: the Proton of the prefix, else the newest of the family, else the first found;
  that a family has one
  which none is later than (`LastIs`) follows from the order of `versionLess` by
  induction on the number of Protons.
- `TrialInv`: the clock of the agent is always ahead of the sum of the waits a trial has
  left (`TimeFits`), which is `WaitsAddUp` at every point of a trial instead of at
  its end; one slot (`SlotFits`) and the check before the start (`LaunchersFit`) leave one
  launcher.
- `FilesFit`: the newest save is in the library once the library has the file, and in
  the prefix before; no step of `applySavedir` or `clearSaves` removes it from the one
  before it is in the other.  `ProfileFits`: where the profile is, by the step of
  `--clear`.  `CopyFits`: what `cp` has read while a game saved is older than the save.
- `LayerInv`: the saves are a tree (`TypeOK`), a `.wh.` file lies in one of its
  directories (`DotsFit`), the lists the conversion walks are those of the marks there
  are (`ConversionFits`), the kernel mounts what is converted (`KernelFits`,
  `MarkFilesGone`), and what
  `--clean` passed over is no duplicate (`CleanFits`).  For the refinement, each step of
  a conversion replaces a mark by one that shows the same (`MarksShowTheSame`), and a
  step of the game changes what is seen under one name and below it (`GameWrites`).
- `InstallInv`: what is beside and what is under the name at each step, checked material
  apart from unchecked (`SourceFits`, `NameFits`), and which of the two is a version
  when a rename fails, or a kill comes, or both (`KeepsOne`).
- `LinkInv`: what a link under the name may lead to at each point of a launch, by the
  setting (`OnFits`, `OffFits`), the runner and `.update-timestamp` (`StampFits`: a date
  only one runner has tells whose the links are).
  `InstallInv` says that what is linked is there.
- `AgentInv`: `busy` is the number of requests let in (`CountFits`); after the watchdog
  has decided, all of them came later (`IdleFits`); tokens only grow, and the one in
  memory is never behind the file (`TokensFit`).

Most of these were invariants of a TLC run before they were proved.  The model modules
that have theorems, and the proofs, use nested `IF` or a disjunction for a choice among
several values, never the expression `CASE`, because TLAPS 1.4.5 does not distinguish its
later arms reliably.

Induction. The operators of `Settings` and `VersionOrder` are folds and recursive
functions over sequences. TLAPS cannot use the library's induction theorem, whose
parameter is a predicate; `SetInduction` states the same of a set of numbers, from the
well-foundedness of `<`, and the lemmas about folds cite it with the set of the
numbers that satisfy the claim.
So do those about `VersionLess`, whose steps are of different lengths: a digit leads to
the end of its number.  From any two places the loop does one of three things
(`ComparesAt`), and so does `Earlier` from the words that begin there (`EarlierSteps`);
the induction is on what is left of the first path.  That a comparison exists at all
(`ComparisonExists`), as the recursive function needs, is shown the same way.

Only model-checked is liveness, which is out of the prover's reach:
`AbandonedIsUnmounted`, `SignalInGameExits`, `TermDuringGameEnds`, `LauncherEnds`,
`IdleStops`.

## 5. Not modelled, and weaknesses the runs leave out

Left out, with the reason in `PROJECT.json`: arguments and configuration, the
packages, prompts and desktop entries of `--setup`, doctor (sequential input and
output); of the prefix, registry writes, `.reg` files and links of the user's
profile, which every launch writes anew; of the controllers, the choice between
XInput and hidraw; of an installation, two at once on one name (two `--pack` or
`--update` share `.part` and `.new`), renames that fail twice, and a removal that
fails.  The models do show the following, and the properties above except them,
each by a condition or a bound that names it:

- a launch that cannot open its lock file goes on without the lock
  (`image.go:403-409`): two launches of the game run together then, beside each other's
  mounts, sweeps and checks (`locked`, `lockless` in the properties of `GameLocks`,
  `locked` in `SecondLaunchAlone`);
- `--clear` checks once and deletes without the lock (`maintenance.go:343`): a
  launch in between plays on saves being deleted (`raced` in `ChecksHoldUnlessRaced`);
- a sweep can unmount the overlay a new launch has just mounted, between its
  probe and its unmount (`raced` in `ChecksHoldUnlessRaced`); two commands that
  only probe a lock see each other as a launch;
- `extractImage` and `reloadOverlay` mount outside `signalGate`: a signal then
  leaves `mnt/<game>`, or the overlay, mounted (`mode`, `reloads` in
  `NothingLeftMounted`); the next sweep removes them;
- `wineserver -w` in `cleanup` waits for a game the main thread started after the
  signal (`SignalInGameExits` is about signals during the game);
- `signalExiting` is read only after the game (`launch.go:779`): a signal before it
  lets the main thread start the game while `cleanup` runs;
- a `.wine` folder never sets `mounted`: a signal ends its launcher and leaves the
  game (`mounted` in `SignalStopsGame`), against the comment of `cleanup`;
- a signal between the start of the DualSense bridge and the line that stores its pid,
  or before the main thread starts it, leaves it to end by itself (`--parent`;
  `GamePhase` in `SignalStopsGame`); `dsBridgePID` stays set when the bridge ends by
  itself, and is then signalled whosever pid it is by now;
- a child stopped before it wrote "ready" is taken for a refused namespace
  (`kernel.go:214`): a launch told to stop plays in the fallback, once (`PlayedOnce`);
- `nsPID` is stored after `cmd.Start`: a signal in between ends the host alone
  (`early`); `squashfuse_ll` inherits the lock's descriptor; with a full disk the
  status is lost and the game is played again, after a SIGTERM too (`full`);
- a `.pc` folder is mounted again over `mnt/<game>`, which is empty, when its overlay
  is reloaded (`mount.go:109`, against `image.go:201`): the game sees its saves alone
  (the traits "folder" and "reload" are not combined in the run);
- a working copy whose marker could not be written (a full disk, `image.go:260`) is
  whole and played, and the next launch deletes it with the saves in it
  (`marker = Nothing` in `DeletesOnlyOldCopies`);
- an interrupted `--clean` leaves the marker with a part of the copy, and so does an
  interrupted launch that removes a copy whose marker a held mount had hidden; an image
  replaced during its copy gives its signature to the old content (the traits "clean"
  or "hold" with "crash", but for a folder, and "replacedWhileUsed" are not in the run);
  an overlay somebody holds hides the marker (`Has("hold")` in `DeletesOnlyOldCopies`);
- a file `.wh.n` that a fuse-overlayfs which died left beside `n` hides nothing
  (`kernel_test.go:48`) until `--clean` removes `n`, and then hides the image's
  (`torn`); a file below a directory that is a link in the image is compared with
  what the link leads to (`maintenance.go:160`; `BelowLink`);
- d7vk and VKD3D-Proton stay active once they are switched off where nothing clears
  system32: their link is not removed and has no override (README.md:255-256;
  `OffMeansOff`);
- links of another runner stay if it or the new one has no `share/wine/wine.inf`
  (`prefix.go:549`), if the `wine.inf` of another runner has the same date, in seconds
  (`prefix.go:556-558`), after an update that failed, and with the stamp "disable", as
  do those packed into the image (`RunnersOrGames`); clearing the upper system32 of a
  packaged prefix also removes a DLL the game installed there; on fuse-overlayfs the
  links to icu hide the image's own DLL, on the kernel's not (`case.extra`);
- `X.new` and `X.old` of an installation that was killed are taken for installed, and
  a copy of the FSR4 DLL or of `umu-run` cut short too (`Installed`, `Place`); GitHub
  may have no digest, and `installRepoFile` compares with nothing (`"unchecked"`); a
  Wine runner without `bin/wine` is noticed when it has replaced the old one;
- `LastVersion` compares whole paths: a directory weighs more than a version
  (`Newest` is about one directory); if no Proton is of the three families the first
  directory found is taken, be it the oldest (`runners.go:290`; `Substitute`);
- `--setup --agent` calls `--pair`, which starts a detached agent on the port the
  socket is to listen on (`setup.go:352`, `agent.go:274-276`, against
  `docs/agent.md:20-22`): until the next start of the machine there is no socket, and
  that agent never ends by itself (`port` in `IdleStops`);
- a hanging xprop or grim leaves the launcher behind (`hung`);
- a trial kills only the process it started (`trial.go:372`): on the kernel's overlay
  that is the host, the launcher in the namespace (`kernel.go:185-201`) goes on, and may
  start its game after the report; so it does when a SIGTERM ends the host alone
  (`"orphan"` in `ReportIsFinal` and `LauncherEnds`);
- `--pack` over an image resets its saves on request and replaces it without looking
  whether the game runs (`maintenance.go:852`; the fault "reset" in `PlayerSaves`);
- a `cp` that fails half-way loses a save of SAVEDIR or leaves a copy of `--saves`
  that looks up to date; an interrupted `--clear` loses the profile in `.users`
  (`faults`);
- without `umu-run`, or with only `/usr/local/bin/proton`, an image without a prefix
  runs under the default Wine whatever was asked for (`runners.go:563-566`); a runner
  that cannot run a 32-bit prefix is replaced, `umuRun` is not (`launch.go:319`); a Wine
  of the image that `PROTON=` names (README.md:338-340) is taken for a Proton that
  does not work, and the default Wine runs, unless the prefix is a Proton's
  (`runners.go:550`, `563-566`); all three are in `Excused`;
- the line `ENV=x=1 -x` sets `x` when it is the only layer and not when layers are
  merged (`layers.go:127`; `Undone` in `Settings`);
- a request that begins between the watchdog's look and `Shutdown` is cut (`since`
  in `StopsOnlyIdle`), and so is the end of an answer still being written, since
  `Serve` returns at once and `serveAgent` ends the process.

Assumed: one `--pair` at a time (`agentInit` writes back what it has read, so that
one next to a `--pair --reset` could bring the old token back); the status file can
be written (else the game is played twice); a game writes its saves in place (one
that renames over its file replaces the link of SAVEFILES, and the next launch
removes the new save); the date of a file is when it was saved; the exit of a
launcher is one step in `KernelStage` and `Trial`.  Under sudo only the variables
`runAsTargetUser` lists reach the game (`launch.go:603`): `WineEnv` is what the
launcher sets in its own environment.

## 6. State of the plan

Every component of section 1 but the sequential ones is modelled, as far as the notes
of `PROJECT.json` say, and every safety property that a run checks is proved, the two
refinements among them.  What would come next: action properties the runs do not state
yet (a lock is released by who took it or by the kernel, `newest` never goes back), and
what `Value` is worth digit by digit: the theorems about `versionLess` take it as the
number both sides compare.

------------------------------- MODULE ExitPath -------------------------------
(***************************************************************************)
(* One launcher process outside any namespace: its main thread, its signal *)
(* goroutine and its ATTACH goroutine, from the mount to os.Exit.  They    *)
(* share exitOnce, signalGate, attachMu, the mounted flag and the channel  *)
(* attachStop; cleanup runs once, on whichever thread exits first, while   *)
(* the others go on until os.Exit.                                         *)
(***************************************************************************)
EXTENDS Naturals

CONSTANT Sources  \* what may be launched: "image", "pc" (a folder under an overlay),
                  \* "wine" (a folder that runs in place)

ASSUME ExitPathAssumption == Sources \subseteq {"image", "pc", "wine"}

VARIABLES
    setup,      \* the launch: its source, reloads (DLLs need a remount: no umu
                \* runner), prepare (--prepare), attach (an ATTACH= command)
    main,       \* where the main thread is
    sig,        \* where the signal goroutine is
    pending,    \* a signal waits in the channel
    exiting,    \* signalExiting
    gate,       \* holder of signalGate
    once,       \* thread running the body of exitOnce
    cl,         \* where cleanup is
    attachMu,   \* holder of attachMu
    stopChan,   \* attachStop: nil, or a channel open
    closed,     \* how often the current attachStop channel was closed
    attachGo,   \* the ATTACH goroutine
    bridge,     \* the DualSense bridge; "ended": or told to end
    bridgePID,  \* dsBridgePID is not 0
    mounted, mode,
    mounts,     \* what this launcher's mount points hold
    wine,       \* processes in the prefix
    sigAt,      \* history: where main was when the signal was taken
    exited

threads == <<main, sig, pending, exiting, sigAt>>
exit == <<once, cl, exited>>
attach == <<attachMu, stopChan, closed, attachGo>>
hidraw == <<bridge, bridgePID>>
helpers == <<attach, hidraw>>
game == <<setup, mounted, mode, mounts, wine>>
vars == <<threads, gate, exit, helpers, game>>

Thread == {"main", "sig"}
Holder == Thread \cup {"free"}

\* The main thread while it holds signalGate.
GatedPc == {"squash", "overlay", "mark", "undo"}

MainPc == GatedPc \cup
    {"start", "copysquash", "copying", "copyumount", "copied", "prepare", "tool",
     "reload", "remount", "prepared", "bridge", "ready", "registry", "reg", "pre", "attach",
     "play", "playing", "check", "wait", "stop", "stopping", "exit", "cleanup", "blocked"}

Setup == [source : Sources, reloads : BOOLEAN, prepare : BOOLEAN, attach : BOOLEAN]

TypeOK ==
    /\ setup \in Setup
    /\ main \in MainPc
    /\ sig \in {"wait", "gate", "exit", "cleanup", "blocked"}
    /\ pending \in BOOLEAN /\ exiting \in BOOLEAN
    /\ gate \in Holder /\ once \in Holder /\ attachMu \in Holder
    /\ cl \in {"off", "attach", "stopping", "bridge", "wine", "waitwine", "umwine", "ummnt", "end"}
    /\ stopChan \in {"nil", "open"} /\ closed \in 0..2
    /\ attachGo \in {"none", "search", "command", "done"}
    /\ bridge \in {"none", "run", "ended"} /\ bridgePID \in BOOLEAN
    /\ mounted \in BOOLEAN /\ mode \in {"none", "overlay", "copy", "dir"}
    /\ mounts \subseteq {"wine", "mnt"}
    /\ wine \in {"none", "tool", "game"}
    /\ sigAt \in MainPc \cup {"never"}
    /\ exited \in Holder
    /\ gate = "main" <=> main \in GatedPc

Init ==
    /\ setup \in Setup
    /\ main = "start" /\ sig = "wait" /\ pending = FALSE /\ exiting = FALSE
    /\ gate = "free" /\ once = "free" /\ attachMu = "free" /\ cl = "off"
    /\ stopChan = "nil" /\ closed = 0 /\ attachGo = "none"
    /\ bridge = "none" /\ bridgePID = FALSE
    /\ mounted = FALSE /\ mode = "none" /\ mounts = {} /\ wine = "none"
    /\ sigAt = "never" /\ exited = "free"

\* Nothing moves after os.Exit.
Running == exited = "free"

\* Steps of the main thread, of the signal goroutine and of cleanup.
At(l) == Running /\ main = l
SigAt(l) == Running /\ sig = l
ClAt(l) == Running /\ cl = l
Goto(l) == main' = l /\ UNCHANGED <<sig, pending, exiting, sigAt>>

\* die and exitNow, called by the main thread.
Die == Goto("exit")

-----------------------------------------------------------------------------
(* Making the game available.                                              *)

\* A folder is the lower layer of its overlay: no squashfuse.
FirstMount == IF setup.source = "pc" THEN "overlay" ELSE "squash"

\* Mutant: the overlay is mounted without signalGate.
StartMountUngated ==
    /\ At("start")
    /\ \/ setup.source = "wine" /\ mode' = "dir" /\ Goto("prepare")
       \/ setup.source # "wine" /\ Goto(FirstMount) /\ UNCHANGED mode
    /\ UNCHANGED <<gate, exit, helpers, setup, mounted, mounts, wine>>

\* tryOverlayMountGated takes signalGate, the other ways do not.
StartMount ==
    /\ At("start")
    /\ \/ setup.source = "wine" /\ mode' = "dir" /\ Goto("prepare") /\ UNCHANGED gate
       \/ setup.source # "wine" /\ gate = "free" /\ gate' = "main" /\ Goto(FirstMount)
          /\ UNCHANGED mode
    /\ UNCHANGED <<exit, helpers, setup, mounted, mounts, wine>>

\* squashfuse; when it fails the launch falls back on the copy.
MountSquash ==
    /\ At("squash")
    /\ \/ mounts' = mounts \cup {"mnt"} /\ Goto("overlay") /\ UNCHANGED gate
       \/ gate' = "free" /\ Goto("copysquash") /\ UNCHANGED mounts
    /\ UNCHANGED <<exit, helpers, setup, mounted, mode, wine>>

\* A .pc folder is never copied: the launch ends (die).
MountOverlay ==
    /\ At("overlay")
    /\ \/ mounts' = mounts \cup {"wine"} /\ Goto("mark") /\ UNCHANGED gate
       \/ setup.source = "image" /\ Goto("undo") /\ UNCHANGED <<gate, mounts>>
       \/ setup.source = "pc" /\ gate' = "free" /\ Die /\ UNCHANGED mounts
    /\ UNCHANGED <<exit, helpers, setup, mounted, mode, wine>>

\* mountMode and mounted are set before signalGate is given back.
MarkMounted ==
    /\ At("mark")
    /\ mode' = "overlay" /\ mounted' = TRUE /\ gate' = "free"
    /\ Goto("prepare")
    /\ UNCHANGED <<exit, helpers, setup, mounts, wine>>

UndoSquash ==
    /\ At("undo")
    /\ mounts' = mounts \ {"mnt"} /\ gate' = "free"
    /\ Goto("copysquash")
    /\ UNCHANGED <<exit, helpers, setup, mounted, mode, wine>>

\* useCopyMode: a valid copy is reused; otherwise extractImage mounts the image
\* (or unpacks it with unsquashfs).
UseCopyMode ==
    /\ At("copysquash")
    /\ \/ Goto("copied") /\ UNCHANGED mounts
       \/ mounts' = mounts \cup {"mnt"} /\ Goto("copying")
       \/ Die /\ UNCHANGED mounts
    /\ UNCHANGED <<gate, exit, helpers, setup, mounted, mode, wine>>

CopyImage ==
    /\ At("copying")
    /\ Goto("copyumount") \/ Die
    /\ UNCHANGED <<gate, exit, helpers, game>>

CopyUmount ==
    /\ At("copyumount")
    /\ mounts' = mounts \ {"mnt"}
    /\ Goto("copied")
    /\ UNCHANGED <<gate, exit, helpers, setup, mounted, mode, wine>>

MarkCopied ==
    /\ At("copied")
    /\ mode' = "copy" /\ mounted' = TRUE
    /\ Goto("prepare")
    /\ UNCHANGED <<gate, exit, helpers, setup, mounts, wine>>

-----------------------------------------------------------------------------
(* Prefix, game and end of the game.                                       *)

\* Wine tools in the prefix; any configuration error is a die.
StartTool ==
    /\ At("prepare")
    /\ \/ wine' = "tool" /\ Goto("tool")
       \/ Die /\ UNCHANGED wine
    /\ UNCHANGED <<gate, exit, helpers, setup, mounted, mode, mounts>>

\* installPrefixDlls; what follows is the end of --prepare, or controllers, PRE and ATTACH.
AfterTool ==
    /\ At("tool") /\ wine = "none"
    /\ Goto(IF setup.reloads /\ mode = "overlay" THEN "reload" ELSE "prepared")
    /\ UNCHANGED <<gate, exit, helpers, game>>

ReloadUmount ==
    /\ At("reload")
    /\ mounts' = mounts \ {"wine"}
    /\ Goto("remount")
    /\ UNCHANGED <<gate, exit, helpers, setup, mounted, mode, wine>>

ReloadMount ==
    /\ At("remount")
    /\ \/ mounts' = mounts \cup {"wine"} /\ Goto("prepared")
       \/ Die /\ UNCHANGED mounts
    /\ UNCHANGED <<gate, exit, helpers, setup, mounted, mode, wine>>

\* --prepare ends here (exitNow).  chooseHidrawMode: with HIDRAW=1 and a Bluetooth
\* DualSense, the bridge is started.
StartBridge ==
    /\ At("prepared")
    /\ \/ setup.prepare /\ Die /\ UNCHANGED bridge
       \/ ~setup.prepare /\ Goto("registry") /\ UNCHANGED bridge
       \/ ~setup.prepare /\ bridge' = "run" /\ Goto("bridge")
    /\ UNCHANGED <<gate, exit, attach, bridgePID, game>>

StoreBridge ==
    /\ At("bridge")
    /\ bridgePID' = TRUE
    /\ Goto("ready")
    /\ UNCHANGED <<gate, exit, attach, bridge, game>>

\* stopDualsenseBridge: a pid of 0 is no bridge.
StopBridge ==
    /\ bridgePID' = FALSE
    /\ bridge' = IF bridgePID THEN "ended" ELSE bridge

\* Its file appears, or it has ended, or 3 s have passed.
AwaitBridge ==
    /\ At("ready")
    /\ \/ UNCHANGED hidraw
       \/ bridge = "run" /\ StopBridge
    /\ Goto("registry")
    /\ UNCHANGED <<gate, exit, attach, game>>

\* writeHidrawSetting: nothing to write, or reg add, then wineserver -k and -w.
SetRegistry ==
    /\ \/ At("registry") /\ Goto("pre") /\ UNCHANGED wine
       \/ At("registry") /\ wine' = "tool" /\ Goto("reg")
       \/ At("reg") /\ wine = "none" /\ Goto("pre") /\ UNCHANGED wine
    /\ UNCHANGED <<gate, exit, helpers, setup, mounted, mode, mounts>>

\* A PRE= that fails ends the launch.
RunPreCommand ==
    /\ At("pre")
    /\ Die \/ Goto(IF setup.attach THEN "attach" ELSE "play")
    /\ UNCHANGED <<gate, exit, helpers, game>>

StartAttach ==
    /\ At("attach") /\ attachMu = "free"
    /\ stopChan' = "open" /\ closed' = 0 /\ attachGo' = "search"
    /\ Goto("play")
    /\ UNCHANGED <<gate, exit, attachMu, hidraw, game>>

PlayGame ==
    /\ At("play")
    /\ wine' = "game"
    /\ Goto("playing")
    /\ UNCHANGED <<gate, exit, helpers, setup, mounted, mode, mounts>>

\* The game process has ended; other processes of the prefix may not have.
AfterGame ==
    /\ At("playing")
    /\ Goto("check")
    /\ UNCHANGED <<gate, exit, helpers, game>>

CheckSignal ==
    /\ At("check")
    /\ Goto(IF exiting THEN "blocked" ELSE "wait")
    /\ UNCHANGED <<gate, exit, helpers, game>>

\* wineserver -w
WaitWine ==
    /\ At("wait") /\ wine = "none"
    /\ Goto("stop")
    /\ UNCHANGED <<gate, exit, helpers, game>>

-----------------------------------------------------------------------------
(* stopAttachCommand, called by runGame and by cleanup.                    *)

\* Mutant: attachStop is not set to nil.
StopAttachAgain(t, skip, busy) ==
    /\ attachMu = "free"
    /\ \/ stopChan = "nil" /\ skip /\ UNCHANGED attach
       \/ /\ stopChan = "open" /\ busy
          /\ attachMu' = t /\ closed' = closed + 1
          /\ UNCHANGED <<stopChan, attachGo>>

\* Nothing to stop, or the channel is closed and set to nil under attachMu.
StopAttachBegin(t, skip, busy) ==
    /\ attachMu = "free"
    /\ \/ stopChan = "nil" /\ skip /\ UNCHANGED attach
       \/ /\ stopChan = "open" /\ busy
          /\ attachMu' = t /\ stopChan' = "nil" /\ closed' = closed + 1
          /\ UNCHANGED attachGo

\* Mutant: attachMu is not given back.
StopAttachKeepsMu ==
    /\ attachGo # "search"
    /\ attachGo' = IF attachGo = "command" THEN "done" ELSE attachGo
    /\ UNCHANGED <<attachMu, stopChan, closed>>

\* A command has 5 s to end, then killByEnv(attachMarker); a search has
\* noticed the closed channel by then.
StopAttachEnd ==
    /\ attachGo # "search"
    /\ attachMu' = "free"
    /\ attachGo' = IF attachGo = "command" THEN "done" ELSE attachGo
    /\ UNCHANGED <<stopChan, closed>>

MainStopAttach ==
    \/ /\ At("stop")
       /\ StopAttachBegin("main", Goto("exit"), Goto("stopping"))
       /\ UNCHANGED <<gate, exit, hidraw, game>>
    \/ /\ At("stopping")
       /\ StopAttachEnd /\ Goto("exit")
       /\ UNCHANGED <<gate, exit, hidraw, game>>

\* The goroutine finds the game and runs the command, or sees attachStop closed.
AttachStep ==
    /\ Running
    /\ \/ attachGo = "search" /\ wine = "game" /\ attachGo' = "command"
       \/ attachGo = "search" /\ closed > 0 /\ attachGo' = "done"
       \/ attachGo = "command" /\ attachGo' = "done"
    /\ UNCHANGED <<threads, gate, exit, attachMu, stopChan, closed, hidraw, game>>

-----------------------------------------------------------------------------
(* exitNow and cleanup.                                                    *)

\* The first caller runs cleanup, the other one never returns.
OnceEnter(t) ==
    \/ once = "free" /\ once' = t /\ cl' = "attach"
    \/ once # "free" /\ UNCHANGED <<once, cl>>
OncePc == IF once = "free" THEN "cleanup" ELSE "blocked"

MainExit ==
    /\ At("exit")
    /\ OnceEnter("main") /\ Goto(OncePc)
    /\ UNCHANGED <<exited, gate, helpers, game>>

SigExit ==
    /\ SigAt("exit")
    /\ OnceEnter("sig") /\ sig' = OncePc
    /\ UNCHANGED <<main, pending, exiting, sigAt, exited, gate, helpers, game>>

Cl(l) == cl' = l /\ UNCHANGED <<once, exited, threads, gate>>

CleanupAttach ==
    \/ /\ ClAt("attach")
       /\ StopAttachBegin(once, Cl("bridge"), Cl("stopping"))
       /\ UNCHANGED <<hidraw, game>>
    \/ /\ ClAt("stopping")
       /\ StopAttachEnd /\ Cl("bridge")
       /\ UNCHANGED <<hidraw, game>>

CleanupBridge ==
    /\ ClAt("bridge")
    /\ StopBridge /\ Cl("wine")
    /\ UNCHANGED <<attach, game>>

\* Mutant: only an overlay stops Wine.
CleanupWineOfOverlay ==
    /\ ClAt("wine")
    /\ \/ mode # "overlay" /\ Cl("end") /\ UNCHANGED wine
       \/ mode = "overlay" /\ wine' = "none" /\ Cl("waitwine")
    /\ UNCHANGED <<helpers, setup, mounted, mode, mounts>>

\* mounted decides whether Wine is stopped and an overlay unmounted.
\* stopWineserver: wineserver -k, then -w, which waits for every process of the
\* prefix, those the main thread may have started meanwhile included.
CleanupWine ==
    /\ ClAt("wine")
    /\ \/ ~mounted /\ Cl("end") /\ UNCHANGED wine
       \/ mounted /\ wine' = "none" /\ Cl("waitwine")
    /\ UNCHANGED <<helpers, setup, mounted, mode, mounts>>

CleanupWait ==
    /\ ClAt("waitwine") /\ wine = "none"
    /\ Cl(IF mode = "overlay" THEN "umwine" ELSE "end")
    /\ UNCHANGED <<helpers, game>>

\* umountRetry ends with a lazy unmount.
CleanupOverlay ==
    /\ ClAt("umwine")
    /\ mounts' = mounts \ {"wine"}
    /\ Cl("ummnt")
    /\ UNCHANGED <<helpers, setup, mounted, mode, wine>>

CleanupSquash ==
    /\ ClAt("ummnt")
    /\ mounts' = mounts \ {"mnt"}
    /\ Cl("end")
    /\ UNCHANGED <<helpers, setup, mounted, mode, wine>>

OsExit ==
    /\ ClAt("end")
    /\ exited' = once
    /\ UNCHANGED <<threads, gate, once, cl, helpers, game>>

-----------------------------------------------------------------------------
(* Signals and the processes of the prefix.                                *)

\* A second signal is dropped while one waits in the channel.
Notify ==
    /\ Running /\ ~pending
    /\ pending' = TRUE
    /\ UNCHANGED <<main, sig, exiting, sigAt, gate, exit, helpers, game>>

\* signalExiting is set before signalGate is asked for.
TakeSignal ==
    /\ SigAt("wait") /\ pending
    /\ pending' = FALSE /\ exiting' = TRUE /\ sig' = "gate" /\ sigAt' = main
    /\ UNCHANGED <<main, gate, exit, helpers, game>>

\* Mutant: the handler does not wait for signalGate.
TakeGateAtOnce ==
    /\ SigAt("gate")
    /\ gate' = "sig" /\ sig' = "exit"
    /\ UNCHANGED <<main, pending, exiting, sigAt, exit, helpers, game>>

TakeGate ==
    /\ SigAt("gate") /\ gate = "free"
    /\ gate' = "sig" /\ sig' = "exit"
    /\ UNCHANGED <<main, pending, exiting, sigAt, exit, helpers, game>>

\* A Wine tool or the game ends by itself.
WineEnds ==
    /\ Running /\ wine # "none"
    /\ wine' = "none"
    /\ UNCHANGED <<threads, gate, exit, helpers, setup, mounted, mode, mounts>>

\* The bridge finds no controller, or fails.
BridgeEnds ==
    /\ Running /\ bridge = "run"
    /\ bridge' = "ended"
    /\ UNCHANGED <<threads, gate, exit, attach, bridgePID, game>>

Mount == StartMount \/ MountSquash \/ MountOverlay \/ MarkMounted \/ UndoSquash
         \/ UseCopyMode \/ CopyImage \/ CopyUmount \/ MarkCopied
Play == StartTool \/ AfterTool \/ ReloadUmount \/ ReloadMount \/ StartBridge \/ StoreBridge
        \/ AwaitBridge \/ SetRegistry \/ RunPreCommand \/ StartAttach
        \/ PlayGame \/ AfterGame \/ CheckSignal \/ WaitWine
Main == Mount \/ Play \/ MainStopAttach \/ MainExit
Handler == TakeSignal \/ TakeGate \/ SigExit
Cleanup ==
    \/ CleanupAttach \/ CleanupBridge \/ CleanupWine \/ CleanupWait
    \/ CleanupOverlay \/ CleanupSquash \/ OsExit

Exited == ~Running /\ UNCHANGED vars

Next == Main \/ Handler \/ Cleanup \/ AttachStep \/ Notify \/ WineEnds \/ BridgeEnds \/ Exited

Spec == Init /\ [][Next]_vars

\* What the scheduler owes a running process: its threads go on, except that
\* nothing makes a game, a tool or a PRE command end, and nobody has to signal.
Fairness ==
    /\ WF_vars(Mount) /\ WF_vars(Play /\ ~At("playing"))
    /\ WF_vars(MainStopAttach \/ MainExit) /\ WF_vars(Handler)
    /\ WF_vars(Cleanup) /\ WF_vars(AttachStep)

FairSpec == Spec /\ Fairness

-----------------------------------------------------------------------------
(* Properties.                                                             *)

\* From the game's start on, the main thread starts nothing any more.
GamePhase == {"playing", "check", "wait", "stop", "stopping", "exit", "cleanup", "blocked"}

\* Whatever the instant of a signal or of an error, os.Exit leaves no overlay
\* mounted, nor the image except when its copy was cut short; a reload of the
\* overlay is excepted, it takes no signalGate (cleanup, tryOverlayMountGated).
NothingLeftMounted ==
    exited # "free" /\ ~setup.reloads =>
        /\ "wine" \notin mounts
        /\ mode # "none" => mounts = {}

\* attachStop is closed at most once although runGame and cleanup may both
\* stop ATTACH: a second close would panic (stopAttachCommand, attachMu).
AttachClosedOnce == closed <= 1

\* A signal taken during the game leaves no process in the prefix (a .wine folder
\* excepted: mounted is false there), no ATTACH command and no DualSense bridge at
\* os.Exit, although the main thread is running its own end of game at the same
\* time (runGame, cleanup).
SignalStopsGame ==
    exited # "free" /\ sigAt \in GamePhase
      => /\ mounted => wine = "none"
         /\ attachGo # "command" /\ bridge # "run"

\* A signal taken during the game ends the launcher, whatever the game does:
\* no thread waits for another one for ever (exitOnce, signalGate, attachMu).
SignalInGameExits == (exiting /\ sigAt \in GamePhase) ~> (exited # "free")
=============================================================================

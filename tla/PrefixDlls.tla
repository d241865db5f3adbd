----------------------------- MODULE PrefixDlls -----------------------------
(***************************************************************************)
(* One DLL of system32 over the launches of a game: the image's, the       *)
(* game's, a link to the runner's, a link to a component (DXVK, VKD3D-     *)
(* Proton, d7vk, DXVK-NVAPI, FSR4), a copy of Proton's.  Launches change   *)
(* the runner and the settings, and may be killed anywhere; meanwhile      *)
(* --setup installs what the link points to, or the user removes it        *)
(* (Installs).  Other DLLs have no part in what becomes of this one.       *)
(*                                                                         *)
(* Wine, Proton and the game are modelled from how the launcher uses them. *)
(***************************************************************************)
EXTENDS Installs

CONSTANT
    Cases   \* image: what the image has under the name; prefix: "packaged",
            \* "proton" (packaged, made by Proton), "alone" (none in the image),
            \* "single" (one layer: a working copy, a .wine folder); stamp: its
            \* .update-timestamp; kernel: the overlay is the kernel's; builtin,
            \* extra: runners that have the DLL in lib/wine, in lib/wine/icu or
            \* vkd3d; inf: Wines that have a wine.inf, date: of a runner's, in seconds, so
            \* that two may have the same; of: the component it belongs to; kind: what is installed, the
            \* component or the runner w1; busy: who does something, launches
            \* ("play"), the installer ("install"), or both

Wines == {"w1", "w2"}
Runners == Wines \cup {"umu"}
Links == Runners \cup {"component"}
Entries == {"none", "chr", "builtin", "own", "copy"} \cup Links
Dates == {"monday", "tuesday", "friday"}
Components == {"dxvk", "vkd3d", "d7vk", "nvapi", "fsr4"}

ASSUME CasesAssumption == \A c \in Cases :
    /\ c.image \in Entries \ {"chr"} /\ c.prefix \in {"packaged", "proton", "alone", "single"}
    /\ c.stamp \in Dates \cup {"none", "other", "disable"} /\ c.kernel \in BOOLEAN
    /\ c.builtin \subseteq Runners /\ c.extra \subseteq Wines
    /\ c.inf \subseteq Wines /\ c.date \in [Runners -> Dates]
    /\ c.of \in Components \cup {"none"} /\ c.kind \in Kinds
    /\ c.busy \subseteq {"play", "install"}

VARIABLES
    case,
    upper,       \* what is in the layer that is written; "chr": a whiteout
    made,        \* the prefix is there, system.reg and system32
    stamp,       \* .update-timestamp: the date of a wine.inf
    protonMade,  \* config_info is in the saves: Proton has prepared the prefix
    runner, asked, on,  \* of the launch; the component is asked for, is used
    at,
    mishaps      \* history: "gone", the component was away for a moment of this
                 \* launch; "update", once the prefix did not become the runner's: it
                 \* was away, or wineboot failed

prefix == <<case, upper, made, stamp, protonMade, runner, asked, on, at, mishaps>>
vars == <<place, prefix>>

PrefixType ==
    /\ upper \in Entries /\ made \in BOOLEAN
    /\ stamp \in Dates \cup {"none", "other", "disable"}
    /\ protonMade \in BOOLEAN /\ runner \in Runners /\ {asked, on} \subseteq BOOLEAN
    /\ mishaps \subseteq {"gone", "update"}
    /\ at \in {"idle", "clear", "settings", "prefix", "update", "wineboot", "drop", "stubs",
               "stub link", "extra", "component", "component link", "ready", "play"}

Init ==
    /\ InitPlace
    /\ case \in {c \in Cases : c.kind = kind}
    /\ upper = IF case.prefix = "single" THEN case.image ELSE "none"
    /\ made = (case.prefix # "alone") /\ stamp = case.stamp
    /\ protonMade = FALSE
    /\ runner = "w1" /\ asked = FALSE /\ on = FALSE /\ at = "idle" /\ mishaps = {}

-----------------------------------------------------------------------------
(* What is found under the name.                                           *)

Layered == case.prefix # "single"
PackagedPrefix == case.prefix \in {"packaged", "proton"}

\* In wine/<game>.
Shown ==
    IF upper = "chr" THEN "none"
    ELSE IF upper = "none" /\ Layered THEN case.image ELSE upper

\* installPrefixDlls writes into the saves on fuse-overlayfs, else through the mount.
Direct == Layered /\ ~case.kernel
InTarget == IF Direct THEN upper ELSE Shown

Whiteout == IF Layered /\ case.image # "none" THEN "chr" ELSE "none"
Unlinked == IF Direct THEN "none" ELSE Whiteout

\* findDxvkDir and its like
Found == case.of # "none" /\ Present

RunnerThere(r) == kind \in {"runner", "proton"} /\ r = "w1" => Present
Has(r) == r \in case.builtin /\ RunnerThere(r)
HasInf(r) == r \in case.inf /\ RunnerThere(r)

\* A file, or a link to one.
IsFile(e) ==
    /\ e # "none"
    /\ e = "component" => Found
    /\ e \in Runners => RunnerThere(e) /\ e \in case.builtin \cup case.extra

\* wineOwnedRe: read through the link.
Owned(e) == e = "builtin" \/ (e \in Runners /\ Has(e))

-----------------------------------------------------------------------------
(* A launch.                                                               *)

Step(from, to) == at = from /\ at' = to
Given == <<place, case, runner, asked>>
Constant == <<Given, mishaps>>

Launch(r) ==
    /\ "play" \in case.busy /\ Step("idle", "clear") /\ RunnerThere(r)
    /\ r = "umu" => case.prefix \in {"proton", "alone"}
    /\ runner' = r /\ asked' \in BOOLEAN /\ (asked' => case.of # "none")
    /\ on' = FALSE /\ mishaps' = mishaps \ {"gone"}
    /\ UNCHANGED <<place, case, upper, made, stamp, protonMade>>

\* Mutant: the links of the last launch stay.
ClearNothing ==
    /\ Step("clear", "settings")
    /\ UNCHANGED <<Constant, upper, made, stamp, protonMade, on>>

\* clearGeneratedSystemDlls, in mountImage.
ClearGenerated ==
    /\ Step("clear", "settings")
    /\ upper' = IF case.prefix = "packaged" \/ (case.prefix = "proton" /\ upper \in Links)
                THEN "none" ELSE upper
    /\ UNCHANGED <<Constant, made, stamp, protonMade, on>>

\* readAutorun, resolveNvapi, resolveFsr4, configureDllOverrides
Settings ==
    /\ at = "settings" /\ at' = IF runner = "umu" THEN "ready" ELSE "prefix"
    /\ on' = (asked /\ Found /\ runner # "umu")
    /\ UNCHANGED <<Constant, upper, made, stamp, protonMade>>

\* initPrefixIfNeeded; wineboot adds the DLLs that are missing, or fails, as without a
\* wine.inf it must, whether or not it has made system.reg.
InitPrefix ==
    /\ Step("prefix", "update")
    /\ \/ made /\ UNCHANGED <<upper, made, stamp, mishaps>>
       \/ /\ ~made /\ HasInf(runner)
          /\ upper' = IF Shown = "none" /\ Has(runner) THEN "builtin" ELSE upper
          /\ made' = TRUE /\ stamp' = case.date[runner] /\ UNCHANGED mishaps
       \/ /\ ~made /\ made' \in BOOLEAN
          /\ stamp' = "none" /\ mishaps' = mishaps \cup {"update"} /\ UNCHANGED upper
    /\ UNCHANGED <<Given, protonMade, on>>

\* No system.reg, no wine.inf, or a wine.inf of the date the prefix was last updated to,
\* whichever runner it was of.
UpToDate == ~made \/ ~HasInf(runner) \/ stamp \in {case.date[runner], "disable"}

\* A runner that is not there just now has no wine.inf either.
Missed == IF runner \in case.inf /\ ~RunnerThere(runner) THEN {"update"} ELSE {}

\* Mutant: only the date is looked at.
UpdateKeepsLinks ==
    /\ at = "update" /\ at' = IF UpToDate THEN "stubs" ELSE "wineboot"
    /\ mishaps' = mishaps \cup Missed
    /\ UNCHANGED <<Given, upper, made, stamp, protonMade, on>>

\* updatePrefixIfNeeded: what is left of another runner goes, ...
UpdateDropsLinks ==
    /\ at = "update"
    /\ \/ UpToDate /\ at' = "stubs" /\ UNCHANGED upper
       \/ ~UpToDate /\ at' = "wineboot" /\ upper' = IF Shown \in Links THEN Whiteout ELSE upper
    /\ mishaps' = mishaps \cup Missed
    /\ UNCHANGED <<Given, made, stamp, protonMade, on>>

\* ... wineboot writes its DLLs over its own and where there is none, ...
UpdateWineboot ==
    /\ Step("wineboot", "drop")
    /\ upper' = IF Shown \in {"none", "builtin"} /\ Has(runner) THEN "builtin" ELSE upper
    /\ \/ HasInf(runner) /\ stamp' = case.date[runner] /\ UNCHANGED mishaps
       \/ stamp' = stamp /\ mishaps' = mishaps \cup {"update"}
    /\ UNCHANGED <<Given, made, protonMade, on>>

\* ... which are removed again from the saves of a packaged prefix.
UpdateDropsCopies ==
    /\ Step("drop", "stubs")
    /\ upper' = IF Layered /\ PackagedPrefix THEN "none" ELSE upper
    /\ UNCHANGED <<Constant, made, stamp, protonMade, on>>

\* Mutant: whatever has the name is replaced.
SyncStubAnyway ==
    /\ at = "stubs"
    /\ IF Has(runner) THEN at' = "stub link" /\ upper' = Unlinked
       ELSE at' = "extra" /\ UNCHANGED upper
    /\ UNCHANGED <<Constant, made, stamp, protonMade, on>>

\* syncWineStubs: what is not Wine's is kept.
SyncStub ==
    /\ at = "stubs"
    /\ IF Has(runner) /\ (IsFile(Shown) => Owned(Shown))
       THEN at' = "stub link" /\ upper' = Unlinked
       ELSE at' = "extra" /\ UNCHANGED upper
    /\ UNCHANGED <<Constant, made, stamp, protonMade, on>>

LinkStub ==
    /\ Step("stub link", "extra") /\ upper' = runner
    /\ UNCHANGED <<Constant, made, stamp, protonMade, on>>

\* linkRunnerComponents: a file that is no link is kept.
LinkExtra ==
    /\ Step("extra", "component")
    /\ upper' = IF runner \in case.extra /\ RunnerThere(runner) /\ InTarget \in Links \cup {"none"}
                THEN runner ELSE upper
    /\ UNCHANGED <<Constant, made, stamp, protonMade, on>>

\* Mutant: a link is made only where there is none.
SyncComponentOnce ==
    /\ at = "component"
    /\ IF on /\ Found /\ InTarget \notin Links THEN at' = "component link" /\ upper' = Unlinked
       ELSE at' = "ready" /\ UNCHANGED upper
    /\ UNCHANGED <<Constant, made, stamp, protonMade, on>>

\* installDxvk, installVkd3d, installD7vk, installNvapi, installFsr4: the component is
\* looked for once more.  Only FSR4 removes its link when it is off.
SyncComponent ==
    /\ at = "component"
    /\ IF on /\ Found THEN at' = "component link" /\ upper' = Unlinked
       ELSE /\ at' = "ready"
            /\ upper' = IF case.of = "fsr4" /\ ~on /\ InTarget \in Links THEN Unlinked ELSE upper
    /\ UNCHANGED <<Constant, made, stamp, protonMade, on>>

LinkComponent ==
    /\ Step("component link", "ready") /\ upper' = "component"
    /\ UNCHANGED <<Constant, made, stamp, protonMade, on>>

\* The game on Wine, which may install the DLL itself.
Play ==
    /\ Step("ready", "play") /\ runner # "umu"
    /\ upper' \in {upper, "own"}
    /\ UNCHANGED <<Constant, made, stamp, protonMade, on>>

\* The game on Proton, which prepares the prefix itself (PROTON_DLL_COPY is empty):
\* links to its own DLLs, copies of its components.
PlayOnProton ==
    /\ Step("ready", "play") /\ runner = "umu"
    /\ upper' = IF case.of \in {"dxvk", "vkd3d", "nvapi"} THEN "copy"
                ELSE IF "umu" \in case.builtin /\ Shown # "own" THEN "umu" ELSE upper
    /\ made' = TRUE /\ stamp' = case.date["umu"] /\ protonMade' = TRUE
    /\ UNCHANGED <<Constant, on>>

\* The end of the game, or of the launcher at any moment.
Ends ==
    /\ at # "idle" /\ at' = "idle"
    /\ UNCHANGED <<Constant, upper, made, stamp, protonMade, on>>

\* cleanSaves removes the copies that Proton will make again.
CleanCopies ==
    /\ at = "idle" /\ protonMade /\ upper = "copy" /\ upper' = "none"
    /\ UNCHANGED <<Constant, made, stamp, protonMade, on, at>>

\* --setup or the user, while a launch is anywhere.
InstallStep ==
    /\ "install" \in case.busy /\ Install
    /\ mishaps' = IF Present' THEN mishaps ELSE mishaps \cup {"gone"}
    /\ UNCHANGED <<case, upper, made, stamp, protonMade, runner, asked, on, at>>

Next ==
    \/ \E r \in Runners : Launch(r)
    \/ ClearGenerated \/ Settings \/ InitPrefix
    \/ UpdateDropsLinks \/ UpdateWineboot \/ UpdateDropsCopies
    \/ SyncStub \/ LinkStub \/ LinkExtra \/ SyncComponent \/ LinkComponent
    \/ Play \/ PlayOnProton \/ Ends \/ CleanCopies \/ InstallStep

Spec == Init /\ [][Next]_vars

-----------------------------------------------------------------------------
(* Properties.                                                             *)

\* What a game on Wine gets, by the override of configureDllOverrides (launch.go:323).
Loaded ==
    LET native == IF IsFile(Shown) /\ Shown \in {"own", "copy", "component"} THEN Shown ELSE "none"
        builtin == IF Has(runner) THEN runner ELSE "none"
    IN IF case.of = "dxvk" /\ ~on THEN builtin
       ELSE IF native # "none" /\ (case.of = "nvapi" => on) THEN native
       ELSE IF case.of = "nvapi" THEN "none" ELSE builtin

Starting == at = "ready" /\ runner # "umu"

\* A component that is asked for and installed is what the game loads, whatever earlier
\* launches, Proton or a launch that was killed have left (README.md:396-400).
AskedIsLoaded == Starting /\ on /\ "gone" \notin mishaps => Loaded = "component"

\* One that is not asked for is not loaded; but d7vk and VKD3D-Proton stay where nothing
\* clears system32, their link being neither removed nor overridden.
OffMeansOff ==
    Starting /\ ~on /\ (case.of \in {"vkd3d", "d7vk"} => PackagedPrefix) /\ case.image \notin Links
        => Loaded # "component"

\* The date in .update-timestamp tells this runner from the others.
Dated(r) == \A q \in Runners \ {r} : case.date[q] # case.date[r]

\* prefix.go:132-134: the DLLs of Wine are links to those of the runner that is used, never
\* of another, and what is native in the image stays the game's.  Links of another runner
\* do stay if either has no wine.inf (prefix.go:549) or their dates are the same (558).
RunnersOrGames ==
    Starting =>
        /\ Shown \in Wines /\ stamp # "disable" /\ "update" \notin mishaps
             /\ case.image \notin Links /\ {Shown, runner} \subseteq case.inf /\ Dated(runner)
             => Shown = runner
        /\ case.image = "own" /\ case.of = "none" /\ case.extra = {} => Shown = "own"
=============================================================================

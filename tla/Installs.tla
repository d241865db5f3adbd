------------------------------ MODULE Installs ------------------------------
(***************************************************************************)
(* How the launcher puts something in its place on the disk: the runners   *)
(* and rendering components of --setup, umu, the DLL of FSR4, an image     *)
(* (--pack), a folder (--install), the launcher itself (--setup,           *)
(* --update).  One thing and its place are followed, over many attempts,   *)
(* any of which may fail or be killed anywhere.                            *)
(***************************************************************************)
EXTENDS Integers

CONSTANTS
    Kinds,       \* which of the things are looked at
    LastVersion  \* bound: versions published

Tree == {"dll", "runner", "proton"}                  \* installTree
Place == {"umu", "fsr4"}                             \* copied where it belongs
Renamed == {"pack", "game", "update", "launcher"}    \* written beside, renamed
Released == Tree \cup {"umu"}                        \* fetched by --setup when missing

ASSUME InstallsAssumption ==
    Kinds \subseteq Tree \cup Place \cup Renamed /\ LastVersion \in Nat \ {0}

\* What can be found under a name.
None == 0
Part == -1       \* a part: a copy or a removal was cut short
Damaged == -2    \* an archive that is not the published one
Hollow == -3     \* such an archive, without the program it should hold
Versions == 1..LastVersion
Whole == Versions \cup {Damaged, Hollow}
Contents == Whole \cup {None, Part}

VARIABLES
    kind,             \* what is installed
    published,        \* the version one can get now (of the folder, for --pack)
    dst, fresh, old,  \* under its name; beside, .new or .part; beside, .old
    linked,           \* umu: the link in the PATH
    source, sum,      \* what was fetched, and the version its checksum is of
    step,
    before,           \* history: dst when the attempt began
    had,              \* history: a version was there then
    outcome,          \* history: how the last attempt ended
    faults            \* history: of "crash", "rename", "unchecked"

disk == <<dst, fresh, old, linked>>
history == <<before, had, outcome, faults>>
place == <<kind, published, disk, source, sum, step, history>>

Steps == {"idle", "sum", "fetch", "check", "clear", "copy", "copying", "drop old", "aside",
          "in", "back", "undo", "tidy", "empty", "link"}

PlaceType ==
    /\ kind \in Kinds /\ published \in Versions
    /\ {dst, fresh, old, source, before} \subseteq Contents /\ sum \in Versions \cup {None}
    /\ linked \in BOOLEAN /\ had \in BOOLEAN /\ step \in Steps
    /\ outcome \in {"none", "done", "failed"} /\ faults \subseteq {"crash", "rename", "unchecked"}

InitPlace ==
    /\ kind \in Kinds /\ published = 1
    /\ dst \in {None, 1} /\ (kind = "update" => dst = 1)   \* it is what runs
    /\ fresh = None /\ old = None /\ linked = FALSE
    /\ source = None /\ sum = None /\ step = "idle"
    /\ before = None /\ had = FALSE /\ outcome = "none" /\ faults = {}

-----------------------------------------------------------------------------
(* What counts as installed.                                               *)

Works(c) == c \in Versions \cup {Damaged}

\* The check functions of --setup, which installs what is missing only: an exact path,
\* or any directory whose name begins like it, .new and .old among them.  Of a part
\* the file that is looked for may be there or not.
Installed ==
    \/ kind = "dll" /\ Works(dst)
    \/ kind \in {"runner", "proton"} /\ \E c \in {dst, fresh, old} : Works(c)
    \/ kind = "umu" /\ linked /\ dst # None
    \/ kind = "fsr4" /\ dst # None

\* What a launch finds under the name.
Present == IF kind \in Place THEN dst # None ELSE Works(dst)

-----------------------------------------------------------------------------
(* An attempt, up to what is to be put in place.                           *)

At(from) == step = from
Go(to) == step' = to

\* installGame leaves what is there; --update looks at its checksum first.
Start ==
    /\ At("idle") /\ ~Installed /\ (kind = "game" => dst = None)
    /\ Go(IF kind = "update" THEN "sum" ELSE "fetch")
    /\ before' = dst /\ had' = ({dst, old} \cap Versions # {}) /\ outcome' = "none"
    \* .new.PID is another name each time
    /\ fresh' = IF kind = "launcher" THEN None ELSE fresh
    /\ UNCHANGED <<kind, published, dst, old, linked, source, sum, faults>>

Unstarted == <<kind, published, disk, before, had, outcome>>

\* cmdUpdate: wsquashfs-launcher.sha256; nothing to do when it is that of the launcher.
ReadSum ==
    /\ At("sum") /\ sum' = published
    /\ Go(IF dst = published THEN "idle" ELSE "fetch")
    /\ UNCHANGED <<Unstarted, source, faults>>

\* The file is that of the moment, or something else.  GitHub may publish no digest.
Fetch ==
    /\ At("fetch") /\ Go("check")
    /\ source' \in {published}
                     \cup (IF kind \in Released \cup {"update", "launcher"} THEN {Damaged} ELSE {})
    /\ sum' \in IF kind = "update" THEN {sum}
               ELSE {published} \cup (IF kind \in {"dll", "runner", "umu"} THEN {None} ELSE {})
    /\ UNCHANGED <<Unstarted, faults>>

\* There is a checksum to compare with (verifyGithubAsset, sha512sum, fileSHA256).
Compared == kind \in Released \cup {"update"} /\ sum # None
Verified == Compared => source = sum

First ==
    IF kind = "umu" THEN "empty"
    ELSE IF kind \in Tree \cup {"pack", "game"} THEN "clear" ELSE "copy"

\* then extraction and the file that has to be there, which installWineArchive looks for
\* when it has replaced the runner.
Check ==
    /\ At("check") /\ Verified /\ Go(First)
    /\ source' \in IF source = Damaged /\ kind = "runner" THEN {Damaged, Hollow} ELSE {source}
    /\ faults' = IF source = Damaged /\ ~Compared THEN faults \cup {"unchecked"} ELSE faults
    /\ sum' = None /\ UNCHANGED Unstarted

GiveUp ==
    /\ step \in {"sum", "fetch", "check"} /\ Go("idle") /\ outcome' = "failed"
    /\ source' = None /\ sum' = None
    /\ UNCHANGED <<kind, published, disk, before, had, faults>>

-----------------------------------------------------------------------------
(* Putting it in place.                                                    *)

Fixed == <<kind, published, source, sum, before, had>>

\* os.RemoveAll takes several steps.
Removed(c) == IF c \in {None, Part} THEN None ELSE Part

ClearFresh ==
    /\ At("clear") /\ fresh' = Removed(fresh)
    /\ Go(IF fresh' = None THEN "copy" ELSE "clear")
    /\ UNCHANGED <<Fixed, dst, old, linked, outcome, faults>>

\* downloadUmu empties the place before it copies.
EmptyPlace ==
    /\ At("empty") /\ dst' = Removed(dst)
    /\ Go(IF dst' = None THEN "copy" ELSE "empty")
    /\ UNCHANGED <<Fixed, fresh, old, linked, outcome, faults>>

\* cp -rp, mksquashfs, unsquashfs, copyFile
CopyBegins ==
    /\ At("copy") /\ Go("copying")
    /\ IF kind \in Place THEN dst' = Part /\ UNCHANGED fresh ELSE fresh' = Part /\ UNCHANGED dst
    /\ UNCHANGED <<Fixed, old, linked, outcome, faults>>

\* Mutant: what cp answers is not looked at.
CopyFailsUnseen ==
    /\ At("copying") /\ Go(IF kind \in Place THEN "idle" ELSE "in")
    /\ UNCHANGED <<Fixed, disk, outcome, faults>>

CopyEnds ==
    /\ At("copying")
    /\ IF kind \in Place THEN dst' = source /\ UNCHANGED fresh ELSE fresh' = source /\ UNCHANGED dst
    /\ Go(IF kind \in Tree THEN "drop old" ELSE IF kind = "umu" THEN "link"
          ELSE IF kind = "fsr4" THEN "idle" ELSE "in")
    /\ outcome' = IF kind = "fsr4" THEN "done" ELSE outcome
    /\ UNCHANGED <<Fixed, old, linked, faults>>

\* Disk full: copyFile leaves its part where it is.
CopyFails ==
    /\ At("copying")
    /\ IF kind \in Place THEN Go("idle") /\ outcome' = "failed" ELSE Go("undo") /\ UNCHANGED outcome
    /\ UNCHANGED <<Fixed, disk, faults>>

DropOld ==
    /\ At("drop old") /\ old' = Removed(old)
    /\ Go(IF old' = None THEN "aside" ELSE "drop old")
    /\ UNCHANGED <<Fixed, dst, fresh, linked, outcome, faults>>

\* installTree: the version that is there is moved aside ...
MoveAside ==
    /\ At("aside") /\ Go("in")
    /\ old' = dst /\ dst' = None
    /\ UNCHANGED <<Fixed, fresh, linked, outcome, faults>>

\* ... and the new one gets its name.
MoveIn ==
    /\ At("in")
    /\ dst' = fresh /\ fresh' = None
    /\ IF kind \in Tree THEN Go("tidy") /\ UNCHANGED outcome ELSE Go("idle") /\ outcome' = "done"
    /\ UNCHANGED <<Fixed, old, linked, faults>>

RenameFails ==
    /\ At("in") \/ (At("aside") /\ dst # None)
    /\ Go(IF At("in") /\ kind \in Tree THEN "back" ELSE "undo")
    /\ faults' = faults \cup {"rename"}
    /\ UNCHANGED <<Fixed, disk, outcome>>

\* Mutant: nothing is put back.
NotBack ==
    /\ At("back") /\ Go("undo")
    /\ UNCHANGED <<Fixed, disk, outcome, faults>>

\* The version aside gets its name back, if there was one.
MoveBack ==
    /\ At("back") /\ Go("undo")
    /\ IF old = None THEN UNCHANGED <<dst, old>> ELSE dst' = old /\ old' = None
    /\ UNCHANGED <<Fixed, fresh, linked, outcome, faults>>

Undo ==
    /\ At("undo") /\ fresh' = Removed(fresh)
    /\ IF fresh' = None THEN Go("idle") /\ outcome' = "failed" ELSE UNCHANGED <<step, outcome>>
    /\ UNCHANGED <<Fixed, dst, old, linked, faults>>

Tidy ==
    /\ At("tidy") /\ old' = Removed(old)
    /\ IF old' = None THEN Go("idle") /\ outcome' = "done" ELSE UNCHANGED <<step, outcome>>
    /\ UNCHANGED <<Fixed, dst, fresh, linked, faults>>

\* A link of before is removed first.
LinkUmu ==
    /\ At("link") /\ linked' = ~linked
    /\ IF linked THEN UNCHANGED <<step, outcome>> ELSE Go("idle") /\ outcome' = "done"
    /\ UNCHANGED <<Fixed, dst, fresh, old, faults>>

\* Killed.
Crash ==
    /\ ~At("idle") /\ Go("idle") /\ faults' = faults \cup {"crash"} /\ outcome' = "none"
    /\ UNCHANGED <<Fixed, disk>>

\* A new version is published, or the folder to pack has changed.
Publish ==
    /\ published < LastVersion /\ published' = published + 1
    /\ UNCHANGED <<kind, disk, source, sum, step, history>>

\* The user removes what was installed, with or without what is beside.
Remove ==
    /\ At("idle") /\ kind # "update" /\ dst' = None
    /\ UNCHANGED <<fresh, old>> \/ (fresh' = None /\ old' = None)
    /\ UNCHANGED linked /\ disk' # disk
    /\ outcome' = "none" /\ had' = FALSE
    /\ UNCHANGED <<kind, published, source, sum, step, before, faults>>

Install ==
    \/ Start \/ ReadSum \/ Fetch \/ Check \/ GiveUp
    \/ ClearFresh \/ EmptyPlace \/ CopyBegins \/ CopyEnds \/ CopyFails
    \/ DropOld \/ MoveAside \/ MoveIn \/ RenameFails \/ MoveBack \/ Undo \/ Tidy \/ LinkUmu
    \/ Crash \/ Publish \/ Remove

-----------------------------------------------------------------------------
(* Properties.                                                             *)

\* Under the name there is a whole version or nothing, whatever failed and whenever
\* (setup_fs.go:266-269, maintenance.go:827), one that was checked if there was
\* something to check it with.  Not so for what is copied where it belongs.
NameMeansWhole ==
    kind \notin Place => /\ dst \in Whole \cup {None}
                         /\ dst \in {Damaged, Hollow} => "unchecked" \in faults

\* An attempt that fails leaves what was there (trial_test.go:181), one that succeeds
\* leaves nothing beside (trial_test.go:204), and a version that was there is somewhere,
\* until another is.
StaysInstalled ==
    kind \notin Place =>
        /\ outcome = "failed" => dst = before
        /\ outcome = "done" => dst = source /\ fresh = None /\ old = None
        /\ had /\ ~({"crash", "rename"} \subseteq faults) => {dst, fresh, old} \cap Whole # {}
=============================================================================

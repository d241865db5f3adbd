------------------------------- MODULE GameTree -------------------------------
(***************************************************************************)
(* What one game sees in wine/<game>, over a sequence of launches: the     *)
(* overlay (its lower layer), or the working copy and its marker           *)
(* .wsquashfs_cache.  Files are copied and deleted one after the other, in *)
(* no order; a launcher may end in the middle.  Launches of the game       *)
(* exclude each other (GameLocks).                                         *)
(***************************************************************************)
EXTENDS Naturals

CONSTANTS
    Part,       \* the files of an image, in a few parts
    LastImage,  \* images 1..LastImage succeed each other under one name
    Setups      \* what a history of launches may meet: sets of traits

\* "folder": the game is a .pc folder (fuse-overlayfs only); "reload":
\* installPrefixDlls remounts the overlay (no umu runner); "clean": --clean is
\* used; "replaced", "replacedWhileUsed": the image is, between or during
\* launches; "crash": a command may end at any point (signal, SIGKILL); "hold":
\* a process outside Wine may hold the overlay's mount.
Trait == {"folder", "reload", "clean", "replaced", "replacedWhileUsed", "crash",
          "hold"}

ASSUME GameTreeAssumption ==
    /\ Part # {} /\ LastImage \in Nat \ {0} /\ Setups \subseteq SUBSET Trait

Image == 1..LastImage
Nothing == 0                    \* no file, no mount, no marker
EmptyDir == LastImage + 1       \* a mount whose lower layer has no file
Layer == {Nothing, EmptyDir} \cup Image

VARIABLES
    traits,   \* what this history may meet
    image,    \* the image file
    pc,
    mode,     \* mountMode
    squash,   \* the image mounted in mnt/<game>
    lower,    \* lower layer of the overlay mounted on wine/<game>
    copy,     \* wine/<game> itself: the image each part comes from
    marker,   \* .wsquashfs_cache: the image whose signature it holds
    source,   \* the image opened by squashfuse or unsquashfs for the copy
    wanted,   \* history: the image when the launch began
    saved,    \* history: the image whose game has saved into the copy
    held      \* a process outside Wine holds the overlay's mount

treeVars ==
    <<traits, image, pc, mode, squash, lower, copy, marker, source, wanted, saved, held>>
tree == <<copy, marker, saved>>
mounts == <<squash, lower, held>>
launch == <<traits, mode, source, wanted>>

TreeTypeOK ==
    /\ traits \in Setups
    /\ image \in Image /\ wanted \in Image \cup {Nothing}
    /\ pc \in {"idle", "mount", "overlay", "copy", "check", "remove", "copying",
               "mark", "prepare", "reload", "ready", "play", "cleanup", "clean"}
    /\ mode \in {"none", "overlay", "copy"}
    /\ squash \in Image \cup {Nothing} /\ source \in Image \cup {Nothing}
    /\ lower \in Layer /\ copy \in [Part -> Image \cup {Nothing}]
    /\ {marker, saved} \subseteq Image \cup {Nothing}
    /\ held \in BOOLEAN /\ (held => lower # Nothing)
    /\ pc = "copying" => source # Nothing

TreeInit ==
    /\ traits \in Setups
    /\ image = 1 /\ pc = "idle" /\ mode = "none"
    /\ squash = Nothing /\ lower = Nothing
    /\ copy = [f \in Part |-> Nothing] /\ marker = Nothing
    /\ source = Nothing /\ wanted = Nothing /\ saved = Nothing /\ held = FALSE

Has(trait) == trait \in traits

At(l) == pc = l
Goto(l) == pc' = l

\* The end of a command, by exitNow or die.
End ==
    /\ pc' = "idle" /\ mode' = "none" /\ source' = Nothing /\ wanted' = Nothing
    /\ UNCHANGED traits

\* fuseUmount leaves a mount that somebody holds.
FuseUmount == lower' = IF held THEN lower ELSE Nothing

NoFile == copy = [f \in Part |-> Nothing] /\ marker = Nothing

-----------------------------------------------------------------------------
(* Mounting.                                                               *)

\* unmountAllStale, for this game's mounts.
Start ==
    /\ At("idle") /\ Goto("mount")
    /\ FuseUmount /\ squash' = Nothing
    /\ wanted' = image
    /\ UNCHANGED <<traits, image, mode, tree, source, held>>

\* A folder is its own lower layer, and never copied; an image needs squashfuse.
MountSquash ==
    /\ At("mount")
    /\ \/ Has("folder") /\ Goto("overlay") /\ UNCHANGED squash
       \/ ~Has("folder") /\ Goto("overlay") /\ squash' = image
       \/ ~Has("folder") /\ Goto("copy") /\ UNCHANGED squash
    /\ UNCHANGED <<image, launch, lower, held, tree>>

\* mountOverlay: the folder, or the mounted image.
LowerLayer == IF Has("folder") THEN image ELSE squash

MountOverlay ==
    /\ At("overlay")
    /\ \/ /\ lower' = LowerLayer
          /\ mode' = "overlay" /\ Goto("prepare")
          /\ UNCHANGED <<traits, squash, source, wanted>>
       \/ ~Has("folder") /\ squash' = Nothing /\ Goto("copy") /\ UNCHANGED <<launch, lower>>
       \/ Has("folder") /\ End /\ UNCHANGED <<squash, lower>>
    /\ UNCHANGED <<image, held, tree>>

\* Mutant: a marker of any image will do.
CopyExists == lower = Nothing /\ marker # Nothing

\* The marker that useCopyMode reads: that of the copy, unless an overlay hides it.
CopyValid == lower = Nothing /\ marker = image

\* useCopyMode: the copy is reused, or made again by squashfuse (the image is
\* opened before the old copy is removed) or unsquashfs (after).
UseCopyMode ==
    /\ At("copy")
    /\ \/ CopyValid /\ mode' = "copy" /\ Goto("prepare")
                    /\ UNCHANGED <<squash, source>>
       \/ ~CopyValid /\ source' = image /\ squash' = image /\ Goto("check") /\ UNCHANGED mode
       \/ ~CopyValid /\ Goto("check") /\ UNCHANGED <<mode, squash, source>>
    /\ UNCHANGED <<traits, image, wanted, lower, held, tree>>

\* Mutant: the copy is removed whatever is mounted.
CheckNothing ==
    /\ At("check") /\ Goto("remove")
    /\ UNCHANGED <<image, launch, mounts, tree>>

\* removeCopy: nothing is removed through a mount that stays.
CheckMount ==
    /\ At("check")
    /\ FuseUmount
    /\ \/ lower' = Nothing /\ Goto("remove") /\ UNCHANGED launch
       \/ lower' # Nothing /\ End
    /\ UNCHANGED <<image, squash, held, tree>>

\* os.RemoveAll, file by file.
RemoveFile ==
    /\ pc \in {"remove", "clean"}
    /\ \/ \E f \in Part : copy[f] # Nothing /\ copy' = [copy EXCEPT ![f] = Nothing]
                          /\ UNCHANGED marker
       \/ marker # Nothing /\ marker' = Nothing /\ UNCHANGED copy
    /\ saved' = Nothing
    /\ UNCHANGED <<image, pc, launch, mounts>>

Removed ==
    /\ At("remove") /\ NoFile
    /\ Goto("copying")
    /\ source' = IF source = Nothing THEN image ELSE source
    /\ UNCHANGED <<traits, image, mode, wanted, mounts, tree>>

\* cp -a or unsquashfs, file by file; a failure is a die.
CopyFile ==
    /\ At("copying")
    /\ \E f \in Part :
        /\ copy[f] = Nothing
        /\ \/ copy' = [copy EXCEPT ![f] = source] /\ UNCHANGED <<pc, launch>>
           \/ End /\ UNCHANGED copy
    /\ UNCHANGED <<image, mounts, marker, saved>>

Copied ==
    /\ At("copying") /\ \A f \in Part : copy[f] # Nothing
    /\ Goto("mark") /\ squash' = Nothing
    /\ UNCHANGED <<image, launch, lower, held, tree>>

\* The marker comes last, with the signature the image has by then, or not at all:
\* nobody looks at the result of os.WriteFile, and the game starts all the same.
WriteMarker ==
    /\ At("mark")
    /\ marker' \in {image, Nothing} /\ mode' = "copy" /\ Goto("prepare")
    /\ UNCHANGED <<traits, image, source, wanted, mounts, copy, saved>>

-----------------------------------------------------------------------------
(* Prefix, game, end.                                                      *)

\* --mount leaves what it has mounted.
ReportMount ==
    /\ At("prepare") /\ End
    /\ UNCHANGED <<image, mounts, tree>>

\* installPrefixDlls
Prepare ==
    /\ At("prepare")
    /\ Goto(IF Has("reload") /\ mode = "overlay" THEN "reload" ELSE "ready")
    /\ UNCHANGED <<image, launch, mounts, tree>>

\* reloadOverlay mounts what mnt/<game> holds as the lower layer.
ReloadLayer == IF squash = Nothing THEN EmptyDir ELSE squash

Reload ==
    /\ At("reload")
    /\ \/ lower' = ReloadLayer /\ Goto("ready") /\ UNCHANGED launch
       \/ lower' = Nothing /\ End
    /\ held' = FALSE
    /\ UNCHANGED <<image, squash, tree>>

\* In copy mode the saves are files of the copy.
PlayGame ==
    /\ At("ready") /\ Goto("play")
    /\ saved' = IF mode = "copy" THEN wanted ELSE saved
    /\ UNCHANGED <<image, launch, mounts, copy, marker>>

AfterGame ==
    /\ At("play") /\ Goto("cleanup")
    /\ UNCHANGED <<image, launch, mounts, tree>>

\* umountRetry ends with a lazy unmount.
Cleanup ==
    /\ At("cleanup") /\ End
    /\ IF mode = "overlay" THEN lower' = Nothing /\ squash' = Nothing /\ held' = FALSE
                           ELSE UNCHANGED mounts
    /\ UNCHANGED <<image, tree>>

-----------------------------------------------------------------------------
(* --clean, the image file and the other processes.                        *)

\* cleanCache: unmountAllStale, then the working copies of idle games.
StartClean ==
    /\ Has("clean") /\ At("idle")
    /\ FuseUmount /\ squash' = Nothing
    /\ IF lower' = Nothing THEN Goto("clean") ELSE UNCHANGED pc
    /\ UNCHANGED <<image, launch, held, tree>>

EndClean ==
    /\ At("clean") /\ NoFile /\ End
    /\ UNCHANGED <<image, mounts, tree>>

\* A new image takes the name (rename): open files keep the old one.
ReplaceImage ==
    /\ Has(IF At("idle") THEN "replaced" ELSE "replacedWhileUsed")
    /\ image < LastImage /\ image' = image + 1
    /\ UNCHANGED <<pc, launch, mounts, tree>>

Hold ==
    /\ Has("hold") /\ lower # Nothing /\ held' = ~held
    /\ UNCHANGED <<image, pc, launch, squash, lower, tree>>

\* SIGKILL, or a signal before mounted is set: everything stays as it is.
Crash ==
    /\ Has("crash") /\ ~At("idle") /\ End
    /\ UNCHANGED <<image, mounts, tree>>

Mounting == Start \/ MountSquash \/ MountOverlay \/ UseCopyMode
Copying == CheckMount \/ RemoveFile \/ Removed \/ CopyFile \/ Copied \/ WriteMarker
Playing == ReportMount \/ Prepare \/ Reload \/ PlayGame \/ AfterGame \/ Cleanup
Outside == StartClean \/ EndClean \/ ReplaceImage \/ Hold \/ Crash

TreeNext == Mounting \/ Copying \/ Playing \/ Outside

TreeSpec == TreeInit /\ [][TreeNext]_treeVars

-----------------------------------------------------------------------------
(* Properties.                                                             *)

Shown(v) == IF mode = "overlay" THEN lower = v ELSE copy = [f \in Part |-> v]

\* The game that plays sees the whole image the launch was given, and nothing
\* else, whatever earlier launches left behind (useCopyMode, reloadOverlay).
PlaysTheImage == pc = "play" => Shown(wanted)

\* Deletions stay in the copy that is to go: files of it are only removed with
\* nothing mounted over them (they would be those of the saves layer), and no
\* launch deletes the saves of copy mode in a copy of the image it launches, cut
\* short as it may be.  Excepted for the latter, because the code does delete
\* them: an overlay hid the marker, or it could not be written (useCopyMode,
\* extractImage, removeCopy, cleanCache).
DeletesOnlyOldCopies ==
    [][/\ (\E f \in Part : copy'[f] = Nothing /\ copy[f] # Nothing) => lower = Nothing
       /\ marker' = Nothing /\ marker # Nothing => lower = Nothing
       /\ saved # Nothing /\ saved' = Nothing
            => pc = "clean" \/ saved # image \/ Has("hold") \/ marker = Nothing]_treeVars
=============================================================================

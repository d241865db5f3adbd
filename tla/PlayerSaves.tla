----------------------------- MODULE PlayerSaves -----------------------------
(***************************************************************************)
(* Where a player's saves of one game are, over launches and commands: in  *)
(* the prefix (drive_c/users, and the files SAVEDIR or SAVEFILES name), or *)
(* in the library saves/<system>/<game>, through the links of applySavedir *)
(* or as copies of --saves.  A save is the date it was written.            *)
(***************************************************************************)
EXTENDS Naturals

CONSTANTS
    File,      \* the save files outside drive_c/users
    LastSave,  \* bound: saves have the dates 2..LastSave
    Setups     \* what a history may meet: sets of traits

\* "savedir", "savefiles": what the autorun or its override redirects; "overlay":
\* the prefix is an overlay, else an installed folder beside the library;
\* "clear": --clear is used; "stop": a launch may end before the game; "full",
\* "stop clear": cp may find the disk full, --clear may be interrupted; "reset":
\* --pack makes the image anew and resets the saves.
Trait == {"savedir", "savefiles", "overlay", "clear", "stop", "full", "stop clear", "reset"}

ASSUME PlayerSavesAssumption ==
    File # {} /\ LastSave \in Nat \ {0} /\ Setups \subseteq SUBSET Trait

None == 0               \* no file
Packaged == 1           \* the file of the image
Broken == LastSave + 1  \* a part of a file
Version == None..Broken

VARIABLES
    setup,     \* the traits of this history
    redirect,  \* SAVEDIR or SAVEFILES is set
    pc,        \* what the launcher or --clear does
    todo,      \* files left to handle in this step
    now,       \* date of the last save
    tree,      \* the files in the prefix
    link,      \* those replaced by a link to the library
    library,   \* the files in the library
    users,     \* the save in drive_c/users
    stash,     \* .users of --clear
    copied,    \* its copy in the library: content and date
    saver,     \* --saves: the date of the file it copies, or None
    newest,    \* history: what each file should hold
    newestUser,
    disturbed, \* history: the profile changed while --saves ran
    faults     \* history: what went wrong

game == <<tree, link, library, newest>>
profile == <<users, stash, newestUser>>
copying == <<copied, saver, disturbed>>
vars == <<setup, redirect, pc, todo, now, game, profile, copying, faults>>

\* --clear interrupted, cp of SAVEDIR or of --saves failed, --pack beside a command.
Fault == {"clear", "savedir", "saves", "reset"}

Launching == {"copy", "remove", "files", "link", "play"}
Clearing == {"others", "stash", "tree", "users"}

TypeOK ==
    /\ setup \in Setups /\ redirect \in BOOLEAN
    /\ pc \in {"idle"} \cup Launching \cup Clearing
    /\ todo \subseteq File /\ now \in Packaged..LastSave
    /\ tree \in [File -> Version] /\ link \in [File -> BOOLEAN]
    /\ library \in [File -> Version] /\ newest \in [File -> Version]
    /\ {users, stash, newestUser, saver} \subseteq Version
    /\ copied \in [content : Version, date : Version]
    /\ disturbed \in BOOLEAN /\ faults \subseteq Fault
    /\ \A f \in File : link[f] => tree[f] = None

Init ==
    /\ setup \in Setups /\ redirect = FALSE
    /\ pc = "idle" /\ todo = {} /\ now = Packaged
    /\ tree = [f \in File |-> Packaged] /\ newest = tree
    /\ link = [f \in File |-> FALSE] /\ library = [f \in File |-> None]
    /\ users = None /\ stash = None /\ newestUser = None
    /\ copied = [content |-> None, date |-> None] /\ saver = None /\ disturbed = FALSE
    /\ faults = {}

Has(trait) == trait \in setup
At(l) == pc = l
Goto(l) == pc' = l

\* What the game reads.
Seen(f) == IF link[f] THEN library[f] ELSE tree[f]

\* The user adds SAVEDIR or SAVEFILES to the override of the autorun.
Redirect ==
    /\ At("idle") /\ redirect' = TRUE
    /\ setup \cap {"savedir", "savefiles"} # {}
    /\ UNCHANGED <<setup, pc, todo, now, game, profile, copying, faults>>

-----------------------------------------------------------------------------
(* A launch, from applySavedir on.                                         *)

\* Only a directory is copied and removed; what is a link stays.
FirstStep ==
    IF ~redirect THEN "play"
    ELSE IF ~Has("savedir") THEN "files"
    ELSE IF \A f \in File : link[f] THEN "play" ELSE "copy"

Launch ==
    /\ At("idle") /\ Goto(FirstStep) /\ todo' = File
    /\ UNCHANGED <<setup, redirect, now, game, profile, copying, faults>>

\* Mutant: cp -a, which writes over what the library has.
CopyOver(f) ==
    /\ At("copy") /\ f \in todo
    /\ library' = [library EXCEPT ![f] = IF tree[f] = None THEN @ ELSE tree[f]]
    /\ todo' = todo \ {f}
    /\ UNCHANGED <<setup, redirect, pc, now, tree, link, newest, profile, copying, faults>>

\* cp -an: a file the library has is not copied.  Its failure is not looked at.
CopyFile(f) ==
    /\ At("copy") /\ f \in todo
    /\ \/ library' = [library EXCEPT ![f] = IF @ = None THEN tree[f] ELSE @]
          /\ UNCHANGED faults
       \/ /\ Has("full") /\ library[f] = None /\ tree[f] # None
          /\ library' = [library EXCEPT ![f] = Broken]
          /\ faults' = faults \cup {"savedir"}
    /\ todo' = todo \ {f}
    /\ UNCHANGED <<setup, redirect, pc, now, tree, link, newest, profile, copying>>

CopyEnd ==
    /\ At("copy") /\ todo = {} /\ Goto("remove") /\ todo' = File
    /\ UNCHANGED <<setup, redirect, now, game, profile, copying, faults>>

\* os.RemoveAll(p), file by file.
RemoveFile(f) ==
    /\ At("remove") /\ f \in todo /\ todo' = todo \ {f}
    /\ tree' = [tree EXCEPT ![f] = None]
    /\ UNCHANGED <<setup, redirect, pc, now, link, library, newest, profile, copying, faults>>

\* os.Symlink fails, unseen, if the image's directory is back (a reset).
LinkDir ==
    /\ At("remove") /\ todo = {}
    /\ link' = IF \A f \in File : tree[f] = None THEN [f \in File |-> TRUE] ELSE link
    /\ Goto("play")
    /\ UNCHANGED <<setup, redirect, todo, now, tree, library, newest, profile, copying, faults>>

\* SAVEFILES, one file: os.Rename when the library has none, which fails from
\* an overlay to another file system; then os.Remove.
MoveFile(f) ==
    /\ At("files") /\ f \in todo /\ tree[f] # None
    /\ library' = IF library[f] = None /\ ~Has("overlay")
                  THEN [library EXCEPT ![f] = tree[f]] ELSE library
    /\ tree' = [tree EXCEPT ![f] = None]
    /\ UNCHANGED <<setup, redirect, pc, todo, now, link, newest, profile, copying, faults>>

LinkFile(f) ==
    /\ At("files") /\ f \in todo /\ tree[f] = None
    /\ link' = [link EXCEPT ![f] = TRUE] /\ todo' = todo \ {f}
    /\ pc' = IF todo = {f} THEN "play" ELSE pc
    /\ UNCHANGED <<setup, redirect, now, tree, library, newest, profile, copying, faults>>

\* The launch ends in applySavedir (signal, error, power).
Stop ==
    /\ Has("stop") /\ pc \in Launching \ {"play"} /\ Goto("idle") /\ todo' = {}
    /\ UNCHANGED <<setup, redirect, now, game, profile, copying, faults>>

\* The game writes one of its files, in place.
Save(f) ==
    /\ At("play") /\ now < LastSave /\ now' = now + 1
    /\ IF link[f] THEN library' = [library EXCEPT ![f] = now'] /\ UNCHANGED tree
       ELSE tree' = [tree EXCEPT ![f] = now'] /\ UNCHANGED library
    /\ newest' = [newest EXCEPT ![f] = now']
    /\ UNCHANGED <<setup, redirect, pc, todo, link, profile, copying, faults>>

SaveProfile ==
    /\ At("play") /\ now < LastSave /\ now' = now + 1
    /\ users' = now' /\ newestUser' = now' /\ disturbed' = TRUE
    /\ UNCHANGED <<setup, redirect, pc, todo, game, stash, copied, saver, faults>>

Quit ==
    /\ At("play") /\ Goto("idle") /\ todo' = {}
    /\ UNCHANGED <<setup, redirect, now, game, profile, copying, faults>>

-----------------------------------------------------------------------------
(* --clear: only an overlay has its saves where it looks.                  *)

StartClear ==
    /\ Has("clear") /\ Has("overlay")
    /\ At("idle") /\ Goto("others")
    /\ UNCHANGED <<setup, redirect, todo, now, game, profile, copying, faults>>

\* What is not drive_c, then what an earlier --clear may have left.
ClearOthers ==
    /\ At("others") /\ Goto("stash")
    /\ stash' = None
    /\ UNCHANGED <<setup, redirect, todo, now, game, users, newestUser, copying, faults>>

\* Mutant: drive_c/users is not moved away.
StashNothing ==
    /\ At("stash") /\ Goto("tree")
    /\ UNCHANGED <<setup, redirect, todo, now, game, profile, copying, faults>>

StashUsers ==
    /\ At("stash") /\ Goto("tree")
    /\ stash' = IF users = None THEN stash ELSE users
    /\ users' = None
    /\ UNCHANGED <<setup, redirect, todo, now, game, newestUser, copying, faults>>

\* os.RemoveAll: the image's files are seen again; links are not followed.
PackagedAgain ==
    /\ tree' = [f \in File |-> Packaged] /\ link' = [f \in File |-> FALSE]
    /\ users' = None
    /\ newest' = [f \in File |-> IF library[f] = None THEN Packaged ELSE library[f]]

ClearTree ==
    /\ At("tree") /\ Goto("users")
    /\ PackagedAgain
    /\ UNCHANGED <<setup, redirect, todo, now, library, stash, newestUser, copying, faults>>

UnstashUsers ==
    /\ At("users") /\ Goto("idle")
    /\ users' = IF stash = None THEN users ELSE stash
    /\ stash' = None
    /\ UNCHANGED <<setup, redirect, todo, now, game, newestUser, copying, faults>>

StopClear ==
    /\ Has("stop clear") /\ pc \in Clearing /\ Goto("idle")
    /\ faults' = faults \cup {"clear"}
    /\ UNCHANGED <<setup, redirect, todo, now, game, profile, copying>>

-----------------------------------------------------------------------------
(* --saves: a launch or --clear may begin while it copies.                 *)

Running == pc \in Launching

\* The library's copy is older than the save.
Newer == users # None /\ users > copied.date

StartSaves ==
    /\ ~Running /\ ~redirect /\ Has("overlay") /\ saver = None /\ Newer
    /\ saver' = users /\ disturbed' = FALSE
    /\ UNCHANGED <<setup, redirect, pc, todo, now, game, profile, copied, faults>>

\* Mutant: cp without -p, which dates the copy of today.
CopyDated(content) == [content |-> content, date |-> now]

\* cp -p.
Copied(content) == [content |-> content, date |-> saver]

\* What cp reads: the file it opened, unless the game writes into it.
Reads == IF disturbed THEN Broken ELSE saver

EndSaves ==
    /\ saver # None /\ saver' = None
    /\ \/ copied' = Copied(Reads) /\ UNCHANGED faults
       \/ /\ Has("full") /\ copied' = [content |-> Broken, date |-> now]
          /\ faults' = faults \cup {"saves"}
    /\ UNCHANGED <<setup, redirect, pc, todo, now, game, profile, disturbed>>

-----------------------------------------------------------------------------
(* --pack over the game's image.                                           *)

\* "Réinitialiser aussi ses sauvegardes": nothing asks whether the game runs.
ResetSaves ==
    /\ Has("reset") /\ Has("overlay")
    /\ PackagedAgain /\ stash' = None /\ newestUser' = None
    /\ faults' = IF At("idle") /\ saver = None THEN faults ELSE faults \cup {"reset"}
    /\ UNCHANGED <<setup, redirect, pc, todo, now, library, copying>>

Next ==
    \/ Redirect \/ Launch \/ CopyEnd \/ LinkDir \/ Stop \/ SaveProfile \/ Quit
    \/ \E f \in File : CopyFile(f) \/ RemoveFile(f) \/ MoveFile(f) \/ LinkFile(f) \/ Save(f)
    \/ StartClear \/ ClearOthers \/ StashUsers \/ ClearTree \/ UnstashUsers \/ StopClear
    \/ StartSaves \/ EndSaves \/ ResetSaves

Spec == Init /\ [][Next]_vars

-----------------------------------------------------------------------------
(* Properties.                                                             *)

\* When the game starts, each of its save files is the newest there is, whatever
\* was linked, stopped, cleared or reset before, unless cp failed or the saves were
\* reset under a running command (applySavedir, clearSaves, packPrefix).
SeesNewest ==
    At("play") /\ faults \cap {"savedir", "reset"} = {} => \A f \in File : Seen(f) = newest[f]

\* --clear keeps drive_c/users: the last save is never nowhere, and is there once
\* it is over, unless it was interrupted, or --pack reset the saves meanwhile (clearSaves).
UsersKept ==
    faults \cap {"clear", "reset"} = {} =>
        users = newestUser \/ (pc \in Clearing /\ stash = newestUser)

\* When --saves has nothing left to copy, the library has the last save whole,
\* even after an earlier --saves met a running game, unless cp failed or was overtaken by a reset
\* (copyGameSaves, copyPreserve).
UpToDate ==
    saver = None /\ users # None /\ ~Newer /\ faults \cap {"saves", "reset"} = {} =>
        copied.content = users
=============================================================================

----------------------------- MODULE SavesLayer -----------------------------
(***************************************************************************)
(* The saves of one game, saves/<game>: the upper layer of an overlay over *)
(* its image.  fuse-overlayfs and the overlay of the kernel both write it, *)
(* each with marks of its own for what is deleted; it is converted for the *)
(* kernel before each of its mounts, and --clean removes from it the files *)
(* that are the image's.  Conversion and cleaning go file by file and may  *)
(* be interrupted anywhere.  What the player sees is GameFiles.            *)
(*                                                                         *)
(* How the overlays read and write a layer is modelled from README.md:528  *)
(* (fuse-overlayfs reads the kernel's format too), from the marks that     *)
(* savesToKernelFormat and cleanSaves look for, and from kernel_test.go.   *)
(***************************************************************************)
EXTENDS Naturals

CONSTANTS
    Name,      \* the paths there may be
    Above,     \* Above[n]: the directories on the way to n
    Content,   \* contents of files
    Images,    \* images: tree, what each name is; named, what stat finds there
               \* when it follows the links to directories on the way
    LastImage  \* bound: images after the first one

Kind == {"none", "dir", "chr", "link"} \cup Content
Files == Content \cup {"link"}

ASSUME LayerAssumption ==
    /\ Above \in [Name -> SUBSET Name] /\ Content # {} /\ LastImage \in Nat
    /\ \A n \in Name : n \notin Above[n] /\ \A a \in Above[n] : Above[a] \subseteq Above[n]
    /\ Content \cap {"none", "dir", "chr", "link"} = {}
    /\ \A i \in Images : i.tree \in [Name -> Kind] /\ i.named \in [Name -> Kind]
    /\ \A i \in Images, n \in Name :
         /\ i.tree[n] # "none" => \A a \in Above[n] : i.tree[a] = "dir"
         /\ i.named[n] # i.tree[n] => \E a \in Above[n] : i.tree[a] = "link"

Below == [n \in Name |-> {m \in Name : n \in Above[m]}]

VARIABLES
    image, images,  \* the image, and how many replaced the first one
    upper,          \* what is in saves/<game> under each name; "chr": device 0/0
    dots,           \* names n with a file .wh.n beside
    opaque,         \* how a directory is marked opaque: "file", .wh..wh..opq;
                    \* "fuse", user.fuseoverlayfs.opaque; "kernel", user.overlay.opaque
    wine,           \* files with attributes of Wine
    pc, mode,       \* what goes on, and the overlay a session plays on
    todo, whiteouts,\* names left to --clean or to the conversion
    cur,            \* names between two steps of the conversion
    cleaned,        \* history: a whole --clean came after all else
    torn            \* history: .wh.n left beside n by a fuse-overlayfs that died

layer == <<upper, dots, opaque, wine>>
vars == <<image, images, layer, pc, mode, todo, whiteouts, cur, cleaned, torn>>

Mark == {"file", "fuse", "kernel"}
Converting == {"opaque", "opaque attributes", "whiteouts"}

TypeOK ==
    /\ image \in Images /\ images \in 0..LastImage
    /\ upper \in [Name -> Kind] /\ opaque \in [Name -> SUBSET Mark]
    /\ pc \in {"idle", "play", "clean"} \cup Converting /\ mode \in {"fuse", "kernel"}
    /\ {dots, wine, todo, whiteouts, cur, torn} \subseteq SUBSET Name
    /\ cleaned \in BOOLEAN
    /\ \A n \in Name : /\ upper[n] # "none" => \A a \in Above[n] : upper[a] = "dir"
                       /\ opaque[n] # {} => upper[n] = "dir"
    /\ \A n \in wine : upper[n] \in Content

Init ==
    /\ image \in Images /\ images = 0
    /\ upper = [n \in Name |-> "none"] /\ opaque = [n \in Name |-> {}]
    /\ dots = {} /\ wine = {} /\ torn = {}
    /\ pc = "idle" /\ mode = "fuse"
    /\ todo = {} /\ whiteouts = {} /\ cur = {} /\ cleaned = FALSE

-----------------------------------------------------------------------------
(* Reading the two layers.                                                 *)

\* The image's name n does not show through the directories on the way to it.
Covered(n, marks, dotted) ==
    \E a \in Above[n] :
        \/ upper[a] \notin {"none", "dir"}
        \/ opaque[a] \cap marks # {}
        \/ a \in dotted /\ upper[a] = "none"

\* What a name holds for an overlay that knows these marks and .wh. files.
Shown(n, marks, dotted) ==
    IF upper[n] \notin {"none", "chr"} THEN upper[n]
    ELSE IF upper[n] = "chr" \/ n \in dotted \/ Covered(n, marks, dotted) THEN "none"
    ELSE image.tree[n]

FuseShows(n) == Shown(n, Mark, dots)
KernelShows(n) == Shown(n, {"kernel"}, {})
Seen(n) == IF mode = "kernel" THEN KernelShows(n) ELSE FuseShows(n)

-----------------------------------------------------------------------------
(* The game, through either overlay.                                       *)

Playing == pc = "play"

\* Writing below a directory makes it in the upper layer.
CopiedUp(n) == [m \in Name |-> IF m \in Above[n] /\ upper[m] = "none" THEN "dir" ELSE upper[m]]
InDirectory(n) == \A a \in Above[n] : Seen(a) = "dir"
Session == <<image, images, pc, mode, todo, whiteouts, cur, cleaned>>

\* A file is created, changed or renamed onto n.
Write(n, c) ==
    /\ Playing /\ InDirectory(n) /\ Seen(n) \in Content \cup {"none"}
    /\ upper' = [CopiedUp(n) EXCEPT ![n] = c]
    /\ \/ dots' = dots \ {n} /\ torn' = torn \ {n}
       \* fuse-overlayfs dies before it has removed .wh.n (the game with it).
       \/ n \in dots /\ mode = "fuse" /\ torn' = torn \cup {n} /\ UNCHANGED dots
    /\ wine' \in {wine \cup {n}, wine \ {n}}
    /\ UNCHANGED <<Session, opaque>>

\* A file or an empty directory is removed: a whiteout if the image's would show.
\* mknod may not be there for fuse-overlayfs, which then writes .wh.n.
Delete(n) ==
    /\ Playing /\ InDirectory(n) /\ Seen(n) # "none"
    /\ \A m \in Below[n] : Seen(m) = "none"
    /\ LET shows == image.tree[n] # "none" /\ ~Covered(n, Mark, dots)
           gone == Below[n] \cup {n}
       IN \E w \in IF shows THEN {"chr"} \cup (IF mode = "fuse" THEN {".wh."} ELSE {}) ELSE {"none"} :
            /\ upper' = [m \in Name |-> IF m = n /\ w = "chr" THEN "chr"
                                        ELSE IF m \in gone THEN "none"
                                        ELSE IF shows THEN CopiedUp(n)[m] ELSE upper[m]]
            /\ dots' = (dots \ gone) \cup (IF w = ".wh." THEN {n} ELSE {})
            /\ wine' = wine \ gone /\ torn' = torn \ gone
            /\ opaque' = [opaque EXCEPT ![n] = {}]
    /\ UNCHANGED Session

\* A directory in the place of a whiteout is opaque.
MakeDirectory(n) ==
    /\ Playing /\ InDirectory(n) /\ Seen(n) = "none"
    /\ upper' = [CopiedUp(n) EXCEPT ![n] = "dir"]
    /\ dots' = dots \ {n}
    /\ LET replaced == upper[n] = "chr" \/ n \in dots
       IN \E marks \in IF ~replaced THEN {{}}
                       ELSE IF mode = "kernel" THEN {{"kernel"}} ELSE {{"file"}, {"fuse"}} :
            opaque' = [opaque EXCEPT ![n] = marks]
    /\ UNCHANGED <<Session, wine, torn>>

Game == \E n \in Name : (\E c \in Content : Write(n, c)) \/ Delete(n) \/ MakeDirectory(n)

-----------------------------------------------------------------------------
(* The launcher.                                                           *)

Idle == pc = "idle"

\* --pack over the image, or a new version of it.
ReplaceImage ==
    /\ Idle /\ images < LastImage
    /\ image' \in Images \ {image} /\ images' = images + 1 /\ cleaned' = FALSE
    /\ UNCHANGED <<layer, pc, mode, todo, whiteouts, cur, torn>>

Mount(overlay) ==
    /\ pc' = "play" /\ mode' = overlay /\ cleaned' = FALSE
    /\ todo' = {} /\ whiteouts' = {} /\ cur' = {}
    /\ UNCHANGED <<image, images, layer, torn>>

\* mountOverlay
PlayOnFuse == Idle /\ Mount("fuse")

\* End of the game, or of everything at once.
GameEnds ==
    /\ Playing /\ pc' = "idle"
    /\ UNCHANGED <<image, images, layer, mode, todo, whiteouts, cur, cleaned, torn>>

\* savesToKernelFormat: what is there to convert.
StartConversion ==
    /\ Idle /\ pc' = "opaque"
    /\ todo' = {d \in Name : "file" \in opaque[d]} /\ whiteouts' = dots
    /\ cleaned' = FALSE
    /\ UNCHANGED <<image, images, layer, mode, cur, torn>>

Kept == <<image, images, wine, mode, cleaned, torn>>

\* setfattr user.overlay.opaque
SetOpaque(d) ==
    /\ pc = "opaque" /\ cur = {} /\ d \in todo
    /\ opaque' = [opaque EXCEPT ![d] = @ \cup {"kernel"}] /\ cur' = {d}
    /\ UNCHANGED <<Kept, upper, dots, pc, todo, whiteouts>>

\* then the removal of .wh..wh..opq
DropOpaqueFile(d) ==
    /\ pc = "opaque" /\ cur = {d}
    /\ opaque' = [opaque EXCEPT ![d] = @ \ {"file"}]
    /\ cur' = {} /\ todo' = todo \ {d}
    /\ UNCHANGED <<Kept, upper, dots, pc, whiteouts>>

\* Mutant: the attributes are not looked for.
NoAttributes ==
    /\ pc = "opaque" /\ todo = {} /\ pc' = "opaque attributes" /\ todo' = {}
    /\ UNCHANGED <<Kept, upper, dots, opaque, whiteouts, cur>>

\* getfattr -R lists the directories fuse-overlayfs gave an attribute.
ListAttributes ==
    /\ pc = "opaque" /\ todo = {} /\ pc' = "opaque attributes"
    /\ todo' = {d \in Name : "fuse" \in opaque[d]}
    /\ UNCHANGED <<Kept, upper, dots, opaque, whiteouts, cur>>

CopyAttribute(d) ==
    /\ pc = "opaque attributes" /\ d \in todo
    /\ opaque' = [opaque EXCEPT ![d] = @ \cup {"kernel"}] /\ todo' = todo \ {d}
    /\ UNCHANGED <<Kept, upper, dots, pc, whiteouts, cur>>

StartWhiteouts ==
    /\ pc = "opaque attributes" /\ todo = {} /\ pc' = "whiteouts"
    /\ UNCHANGED <<Kept, upper, dots, opaque, todo, whiteouts, cur>>

\* mknod, if nothing has the name
MakeDevice(n) ==
    /\ pc = "whiteouts" /\ cur = {} /\ n \in whiteouts
    /\ upper' = [upper EXCEPT ![n] = IF @ = "none" THEN "chr" ELSE @] /\ cur' = {n}
    /\ UNCHANGED <<Kept, dots, opaque, pc, todo, whiteouts>>

\* then the removal of .wh.n
DropDotFile(n) ==
    /\ pc = "whiteouts" /\ cur = {n}
    /\ dots' = dots \ {n} /\ cur' = {} /\ whiteouts' = whiteouts \ {n}
    /\ UNCHANGED <<Kept, upper, opaque, pc, todo>>

\* stageInNamespace
PlayOnKernel == pc = "whiteouts" /\ whiteouts = {} /\ cur = {} /\ Mount("kernel")

\* setfattr, mknod or the namespace failed: runInKernelOverlay returns and main
\* goes on with fuse-overlayfs.
FallBack == pc \in Converting /\ cur = {} /\ Mount("fuse")

\* The launcher ends (WSQUASHFS_OVERLAY=kernel after a failure) or is killed, or
\* --clean is.
Interrupted ==
    /\ pc \in Converting \cup {"clean"} /\ pc' = "idle"
    /\ todo' = {} /\ whiteouts' = {} /\ cur' = {}
    /\ UNCHANGED <<image, images, layer, mode, cleaned, torn>>

\* cleanSaves: a game that runs is left alone; the image is mounted.
StartClean ==
    /\ Idle /\ pc' = "clean"
    /\ todo' = {n \in Name : upper[n] \in Content}
    /\ UNCHANGED <<image, images, layer, mode, whiteouts, cur, cleaned, torn>>

\* Mutant: only the mark that is a file is looked for.
UnderOpaqueFile(n) == \E a \in Above[n] : "file" \in opaque[a]

\* Mutant: one answer for all directories.
SomeOpaque(n) == \E a \in Name : opaque[a] # {}

\* underOpaque
UnderOpaque(n) == \E a \in Above[n] : opaque[a] # {}

CleanFile(n) ==
    /\ pc = "clean" /\ n \in todo /\ todo' = todo \ {n}
    /\ upper' = [upper EXCEPT ![n] =
                   IF image.named[n] = @ /\ ~UnderOpaque(n) /\ n \notin wine THEN "none" ELSE @]
    /\ UNCHANGED <<image, images, dots, opaque, wine, pc, mode, whiteouts, cur, cleaned, torn>>

EndClean ==
    /\ pc = "clean" /\ todo = {} /\ pc' = "idle" /\ cleaned' = TRUE
    /\ UNCHANGED <<image, images, layer, mode, todo, whiteouts, cur, torn>>

Next ==
    \/ Game \/ GameEnds \/ ReplaceImage \/ PlayOnFuse
    \/ StartConversion \/ ListAttributes \/ StartWhiteouts \/ PlayOnKernel
    \/ FallBack \/ Interrupted \/ StartClean \/ EndClean
    \/ \E n \in Name : \/ SetOpaque(n) \/ DropOpaqueFile(n) \/ CopyAttribute(n)
                       \/ MakeDevice(n) \/ DropDotFile(n) \/ CleanFile(n)

Spec == Init /\ [][Next]_vars

-----------------------------------------------------------------------------
(* Properties.                                                             *)

\* The image names another file than its own below a link to a directory: Lstat of
\* maintenance.go:160 follows it.
BelowLink(n) == image.named[n] # image.tree[n]

\* The value a player would notice, attributes of Wine included.
Visible(n) ==
    IF n \in torn \/ BelowLink(n) THEN <<"excused">>
    ELSE <<FuseShows(n), n \in wine>>

Promise == INSTANCE GameFiles WITH
    files <- [n \in Name |-> Visible(n)], playing <- Playing

\* Launches on either overlay, a fall back from one to the other, --clean and
\* everything that is interrupted leave the files as the game left them.
KeepsTheFiles == Promise!Spec

\* README.md:528-531: the two overlays share the saves, and the kernel's shows what
\* fuse-overlayfs would, once converted, without any .wh. file or .wh..wh..opq for the
\* game to see.
KernelSeesTheSame ==
    Playing /\ mode = "kernel" =>
        /\ dots = {} /\ \A d \in Name : "file" \notin opaque[d]
        /\ \A n \in Name : KernelShows(n) = FuseShows(n)

\* maintenance.go:118: a --clean that ended has left no file that the image would
\* show as it is.
NoDuplicateLeft ==
    cleaned => \A n \in Name : upper[n] \in Content /\ n \notin wine =>
        Covered(n, Mark, dots) \/ image.tree[n] # upper[n]
=============================================================================

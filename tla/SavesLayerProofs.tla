-------------------------- MODULE SavesLayerProofs --------------------------
(***************************************************************************)
(* Theorems about SavesLayer, for any set of paths, any images and any     *)
(* interleaving of games, conversions, --clean and interruptions: the two  *)
(* overlays show the same, --clean leaves no duplicate, and nobody but the *)
(* game and a new image changes what the player sees (GameFiles).          *)
(***************************************************************************)
EXTENDS SavesLayer, TLAPS

\* A file .wh.n lies in the directories of n.  Beside a file of the saves, it was left by
\* a fuse-overlayfs that died.
DotsFit ==
    \A n \in dots : /\ \A a \in Above[n] : upper[a] = "dir"
                    /\ upper[n] \in Content => n \in torn

\* The directory has the kernel's mark, or needs none.
Marked(d) == opaque[d] = {} \/ "kernel" \in opaque[d]

\* What the conversion has listed is what there still is of fuse-overlayfs's marks.
ConversionFits ==
    /\ pc \in Converting => whiteouts = dots
    /\ pc \notin Converting => cur = {}
    /\ pc = "opaque" =>
         /\ todo = {d \in Name : "file" \in opaque[d]}
         /\ cur \subseteq todo /\ \A d \in cur : "kernel" \in opaque[d]
    /\ pc = "opaque attributes" =>
         /\ cur = {} /\ \A d \in todo : "fuse" \in opaque[d]
         /\ \A d \in Name \ todo : Marked(d)
    /\ pc = "whiteouts" =>
         /\ \A d \in Name : Marked(d)
         /\ \A n \in cur : upper[n] # "none"

\* A session of the kernel's overlay keeps to the kernel's marks.
KernelFits ==
    Playing /\ mode = "kernel" => dots = {} /\ \A d \in Name : Marked(d)

\* The list of --clean names files, and it has looked at those that are not in it.
CleanFits ==
    /\ cleaned => pc \in {"idle", "clean"}
    /\ pc = "clean" =>
         /\ \A n \in todo : upper[n] \in Content
         /\ \A n \in Name : upper[n] \in Content /\ n \notin todo =>
              n \in wine \/ UnderOpaque(n) \/ image.named[n] # upper[n]

\* The inductive invariant.
LayerInv ==
    TypeOK /\ DotsFit /\ ConversionFits /\ KernelFits /\ CleanFits /\ NoDuplicateLeft

-----------------------------------------------------------------------------
(* How a layer is read.                                                    *)

\* No content is one of the other kinds.
LEMMA Contents ==
    \A c \in Content : c # "none" /\ c # "dir" /\ c # "chr" /\ c # "link"
  BY LayerAssumption

\* A path below a path is below what that is below of.
LEMMA AboveFacts ==
    \A n \in Name : /\ n \notin Above[n] /\ Above[n] \subseteq Name
                    /\ \A a \in Above[n] : Above[a] \subseteq Above[n]
                    /\ Below[n] = {m \in Name : n \in Above[m]}
  BY LayerAssumption DEF Below

\* A directory the player sees is one of the saves, or of the image and not deleted.
LEMMA DirectoryIs ==
    ASSUME NEW n \in Name, FuseShows(n) = "dir"
    PROVE  upper[n] = "dir" \/ (upper[n] = "none" /\ n \notin dots)
  BY DEF FuseShows, Shown

\* While a game plays, what it sees is what fuse-overlayfs shows, or would show.
LEMMA SeenIsFuse ==
    ASSUME TypeOK, KernelFits, Playing, NEW n \in Name
    PROVE  Seen(n) = FuseShows(n)
  <1>1. CASE mode = "kernel"
    <2>1. dots = {} /\ \A d \in Name : Marked(d)
      BY <1>1 DEF KernelFits
    <2>2. \A a \in Above[n] : opaque[a] \cap {"kernel"} # {} <=> opaque[a] \cap Mark # {}
      BY <2>1, AboveFacts DEF Marked, Mark
    <2>3. Covered(n, {"kernel"}, {}) <=> Covered(n, Mark, dots)
      BY <2>1, <2>2 DEF Covered
    <2> QED
      BY <1>1, <2>1, <2>3 DEF Seen, KernelShows, FuseShows, Shown
  <1>2. CASE mode # "kernel"
    BY <1>2 DEF Seen
  <1> QED
    BY <1>1, <1>2

\* The directories on the way to a name the game works on.
OnTheWay(n) ==
    \A a \in Above[n] : upper[a] = "dir" \/ (upper[a] = "none" /\ a \notin dots)

\* The game works on names whose directories it sees: none of them is a file or deleted.
LEMMA WayIs ==
    ASSUME TypeOK, KernelFits, Playing, NEW n \in Name, InDirectory(n)
    PROVE  OnTheWay(n)
  BY AboveFacts, SeenIsFuse, DirectoryIs DEF InDirectory, OnTheWay

\* Steps of the launcher that do not touch the layer.
Looks ==
    \/ GameEnds \/ ReplaceImage \/ PlayOnFuse
    \/ StartConversion \/ ListAttributes \/ StartWhiteouts \/ PlayOnKernel
    \/ FallBack \/ Interrupted \/ StartClean \/ EndClean

-----------------------------------------------------------------------------
(* One step.                                                               *)

\* One more image is still one of the bound.
LEMMA OneMore == ASSUME NEW l \in Nat, NEW i \in 0..l, i < l PROVE i + 1 \in 0..l
  OBVIOUS

\* What each step of the game does to the names of the saves.
LEMMA WriteDoes ==
    ASSUME LayerInv, NEW n \in Name, NEW c \in Content, Write(n, c)
    PROVE  /\ OnTheWay(n) /\ upper[n] # "dir" /\ opaque[n] = {}
           /\ \A m \in Below[n] : upper[m] = "none" /\ m \notin dots
           /\ upper' = [m \in Name |-> IF m = n THEN c
                                       ELSE IF m \in Above[n] THEN "dir" ELSE upper[m]]
  <1>1. TypeOK /\ KernelFits /\ DotsFit /\ Playing
    BY DEF LayerInv, Write
  <1>2. OnTheWay(n)
    BY <1>1, WayIs DEF Write
  <1>3. upper[n] # "dir"
    <2>1. Shown(n, Mark, dots) # "dir"
      BY <1>1, SeenIsFuse, Contents DEF Write, FuseShows
    <2> QED
      BY <2>1 DEF Shown
  <1>4. opaque[n] = {} /\ \A m \in Below[n] : upper[m] = "none" /\ m \notin dots
    BY <1>1, <1>3, AboveFacts DEF TypeOK, DotsFit
  <1>5. upper' = [m \in Name |-> IF m = n THEN c
                                 ELSE IF m \in Above[n] THEN "dir" ELSE upper[m]]
    BY <1>2 DEF Write, CopiedUp, OnTheWay
  <1> QED
    BY <1>2, <1>3, <1>4, <1>5

\* A deleted name takes what was below it along; its device or .wh. file lies in directories
\* that were copied up.
LEMMA DeleteDoes ==
    ASSUME LayerInv, NEW n \in Name, Delete(n)
    PROVE  /\ OnTheWay(n)
           /\ \A m \in Below[n] : upper[m] \in {"none", "chr"} /\ opaque[m] = {}
           /\ \E w \in {"chr", "none"}, up \in SUBSET Above[n] :
                /\ up \in {{}, Above[n]} /\ (w = "chr" => up = Above[n])
                /\ \A m \in dots' : \/ m \in dots \ (Below[n] \cup {n})
                                    \/ m = n /\ up = Above[n] /\ w = "none"
                /\ upper' = [m \in Name |-> IF m = n THEN w
                                            ELSE IF m \in Below[n] THEN "none"
                                            ELSE IF m \in up THEN "dir" ELSE upper[m]]
  <1>1. TypeOK /\ KernelFits /\ Playing
    BY DEF LayerInv, Delete
  <1>2. OnTheWay(n)
    BY <1>1, WayIs DEF Delete
  <1>3. ASSUME NEW m \in Below[n] PROVE upper[m] \in {"none", "chr"} /\ opaque[m] = {}
    <2>1. m \in Name
      BY AboveFacts
    <2>2. Shown(m, Mark, dots) = "none"
      BY <1>1, <2>1, SeenIsFuse DEF Delete, FuseShows
    <2> QED
      BY <1>1, <2>1, <2>2 DEF Shown, TypeOK
  <1> DEFINE shows == image.tree[n] # "none" /\ ~Covered(n, Mark, dots)
             gone == Below[n] \cup {n}
  <1>4. PICK w \in IF shows THEN {"chr"} \cup (IF mode = "fuse" THEN {".wh."} ELSE {})
                   ELSE {"none"} :
          /\ upper' = [m \in Name |-> IF m = n /\ w = "chr" THEN "chr"
                                      ELSE IF m \in gone THEN "none"
                                      ELSE IF shows THEN CopiedUp(n)[m] ELSE upper[m]]
          /\ dots' = (dots \ gone) \cup (IF w = ".wh." THEN {n} ELSE {})
    BY DEF Delete
  <1> DEFINE v == IF w = "chr" THEN "chr" ELSE "none"
             up == IF shows THEN Above[n] ELSE {}
  <1>5. \A m \in Name : m \in Above[n] => m \notin gone
    BY AboveFacts
  <1>6. upper' = [m \in Name |-> IF m = n THEN v
                                 ELSE IF m \in Below[n] THEN "none"
                                 ELSE IF m \in up THEN "dir" ELSE upper[m]]
    BY <1>2, <1>4, <1>5 DEF CopiedUp, OnTheWay
  <1>7. /\ up \in {{}, Above[n]} /\ (v = "chr" => up = Above[n])
        /\ \A m \in dots' : \/ m \in dots \ (Below[n] \cup {n})
                            \/ m = n /\ up = Above[n] /\ v = "none"
    BY <1>4
  <1>8. v \in {"chr", "none"} /\ up \in SUBSET Above[n]
    OBVIOUS
  <1> QED
    BY <1>2, <1>3, <1>6, <1>7, <1>8

\* A directory of the game's is made where nothing is seen, and nothing of the saves is below.
LEMMA MakeDirectoryDoes ==
    ASSUME LayerInv, NEW n \in Name, MakeDirectory(n)
    PROVE  /\ OnTheWay(n) /\ upper[n] \in {"none", "chr"}
           /\ \A m \in Below[n] : upper[m] = "none" /\ m \notin dots
           /\ upper' = [m \in Name |-> IF m = n \/ m \in Above[n] THEN "dir" ELSE upper[m]]
  <1>1. TypeOK /\ KernelFits /\ DotsFit /\ Playing
    BY DEF LayerInv, MakeDirectory
  <1>2. OnTheWay(n)
    BY <1>1, WayIs DEF MakeDirectory
  <1>3. upper[n] \in {"none", "chr"}
    <2>1. Shown(n, Mark, dots) = "none"
      BY <1>1, SeenIsFuse DEF MakeDirectory, FuseShows
    <2> QED
      BY <1>1, <2>1 DEF Shown
  <1>4. \A m \in Below[n] : upper[m] = "none" /\ m \notin dots
    BY <1>1, <1>3, AboveFacts DEF TypeOK, DotsFit
  <1>5. upper' = [m \in Name |-> IF m = n \/ m \in Above[n] THEN "dir" ELSE upper[m]]
    BY <1>2 DEF MakeDirectory, CopiedUp, OnTheWay
  <1> QED
    BY <1>2, <1>3, <1>4, <1>5

\* A .wh. file stays in a directory of the saves, beside nothing but what a torn
\* fuse-overlayfs left.
LEMMA DotsKept == LayerInv /\ [Next]_vars => DotsFit'
  <1> SUFFICES ASSUME LayerInv, [Next]_vars PROVE DotsFit'
    OBVIOUS
  <1> TypeOK /\ DotsFit /\ ConversionFits /\ KernelFits /\ CleanFits /\ NoDuplicateLeft
    BY DEF LayerInv
  <1> USE DEF layer, TypeOK, DotsFit
  <1>1. ASSUME NEW n \in Name, NEW c \in Content, Write(n, c)
        PROVE  DotsFit'
    <2>1. \A m \in dots' : m \in dots /\ (m = n => m \in torn')
                         /\ (m # n => (m \in torn <=> m \in torn'))
      BY <1>1 DEF Write
    <2>2. \A m \in Name : /\ upper[m] = "dir" => upper'[m] = "dir"
                          /\ m # n /\ upper'[m] \in Content => upper[m] \in Content
      BY <1>1, WriteDoes, Contents
    <2> QED
      BY <2>1, <2>2, AboveFacts
  <1>2. ASSUME NEW n \in Name, Delete(n)
        PROVE  DotsFit'
    <2>1. PICK w \in {"chr", "none"}, up \in SUBSET Above[n] :
            /\ up \in {{}, Above[n]} /\ (w = "chr" => up = Above[n])
            /\ \A m \in dots' : \/ m \in dots \ (Below[n] \cup {n})
                                \/ m = n /\ up = Above[n] /\ w = "none"
            /\ upper' = [m \in Name |-> IF m = n THEN w
                                        ELSE IF m \in Below[n] THEN "none"
                                        ELSE IF m \in up THEN "dir" ELSE upper[m]]
      BY <1>2, DeleteDoes
    <2>2. \A m \in Name \ (Below[n] \cup {n}) : m \in torn <=> m \in torn'
      BY <1>2 DEF Delete
    <2>3. ASSUME NEW m \in dots' PROVE \A a \in Above[m] : upper'[a] = "dir"
      <3>1. CASE m \in dots \ (Below[n] \cup {n})
        BY <2>1, <3>1, AboveFacts
      <3>2. CASE m = n /\ up = Above[n]
        BY <2>1, <3>2, AboveFacts
      <3> QED
        BY <2>1, <3>1, <3>2
    <2>4. ASSUME NEW m \in dots', upper'[m] \in Content PROVE m \in torn'
      BY <2>1, <2>2, <2>4, Contents
    <2> QED
      BY <2>3, <2>4
  <1>3. ASSUME NEW n \in Name, MakeDirectory(n)
        PROVE  DotsFit'
    <2>1. dots' \subseteq dots \ {n} /\ UNCHANGED torn
      BY <1>3 DEF MakeDirectory
    <2> QED
      BY <1>3, <2>1, Contents, AboveFacts, MakeDirectoryDoes
  <1>4. CASE Looks
    BY <1>4
       DEF Looks, GameEnds, ReplaceImage, PlayOnFuse, Mount, StartConversion, ListAttributes,
           StartWhiteouts, PlayOnKernel, FallBack, Interrupted, StartClean, EndClean, Kept
  <1>5. ASSUME NEW n \in Name, SetOpaque(n)
        PROVE  DotsFit'
    BY <1>5 DEF SetOpaque, Kept
  <1>6. ASSUME NEW n \in Name, DropOpaqueFile(n)
        PROVE  DotsFit'
    BY <1>6 DEF DropOpaqueFile, Kept
  <1>7. ASSUME NEW n \in Name, CopyAttribute(n)
        PROVE  DotsFit'
    BY <1>7 DEF CopyAttribute, Kept
  <1>8. ASSUME NEW n \in Name, MakeDevice(n)
        PROVE  DotsFit'
    BY <1>8, Contents DEF MakeDevice, Kept
  <1>9. ASSUME NEW n \in Name, DropDotFile(n)
        PROVE  DotsFit'
    BY <1>9 DEF DropDotFile, Kept
  <1>10. ASSUME NEW n \in Name, CleanFile(n)
        PROVE  DotsFit'
    <2>1. UNCHANGED <<dots, torn>>
      BY <1>10 DEF CleanFile
    <2>2. \A m \in Name : upper'[m] \in {upper[m], "none"} /\ (upper[m] = "dir" => upper'[m] = "dir")
      BY <1>10, Contents DEF CleanFile, CleanFits
    <2> QED
      BY <2>1, <2>2, AboveFacts, Contents
  <1>11. CASE UNCHANGED vars
    BY <1>11 DEF vars
  <1> QED
    BY <1>1, <1>2, <1>3, <1>4, <1>5, <1>6, <1>7, <1>8, <1>9, <1>10, <1>11 DEF Next, Game, Looks

\* The lists of savesToKernelFormat stay those of the marks and .wh. files there are: no
\* step of it leaves a directory fuse-overlayfs's mark alone.
LEMMA ConversionKept == LayerInv /\ [Next]_vars => ConversionFits'
  <1> SUFFICES ASSUME LayerInv, [Next]_vars PROVE ConversionFits'
    OBVIOUS
  <1> TypeOK /\ DotsFit /\ ConversionFits /\ KernelFits /\ CleanFits /\ NoDuplicateLeft
    BY DEF LayerInv
  <1> USE DEF layer, TypeOK, ConversionFits, Marked, Converting
  <1>1. ASSUME NEW n \in Name, NEW c \in Content, Write(n, c)
        PROVE  ConversionFits'
    BY <1>1 DEF Write, Session, Playing
  <1>2. ASSUME NEW n \in Name, Delete(n)
        PROVE  ConversionFits'
    BY <1>2 DEF Delete, Session, Playing
  <1>3. ASSUME NEW n \in Name, MakeDirectory(n)
        PROVE  ConversionFits'
    BY <1>3 DEF MakeDirectory, Session, Playing
  <1>4. CASE Looks
    <2>1. CASE GameEnds
      BY <2>1 DEF GameEnds, Playing
    <2>2. CASE ReplaceImage
      BY <2>2 DEF ReplaceImage
    <2>3. CASE PlayOnFuse
      BY <2>3 DEF PlayOnFuse, Mount
    <2>4. CASE StartConversion
      BY <2>4 DEF StartConversion, Idle
    <2>5. CASE ListAttributes
      BY <2>5 DEF ListAttributes, Mark
    <2>6. CASE StartWhiteouts
      BY <2>6 DEF StartWhiteouts
    <2>7. CASE PlayOnKernel
      BY <2>7 DEF PlayOnKernel, Mount
    <2>8. CASE FallBack
      BY <2>8 DEF FallBack, Mount
    <2>9. CASE Interrupted
      BY <2>9 DEF Interrupted
    <2>10. CASE StartClean
      BY <2>10 DEF StartClean, Idle
    <2>11. CASE EndClean
      BY <2>11 DEF EndClean
    <2> QED
      BY <1>4, <2>1, <2>2, <2>3, <2>4, <2>5, <2>6, <2>7, <2>8, <2>9, <2>10, <2>11 DEF Looks
  <1>5. ASSUME NEW n \in Name, SetOpaque(n)
        PROVE  ConversionFits'
    BY <1>5 DEF SetOpaque
  <1>6. ASSUME NEW n \in Name, DropOpaqueFile(n)
        PROVE  ConversionFits'
    BY <1>6 DEF DropOpaqueFile
  <1>7. ASSUME NEW n \in Name, CopyAttribute(n)
        PROVE  ConversionFits'
    <2>1. /\ pc' = pc /\ UNCHANGED <<whiteouts, dots, cur>> /\ todo' = todo \ {n}
          /\ opaque' = [opaque EXCEPT ![n] = @ \cup {"kernel"}]
      BY <1>7 DEF CopyAttribute
    <2>2. pc = "opaque attributes"
      BY <1>7 DEF CopyAttribute
    <2>3. \A d \in Name : Marked(d) => Marked(d)'
      BY <2>1
    <2>4. Marked(n)'
      BY <2>1
    <2>5. \A d \in todo' : "fuse" \in opaque'[d]
      BY <2>1, <2>2
    <2> QED
      BY <2>1, <2>2, <2>3, <2>4, <2>5
  <1>8. ASSUME NEW n \in Name, MakeDevice(n)
        PROVE  ConversionFits'
    BY <1>8 DEF MakeDevice
  <1>9. ASSUME NEW n \in Name, DropDotFile(n)
        PROVE  ConversionFits'
    BY <1>9 DEF DropDotFile
  <1>10. ASSUME NEW n \in Name, CleanFile(n)
        PROVE  ConversionFits'
    BY <1>10 DEF CleanFile
  <1>11. CASE UNCHANGED vars
    BY <1>11 DEF vars
  <1> QED
    BY <1>1, <1>2, <1>3, <1>4, <1>5, <1>6, <1>7, <1>8, <1>9, <1>10, <1>11 DEF Next, Game, Looks

\* The kernel's overlay is mounted on converted saves only, and the game keeps them so.
LEMMA KernelKept == LayerInv /\ [Next]_vars => KernelFits'
  <1> SUFFICES ASSUME LayerInv, [Next]_vars PROVE KernelFits'
    OBVIOUS
  <1> TypeOK /\ DotsFit /\ ConversionFits /\ KernelFits /\ CleanFits /\ NoDuplicateLeft
    BY DEF LayerInv
  <1> USE DEF layer, TypeOK, ConversionFits, KernelFits, Marked, Converting
  <1>1. ASSUME NEW n \in Name, NEW c \in Content, Write(n, c)
        PROVE  KernelFits'
    BY <1>1 DEF Write, Session
  <1>2. ASSUME NEW n \in Name, Delete(n)
        PROVE  KernelFits'
    BY <1>2 DEF Delete, Session
  <1>3. ASSUME NEW n \in Name, MakeDirectory(n)
        PROVE  KernelFits'
    BY <1>3 DEF MakeDirectory, Session, Playing
  <1>4. CASE Looks
    BY <1>4
       DEF Looks, GameEnds, ReplaceImage, PlayOnFuse, Mount, StartConversion, ListAttributes,
           StartWhiteouts, PlayOnKernel, FallBack, Interrupted, StartClean, EndClean, Playing
  <1>5. ASSUME NEW n \in Name, SetOpaque(n)
        PROVE  KernelFits'
    BY <1>5 DEF SetOpaque, Playing
  <1>6. ASSUME NEW n \in Name, DropOpaqueFile(n)
        PROVE  KernelFits'
    BY <1>6 DEF DropOpaqueFile, Playing
  <1>7. ASSUME NEW n \in Name, CopyAttribute(n)
        PROVE  KernelFits'
    BY <1>7 DEF CopyAttribute, Playing
  <1>8. ASSUME NEW n \in Name, MakeDevice(n)
        PROVE  KernelFits'
    BY <1>8 DEF MakeDevice, Playing
  <1>9. ASSUME NEW n \in Name, DropDotFile(n)
        PROVE  KernelFits'
    BY <1>9 DEF DropDotFile, Playing
  <1>10. ASSUME NEW n \in Name, CleanFile(n)
        PROVE  KernelFits'
    BY <1>10 DEF CleanFile, Playing
  <1>11. CASE UNCHANGED vars
    BY <1>11 DEF vars, Playing
  <1> QED
    BY <1>1, <1>2, <1>3, <1>4, <1>5, <1>6, <1>7, <1>8, <1>9, <1>10, <1>11 DEF Next, Game, Looks

\* What --clean has looked at and left is no duplicate, until a launch or a new image.
LEMMA CleanKept == LayerInv /\ [Next]_vars => (CleanFits /\ NoDuplicateLeft)'
  <1> SUFFICES ASSUME LayerInv, [Next]_vars PROVE (CleanFits /\ NoDuplicateLeft)'
    OBVIOUS
  <1> TypeOK /\ DotsFit /\ ConversionFits /\ KernelFits /\ CleanFits /\ NoDuplicateLeft
    BY DEF LayerInv
  <1> USE DEF layer, TypeOK, CleanFits, NoDuplicateLeft, Covered, UnderOpaque, Converting
  <1>1. ASSUME NEW n \in Name, NEW c \in Content, Write(n, c)
        PROVE  (CleanFits /\ NoDuplicateLeft)'
    BY <1>1 DEF Write, Session, Playing
  <1>2. ASSUME NEW n \in Name, Delete(n)
        PROVE  (CleanFits /\ NoDuplicateLeft)'
    BY <1>2 DEF Delete, Session, Playing
  <1>3. ASSUME NEW n \in Name, MakeDirectory(n)
        PROVE  (CleanFits /\ NoDuplicateLeft)'
    BY <1>3 DEF MakeDirectory, Session, Playing
  <1>4. CASE Looks
    <2>1. CASE GameEnds
      BY <2>1 DEF GameEnds
    <2>2. CASE ReplaceImage
      BY <2>2 DEF ReplaceImage, Idle
    <2>3. CASE PlayOnFuse
      BY <2>3 DEF PlayOnFuse, Mount
    <2>4. CASE StartConversion
      BY <2>4 DEF StartConversion
    <2>5. CASE ListAttributes
      BY <2>5 DEF ListAttributes, Kept
    <2>6. CASE StartWhiteouts
      BY <2>6 DEF StartWhiteouts, Kept
    <2>7. CASE PlayOnKernel
      BY <2>7 DEF PlayOnKernel, Mount
    <2>8. CASE FallBack
      BY <2>8 DEF FallBack, Mount
    <2>9. CASE Interrupted
      BY <2>9 DEF Interrupted
    <2>10. CASE StartClean
      BY <2>10 DEF StartClean
    <2>11. CASE EndClean
      <3>1. todo = {} /\ pc = "clean" /\ UNCHANGED <<image, layer>> /\ pc' = "idle"
        BY <2>11 DEF EndClean
      <3>2. ASSUME NEW n \in Name, upper[n] \in Content, n \notin wine
            PROVE  Covered(n, Mark, dots) \/ image.tree[n] # upper[n]
        <4>1. UnderOpaque(n) \/ image.named[n] # upper[n]
          BY <3>1, <3>2
        <4>2. UnderOpaque(n) => Covered(n, Mark, dots)
          BY AboveFacts
        <4>3. ASSUME image.named[n] # upper[n], image.tree[n] = upper[n] PROVE FALSE
          <5>. image \in Images /\ image.named[n] # image.tree[n] /\ image.tree[n] # "none"
            BY <3>2, <4>3, Contents
          <5>1. \E a \in Above[n] : image.tree[a] = "link"
            BY LayerAssumption
          <5>2. \A a \in Above[n] : image.tree[a] = "dir"
            BY LayerAssumption
          <5> QED
            BY <5>1, <5>2
        <4> QED
          BY <4>1, <4>2, <4>3
      <3> QED
        BY <3>1, <3>2
    <2> QED
      BY <1>4, <2>1, <2>2, <2>3, <2>4, <2>5, <2>6, <2>7, <2>8, <2>9, <2>10, <2>11 DEF Looks
  <1>5. ASSUME NEW n \in Name, SetOpaque(n)
        PROVE  (CleanFits /\ NoDuplicateLeft)'
    BY <1>5 DEF SetOpaque, Kept
  <1>6. ASSUME NEW n \in Name, DropOpaqueFile(n)
        PROVE  (CleanFits /\ NoDuplicateLeft)'
    BY <1>6 DEF DropOpaqueFile, Kept
  <1>7. ASSUME NEW n \in Name, CopyAttribute(n)
        PROVE  (CleanFits /\ NoDuplicateLeft)'
    BY <1>7 DEF CopyAttribute, Kept
  <1>8. ASSUME NEW n \in Name, MakeDevice(n)
        PROVE  (CleanFits /\ NoDuplicateLeft)'
    BY <1>8 DEF MakeDevice, Kept
  <1>9. ASSUME NEW n \in Name, DropDotFile(n)
        PROVE  (CleanFits /\ NoDuplicateLeft)'
    BY <1>9 DEF DropDotFile, Kept
  <1>10. ASSUME NEW n \in Name, CleanFile(n)
        PROVE  (CleanFits /\ NoDuplicateLeft)'
    BY <1>10, Contents DEF CleanFile
  <1>11. CASE UNCHANGED vars
    BY <1>11 DEF vars
  <1> QED
    BY <1>1, <1>2, <1>3, <1>4, <1>5, <1>6, <1>7, <1>8, <1>9, <1>10, <1>11 DEF Next, Game, Looks

\* The saves stay a tree: what has a name lies in directories, and marks are on directories.
LEMMA TypesKept == LayerInv /\ [Next]_vars => TypeOK'
  <1> SUFFICES ASSUME LayerInv, [Next]_vars PROVE TypeOK'
    OBVIOUS
  <1> TypeOK /\ DotsFit /\ ConversionFits /\ KernelFits /\ CleanFits /\ NoDuplicateLeft
    BY DEF LayerInv
  <1> USE DEF layer, TypeOK, Kind, Mark, Converting
  <1>1. ASSUME NEW n \in Name, NEW c \in Content, Write(n, c)
        PROVE  TypeOK'
    <2>1. UNCHANGED <<image, images, pc, mode, todo, whiteouts, cur, cleaned, opaque>>
      BY <1>1 DEF Write, Session
    <2>2. dots' \in SUBSET Name /\ torn' \in SUBSET Name /\ wine' \in SUBSET Name
          /\ wine' \subseteq wine \cup {n}
      BY <1>1 DEF Write
    <2>3. /\ OnTheWay(n) /\ upper[n] # "dir" /\ opaque[n] = {}
          /\ \A m \in Below[n] : upper[m] = "none" /\ m \notin dots
          /\ upper' = [m \in Name |-> IF m = n THEN c
                                      ELSE IF m \in Above[n] THEN "dir" ELSE upper[m]]
      BY <1>1, WriteDoes
    <2>4. upper' \in [Name -> Kind]
      BY <2>3
    <2>5. \A m \in Name : upper'[m] # "none" => \A a \in Above[m] : upper'[a] = "dir"
      <3> SUFFICES ASSUME NEW m \in Name, upper'[m] # "none", NEW a \in Above[m]
                   PROVE  upper'[a] = "dir"
        OBVIOUS
      <3>1. a \in Name /\ Above[a] \subseteq Above[m]
        BY AboveFacts
      <3>2. CASE m = n \/ m \in Above[n]
        BY <2>3, <3>1, <3>2, AboveFacts
      <3>3. CASE m # n /\ m \notin Above[n]
        <4>1. upper[m] # "none" /\ upper[a] = "dir"
          BY <2>3, <3>3
        <4>2. a # n
          BY <2>3, <4>1
        <4> QED
          BY <2>3, <3>1, <4>1, <4>2
      <3> QED
        BY <3>2, <3>3
    <2>6. \A m \in Name : opaque'[m] # {} => upper'[m] = "dir"
      BY <2>1, <2>3
    <2>7. \A m \in wine' : upper'[m] \in Content
      BY <2>2, <2>3, Contents DEF OnTheWay
    <2> QED
      BY <2>1, <2>2, <2>4, <2>5, <2>6, <2>7
  <1>2. ASSUME NEW n \in Name, Delete(n)
        PROVE  TypeOK'
    <2>1. UNCHANGED <<image, images, pc, mode, todo, whiteouts, cur, cleaned>>
      BY <1>2 DEF Delete, Session
    <2>a. wine' = wine \ (Below[n] \cup {n}) /\ torn' = torn \ (Below[n] \cup {n})
          /\ opaque' = [opaque EXCEPT ![n] = {}]
      BY <1>2 DEF Delete
    <2>2. /\ dots' \in SUBSET Name /\ torn' \in SUBSET Name
          /\ wine' = wine \ (Below[n] \cup {n}) /\ opaque' = [opaque EXCEPT ![n] = {}]
      <3>1. dots' \subseteq dots \cup {n}
        BY <1>2 DEF Delete
      <3> QED
        BY <2>a, <3>1
    <2>3. PICK w \in {"chr", "none"}, up \in SUBSET Above[n] :
            /\ up \in {{}, Above[n]} /\ (w = "chr" => up = Above[n])
            /\ \A m \in dots' : \/ m \in dots \ (Below[n] \cup {n})
                                \/ m = n /\ up = Above[n] /\ w = "none"
            /\ upper' = [m \in Name |-> IF m = n THEN w
                                        ELSE IF m \in Below[n] THEN "none"
                                        ELSE IF m \in up THEN "dir" ELSE upper[m]]
      BY <1>2, DeleteDoes
    <2>4. OnTheWay(n) /\ \A m \in Below[n] : upper[m] \in {"none", "chr"} /\ opaque[m] = {}
      BY <1>2, DeleteDoes
    <2>5. upper' \in [Name -> Kind]
      BY <2>3
    <2>6. ASSUME NEW m \in Name, upper'[m] # "none", NEW a \in Above[m]
          PROVE  upper'[a] = "dir"
      <3>1. a \in Name /\ Above[a] \subseteq Above[m] /\ a # m
        BY AboveFacts
      <3>2. CASE m = n
        <4>1. w = "chr" /\ up = Above[n]
          BY <2>3, <2>6, <3>2
        <4>2. a \notin Below[n]
          BY <3>1, <3>2, AboveFacts
        <4> QED
          BY <2>3, <3>1, <3>2, <4>1, <4>2
      <3>3. CASE m # n
        <4>0. m \notin Below[n]
          BY <2>3, <2>6, <3>3
        <4>b. Below[n] = {x \in Name : n \in Above[x]}
          BY AboveFacts
        <4>1. m \notin Below[n] /\ a \notin Below[n] /\ a # n
          BY <2>6, <3>1, <4>0, <4>b
        <4>2. CASE m \in up
          BY <2>3, <3>1, <4>1, <4>2, AboveFacts
        <4>3. CASE m \notin up
          BY <2>3, <2>6, <3>1, <3>3, <4>1, <4>3
        <4> QED
          BY <4>2, <4>3
      <3> QED
        BY <3>2, <3>3
    <2>7. \A m \in Name : opaque'[m] # {} => upper'[m] = "dir"
      BY <2>2, <2>3, <2>4
    <2>8. \A m \in wine' : upper'[m] \in Content
      <3> SUFFICES ASSUME NEW m \in wine' PROVE upper'[m] \in Content
        OBVIOUS
      <3>1. m \in Name /\ m # n /\ m \notin Below[n] /\ upper[m] \in Content
        BY <2>2
      <3>2. m \notin up
        BY <2>4, <3>1, Contents DEF OnTheWay
      <3> QED
        BY <2>3, <3>1, <3>2
    <2>9. opaque' \in [Name -> SUBSET Mark] /\ wine' \in SUBSET Name
      BY <2>2
    <2>10. {dots, wine, todo, whiteouts, cur, torn}' \subseteq SUBSET Name
      <3>1. {todo, whiteouts, cur}' \subseteq SUBSET Name
        BY <2>1
      <3>2. {dots, wine, torn}' \subseteq SUBSET Name
        BY <2>2, <2>9
      <3> QED
        BY <3>1, <3>2
    <2>11. image' \in Images /\ images' \in 0..LastImage /\ cleaned' \in BOOLEAN
           /\ pc' = pc /\ mode' = mode
      BY <2>1
    <2> QED
      BY <2>5, <2>6, <2>7, <2>8, <2>9, <2>10, <2>11
  <1>3. ASSUME NEW n \in Name, MakeDirectory(n)
        PROVE  TypeOK'
    <2>1. UNCHANGED <<image, images, pc, mode, todo, whiteouts, cur, cleaned, wine, torn>>
      BY <1>3 DEF MakeDirectory, Session
    <2>2. /\ dots' \in SUBSET Name
          /\ \E marks \in SUBSET Mark : opaque' = [opaque EXCEPT ![n] = marks]
      BY <1>3 DEF MakeDirectory
    <2>3. /\ upper' = [m \in Name |-> IF m = n \/ m \in Above[n] THEN "dir" ELSE upper[m]]
          /\ OnTheWay(n) /\ upper[n] \in {"none", "chr"}
      BY <1>3, MakeDirectoryDoes
    <2>4. upper' \in [Name -> Kind]
      BY <2>3
    <2>5. \A m \in Name : upper'[m] # "none" => \A a \in Above[m] : upper'[a] = "dir"
      BY <2>3, AboveFacts
    <2>6. opaque' \in [Name -> SUBSET Mark]
      BY <2>2
    <2>7. \A m \in Name : opaque'[m] # {} => upper'[m] = "dir"
      BY <2>2, <2>3
    <2>8. \A m \in wine' : upper'[m] \in Content
      BY <2>1, <2>3, Contents DEF OnTheWay
    <2>9. {dots, wine, todo, whiteouts, cur, torn}' \subseteq SUBSET Name
      BY <2>1, <2>2
    <2>10. image' \in Images /\ images' \in 0..LastImage /\ cleaned' \in BOOLEAN
           /\ pc' = pc /\ mode' = mode
      BY <2>1
    <2> QED
      BY <2>4, <2>5, <2>6, <2>7, <2>8, <2>9, <2>10
  <1>4. CASE Looks
    <2>1. CASE GameEnds
      BY <2>1 DEF GameEnds
    <2>2. CASE ReplaceImage
      <3>1. image' \in Images /\ images' \in 0..LastImage
        <4>1. LastImage \in Nat /\ images \in 0..LastImage
          BY LayerAssumption
        <4>2. image' \in Images /\ images < LastImage /\ images' = images + 1
          BY <2>2 DEF ReplaceImage
        <4>4. images' \in 0..LastImage
          BY <4>1, <4>2, OneMore
        <4> QED
          BY <4>2, <4>4
      <3> QED
        BY <2>2, <3>1 DEF ReplaceImage
    <2>3. CASE PlayOnFuse
      BY <2>3 DEF PlayOnFuse, Mount
    <2>4. CASE StartConversion
      BY <2>4 DEF StartConversion
    <2>5. CASE ListAttributes
      BY <2>5 DEF ListAttributes, Kept
    <2>6. CASE StartWhiteouts
      BY <2>6 DEF StartWhiteouts, Kept
    <2>7. CASE PlayOnKernel
      BY <2>7 DEF PlayOnKernel, Mount
    <2>8. CASE FallBack
      BY <2>8 DEF FallBack, Mount
    <2>9. CASE Interrupted
      BY <2>9 DEF Interrupted
    <2>10. CASE StartClean
      BY <2>10 DEF StartClean
    <2>11. CASE EndClean
      BY <2>11 DEF EndClean
    <2> QED
      BY <1>4, <2>1, <2>2, <2>3, <2>4, <2>5, <2>6, <2>7, <2>8, <2>9, <2>10, <2>11 DEF Looks
  <1>5. ASSUME NEW n \in Name, SetOpaque(n)
        PROVE  TypeOK'
    <2>1. opaque' \in [Name -> SUBSET Mark]
      BY <1>5 DEF SetOpaque
    <2>2. opaque[n] # {}
      BY <1>5 DEF SetOpaque, ConversionFits
    <2> QED
      BY <1>5, <2>1, <2>2 DEF SetOpaque, Kept
  <1>6. ASSUME NEW n \in Name, DropOpaqueFile(n)
        PROVE  TypeOK'
    BY <1>6 DEF DropOpaqueFile, Kept
  <1>7. ASSUME NEW n \in Name, CopyAttribute(n)
        PROVE  TypeOK'
    <2>1. opaque' \in [Name -> SUBSET Mark]
      BY <1>7 DEF CopyAttribute
    <2>2. opaque[n] # {}
      BY <1>7 DEF CopyAttribute, ConversionFits
    <2> QED
      BY <1>7, <2>1, <2>2 DEF CopyAttribute, Kept
  <1>8. ASSUME NEW n \in Name, MakeDevice(n)
        PROVE  TypeOK'
    <2>1. n \in dots
      BY <1>8 DEF MakeDevice, ConversionFits
    <2>2. upper' = [m \in Name |-> IF m = n /\ upper[n] = "none" THEN "chr" ELSE upper[m]]
      BY <1>8 DEF MakeDevice
    <2>3. upper' \in [Name -> Kind]
      BY <2>2
    <2>4. \A m \in Name : upper'[m] # "none" => \A a \in Above[m] : upper'[a] = "dir"
      BY <2>1, <2>2, AboveFacts DEF DotsFit
    <2>5. \A m \in Name : opaque[m] # {} => upper'[m] = "dir"
      BY <2>2
    <2>6. \A m \in wine : upper'[m] \in Content
      BY <2>2, Contents
    <2> QED
      BY <1>8, <2>3, <2>4, <2>5, <2>6 DEF MakeDevice, Kept
  <1>9. ASSUME NEW n \in Name, DropDotFile(n)
        PROVE  TypeOK'
    BY <1>9 DEF DropDotFile, Kept
  <1>10. ASSUME NEW n \in Name, CleanFile(n)
        PROVE  TypeOK'
    <2>1. /\ UNCHANGED <<image, images, dots, opaque, wine, pc, mode>>
          /\ UNCHANGED <<whiteouts, cur, cleaned, torn>>
          /\ todo' = todo \ {n}
      BY <1>10 DEF CleanFile
    <2>2. \A m \in Name : /\ upper'[m] \in {upper[m], "none"}
                          /\ upper[m] = "dir" => upper'[m] = "dir"
                          /\ m \in wine => upper'[m] = upper[m]
      BY <1>10, Contents DEF CleanFile, CleanFits
    <2>3. upper' \in [Name -> Kind]
      BY <1>10 DEF CleanFile
    <2>4. \A m \in Name : upper'[m] # "none" => \A a \in Above[m] : upper'[a] = "dir"
      BY <2>2, AboveFacts
    <2> QED
      BY <2>1, <2>2, <2>3, <2>4
  <1>11. CASE UNCHANGED vars
    BY <1>11 DEF vars
  <1> QED
    BY <1>1, <1>2, <1>3, <1>4, <1>5, <1>6, <1>7, <1>8, <1>9, <1>10, <1>11 DEF Next, Game, Looks

-----------------------------------------------------------------------------
(* What the player sees.                                                   *)

\* Away from n, a step of the game that makes directories on the way to n shows nothing
\* new: they were directories of the image.
LEMMA OtherNames ==
    ASSUME LayerInv, NEW n \in Name, image' = image,
           OnTheWay(n), \A a \in Above[n] : FuseShows(a) = "dir",
           NEW m \in Name \ (Below[n] \cup {n}),
           \A l \in Name \ (Below[n] \cup {n}) :
              /\ upper'[l] = upper[l] \/ (l \in Above[n] /\ upper'[l] = "dir")
              /\ opaque'[l] = opaque[l]
              /\ l \in dots' <=> l \in dots
              /\ l \in wine' <=> l \in wine
              /\ l \in torn' <=> l \in torn
    PROVE  Visible(m)' = Visible(m)
  <1>1. \A a \in Above[m] : a \in Name \ (Below[n] \cup {n})
    BY AboveFacts
  <1>2. Covered(m, Mark, dots)' <=> Covered(m, Mark, dots)
    BY <1>1 DEF Covered, OnTheWay
  <1>3. FuseShows(m)' = FuseShows(m)
    <2>1. CASE upper'[m] = upper[m]
      BY <1>2, <2>1 DEF FuseShows, Shown
    <2>2. CASE m \in Above[n] /\ upper'[m] = "dir"
      BY <2>2 DEF FuseShows, Shown
    <2> QED
      BY <2>1, <2>2
  <1> QED
    BY <1>3 DEF Visible, BelowLink

\* The directories on the way to a name are seen as such.
LEMMA WayIsSeen ==
    ASSUME LayerInv, Playing, NEW n \in Name, InDirectory(n)
    PROVE  \A a \in Above[n] : FuseShows(a) = "dir"
  BY AboveFacts, SeenIsFuse DEF InDirectory, LayerInv

\* The files a player sees, as GameFiles names them.
FilesSeen == [n \in Name |-> Visible(n)]

\* The game changes one name and what is below it.
LEMMA GameWrites ==
    ASSUME LayerInv, NEW n \in Name,
           (\E c \in Content : Write(n, c)) \/ Delete(n) \/ MakeDirectory(n)
    PROVE  /\ Playing /\ Playing' /\ image' = image
           /\ \A m \in Name \ (Below[n] \cup {n}) : Visible(m)' = Visible(m)
  <1>1. Playing /\ Playing' /\ image' = image /\ InDirectory(n)
    BY DEF Write, Delete, MakeDirectory, Session, Playing
  <1>2. \A a \in Above[n] : FuseShows(a) = "dir"
    BY <1>1, WayIsSeen
  <1>3. ASSUME NEW c \in Content, Write(n, c), NEW m \in Name \ (Below[n] \cup {n})
        PROVE  Visible(m)' = Visible(m)
    <2>1. \A l \in Name \ (Below[n] \cup {n}) :
             upper'[l] = upper[l] \/ (l \in Above[n] /\ upper'[l] = "dir")
      BY <1>3, WriteDoes
    <2>2. \A l \in Name \ (Below[n] \cup {n}) :
             /\ opaque'[l] = opaque[l] /\ (l \in dots' <=> l \in dots)
             /\ (l \in wine' <=> l \in wine) /\ (l \in torn' <=> l \in torn)
      BY <1>3 DEF Write
    <2>3. OnTheWay(n)
      BY <1>3, WriteDoes
    <2> QED
      BY <1>1, <1>2, <2>1, <2>2, <2>3, OtherNames
  <1>4. ASSUME Delete(n), NEW m \in Name \ (Below[n] \cup {n})
        PROVE  Visible(m)' = Visible(m)
    <2>1. PICK w \in {"chr", "none"}, up \in SUBSET Above[n] :
            /\ up \in {{}, Above[n]} /\ (w = "chr" => up = Above[n])
            /\ \A l \in dots' : \/ l \in dots \ (Below[n] \cup {n})
                                \/ l = n /\ up = Above[n] /\ w = "none"
            /\ upper' = [l \in Name |-> IF l = n THEN w
                                        ELSE IF l \in Below[n] THEN "none"
                                        ELSE IF l \in up THEN "dir" ELSE upper[l]]
      BY <1>4, DeleteDoes
    <2>2. \A l \in Name \ (Below[n] \cup {n}) :
             upper'[l] = upper[l] \/ (l \in Above[n] /\ upper'[l] = "dir")
      BY <2>1
    <2>3. opaque \in [Name -> SUBSET Mark]
      BY DEF LayerInv, TypeOK
    <2>4. \A l \in Name \ (Below[n] \cup {n}) :
             /\ (l \in wine' <=> l \in wine) /\ (l \in torn' <=> l \in torn)
             /\ opaque'[l] = opaque[l] /\ (l \in dots' <=> l \in dots)
      BY <1>4, <2>3 DEF Delete
    <2>5. OnTheWay(n)
      BY <1>4, DeleteDoes
    <2> QED
      BY <1>1, <1>2, <2>2, <2>4, <2>5, OtherNames
  <1>5. ASSUME MakeDirectory(n), NEW m \in Name \ (Below[n] \cup {n})
        PROVE  Visible(m)' = Visible(m)
    <2>1. \A l \in Name \ (Below[n] \cup {n}) :
             upper'[l] = upper[l] \/ (l \in Above[n] /\ upper'[l] = "dir")
      BY <1>5, MakeDirectoryDoes
    <2>2. opaque \in [Name -> SUBSET Mark]
      BY DEF LayerInv, TypeOK
    <2>3. \A l \in Name \ (Below[n] \cup {n}) :
             /\ opaque'[l] = opaque[l] /\ (l \in dots' <=> l \in dots)
             /\ (l \in wine' <=> l \in wine) /\ (l \in torn' <=> l \in torn)
      BY <1>5, <2>2 DEF MakeDirectory
    <2>4. OnTheWay(n)
      BY <1>5, MakeDirectoryDoes
    <2> QED
      BY <1>1, <1>2, <2>1, <2>3, <2>4, OtherNames
  <1> QED
    BY <1>1, <1>3, <1>4, <1>5

\* A mark of the kernel's beside one of fuse-overlayfs, or in its place, changes nothing.
LEMMA MarksShowTheSame ==
    ASSUME NEW n \in Name, UNCHANGED <<image, upper, dots, wine, torn>>,
           \A a \in Name : (opaque'[a] \cap Mark # {}) <=> (opaque[a] \cap Mark # {})
    PROVE  Visible(n)' = Visible(n)
  <1>1. Covered(n, Mark, dots)' <=> Covered(n, Mark, dots)
    BY AboveFacts DEF Covered
  <1> QED
    BY <1>1 DEF Visible, BelowLink, FuseShows, Shown

\* The conversion, one file or one mark at a time.
LEMMA ConversionShowsTheSame ==
    ASSUME LayerInv, NEW d \in Name, NEW m \in Name,
           \/ SetOpaque(d) \/ DropOpaqueFile(d) \/ CopyAttribute(d)
           \/ MakeDevice(d) \/ DropDotFile(d)
    PROVE  Visible(m)' = Visible(m)
  <1>1. TypeOK /\ ConversionFits
    BY DEF LayerInv
  <1>2. CASE SetOpaque(d) \/ CopyAttribute(d)
    <2>1. opaque' = [opaque EXCEPT ![d] = @ \cup {"kernel"}]
          /\ UNCHANGED <<image, upper, dots, wine, torn>>
      BY <1>2 DEF SetOpaque, CopyAttribute, Kept
    <2>2. opaque[d] \cap Mark # {}
      BY <1>1, <1>2 DEF SetOpaque, CopyAttribute, ConversionFits, Mark
    <2>3. \A a \in Name : (opaque'[a] \cap Mark # {}) <=> (opaque[a] \cap Mark # {})
      BY <1>1, <2>1, <2>2
    <2> QED
      BY <2>1, <2>3, MarksShowTheSame
  <1>3. CASE DropOpaqueFile(d)
    <2>1. opaque' = [opaque EXCEPT ![d] = @ \ {"file"}]
          /\ UNCHANGED <<image, upper, dots, wine, torn>>
      BY <1>3 DEF DropOpaqueFile, Kept
    <2>2. "kernel" \in opaque[d]
      BY <1>1, <1>3 DEF DropOpaqueFile, ConversionFits
    <2>3. \A a \in Name : (opaque'[a] \cap Mark # {}) <=> (opaque[a] \cap Mark # {})
      BY <1>1, <2>1, <2>2 DEF Mark
    <2> QED
      BY <2>1, <2>3, MarksShowTheSame
  <1>4. CASE MakeDevice(d)
    <2>1. /\ UNCHANGED <<image, opaque, dots, wine, torn>>
          /\ upper' = [upper EXCEPT ![d] = IF @ = "none" THEN "chr" ELSE @]
      BY <1>4 DEF MakeDevice, Kept
    <2>2. d \in dots
      BY <1>1, <1>4 DEF MakeDevice, ConversionFits, Converting
    <2>3. \A a \in Name : \/ upper'[a] = upper[a]
                          \/ a \in dots /\ upper[a] = "none" /\ upper'[a] = "chr"
      BY <1>1, <2>1, <2>2
    <2>4. Covered(m, Mark, dots)' <=> Covered(m, Mark, dots)
      BY <2>1, <2>3 DEF Covered
    <2> QED
      BY <2>1, <2>3, <2>4 DEF Visible, BelowLink, FuseShows, Shown
  <1>5. CASE DropDotFile(d)
    <2>1. UNCHANGED <<image, opaque, upper, wine, torn>> /\ dots' = dots \ {d}
      BY <1>5 DEF DropDotFile, Kept
    <2>2. upper[d] # "none"
      BY <1>1, <1>5 DEF DropDotFile, ConversionFits
    <2>3. Covered(m, Mark, dots)' <=> Covered(m, Mark, dots)
      BY <2>1, <2>2 DEF Covered
    <2> QED
      BY <2>1, <2>2, <2>3 DEF Visible, BelowLink, FuseShows, Shown
  <1> QED
    BY <1>2, <1>3, <1>4, <1>5

\* A file that --clean removes is the image's, and nothing of the image lies below it.
LEMMA CleanShowsTheSame ==
    ASSUME LayerInv, NEW d \in Name, CleanFile(d), NEW m \in Name
    PROVE  Visible(m)' = Visible(m)
  <1>1. TypeOK /\ DotsFit /\ CleanFits
    BY DEF LayerInv
  <1>2. UNCHANGED <<image, opaque, dots, wine, torn>>
    BY DEF CleanFile
  <1>3. CASE UNCHANGED upper
    <2>1. Covered(m, Mark, dots)' <=> Covered(m, Mark, dots)
      BY <1>2, <1>3 DEF Covered
    <2> QED
      BY <1>2, <1>3, <2>1 DEF Visible, BelowLink, FuseShows, Shown
  <1>4. CASE upper' # upper
    <2>1. /\ upper' = [upper EXCEPT ![d] = "none"]
          /\ image.named[d] = upper[d] /\ ~UnderOpaque(d) /\ d \notin wine
      BY <1>1, <1>4 DEF CleanFile, TypeOK
    <2>2. upper[d] \in Content
      BY <1>1 DEF CleanFits, CleanFile
    <2>3. image \in Images
      BY <1>1 DEF TypeOK
    <2>4. CASE m = d
      <3>1. CASE d \in torn \/ BelowLink(d)
        BY <1>2, <2>4, <3>1 DEF Visible, BelowLink
      <3>2. CASE d \notin torn /\ ~BelowLink(d)
        <4>1. d \notin dots
          BY <1>1, <2>2, <3>2 DEF DotsFit
        <4>2. image.tree[d] = upper[d]
          BY <2>1, <3>2 DEF BelowLink
        <4>3. \A a \in Above[d] : upper[a] = "dir" /\ upper'[a] = "dir" /\ opaque[a] = {}
          BY <1>1, <2>1, <2>2, Contents DEF TypeOK, UnderOpaque
        <4>4. ~Covered(d, Mark, dots)'
          BY <1>2, <4>3 DEF Covered
        <4>5. FuseShows(d) = upper[d]
          BY <2>2, Contents DEF FuseShows, Shown
        <4>6. upper'[d] = "none"
          BY <1>1, <2>1 DEF TypeOK
        <4>7. FuseShows(d)' = image.tree[d]
          BY <1>2, <4>1, <4>4, <4>6 DEF FuseShows, Shown
        <4> QED
          BY <1>2, <2>4, <4>2, <4>5, <4>7 DEF Visible, BelowLink
      <3> QED
        BY <3>1, <3>2
    <2>5. CASE m \in Below[d]
      <3>1. d \in Above[m] /\ upper[m] = "none"
        BY <1>1, <2>2, <2>5, AboveFacts, Contents DEF TypeOK
      <3>2. Covered(m, Mark, dots)
        BY <2>2, <3>1, Contents DEF Covered
      <3>3. image.tree[m] = "none"
        <4>1. image.tree[d] # "dir"
          <5>1. CASE image.named[d] = image.tree[d]
            BY <2>1, <2>2, <5>1, Contents
          <5>2. CASE image.named[d] # image.tree[d]
            <6>1. PICK a \in Above[d] : image.tree[a] = "link"
              BY <2>3, <5>2, LayerAssumption
            <6>2. image.tree[d] # "none" => image.tree[a] = "dir"
              BY <2>3, LayerAssumption
            <6> QED
              BY <6>1, <6>2
          <5> QED
            BY <5>1, <5>2
        <4> QED
          BY <2>3, <3>1, <4>1, LayerAssumption
      <3>4. upper'[m] = "none"
        BY <2>1, <3>1, <1>1
      <3>5. FuseShows(m) = "none" /\ FuseShows(m)' = "none"
        BY <1>2, <3>1, <3>2, <3>3, <3>4 DEF FuseShows, Shown
      <3> QED
        BY <1>2, <3>5 DEF Visible, BelowLink
    <2>6. CASE m # d /\ m \notin Below[d]
      <3>1. \A a \in Above[m] : a \in Name /\ a # d
        BY <2>6, AboveFacts
      <3>2. upper'[m] = upper[m] /\ \A a \in Above[m] : upper'[a] = upper[a]
        BY <1>1, <2>1, <2>6, <3>1
      <3>3. Covered(m, Mark, dots)' <=> Covered(m, Mark, dots)
        BY <1>2, <3>2 DEF Covered
      <3> QED
        BY <1>2, <3>2, <3>3 DEF Visible, BelowLink, FuseShows, Shown
    <2> QED
      BY <2>4, <2>5, <2>6
  <1> QED
    BY <1>3, <1>4

\* Every step is one of GameFiles, or a stutter.
LEMMA NextMaps == LayerInv /\ [Next]_vars => [Promise!Next]_<<FilesSeen, image, Playing>>
  <1> SUFFICES ASSUME LayerInv, [Next]_vars
               PROVE  [Promise!Next]_<<FilesSeen, image, Playing>>
    OBVIOUS
  <1>1. ASSUME NEW n \in Name,
               (\E c \in Content : Write(n, c)) \/ Delete(n) \/ MakeDirectory(n)
        PROVE  Promise!Writes
    <2>1. /\ Playing /\ Playing' /\ image' = image
          /\ \A m \in Name \ (Below[n] \cup {n}) : Visible(m)' = Visible(m)
      BY <1>1, GameWrites
    <2> QED
      BY <2>1 DEF Promise!Writes
  <1>2. ASSUME NEW n \in Name,
               \/ SetOpaque(n) \/ DropOpaqueFile(n) \/ CopyAttribute(n)
               \/ MakeDevice(n) \/ DropDotFile(n) \/ CleanFile(n)
        PROVE  UNCHANGED <<FilesSeen, image, Playing>>
    <2>1. \A m \in Name : Visible(m)' = Visible(m)
      BY <1>2, ConversionShowsTheSame, CleanShowsTheSame
    <2>2. UNCHANGED <<image, pc>>
      BY <1>2
         DEF SetOpaque, DropOpaqueFile, CopyAttribute, MakeDevice, DropDotFile, CleanFile, Kept
    <2> QED
      BY <2>1, <2>2 DEF FilesSeen, Playing
  <1>3. CASE GameEnds \/ PlayOnFuse \/ PlayOnKernel \/ FallBack \/ StartConversion
             \/ ListAttributes \/ StartWhiteouts \/ Interrupted \/ StartClean \/ EndClean
    <2>1. UNCHANGED <<image, layer, torn>>
      BY <1>3
         DEF GameEnds, PlayOnFuse, PlayOnKernel, FallBack, Mount, StartConversion,
             ListAttributes, StartWhiteouts, Interrupted, StartClean, EndClean, Kept, layer
    <2>2. FilesSeen' = FilesSeen
      BY <2>1 DEF FilesSeen, Visible, BelowLink, FuseShows, Shown, Covered, layer
    <2>3. \/ Playing /\ Playing' = FALSE
          \/ ~Playing /\ Playing' = TRUE
          \/ UNCHANGED Playing
      BY DEF Playing
    <2> QED
      BY <2>1, <2>2, <2>3 DEF Promise!Next, Promise!Starts, Promise!Stops, FilesSeen
  <1>4. CASE ReplaceImage
    BY <1>4 DEF ReplaceImage, Idle, Playing, Promise!Next, Promise!NewImage
  <1>5. CASE UNCHANGED vars
    <2>1. FilesSeen' = FilesSeen
      BY <1>5 DEF vars, layer, FilesSeen, Visible, BelowLink, FuseShows, Shown, Covered
    <2> QED
      BY <1>5, <2>1 DEF vars, Playing
  <1> QED
    BY <1>1, <1>2, <1>3, <1>4, <1>5 DEF Next, Game, Promise!Next

-----------------------------------------------------------------------------
(* What holds of every history.                                            *)

\* A game without saves.
LEMMA InitLayer == Init => LayerInv
  <1> SUFFICES ASSUME Init PROVE LayerInv
    OBVIOUS
  <1>1. TypeOK
    <2>1. 0 \in 0..LastImage
      BY LayerAssumption
    <2> QED
      BY <2>1 DEF Init, TypeOK, Kind
  <1>2. DotsFit /\ ConversionFits /\ KernelFits /\ CleanFits /\ NoDuplicateLeft
    BY DEF Init, DotsFit, ConversionFits, KernelFits, CleanFits, NoDuplicateLeft
  <1> QED
    BY <1>1, <1>2 DEF LayerInv

\* A step keeps the inductive invariant.
LEMMA NextLayer == LayerInv /\ [Next]_vars => LayerInv'
  BY TypesKept, DotsKept, ConversionKept, KernelKept, CleanKept DEF LayerInv

\* Spec keeps LayerInv.
LEMMA LayerAlways == Spec => []LayerInv
  BY InitLayer, NextLayer, PTL DEF Spec

\* The variables of a layer keep their types, and the saves are a tree.
THEOREM LayerTypeCorrect == Spec => []TypeOK
  <1>1. LayerInv => TypeOK
    BY DEF LayerInv
  <1> QED
    BY <1>1, LayerAlways, PTL

\* Once the first loop of savesToKernelFormat is over, no .wh..wh..opq is left.
MarkFilesGone ==
    pc \in {"opaque attributes", "whiteouts"} \/ (Playing /\ mode = "kernel")
        => \A d \in Name : "file" \notin opaque[d]

\* Every step keeps MarkFilesGone: the list of the loop has them all, and the kernel's
\* overlay makes none.
LEMMA MarkFilesSteps == LayerInv /\ MarkFilesGone /\ [Next]_vars => MarkFilesGone'
  <1> SUFFICES ASSUME LayerInv, MarkFilesGone, [Next]_vars PROVE MarkFilesGone'
    OBVIOUS
  <1>0. /\ opaque \in [Name -> SUBSET Mark]
        /\ pc = "opaque" => todo = {d \in Name : "file" \in opaque[d]}
    BY DEF LayerInv, TypeOK, ConversionFits
  <1> USE <1>0 DEF MarkFilesGone, Playing
  <1>1. ASSUME NEW n \in Name, \E c \in Content : Write(n, c) PROVE MarkFilesGone'
    BY <1>1 DEF Write, Session
  <1>2. ASSUME NEW n \in Name, Delete(n) PROVE MarkFilesGone'
    BY <1>2 DEF Delete, Session
  <1>3. ASSUME NEW n \in Name, MakeDirectory(n) PROVE MarkFilesGone'
    BY <1>3 DEF MakeDirectory, Session
  <1>4. CASE GameEnds \/ ReplaceImage \/ PlayOnFuse \/ FallBack \/ Interrupted
    BY <1>4 DEF GameEnds, ReplaceImage, PlayOnFuse, FallBack, Interrupted, Mount, Idle, layer
  <1>5. CASE StartConversion \/ ListAttributes \/ StartWhiteouts \/ PlayOnKernel
    BY <1>5 DEF StartConversion, ListAttributes, StartWhiteouts, PlayOnKernel, Mount, Kept,
                layer
  <1>6. CASE StartClean \/ EndClean
    BY <1>6 DEF StartClean, EndClean, layer
  <1>7. ASSUME NEW n \in Name, SetOpaque(n) \/ DropOpaqueFile(n) \/ CopyAttribute(n)
        PROVE  MarkFilesGone'
    <2>1. CASE SetOpaque(n) \/ DropOpaqueFile(n)
      BY <2>1 DEF SetOpaque, DropOpaqueFile
    <2>2. CASE CopyAttribute(n)
      <3>1. \A d \in Name : opaque'[d] \in {opaque[d], opaque[d] \cup {"kernel"}}
        BY <2>2 DEF CopyAttribute
      <3>2. \A d \in Name : "file" \notin opaque[d]
        BY <2>2 DEF CopyAttribute
      <3>3. ASSUME NEW d \in Name PROVE "file" \notin opaque'[d]
        <4>1. CASE opaque'[d] = opaque[d]
          BY <3>2, <4>1
        <4>2. CASE opaque'[d] = opaque[d] \cup {"kernel"}
          BY <3>2, <4>2
        <4> QED
          BY <3>1, <4>1, <4>2
      <3> QED
        BY <3>3
    <2> QED
      BY <1>7, <2>1, <2>2
  <1>8. ASSUME NEW n \in Name, MakeDevice(n) \/ DropDotFile(n) \/ CleanFile(n)
        PROVE  MarkFilesGone'
    BY <1>8 DEF MakeDevice, DropDotFile, CleanFile, Kept
  <1>9. CASE UNCHANGED vars
    BY <1>9 DEF vars, layer
  <1> QED
    BY <1>1, <1>2, <1>3, <1>4, <1>5, <1>6, <1>7, <1>8, <1>9 DEF Next, Game

\* A layer that fuse-overlayfs and games have written, converted by savesToKernelFormat after
\* any number of interruptions, shows in the kernel's overlay what fuse-overlayfs would show.
THEOREM KernelShowsTheSame == Spec => []KernelSeesTheSame
  <1>1. LayerInv /\ MarkFilesGone => KernelSeesTheSame
    <2> SUFFICES ASSUME LayerInv, MarkFilesGone, Playing, mode = "kernel"
                 PROVE  dots = {} /\ \A n \in Name : KernelShows(n) = FuseShows(n)
      BY DEF KernelSeesTheSame, MarkFilesGone
    <2>1. TypeOK /\ KernelFits
      BY DEF LayerInv
    <2>2. dots = {}
      BY <2>1 DEF KernelFits
    <2>3. ASSUME NEW n \in Name PROVE KernelShows(n) = FuseShows(n)
      BY <2>1, SeenIsFuse DEF Seen
    <2> QED
      BY <2>2, <2>3
  <1>2. Init => MarkFilesGone
    BY DEF Init, MarkFilesGone, Playing
  <1> QED
    BY <1>1, <1>2, LayerAlways, MarkFilesSteps, PTL DEF Spec

\* A --clean that ended (cleanSaves) has left no file that the image would show as it is,
\* until a launch or a new image.
THEOREM CleanLeavesNoDuplicate == Spec => []NoDuplicateLeft
  <1>1. LayerInv => NoDuplicateLeft
    BY DEF LayerInv
  <1> QED
    BY <1>1, LayerAlways, PTL

\* Launches on either overlay, conversions, --clean and their interruptions are stutters of
\* GameFiles: a player's files change by the game or with the image.
THEOREM FilesAreKept == Spec => KeepsTheFiles
  <1>1. Init => ~Playing
    BY DEF Init, Playing
  <1> QED
    BY <1>1, InitLayer, NextLayer, NextMaps, PTL
       DEF Spec, KeepsTheFiles, Promise!Spec, FilesSeen
=============================================================================

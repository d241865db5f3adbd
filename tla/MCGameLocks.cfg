\* Two processes, an image game started by sudo and an installed folder: every
\* command, both signals; the lock file of the image game may fail to open.
SPECIFICATION Spec
CONSTANTS
    p1 = p1
    p2 = p2
    g1 = g1
    g2 = g2
    Proc = {p1, p2}
    Game = {g1, g2}
    DirGame = {g2}
    Commands = {"run", "mount", "umount", "clear", "list"}
    SudoGame = {g1}
    OpenFails = {g1}
    Signals = {"TERM", "KILL"}
    None = None
    Free = Free
    Orphan = Orphan
VIEW LiveChecks
SYMMETRY ProcSymmetry
INVARIANTS
    TypeOK
    OneLaunchPerGame
    PrefixStaysQuiet
    ChecksHoldUnlessRaced
PROPERTY GrantsExclude

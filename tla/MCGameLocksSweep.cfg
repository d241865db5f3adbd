\* Launches and --mount of two games with no signal: the sweep of abandoned mounts.
SPECIFICATION FairSpec
CONSTANTS
    p1 = p1
    p2 = p2
    g1 = g1
    g2 = g2
    Proc = {p1, p2}
    Game = {g1, g2}
    DirGame = {}
    Commands = {"run", "mount"}
    SudoGame = {}
    OpenFails = {}
    Signals = {}
    None = None
    Free = Free
    Orphan = Orphan
PROPERTY AbandonedIsUnmounted

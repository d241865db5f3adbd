SPECIFICATION Spec
CONSTANTS
    Kinds = {"dll", "runner", "proton", "umu", "fsr4", "pack", "game", "update", "launcher"}
    LastVersion = 2
    Cases <- MCCases
INVARIANTS
    NameMeansWhole
    StaysInstalled
    AskedIsLoaded
    OffMeansOff
    RunnersOrGames

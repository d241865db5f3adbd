SPECIFICATION RunnerSpec
CONSTANTS
    Protons <- MCProtons
    Path <- MCPath
    Family <- MCFamily
    Key <- MCKey
    Variable <- MCVariable
    Default <- MCDefault
    EnvVar = {"a", "b"}
    Launches <- MCLaunches
INVARIANTS
    StrongestWins
    EnvMerged
    AskedRunnerRuns
    PrefixKept

\* Two requests at the shortest duration (10 s), clients that leave, trials that are lost.
SPECIFICATION FairSpec
CONSTANTS
    r1 = r1
    r2 = r2
    Req = {r1, r2}
    Duration = 2
    Losses = TRUE
INVARIANTS
    OneTrialLauncher
    WaitsAddUp
    ReportIsFinal
PROPERTY LauncherEnds

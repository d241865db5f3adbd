\* Two requests, one --reset, one change of the machine.
SPECIFICATION FairSpec
CONSTANTS
    r1 = r1
    r2 = r2
    Req = {r1, r2}
    Bounds <- MCBounds
    IdleExit = 1
    DoctorTTL = 1
INVARIANTS
    StopsOnlyIdle
    TokensMean
    RefreshIsNew
PROPERTY IdleStops

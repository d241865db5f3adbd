\* SIGTERM to the host, --umount, a second launch, and either launcher killed at
\* any point.
SPECIFICATION FairSpec
CONSTANTS
    Signals = {"TERM", "KILL"}
    Umount = TRUE
INVARIANTS
    PlayedOnce
    SecondLaunchAlone
    HostWaitsForChild
PROPERTIES
    StoppedMeansStopped
    TermDuringGameEnds

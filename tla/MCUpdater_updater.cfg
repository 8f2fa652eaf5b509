\* Two updaters, two mirrors, two versions.
CONSTANTS
    Timer = Timer
    Hand = Hand
    Updaters = {Timer, Hand}
    Timed = {Timer}
    Mirrors = 2
    MaxVersion = 2
SPECIFICATION UpdaterSpec
INVARIANT UpdaterInv
INVARIANT InstalledIsVerified
PROPERTY OnlyNewerReplaces
PROPERTY LatestGetsInstalled

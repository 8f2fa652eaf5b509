\* One updater, two mirrors.
CONSTANTS
    Timer = Timer
    Hand = Hand
    Updaters = {Timer}
    Timed = {Timer}
    Mirrors = 2
    MaxVersion = 2
SPECIFICATION UpdaterSpec
PROPERTY GoodMirrorSuffices

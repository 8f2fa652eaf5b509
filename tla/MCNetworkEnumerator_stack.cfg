\* Databases with a right child at every node of the left edge.
CONSTANTS
    W = 4
    V4Prefix <- MCV4Prefix
    Countries = {NoCountry, DE}
    DE = DE
    Anycast = Anycast
    ASNs = {0, 1, 2, 3, 4}
    Flags = {Anycast}
    NoCountry = NoCountry
    NoNetwork = NoNetwork
    Unset = Unset
    MaxStackDepth <- MCMaxStackDepth
    Databases <- MCCombs
    Filters <- MCEverything
SPECIFICATION Spec
INVARIANT NeverOverruns
CHECK_DEADLOCK FALSE

\* Every database of up to three of eleven networks, flattened and as bogons, with memory running out anywhere.
CONSTANTS
    W = 7
    V4Prefix <- MCV4Prefix
    Databases <- MCDatabases
    MaxFailed = 2
SPECIFICATION Spec
INVARIANT ListingInv
INVARIANT FlattenedIsLongestMatch
INVARIANT FlattenedIsComplete
INVARIANT BogonsAreGaps
INVARIANT BogonsAreComplete
PROPERTY CallReturns
CHECK_DEADLOCK FALSE

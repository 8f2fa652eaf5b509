\* Lists of up to two networks, of summarised ranges and of remainders, and
\* every network without those on them.
CONSTANTS
    W = 6
    V4Prefix <- MCV4Prefix
    Networks <- MCNetworks
    Ends <- MCEnds
    MaxPushed = 2
    MaxMerged = 3
    MaxExcluded = 3
SPECIFICATION Spec
INVARIANT ListsSorted
INVARIANT MergeIsUnion
INVARIANT SummaryIsExact
INVARIANT SummaryIsMinimal
INVARIANT RefusalsAreKnown
INVARIANT RemainderAvoidsOthers
INVARIANT RemainderIsExact
PROPERTY CallReturns

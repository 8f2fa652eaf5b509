\* Pages and a buffer of three cells and two; the disk fills twice.
CONSTANTS
    ours = ours
    next = next
    other = other
    NoKey = NoKey
    Keys = {ours, next, other}
    KeyPairs <- MCKeyPairs
    Contents <- MCContents
    Page = 3
    Buffer = 2
    MaxFills = 2
SPECIFICATION Spec
INVARIANT ReadsAreRight
INVARIANT VerifiedIsWhole
INVARIANT WrittenVerifies
PROPERTY WriteEnds
CHECK_DEADLOCK FALSE

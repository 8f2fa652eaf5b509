\* A gap of one address.
CONSTANTS
    W = 7
    V4Prefix <- MCV4Prefix
    Databases <- MCOneAddressApart
    MaxFailed = 1
SPECIFICATION Spec
INVARIANT BogonsAreFound
CHECK_DEADLOCK FALSE

\* Up to three networks out of five, with or without a flag, refused networks, a
\* second write.
CONSTANTS
    W = 3
    V4Prefix <- MCV4Prefix
    Countries = {NoCountry}
    ASNs = {0}
    Flags = {Anycast}
    NoCountry = NoCountry
    NoNetwork = NoNetwork
    Candidates <- MCPrefixes
    MaxObjects = 3
    CallocMayFail = TRUE
    MaxWrites = 2
SPECIFICATION Spec
INVARIANT WriterInv
INVARIANT CompleteFileIsEncoding
PROPERTY ImplementsMap
PROPERTY WritesFinish
CHECK_DEADLOCK FALSE

\* Every database of up to two networks, or of three inside each other, every address.
CONSTANTS
    W = 4
    V4Prefix <- MCV4Prefix
    Countries = {NoCountry}
    ASNs = {0, 1, 2}
    Flags = {}
    NoCountry = NoCountry
    NoNetwork = NoNetwork
    Databases <- MCDatabases
SPECIFICATION LookupSpec
INVARIANT LookupInv
PROPERTY ImplementsLongestPrefixMatch
PROPERTY LookupReturns

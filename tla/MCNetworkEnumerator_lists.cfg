\* Every database of up to three networks and a few that fill the stack, with and without a filter.
CONSTANTS
    W = 4
    V4Prefix <- MCV4Prefix
    Countries = {NoCountry, DE}
    DE = DE
    Anycast = Anycast
    ASNs = {0, 1, 2, 3, 4}
    Flags = {Anycast}
    NoCountry = NoCountry
    NoNetwork = NoNetwork
    Unset = Unset
    MaxStackDepth <- MCMaxStackDepth
    Databases <- MCAllDatabases
    Filters <- MCFilters
SPECIFICATION Spec
INVARIANT EnumeratorInv
PROPERTY ImplementsListing
PROPERTY CallReturns
CHECK_DEADLOCK FALSE

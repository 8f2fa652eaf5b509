\* Two objects, vendor, one write.
CONSTANTS
    a = a
    b = b
    EmptyString = EmptyString
    NoString = NoString
    NoContinent = NoContinent
    NoFile = NoFile
    Strings <- MCStrings
    Length <- MCLength
    BlockSize = 4
    MaxLength = 6
    Numbers = {1, 2}
    Codes = {1, 2, 3}
    ValidCodes = {1, 2}
    Continents = {Africa, Europe}
    Fields = {vendor}
    MaxObjects = 2
    MaxWrites = 1
SPECIFICATION Spec
INVARIANT SectionsInv
PROPERTY OffsetsStable
INVARIANT ReadsBack
INVARIANT AddedAreFound
CHECK_DEADLOCK FALSE

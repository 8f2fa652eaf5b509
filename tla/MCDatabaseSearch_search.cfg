\* Sections of up to five objects, looked through twice and more.
CONSTANTS
    Keys = {1, 2, 3, 4, 5, 6}
    ValidKeys = {1, 2, 3, 4, 5}
    MaxCount = 5
    Sections <- MCSections
SPECIFICATION SearchSpec
INVARIANT NeverOutOfRange
INVARIANT SearchAnswers
PROPERTY RangeHalves

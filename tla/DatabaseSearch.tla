-------------------------- MODULE DatabaseSearch --------------------------
(***************************************************************************)
(* The binary searches of database.c: loc_database_get_as and              *)
(* loc_database_get_country, one step for each object that is fetched.     *)
(* Of an object only its key is modelled: the number of an AS, the code of *)
(* a country, as an integer in the order of strcmp.                        *)
(***************************************************************************)
EXTENDS Integers, Sequences

CONSTANTS
    Keys,       \* what can be looked for
    ValidKeys,  \* what loc_country_code_is_valid lets through
    Sections    \* the sections of objects that are searched

ASSUME KeysAssumption == Keys \subseteq Int /\ ValidKeys \subseteq Keys
ASSUME SectionsAssumption == Sections \subseteq Seq(Keys)

VARIABLES
    section,  \* the keys of the objects, in the order of the file
    wanted,
    lo, hi,
    outcome

searchVars == <<section, wanted, lo, hi, outcome>>

Count == Len(section)
Key(i) == section[i + 1]

Searching == outcome = "searching"
-----------------------------------------------------------------------------
SearchInit ==
    /\ section \in Sections
    /\ wanted \in Keys
    /\ lo = 0
    /\ hi = -1
    /\ outcome = "none"

\* Fault: the count is taken for the last position.
AskBehind(key) ==
    /\ ~Searching
    /\ wanted' = key
    /\ lo' = 0
    /\ hi' = Count
    /\ outcome' = IF key \in ValidKeys THEN "searching" ELSE "refused"
    /\ UNCHANGED section

\* A call: a country code that is not valid is refused at once.
Ask(key) ==
    /\ ~Searching
    /\ wanted' = key
    /\ lo' = 0
    /\ hi' = Count - 1
    /\ outcome' = IF key \in ValidKeys THEN "searching" ELSE "refused"
    /\ UNCHANGED section

\* Fault: the objects are fetched one after the other.
MiddleFirst == lo

Middle == (lo + hi) \div 2

\* The position is converted to an unsigned number for the test.
InRange(i) == 0 <= i /\ i < Count

\* A position behind the section is refused with ERANGE; else the object may
\* not be allocated.
FetchFails ==
    /\ Searching /\ lo <= hi
    /\ outcome' = IF InRange(Middle) THEN "no memory" ELSE "out of range"
    /\ UNCHANGED <<section, wanted, lo, hi>>

FetchMatch ==
    /\ Searching /\ lo <= hi
    /\ InRange(Middle)
    /\ Key(Middle) = wanted
    /\ outcome' = "found"
    /\ UNCHANGED <<section, wanted, lo, hi>>

FetchBelow ==
    /\ Searching /\ lo <= hi
    /\ InRange(Middle)
    /\ Key(Middle) < wanted
    /\ lo' = Middle + 1
    /\ UNCHANGED <<section, wanted, hi, outcome>>

FetchAbove ==
    /\ Searching /\ lo <= hi
    /\ InRange(Middle)
    /\ Key(Middle) > wanted
    /\ hi' = Middle - 1
    /\ UNCHANGED <<section, wanted, lo, outcome>>

\* Fault: the last object of the range is not fetched.
NothingFoundEarly ==
    /\ Searching
    /\ lo >= hi
    /\ outcome' = "absent"
    /\ UNCHANGED <<section, wanted, lo, hi>>

\* *as or *country is NULL; loc_database_get_as returns 1 and
\* loc_database_get_country 0.
NothingFound ==
    /\ Searching
    /\ lo > hi
    /\ outcome' = "absent"
    /\ UNCHANGED <<section, wanted, lo, hi>>

\* One turn of the loop
SearchTurn == FetchMatch \/ FetchBelow \/ FetchAbove \/ NothingFound

SearchStep == SearchTurn \/ FetchFails

SearchNext == SearchStep \/ \E key \in Keys : Ask(key)

SearchSpec == SearchInit /\ [][SearchNext]_searchVars

-----------------------------------------------------------------------------
\* The types of the variables.
SearchTypeOK ==
    /\ section \in Seq(Keys)
    /\ wanted \in Keys
    /\ lo \in Int /\ hi \in Int
    /\ outcome \in {"none", "refused", "searching", "out of range", "no memory", "found", "absent"}

Holds(key) == \E i \in 0..(Count - 1) : Key(i) = key
Ascending == \A i, j \in 0..(Count - 1) : i < j => Key(i) < Key(j)

\* The positions lo and hi stay around the object that is looked for: nothing
\* outside of them is the wanted one, and they point into the section.
SearchNarrows ==
    Searching =>
        /\ 0 <= lo /\ hi < Count /\ lo <= hi + 1
        /\ Ascending => \A i \in 0..(Count - 1) : Key(i) = wanted => lo <= i /\ i <= hi

\* No fetch is ever refused for its position, whatever is in the section.
NeverOutOfRange == outcome # "out of range"

\* In an ascending section what is there is found and what is not is not.
SearchAnswers ==
    /\ outcome = "found" => Holds(wanted)
    /\ outcome = "absent" /\ Ascending => ~Holds(wanted)

\* The object that was fetched last is the one that was found.
FoundInMiddle == outcome = "found" => InRange(Middle) /\ Key(Middle) = wanted

\* What holds in every state of a search
SearchInv ==
    SearchTypeOK /\ SearchNarrows /\ NeverOutOfRange /\ SearchAnswers /\ FoundInMiddle

\* Each fetch that does not end the search leaves at most half of the objects:
\* a search in n objects ends after no more than log2(n) + 1 fetches.
RangeHalves ==
    [][Searching /\ Searching' => 2 * (hi' - lo' + 1) <= hi - lo + 1]_searchVars
=============================================================================

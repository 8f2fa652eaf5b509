----------------------- MODULE DatabaseSearchProofs -----------------------
(***************************************************************************)
(* The binary searches on sections of any length.                          *)
(***************************************************************************)
EXTENDS DatabaseSearch, TLAPS

\* The middle of a range that is not empty lies in it.
LEMMA MiddleBetween ==
    ASSUME lo \in Int, hi \in Int, lo <= hi
    PROVE  Middle \in Int /\ lo <= Middle /\ Middle <= hi
  BY DEF Middle

\* The keys of a section are integers.
LEMMA KeyType ==
    ASSUME section \in Seq(Keys)
    PROVE  Count \in Nat /\ \A i \in 0..(Count - 1) : Key(i) \in Int
  <1>2. /\ Len(section) \in Nat
        /\ \A i \in 1..Len(section) : section[i] \in Keys
    OBVIOUS
  <1>3. \A i \in 0..(Len(section) - 1) : i + 1 \in 1..Len(section)
    BY <1>2
  <1>. QED
    BY <1>2, <1>3, KeysAssumption DEF Count, Key

\* Calling, and every step of a search, preserve the invariant.
LEMMA AskInv ==
    ASSUME section \in Seq(Keys), NEW key \in Keys, Ask(key)
    PROVE  SearchInv'
  <1>1. Count \in Nat
    BY KeyType
  <1>2. section' = section /\ Count' = Count /\ wanted' = key
    BY DEF Ask, Count
  <1>3. lo' = 0 /\ hi' = Count - 1 /\ outcome' \in {"searching", "refused"}
    BY DEF Ask
  <1>4. SearchTypeOK'
    <2>1. section' \in Seq(Keys) /\ wanted' \in Keys
      BY <1>2
    <2>2. lo' \in Int /\ hi' \in Int
      BY <1>1, <1>3
    <2>. QED
      BY <1>3, <2>1, <2>2 DEF SearchTypeOK
  <1>5. NeverOutOfRange' /\ SearchAnswers' /\ FoundInMiddle'
    BY <1>3 DEF NeverOutOfRange, SearchAnswers, FoundInMiddle
  <1>6. SearchNarrows'
    BY <1>1, <1>2, <1>3 DEF SearchNarrows
  <1>. QED
    BY <1>4, <1>5, <1>6 DEF SearchInv

\* While a search goes on, its next object is in the section.
LEMMA MiddleInRange ==
    ASSUME SearchInv, Searching, lo <= hi
    PROVE  InRange(Middle) /\ Middle \in 0..(Count - 1) /\ lo <= Middle /\ Middle <= hi
  <1>1. Count \in Nat /\ lo \in Int /\ hi \in Int
    BY KeyType DEF SearchInv, SearchTypeOK
  <1>2. 0 <= lo /\ hi < Count
    BY DEF SearchInv, SearchNarrows
  <1>3. Middle \in Int /\ lo <= Middle /\ Middle <= hi
    BY <1>1, MiddleBetween
  <1>. QED
    BY <1>1, <1>2, <1>3 DEF InRange

\* In an ascending section the order of two objects is the order of their keys.
LEMMA KeysInOrder ==
    ASSUME SearchTypeOK, Ascending, NEW i \in 0..(Count - 1), NEW j \in 0..(Count - 1)
    PROVE  Key(i) < Key(j) <=> i < j
  <1>1. Count \in Nat /\ Key(i) \in Int /\ Key(j) \in Int
    BY KeyType DEF SearchTypeOK
  <1>2. i < j => Key(i) < Key(j)
    BY DEF Ascending
  <1>3. j < i => Key(j) < Key(i)
    BY DEF Ascending
  <1>. QED
    BY <1>1, <1>2, <1>3

\* Each step of a search preserves the invariant.
LEMMA SearchStepInv ==
    ASSUME SearchInv, SearchStep
    PROVE  SearchInv'
  <1>. DEFINE positions == 0..(Count - 1)
  <1>1. Searching /\ UNCHANGED <<section, wanted>>
    BY DEF SearchStep, SearchTurn, FetchFails, FetchMatch, FetchBelow, FetchAbove, NothingFound
  <1>2. Count' = Count /\ (Ascending' <=> Ascending) /\ (Holds(wanted)' <=> Holds(wanted))
    BY <1>1 DEF Count, Ascending, Holds, Key
  <1>3. SearchTypeOK /\ Count \in Nat /\ wanted \in Int /\ lo \in Int /\ hi \in Int
    BY KeyType, KeysAssumption DEF SearchInv, SearchTypeOK
  <1>4. /\ 0 <= lo /\ hi < Count /\ lo <= hi + 1
        /\ Ascending => \A i \in positions : Key(i) = wanted => lo <= i /\ i <= hi
    BY <1>1 DEF SearchInv, SearchNarrows
  <1>5. CASE FetchFails
    <2>1. lo <= hi /\ InRange(Middle)
      BY <1>1, <1>5, MiddleInRange DEF FetchFails
    <2>2. outcome' = "no memory" /\ UNCHANGED <<lo, hi>>
      BY <1>5, <2>1 DEF FetchFails
    <2>. QED
      BY <1>1, <1>3, <2>2
      DEF SearchInv, SearchTypeOK, SearchNarrows, NeverOutOfRange, SearchAnswers,
          FoundInMiddle, Searching
  <1>6. CASE FetchMatch
    <2>1. Middle \in positions /\ Key(Middle) = wanted
      BY <1>1, <1>6, MiddleInRange DEF FetchMatch
    <2>2. outcome' = "found" /\ UNCHANGED <<lo, hi>>
      BY <1>6 DEF FetchMatch
    <2>3. Holds(wanted) /\ FoundInMiddle'
      BY <1>1, <1>6, <2>1, <2>2 DEF Holds, FetchMatch, FoundInMiddle, InRange, Middle, Key, Count
    <2>. QED
      BY <1>1, <1>2, <1>3, <2>2, <2>3
      DEF SearchInv, SearchTypeOK, SearchNarrows, NeverOutOfRange, SearchAnswers, Searching
  <1>7. CASE FetchBelow
    <2>1. Middle \in positions /\ lo <= Middle /\ Middle <= hi /\ Key(Middle) < wanted
      BY <1>1, <1>7, MiddleInRange DEF FetchBelow
    <2>2. lo' = Middle + 1 /\ UNCHANGED <<hi, outcome>>
      BY <1>7 DEF FetchBelow
    <2>3. Ascending => \A i \in positions : Key(i) = wanted => Middle + 1 <= i
      BY <1>3, <2>1, KeysInOrder
    <2>4. SearchNarrows'
      BY <1>1, <1>2, <1>3, <1>4, <2>1, <2>2, <2>3 DEF SearchNarrows, Key
    <2>5. SearchTypeOK' /\ NeverOutOfRange' /\ SearchAnswers' /\ FoundInMiddle'
      BY <1>1, <1>3, <2>1, <2>2
      DEF SearchInv, SearchTypeOK, NeverOutOfRange, SearchAnswers,
          FoundInMiddle, Searching
    <2>. QED
      BY <2>4, <2>5 DEF SearchInv
  <1>8. CASE FetchAbove
    <2>1. Middle \in positions /\ lo <= Middle /\ Middle <= hi /\ Key(Middle) > wanted
      BY <1>1, <1>8, MiddleInRange DEF FetchAbove
    <2>2. hi' = Middle - 1 /\ UNCHANGED <<lo, outcome>>
      BY <1>8 DEF FetchAbove
    <2>3. Ascending => \A i \in positions : Key(i) = wanted => i <= Middle - 1
      BY <1>3, <2>1, KeysInOrder
    <2>4. SearchNarrows'
      BY <1>1, <1>2, <1>3, <1>4, <2>1, <2>2, <2>3 DEF SearchNarrows, Key
    <2>5. SearchTypeOK' /\ NeverOutOfRange' /\ SearchAnswers' /\ FoundInMiddle'
      BY <1>1, <1>3, <2>1, <2>2
      DEF SearchInv, SearchTypeOK, NeverOutOfRange, SearchAnswers,
          FoundInMiddle, Searching
    <2>. QED
      BY <2>4, <2>5 DEF SearchInv
  <1>9. CASE NothingFound
    <2>1. lo > hi /\ outcome' = "absent" /\ UNCHANGED <<lo, hi>>
      BY <1>9 DEF NothingFound
    <2>2. Ascending => ~Holds(wanted)
      BY <1>3, <1>4, <2>1 DEF Holds
    <2>. QED
      BY <1>1, <1>2, <1>3, <2>1, <2>2
      DEF SearchInv, SearchTypeOK, SearchNarrows, NeverOutOfRange, SearchAnswers,
          FoundInMiddle, Searching
  <1>. QED
    BY <1>5, <1>6, <1>7, <1>8, <1>9 DEF SearchStep, SearchTurn

\* The invariant of the searches
LEMMA SearchAlwaysIInv == SearchSpec => []SearchInv
  <1>1. SearchInit => SearchInv
    BY SectionsAssumption
    DEF SearchInit, SearchInv, SearchTypeOK, SearchNarrows, NeverOutOfRange,
           SearchAnswers, FoundInMiddle, Searching
  <1>2. SearchInv /\ UNCHANGED searchVars => SearchInv'
    BY DEF searchVars, SearchInv, SearchTypeOK, SearchNarrows, NeverOutOfRange,
           SearchAnswers, FoundInMiddle, Searching, Ascending, Holds, Key, Count, InRange, Middle
  <1>3. SearchInv /\ [SearchNext]_searchVars => SearchInv'
    BY <1>2, AskInv, SearchStepInv DEF SearchNext, SearchInv, SearchTypeOK
  <1>. QED
    BY <1>1, <1>3, PTL DEF SearchSpec

\* No object is ever fetched from outside of the section.
THEOREM SearchInRange == SearchSpec => []NeverOutOfRange
  BY SearchAlwaysIInv, PTL DEF SearchInv

\* The range of a search stays around what it looks for.
THEOREM SearchKeepsRange == SearchSpec => []SearchNarrows
  BY SearchAlwaysIInv, PTL DEF SearchInv

\* A search in an ascending section finds what is there.
THEOREM SearchIsCorrect == SearchSpec => []SearchAnswers
  BY SearchAlwaysIInv, PTL DEF SearchInv

\* A search in n objects fetches at most log2(n) + 1 of them.
THEOREM SearchIsLogarithmic == SearchSpec => RangeHalves
  <1>. DEFINE Halved == Searching /\ Searching' => 2 * (hi' - lo' + 1) <= hi - lo + 1
  <1>1. ASSUME SearchInv, SearchNext
        PROVE  Halved
    <2>. SUFFICES ASSUME Searching, Searching'
                  PROVE  2 * (hi' - lo' + 1) <= hi - lo + 1
      OBVIOUS
    <2>1. lo \in Int /\ hi \in Int
      BY <1>1 DEF SearchInv, SearchTypeOK
    <2>2. FetchBelow \/ FetchAbove
      BY <1>1 DEF SearchNext, SearchStep, SearchTurn, Ask, FetchFails, FetchMatch, NothingFound, Searching
    <2>3. CASE FetchBelow
      BY <2>1, <2>3 DEF FetchBelow, Middle
    <2>4. CASE FetchAbove
      BY <2>1, <2>4 DEF FetchAbove, Middle
    <2>. QED
      BY <2>2, <2>3, <2>4
  <1>2. SearchInv /\ [SearchNext]_searchVars => [Halved]_searchVars
    BY <1>1
  <1>. QED
    BY SearchAlwaysIInv, <1>2, PTL DEF SearchSpec, RangeHalves
=============================================================================

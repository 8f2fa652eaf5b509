----------------------- MODULE DatabaseSectionsProofs -----------------------
(***************************************************************************)
(* The string pool, for every set of strings that fit into a block: it     *)
(* keeps its layout, gives out offsets that lead to their strings, and     *)
(* never moves a string.  And what is made of it, for any number of ASes,  *)
(* countries and writes: what was set reads back from the file, and what   *)
(* was added is found.                                                     *)
(***************************************************************************)
EXTENDS DatabaseSections, SequenceTheorems, TLAPS

-----------------------------------------------------------------------------
(* The pool *)

\* What holds in every state of the pool
PoolIInv == PoolTypeOK /\ PoolInv /\ OffsetLeadsToString

USE StringsAssumption, StringsFitInBlock, MaxLengthAssumption

\* A string needs at least its zero byte and never more than a block.
LEMMA NeedBounds ==
    ASSUME NEW s \in Strings
    PROVE  Need(s) \in Nat /\ 1 <= Need(s) /\ Need(s) <= BlockSize
  BY DEF Need

\* The empty pool has the layout.
LEMMA PoolInitInv == PoolInit => PoolIInv
  BY DEF PoolInit, PoolIInv, PoolTypeOK, PoolInv, WalkMeetsAll, StoredOnce,
         EnoughSpace, OffsetLeadsToString, Starts

\* Where no string is empty and none is stored twice, the walk finds the only
\* offset of a known string.
LEMMA FirstOfKnown ==
    ASSUME PoolTypeOK, StoredOnce, NEW s \in Strings, Known(s)
    PROVE  First(s) \in Starts /\ data[First(s)] = s
  <1>1. PICK o \in Starts : data[o] = s
    BY DEF Known
  <1>2. \A p \in Starts : data[p] = s => o <= p
    BY <1>1 DEF StoredOnce, Known, PoolTypeOK
  <1>. QED
    BY <1>1, <1>2 DEF First

\* Storing a string behind the others keeps the layout of the pool, if the
\* string is new and the block large enough.
LEMMA StoreKeepsLayout ==
    ASSUME PoolTypeOK, PoolInv, NEW s \in Strings, ~Known(s), Store(s),
           size' \in Nat, length + Need(s) <= size', blocks' = "own", asked' = s
    PROVE  PoolIInv'
  <1>. DEFINE need == Need(s)
  <1>1. need \in Nat /\ need >= 1
    BY NeedBounds
  <1>2. /\ Starts' = Starts \cup {length}
        /\ data' = [o \in Starts \cup {length} |-> IF o = length THEN s ELSE data[o]]
        /\ length' = length + need
        /\ length + need <= MaxLength
        /\ offset' = length
    BY DEF Store, Starts
  <1>. HIDE DEF need
  <1>3. Starts \subseteq Nat /\ length \in Nat /\ \A o \in Starts : data[o] \in Strings
    BY DEF PoolTypeOK
  <1>. DEFINE NewEnd(o) == o + Length[data'[o]] + 1
  <1>4. \A o \in Starts : /\ o < length /\ data'[o] = data[o]
                          /\ NewEnd(o) = End(o) /\ End(o) \in Int /\ End(o) <= length
    <2>1. \A o \in Starts : Need(data[o]) \in Nat /\ Need(data[o]) >= 1 /\ o + Need(data[o]) <= length
      BY <1>3, NeedBounds DEF PoolInv, WalkMeetsAll, End, Need
    <2>. QED
      BY <1>2, <1>3, <2>1 DEF End, Need
  <1>5. data'[length] = s /\ NewEnd(length) = length'
    BY <1>2, <1>3 DEF need, Need
  <1>6. PoolTypeOK'
    BY <1>1, <1>2, <1>3 DEF PoolTypeOK
  <1>7. WalkMeetsAll'
    <2>1. \A o \in Starts : (End(o) = length \/ End(o) \in Starts)
                            /\ \A p \in Starts : o < p => End(o) <= p
      BY DEF PoolInv, WalkMeetsAll
    <2>2. length' > 0 /\ 0 \in Starts'
      BY <1>1, <1>2, <1>3 DEF PoolInv, WalkMeetsAll
    <2>. HIDE DEF NewEnd
    <2>3. \A o \in Starts' : NewEnd(o) = length' \/ NewEnd(o) \in Starts'
      BY <1>2, <1>4, <1>5, <2>1
    <2>4. \A o \in Starts' : NewEnd(o) <= length'
      BY <1>1, <1>2, <1>3, <1>4, <1>5
    <2>5. \A o, p \in Starts' : o < p => NewEnd(o) <= p
      <3>. SUFFICES ASSUME NEW o \in Starts', NEW p \in Starts', o < p
                    PROVE  NewEnd(o) <= p
        OBVIOUS
      <3>1. o \in Starts
        BY <1>2, <1>3, <1>4
      <3>. QED
        BY <1>2, <1>4, <2>1, <3>1
    <2>. QED
      BY <2>2, <2>3, <2>4, <2>5 DEF WalkMeetsAll, End, NewEnd
  <1>8. StoredOnce'
    BY <1>2, <1>4, <1>5 DEF PoolInv, StoredOnce, Known
  <1>9. EnoughSpace'
    BY <1>2 DEF EnoughSpace, need
  <1>10. OffsetLeadsToString'
    BY <1>2, <1>5 DEF OffsetLeadsToString
  <1>. QED
    BY <1>6, <1>7, <1>8, <1>9, <1>10 DEF PoolIInv, PoolInv

\* Each way of adding a string preserves the invariant.
LEMMA AddStringInv ==
    ASSUME PoolIInv, NEW s \in Strings, AddString(s)
    PROVE  PoolIInv'
  <1>. USE DEF PoolIInv
  <1>1. CASE AddKnown(s)
    <2>1. offset' = First(s) /\ asked' = s /\ First(s) \in Starts /\ data[First(s)] = s
      BY <1>1, FirstOfKnown DEF AddKnown, PoolInv
    <2>2. UNCHANGED <<data, length, size, blocks>>
      BY <1>1 DEF AddKnown
    <2>3. PoolTypeOK'
      BY <2>1, <2>2 DEF PoolTypeOK, Starts
    <2>4. PoolInv'
      BY <2>2 DEF PoolInv, WalkMeetsAll, StoredOnce, EnoughSpace, Starts, End
    <2>5. OffsetLeadsToString'
      BY <2>1, <2>2 DEF OffsetLeadsToString, Starts
    <2>. QED
      BY <2>3, <2>4, <2>5
  <1>2. CASE AppendInPlace(s)
    BY <1>2, StoreKeepsLayout DEF AppendInPlace, Fits, PoolTypeOK
  <1>3. CASE AppendGrown(s)
    <2>1. length + Need(s) <= size + BlockSize
      BY NeedBounds DEF PoolTypeOK, PoolInv, EnoughSpace
    <2>. QED
      BY <1>3, <2>1, StoreKeepsLayout DEF AppendGrown, PoolTypeOK
  <1>4. CASE AppendNoMemory(s)
    <2>1. /\ UNCHANGED <<data, length>>
          /\ size' = size + BlockSize /\ blocks' = "lost" /\ offset' = 1 /\ asked' = s
      BY <1>4 DEF AppendNoMemory
    <2>2. PoolTypeOK'
      BY <2>1 DEF PoolTypeOK, Starts
    <2>3. WalkMeetsAll' /\ StoredOnce'
      BY <2>1 DEF PoolInv, WalkMeetsAll, StoredOnce, Starts, End
    <2>4. EnoughSpace'
      BY <2>1 DEF PoolInv, EnoughSpace, PoolTypeOK
    <2>5. OffsetLeadsToString'
      BY <2>1 DEF OffsetLeadsToString, Intact
    <2>. QED
      BY <2>2, <2>3, <2>4, <2>5 DEF PoolInv
  <1>5. CASE AppendLost(s)
    <2>1. /\ UNCHANGED <<data, length, size>> /\ offset' = length
          /\ blocks' = "undefined" /\ asked' = s
      BY <1>5 DEF AppendLost
    <2>2. PoolTypeOK'
      BY <2>1 DEF PoolTypeOK, Starts
    <2>3. PoolInv'
      BY <2>1 DEF PoolInv, WalkMeetsAll, StoredOnce, EnoughSpace, Starts, End
    <2>4. OffsetLeadsToString'
      BY <2>1 DEF OffsetLeadsToString, Intact
    <2>. QED
      BY <2>2, <2>3, <2>4
  <1>. QED
    BY <1>1, <1>2, <1>3, <1>4, <1>5 DEF AddString

\* So does a call with NULL, and no call at all.
LEMMA AddNullInv ==
    ASSUME PoolIInv, AddNull \/ UNCHANGED poolVars
    PROVE  PoolIInv'
  <1>1. UNCHANGED <<data, length, size, blocks, asked>> /\ (offset' = -1 \/ offset' = offset)
    BY DEF AddNull, poolVars
  <1>2. PoolTypeOK'
    BY <1>1 DEF PoolIInv, PoolTypeOK, Starts
  <1>3. PoolInv'
    BY <1>1 DEF PoolIInv, PoolInv, WalkMeetsAll, StoredOnce, EnoughSpace, Starts, End
  <1>4. OffsetLeadsToString'
    BY <1>1 DEF PoolIInv, OffsetLeadsToString, Intact, Starts
  <1>. QED
    BY <1>2, <1>3, <1>4 DEF PoolIInv

\* The invariant of the pool
LEMMA PoolAlwaysIInv == PoolSpec => []PoolIInv
  <1>1. PoolIInv /\ [PoolNext]_poolVars => PoolIInv'
    BY AddStringInv, AddNullInv DEF PoolNext
  <1>. QED
    BY PoolInitInv, <1>1, PTL DEF PoolSpec

\* The variables of the pool keep their types.
THEOREM PoolTypeCorrect == PoolSpec => []PoolTypeOK
  BY PoolAlwaysIInv, PTL DEF PoolIInv

\* Strings lie one behind the other within the block, none twice.
THEOREM PoolKeepsLayout == PoolSpec => []PoolInv
  BY PoolAlwaysIInv, PTL DEF PoolIInv

\* While memory lasts, loc_stringpool_add returns where the string is.
THEOREM PoolOffsetsLead == PoolSpec => []OffsetLeadsToString
  BY PoolAlwaysIInv, PTL DEF PoolIInv

\* Adding a string leaves all others where they are.
LEMMA StringsStay ==
    ASSUME PoolIInv, NEW s \in Strings, AddString(s)
    PROVE  \A o \in Starts : o \in Starts' /\ data'[o] = data[o]
  <1>1. CASE UNCHANGED data
    BY <1>1 DEF Starts
  <1>2. CASE Store(s)
    <2>1. length \notin Starts
      BY NeedBounds DEF PoolIInv, PoolTypeOK, PoolInv, WalkMeetsAll, End, Need
    <2>. QED
      BY <1>2, <2>1 DEF Store, Starts
  <1>. QED
    BY <1>1, <1>2
    DEF AddString, AddKnown, AppendInPlace, AppendGrown, AppendNoMemory, AppendLost

\* A string stays at its offset, however much the pool grows.
THEOREM PoolOffsetsStable == PoolSpec => OffsetsStable
  <1>. DEFINE Stable == \A o \in Starts : o \in Starts' /\ data'[o] = data[o]
  <1>1. ASSUME PoolIInv, [PoolNext]_poolVars
        PROVE  Stable
    <2>1. CASE AddNull \/ UNCHANGED poolVars
      BY <2>1 DEF AddNull, poolVars, Starts
    <2>. QED
      BY <1>1, <2>1, StringsStay DEF PoolNext
  <1>2. PoolIInv /\ [PoolNext]_poolVars => [Stable]_poolVars
    BY <1>1
  <1>. QED
    BY PoolAlwaysIInv, <1>2, PTL DEF PoolSpec, OffsetsStable

-----------------------------------------------------------------------------
(* What is stored of strings *)

\* While memory lasts, the offset of a string that is added leads to it, and
\* memory that is lost does not come back.
LEMMA AddedLeads ==
    ASSUME PoolIInv, NEW s \in Strings, AddString(s), Intact'
    PROVE  Intact /\ offset' \in Nat /\ LeadsTo(data', offset', s)
  <1>1. PoolIInv'
    BY AddStringInv
  <1>2. Intact
    BY DEF PoolIInv, PoolTypeOK, Intact, AddString, AddKnown, AppendInPlace, AppendGrown, AppendNoMemory, AppendLost
  <1>3. AddKnown(s) \/ Store(s)
    BY DEF Intact, AddString, AppendInPlace, AppendGrown, AppendNoMemory, AppendLost
  <1>4. asked' = s
    BY DEF AddString, AddKnown, AppendInPlace, AppendGrown, AppendNoMemory, AppendLost
  <1>5. offset' \in Nat
    <2>1. CASE AddKnown(s)
      <3>1. Known(s) /\ offset' = First(s) /\ PoolTypeOK /\ StoredOnce
        BY <2>1 DEF AddKnown, PoolIInv, PoolInv
      <3>2. First(s) \in Starts
        BY <3>1, FirstOfKnown
      <3>3. \A o \in Starts : o \in Nat
        BY <3>1 DEF PoolTypeOK
      <3>. QED
        BY <3>1, <3>2, <3>3
    <2>2. CASE Store(s)
      BY <2>2 DEF Store, PoolIInv, PoolTypeOK
    <2>. QED
      BY <1>3, <2>1, <2>2
  <1>. QED
    BY <1>1, <1>2, <1>4, <1>5 DEF PoolIInv, OffsetLeadsToString, LeadsTo, Starts

\* What leads to its strings in one pool does so in one that has grown.
LEMMA AgreeStill ==
    ASSUME NEW p, NEW q, \A o \in DOMAIN p : o \in DOMAIN q /\ q[o] = p[o],
           NEW written, NEW list
    PROVE  /\ MetadataAgrees(written, list, p) => MetadataAgrees(written, list, q)
           /\ ASesAgree(written, list, p) => ASesAgree(written, list, q)
           /\ CountriesAgree(written, list, p) => CountriesAgree(written, list, q)
  <1>1. \A o, s : LeadsTo(p, o, s) => LeadsTo(q, o, s)
    BY DEF LeadsTo
  <1>2. MetadataAgrees(written, list, p) => MetadataAgrees(written, list, q)
    BY <1>1 DEF MetadataAgrees
  <1>3. ASesAgree(written, list, p) => ASesAgree(written, list, q)
    BY <1>1 DEF ASesAgree
  <1>4. CountriesAgree(written, list, p) => CountriesAgree(written, list, q)
    BY <1>1 DEF CountriesAgree
  <1>. QED
    BY <1>2, <1>3, <1>4

\* A list with one object more.
LEMMA Appended ==
    ASSUME NEW Object, NEW list \in Seq(Object), NEW object \in Object,
           NEW longer, longer = Append(list, object), NEW m, m = Len(list) + 1
    PROVE  /\ longer \in Seq(Object)
           /\ Len(list) \in Nat /\ m \notin DOMAIN list
           /\ Len(longer) = m
           /\ DOMAIN longer = DOMAIN list \cup {m}
           /\ longer[m] = object
           /\ \A i \in DOMAIN list : longer[i] = list[i]
  <1>1. Len(list) \in Nat /\ DOMAIN list = 1..Len(list)
    OBVIOUS
  <1>2. longer \in Seq(Object) /\ Len(longer) = m
    BY AppendProperties
  <1>3. m \notin DOMAIN list
    BY <1>1
  <1>4. DOMAIN longer = 1..m
    BY <1>2
  <1>5. 1..m = (1..Len(list)) \cup {m}
    BY <1>1
  <1>6. longer[m] = object
    BY AppendProperties
  <1>7. \A i \in 1..Len(list) : longer[i] = list[i]
    BY AppendProperties
  <1>. QED
    BY <1>1, <1>2, <1>3, <1>4, <1>5, <1>6, <1>7

-----------------------------------------------------------------------------
(* The searches *)

ASSearch == INSTANCE DatabaseSearchProofs WITH
    Keys <- Numbers, ValidKeys <- Numbers, Sections <- {},
    section <- IF published = NoFile THEN <<>> ELSE KeysOf(published.ases)
CountrySearch == INSTANCE DatabaseSearchProofs WITH
    Keys <- Codes, ValidKeys <- ValidCodes, Sections <- {},
    section <- IF published = NoFile THEN <<>> ELSE KeysOf(published.countries)

\* The keys of the objects of a section are a section of keys.
LEMMA KeysOfSequence ==
    ASSUME NEW Object, NEW keys, \A object \in Object : object.key \in keys,
           NEW list \in Seq(Object)
    PROVE  KeysOf(list) \in Seq(keys) /\ Len(KeysOf(list)) = Len(list)
  <1>1. DOMAIN list = 1..Len(list) /\ Len(list) \in Nat /\ \A i \in 1..Len(list) : list[i] \in Object
    OBVIOUS
  <1>2. KeysOf(list) = [i \in 1..Len(list) |-> list[i].key]
    BY <1>1 DEF KeysOf
  <1>3. \A i \in 1..Len(list) : list[i].key \in keys
    BY <1>1
  <1>. QED
    BY <1>1, <1>2, <1>3

\* The searches are those of DatabaseSearch, in the sections of the last file:
\* what is proved of them there holds of them here.
LEMMA ASAssumptions ==
    Numbers \subseteq Int /\ Numbers \subseteq Numbers /\ {} \subseteq Seq(Numbers)
  BY SectionsAssumption

LEMMA ASSearchSame == /\ SearchAS!SearchInv <=> ASSearch!SearchInv
                      /\ SearchAS!SearchInv' <=> ASSearch!SearchInv'
  BY DEF SearchAS!SearchInv, ASSearch!SearchInv, SearchAS!SearchTypeOK,
         ASSearch!SearchTypeOK, SearchAS!SearchNarrows, ASSearch!SearchNarrows,
         SearchAS!NeverOutOfRange, ASSearch!NeverOutOfRange, SearchAS!SearchAnswers,
         ASSearch!SearchAnswers, SearchAS!FoundInMiddle, ASSearch!FoundInMiddle,
         SearchAS!Searching, ASSearch!Searching, SearchAS!Ascending, ASSearch!Ascending,
         SearchAS!Holds, ASSearch!Holds, SearchAS!Key, ASSearch!Key, SearchAS!Count,
         ASSearch!Count, SearchAS!InRange, ASSearch!InRange, SearchAS!Middle,
         ASSearch!Middle

LEMMA ASSearchAsk ==
    ASSUME published \in File \cup {NoFile}, NEW key \in Numbers, SearchAS!Ask(key)
    PROVE  SearchAS!SearchInv'
  <1>. DEFINE section == IF published = NoFile THEN <<>> ELSE KeysOf(published.ases)
  <1>1. section \in Seq(Numbers)
    <2>. DEFINE Object == [key : Numbers, name : Int]
    <2>1. \A object \in Object : object.key \in Numbers
      BY SectionsAssumption
    <2>2. published # NoFile => published.ases \in Seq(Object)
      BY DEF File
    <2>. HIDE DEF Object
    <2>. QED
      BY <2>1, <2>2, KeysOfSequence
  <1>2. ASSearch!Ask(key)
    BY DEF SearchAS!Ask, ASSearch!Ask, SearchAS!Searching, ASSearch!Searching,
           SearchAS!Count, ASSearch!Count
  <1>. HIDE DEF section
  <1>3. ASSearch!SearchInv'
    BY <1>1, <1>2, ASAssumptions, ASSearch!AskInv DEF section
  <1>. QED
    BY <1>3, ASSearchSame

LEMMA ASSearchGoesOn ==
    ASSUME SearchAS!SearchInv, SearchAS!SearchStep
    PROVE  SearchAS!SearchInv'
  <1>1. ASSearch!SearchStep
    BY DEF SearchAS!SearchStep, ASSearch!SearchStep, SearchAS!SearchTurn,
           ASSearch!SearchTurn, SearchAS!FetchMatch, ASSearch!FetchMatch,
           SearchAS!FetchBelow, ASSearch!FetchBelow, SearchAS!FetchAbove,
           ASSearch!FetchAbove, SearchAS!NothingFound, ASSearch!NothingFound,
           SearchAS!FetchFails, ASSearch!FetchFails, SearchAS!Searching,
           ASSearch!Searching, SearchAS!InRange, ASSearch!InRange, SearchAS!Middle,
           ASSearch!Middle, SearchAS!Count, ASSearch!Count, SearchAS!Key, ASSearch!Key
  <1>2. ASSearch!SearchInv'
    BY <1>1, ASAssumptions, ASSearchSame, ASSearch!SearchStepInv
  <1>. QED
    BY <1>2, ASSearchSame

LEMMA CountryAssumptions ==
    Codes \subseteq Int /\ ValidCodes \subseteq Codes /\ {} \subseteq Seq(Codes)
  BY SectionsAssumption

LEMMA CountrySearchSame == /\ SearchCountry!SearchInv <=> CountrySearch!SearchInv
                           /\ SearchCountry!SearchInv' <=> CountrySearch!SearchInv'
  BY DEF SearchCountry!SearchInv, CountrySearch!SearchInv, SearchCountry!SearchTypeOK,
         CountrySearch!SearchTypeOK, SearchCountry!SearchNarrows,
         CountrySearch!SearchNarrows, SearchCountry!NeverOutOfRange,
         CountrySearch!NeverOutOfRange, SearchCountry!SearchAnswers,
         CountrySearch!SearchAnswers, SearchCountry!FoundInMiddle,
         CountrySearch!FoundInMiddle, SearchCountry!Searching, CountrySearch!Searching,
         SearchCountry!Ascending, CountrySearch!Ascending, SearchCountry!Holds,
         CountrySearch!Holds, SearchCountry!Key, CountrySearch!Key, SearchCountry!Count,
         CountrySearch!Count, SearchCountry!InRange, CountrySearch!InRange,
         SearchCountry!Middle, CountrySearch!Middle

LEMMA CountrySearchAsk ==
    ASSUME published \in File \cup {NoFile}, NEW key \in Codes, SearchCountry!Ask(key)
    PROVE  SearchCountry!SearchInv'
  <1>. DEFINE section == IF published = NoFile THEN <<>> ELSE KeysOf(published.countries)
  <1>1. section \in Seq(Codes)
    <2>. DEFINE Object == [key : ValidCodes, continent : Continents \cup {NoContinent}, name : Int]
    <2>1. \A object \in Object : object.key \in Codes
      BY SectionsAssumption
    <2>2. published # NoFile => published.countries \in Seq(Object)
      BY DEF File
    <2>. HIDE DEF Object
    <2>. QED
      BY <2>1, <2>2, KeysOfSequence
  <1>2. CountrySearch!Ask(key)
    BY DEF SearchCountry!Ask, CountrySearch!Ask, SearchCountry!Searching,
           CountrySearch!Searching, SearchCountry!Count, CountrySearch!Count
  <1>. HIDE DEF section
  <1>3. CountrySearch!SearchInv'
    BY <1>1, <1>2, CountryAssumptions, CountrySearch!AskInv DEF section
  <1>. QED
    BY <1>3, CountrySearchSame

LEMMA CountrySearchGoesOn ==
    ASSUME SearchCountry!SearchInv, SearchCountry!SearchStep
    PROVE  SearchCountry!SearchInv'
  <1>1. CountrySearch!SearchStep
    BY DEF SearchCountry!SearchStep, CountrySearch!SearchStep, SearchCountry!SearchTurn,
           CountrySearch!SearchTurn, SearchCountry!FetchMatch, CountrySearch!FetchMatch,
           SearchCountry!FetchBelow, CountrySearch!FetchBelow, SearchCountry!FetchAbove,
           CountrySearch!FetchAbove, SearchCountry!NothingFound,
           CountrySearch!NothingFound, SearchCountry!FetchFails,
           CountrySearch!FetchFails, SearchCountry!Searching, CountrySearch!Searching,
           SearchCountry!InRange, CountrySearch!InRange, SearchCountry!Middle,
           CountrySearch!Middle, SearchCountry!Count, CountrySearch!Count,
           SearchCountry!Key, CountrySearch!Key
  <1>2. CountrySearch!SearchInv'
    BY <1>1, CountryAssumptions, CountrySearchSame, CountrySearch!SearchStepInv
  <1>. QED
    BY <1>2, CountrySearchSame

\* A search is not disturbed by what leaves the file and its own variables alone.
LEMMA SearchStays ==
    ASSUME UNCHANGED <<published, readVars>>
    PROVE  /\ SearchAS!SearchInv' <=> SearchAS!SearchInv
           /\ SearchCountry!SearchInv' <=> SearchCountry!SearchInv
  BY DEF readVars, SearchAS!SearchInv, SearchCountry!SearchInv, SearchAS!SearchTypeOK,
         SearchCountry!SearchTypeOK, SearchAS!SearchNarrows,
         SearchCountry!SearchNarrows, SearchAS!NeverOutOfRange,
         SearchCountry!NeverOutOfRange, SearchAS!SearchAnswers,
         SearchCountry!SearchAnswers, SearchAS!FoundInMiddle,
         SearchCountry!FoundInMiddle, SearchAS!Searching, SearchCountry!Searching,
         SearchAS!Ascending, SearchCountry!Ascending, SearchAS!Holds,
         SearchCountry!Holds, SearchAS!Key, SearchCountry!Key, SearchAS!Count,
         SearchCountry!Count, SearchAS!InRange, SearchCountry!InRange, SearchAS!Middle,
         SearchCountry!Middle
-----------------------------------------------------------------------------
(* The invariant: calls between two writes *)

LEMMA SectionsInitInv == Init => SectionsInv
  <1>. SUFFICES ASSUME Init
                PROVE  SectionsInv
    OBVIOUS
  <1>1. PoolIInv
    BY PoolInitInv DEF Init
  <1>2. TypeOK
    <2>1. as_list \in Seq(AS) /\ country_list \in Seq(Country)
      BY DEF Init
    <2>2. metadata \in [Fields -> Int] /\ given \in Given
      BY DEF Init, Given
    <2>. QED
      BY <1>1, <2>1, <2>2 DEF Init, TypeOK, PoolIInv
  <1>3. AddedOnce /\ SearchedInv /\ WritingInv /\ PublishedInv
    BY DEF Init, AddedOnce, SearchedInv, WritingInv, PublishedInv
  <1>4. MetadataAgrees(metadata, given, data)
    BY DEF Init, MetadataAgrees
  <1>. QED
    BY <1>1, <1>2, <1>3, <1>4 DEF SectionsInv, PoolIInv

\* What callers do between two writes keeps the invariant if it keeps types and
\* what is known of the strings that were given.
LEMMA CallerInv ==
    ASSUME SectionsInv, Adding, UNCHANGED <<writeVars, readVars>>,
           PoolIInv', TypeOK', AddedOnce',
           Intact' => Intact /\ MetadataAgrees(metadata', given', data')
    PROVE  SectionsInv'
  <1>1. step = "idle"
    BY DEF Adding, Idle
  <1>2. UNCHANGED <<step, published, saved>>
    BY DEF writeVars
  <1>3. SearchedInv'
    BY <1>2, SearchStays DEF SectionsInv, SearchedInv, readVars
  <1>4. WritingInv'
    BY <1>1, <1>2 DEF WritingInv
  <1>5. Intact' => PublishedInv'
    BY <1>1, <1>2 DEF SectionsInv, PublishedInv
  <1>. QED
    BY <1>3, <1>4, <1>5 DEF SectionsInv, PoolIInv

LEMMA SetMetadataInv ==
    ASSUME SectionsInv, NEW f \in Fields, NEW s \in Strings, SetMetadata(f, s)
    PROVE  SectionsInv'
  <1>1. /\ AddString(s)
        /\ metadata' = [metadata EXCEPT ![f] = IF offset' < 0 THEN @ ELSE offset']
        /\ given' = [given EXCEPT ![f] = s]
        /\ UNCHANGED <<as_list, country_list, writeVars, readVars>>
        /\ Adding
    BY DEF SetMetadata
  <1>2. PoolIInv /\ TypeOK
    BY DEF SectionsInv, PoolIInv, TypeOK
  <1>3. PoolIInv'
    BY <1>1, <1>2, AddStringInv
  <1>4. metadata \in [Fields -> Int] /\ given \in [Fields -> Strings \cup {NoString}]
    BY <1>2 DEF TypeOK, Given
  <1>5. TypeOK'
    <2>1. offset' \in Int
      BY <1>3 DEF PoolIInv, PoolTypeOK
    <2>2. metadata' \in [Fields -> Int] /\ given' \in Given
      BY <1>1, <1>4, <2>1 DEF Given
    <2>. QED
      BY <1>1, <1>2, <1>3, <2>2 DEF TypeOK, PoolIInv, writeVars, readVars
  <1>6. ASSUME Intact'
        PROVE  Intact /\ MetadataAgrees(metadata', given', data')
    <2>1. Intact /\ offset' \in Nat /\ LeadsTo(data', offset', s)
      BY <1>1, <1>2, <1>6, AddedLeads
    <2>2. MetadataAgrees(metadata, given, data')
      BY <1>1, <1>2, <2>1, StringsStay, AgreeStill DEF SectionsInv, Starts
    <2>3. metadata' = [metadata EXCEPT ![f] = offset']
      <3>1. ~(offset' < 0)
        BY <2>1
      <3>. QED
        BY <1>1, <3>1, Zenon
    <2>. QED
      BY <1>1, <1>4, <2>1, <2>2, <2>3 DEF MetadataAgrees
  <1>7. AddedOnce'
    BY <1>1 DEF SectionsInv, AddedOnce
  <1>. QED
    BY <1>1, <1>3, <1>5, <1>6, <1>7, CallerInv

LEMMA SetMetadataNullInv == SectionsInv /\ SetMetadataNull => SectionsInv'
  <1>. SUFFICES ASSUME SectionsInv, SetMetadataNull
                PROVE  SectionsInv'
    OBVIOUS
  <1>1. /\ AddNull /\ Adding
        /\ UNCHANGED <<listVars, writeVars, readVars>>
    BY DEF SetMetadataNull
  <1>2. PoolIInv /\ TypeOK
    BY DEF SectionsInv, PoolIInv, TypeOK
  <1>3. PoolIInv'
    BY <1>1, <1>2, AddNullInv
  <1>4. TypeOK'
    BY <1>1, <1>2, <1>3 DEF TypeOK, PoolIInv, listVars, writeVars, readVars
  <1>5. Intact' => Intact /\ MetadataAgrees(metadata', given', data')
    BY <1>1 DEF SectionsInv, AddNull, listVars, Intact
  <1>6. AddedOnce'
    BY <1>1 DEF SectionsInv, AddedOnce, listVars
  <1>. QED
    BY <1>1, <1>3, <1>4, <1>5, <1>6, CallerInv

\* The calls that change a list leave the pool alone.
LEMMA ListCallInv ==
    ASSUME SectionsInv, Adding, as_list' \in Seq(AS), country_list' \in Seq(Country), AddedOnce',
           UNCHANGED <<poolVars, metadata, given, writeVars, readVars>>
    PROVE  SectionsInv'
  <1>1. PoolIInv /\ TypeOK
    BY DEF SectionsInv, PoolIInv, TypeOK
  <1>2. PoolIInv'
    BY <1>1, AddNullInv
  <1>3. TypeOK'
    BY <1>1, <1>2 DEF TypeOK, PoolIInv, writeVars, readVars
  <1>4. Intact' => Intact /\ MetadataAgrees(metadata', given', data')
    BY DEF SectionsInv, poolVars, Intact
  <1>. QED
    BY <1>2, <1>3, <1>4, CallerInv

LEMMA AddASInv ==
    ASSUME SectionsInv, NEW number \in Numbers, AddAS(number)
    PROVE  SectionsInv'
  <1>. DEFINE as == [key |-> number, name |-> NoString]
  <1>1. /\ as_list' = IF Lists(as_list, number) THEN as_list ELSE Append(as_list, as)
        /\ UNCHANGED <<poolVars, metadata, given, country_list, writeVars, readVars>>
        /\ Adding
    BY DEF AddAS
  <1>2. as_list \in Seq(AS) /\ country_list \in Seq(Country) /\ AddedOnce
    BY DEF SectionsInv, TypeOK
  <1>3. as \in AS /\ as.key = number
    BY DEF AS
  <1>. HIDE DEF as
  <1>4. as_list' \in Seq(AS)
    BY <1>1, <1>2, <1>3, AppendProperties
  <1>5. AddedOnce'
    <2>1. CASE Lists(as_list, number)
      BY <1>1, <1>2, <2>1 DEF AddedOnce
    <2>2. CASE ~Lists(as_list, number)
      <3>1. as_list' = Append(as_list, as)
        BY <1>1, <2>2
      <3>2. PICK m : m = Len(as_list) + 1
        OBVIOUS
      <3>3. /\ DOMAIN as_list' = DOMAIN as_list \cup {m}
            /\ as_list'[m] = as
            /\ \A i \in DOMAIN as_list : as_list'[i] = as_list[i]
        <4>1. as_list \in Seq(AS) /\ as \in AS
          BY <1>2, <1>3
        <4>2. as_list'[m] = as
          BY <4>1, <3>1, <3>2, AppendProperties
        <4>3. DOMAIN as_list' = DOMAIN as_list \cup {m}
          BY <4>1, <3>1, <3>2, Appended
        <4>4. \A i \in DOMAIN as_list : as_list'[i] = as_list[i]
          <5>1. DOMAIN as_list = 1..Len(as_list)
            BY <4>1
          <5>. QED
            BY <4>1, <5>1, <3>1, AppendProperties
        <4>. QED
          BY <4>2, <4>3, <4>4
      <3>4. \A i \in DOMAIN as_list : as_list[i].key # number
        BY <2>2 DEF Lists
      <3>5. \A i \in DOMAIN as_list : as_list'[i].key = as_list[i].key
        BY <3>3
      <3>6. as_list'[m].key = number
        BY <1>3, <3>3
      <3>. QED
        BY <1>2, <3>3, <3>4, <3>5, <3>6, Zenon DEF AddedOnce
    <2>. QED
      BY <2>1, <2>2
  <1>. QED
    BY <1>1, <1>2, <1>4, <1>5, ListCallInv

LEMMA SetASNameInv ==
    ASSUME SectionsInv, NEW i \in DOMAIN as_list, NEW name \in Strings \cup {NoString},
           SetASName(i, name)
    PROVE  SectionsInv'
  <1>1. /\ as_list' = [as_list EXCEPT ![i].name = name]
        /\ UNCHANGED <<poolVars, metadata, given, country_list, writeVars, readVars>>
        /\ Adding
    BY DEF SetASName
  <1>2. as_list \in Seq(AS) /\ country_list \in Seq(Country) /\ AddedOnce
    BY DEF SectionsInv, TypeOK
  <1>3. as_list[i] \in AS
    BY <1>2
  <1>4. [as_list[i] EXCEPT !.name = name] \in AS /\ [as_list[i] EXCEPT !.name = name].key = as_list[i].key
    BY <1>3 DEF AS
  <1>5. as_list' = [as_list EXCEPT ![i] = [as_list[i] EXCEPT !.name = name]]
    BY <1>1
  <1>6. as_list' \in Seq(AS)
    BY <1>2, <1>4, <1>5
  <1>7. DOMAIN as_list' = DOMAIN as_list /\ \A j \in DOMAIN as_list : as_list'[j].key = as_list[j].key
    BY <1>2, <1>4, <1>5
  <1>8. AddedOnce'
    BY <1>2, <1>7 DEF AddedOnce
  <1>. QED
    BY <1>1, <1>2, <1>6, <1>8, ListCallInv

LEMMA AddCountryInv ==
    ASSUME SectionsInv, NEW code \in Codes, AddCountry(code)
    PROVE  SectionsInv'
  <1>. DEFINE country == [key |-> code, continent |-> NoContinent, name |-> NoString]
  <1>1. /\ country_list' = IF code \notin ValidCodes \/ Lists(country_list, code)
                           THEN country_list ELSE Append(country_list, country)
        /\ UNCHANGED <<poolVars, metadata, given, as_list, writeVars, readVars>>
        /\ Adding
    BY DEF AddCountry
  <1>2. as_list \in Seq(AS) /\ country_list \in Seq(Country) /\ AddedOnce
    BY DEF SectionsInv, TypeOK
  <1>3. code \in ValidCodes => country \in Country
    BY DEF Country
  <1>. HIDE DEF country
  <1>4. country_list' \in Seq(Country)
    BY <1>1, <1>2, <1>3, AppendProperties
  <1>5. AddedOnce'
    BY <1>1, <1>2 DEF AddedOnce
  <1>. QED
    BY <1>1, <1>2, <1>4, <1>5, ListCallInv

LEMMA SetCountryInv ==
    ASSUME SectionsInv, NEW i \in DOMAIN country_list,
           \/ \E continent \in Continents : SetContinentCode(i, continent)
           \/ \E name \in Strings : SetCountryName(i, name)
    PROVE  SectionsInv'
  <1>1. /\ \/ \E continent \in Continents : country_list' = [country_list EXCEPT ![i].continent = continent]
           \/ \E name \in Strings : country_list' = [country_list EXCEPT ![i].name = name]
        /\ UNCHANGED <<poolVars, metadata, given, as_list, writeVars, readVars>>
        /\ Adding
    BY DEF SetContinentCode, SetCountryName
  <1>2. as_list \in Seq(AS) /\ country_list \in Seq(Country) /\ AddedOnce
    BY DEF SectionsInv, TypeOK
  <1>3. country_list[i] \in Country
    BY <1>2
  <1>4. PICK country \in Country : country_list' = [country_list EXCEPT ![i] = country]
    <2>1. \A continent \in Continents : [country_list[i] EXCEPT !.continent = continent] \in Country
      BY <1>3 DEF Country
    <2>2. \A name \in Strings : [country_list[i] EXCEPT !.name = name] \in Country
      BY <1>3 DEF Country
    <2>. QED
      BY <1>1, <2>1, <2>2
  <1>5. country_list' \in Seq(Country)
    BY <1>2, <1>4
  <1>6. AddedOnce'
    BY <1>1, <1>2 DEF AddedOnce
  <1>. QED
    BY <1>1, <1>2, <1>5, <1>6, ListCallInv
-----------------------------------------------------------------------------
(* The invariant: the steps of a write *)

\* Sorting neither loses an AS nor leaves two out of order.
LEMMA SortedList ==
    ASSUME as_list \in Seq(AS), AddedOnce, NEW s \in Sorted(as_list)
    PROVE  s \in Seq(AS) /\ Increasing(s)
  <1>. DEFINE D == DOMAIN as_list
  <1>1. PICK p \in Bijection(D, D) : s = [i \in D |-> as_list[p[i]]]
    BY DEF Sorted
  <1>2. \A i, j \in D : i < j => s[i].key <= s[j].key
    BY DEF Sorted
  <1>3. Len(as_list) \in Nat /\ D = 1..Len(as_list) /\ \A i \in D : as_list[i] \in AS
    OBVIOUS
  <1>4. p \in [D -> D] /\ \A i, j \in D : p[i] = p[j] => i = j
    BY DEF Bijection, Injection, IsInjective
  <1>. HIDE DEF D
  <1>5. \A i \in D : s[i] \in AS /\ s[i] = as_list[p[i]]
    BY <1>1, <1>3, <1>4
  <1>6. \A i \in D : s[i].key \in Nat
    BY <1>5, SectionsAssumption DEF AS
  <1>7. s \in Seq(AS) /\ DOMAIN s = D
    <2>1. s = [i \in 1..Len(as_list) |-> s[i]] /\ DOMAIN s = D
      BY <1>1, <1>3
    <2>2. \A i \in 1..Len(as_list) : s[i] \in AS
      BY <1>3, <1>5
    <2>. QED
      BY <1>3, <2>1, <2>2
  <1>8. ASSUME NEW i \in D, NEW j \in D, i < j
        PROVE  s[i].key < s[j].key
    <2>1. i # j
      BY <1>3, <1>8
    <2>2. s[i].key # s[j].key
      <3>1. p[i] # p[j] /\ p[i] \in D /\ p[j] \in D
        BY <1>4, <2>1
      <3>2. as_list[p[i]].key # as_list[p[j]].key
        BY <3>1 DEF AddedOnce, D
      <3>. QED
        BY <1>5, <3>2
    <2>3. s[i].key <= s[j].key
      BY <1>2, <1>8
    <2>. QED
      BY <1>6, <2>2, <2>3
  <1>. QED
    BY <1>7, <1>8 DEF Increasing

\* What the writer does keeps the invariant if it keeps types and what is known of
\* the file, and leaves the last file and the readers alone.
LEMMA WriterInv ==
    ASSUME SectionsInv, UNCHANGED <<published, readVars>>, step' # "idle",
           outcome # "searching", PoolIInv', TypeOK', AddedOnce',
           Intact' => Intact /\ MetadataAgrees(metadata', given', data') /\ WritingInv'
    PROVE  SectionsInv'
  <1>1. SearchedInv'
    BY SearchStays DEF SectionsInv, SearchedInv, readVars
  <1>2. PublishedInv'
    BY DEF PublishedInv
  <1>. QED
    BY <1>1, <1>2 DEF SectionsInv, PoolIInv

LEMMA BeginWriteInv == SectionsInv /\ BeginWrite => SectionsInv'
  <1>. SUFFICES ASSUME SectionsInv, BeginWrite
                PROVE  SectionsInv'
    OBVIOUS
  <1>1. /\ as_list' \in Sorted(as_list)
        /\ file' = [metadata |-> metadata, ases |-> <<>>, countries |-> <<>>, pool |-> <<>>]
        /\ saved' = [ases |-> as_list', countries |-> country_list, given |-> given]
        /\ step' = "as"
        /\ UNCHANGED <<poolVars, metadata, given, country_list, block, published, readVars>>
        /\ outcome # "searching"
    BY DEF BeginWrite, Adding, Idle
  <1>2. PoolIInv /\ TypeOK /\ AddedOnce
    BY DEF SectionsInv, PoolIInv, TypeOK
  <1>3. PoolIInv'
    BY <1>1, <1>2, AddNullInv
  <1>4. as_list' \in Seq(AS) /\ Increasing(as_list')
    BY <1>1, <1>2, SortedList DEF TypeOK
  <1>5. TypeOK'
    <2>1. <<>> \in Pool
      <3>1. <<>> \in [{} -> Strings]
        OBVIOUS
      <3>. QED
        BY <3>1 DEF Pool
    <2>2. file' \in File
      BY <1>1, <1>2, <2>1 DEF TypeOK, File
    <2>. QED
      BY <1>1, <1>2, <1>3, <1>4, <2>2 DEF TypeOK, PoolIInv, readVars
  <1>6. AddedOnce'
    <2>1. DOMAIN as_list' \subseteq Nat
      BY <1>4
    <2>2. \A i \in DOMAIN as_list' : as_list'[i].key \in Nat
      <3>1. \A i \in DOMAIN as_list' : as_list'[i] \in AS
        BY <1>4
      <3>2. \A as \in AS : as.key \in Nat
        BY SectionsAssumption DEF AS
      <3>. QED
        BY <3>1, <3>2
    <2>3. \A i, j \in DOMAIN as_list' : i = j \/ i < j \/ j < i
      BY <2>1
    <2>4. \A i, j \in DOMAIN as_list' : i < j => as_list'[i].key # as_list'[j].key
      BY <1>4, <2>2 DEF Increasing
    <2>. QED
      BY <2>3, <2>4 DEF AddedOnce
  <1>7. WritingInv'
    <2>1. Len(as_list') \in Nat /\ Len(country_list') \in Nat
      BY <1>1, <1>2, <1>4 DEF TypeOK
    <2>2. ASesAgree(<<>>, as_list', data') /\ CountriesAgree(<<>>, country_list', data')
      BY <2>1 DEF ASesAgree, CountriesAgree
    <2>. QED
      BY <1>1, <1>4, <2>2 DEF WritingInv
  <1>8. Intact' => Intact /\ MetadataAgrees(metadata', given', data')
    BY <1>1 DEF SectionsInv, Intact, poolVars
  <1>. QED
    BY <1>1, <1>3, <1>5, <1>6, <1>7, <1>8, WriterInv

\* A write is not searched in.
LEMMA NotSearching == SectionsInv /\ step # "idle" => outcome # "searching"
  BY DEF SectionsInv, SearchedInv

\* One object more agrees with the list if it agrees with the next of the list.
LEMMA OneASMore ==
    ASSUME NEW Object, NEW written \in Seq(Object), NEW list \in Seq(AS), NEW pool,
           ASesAgree(written, list, pool), Len(written) < Len(list),
           NEW object \in Object, object.key = NextOf(list, written).key,
           LeadsTo(pool, object.name, IF NextOf(list, written).name = NoString THEN EmptyString
                                      ELSE NextOf(list, written).name)
    PROVE  ASesAgree(Append(written, object), list, pool)
  <1>. DEFINE longer == Append(written, object)
  <1>1. PICK m : m = Len(written) + 1
    OBVIOUS
  <1>2. /\ Len(longer) = m
        /\ DOMAIN longer = DOMAIN written \cup {m}
    BY <1>1, Appended
  <1>3. longer[m] = object
    BY <1>1, AppendProperties
  <1>4. \A i \in DOMAIN written : longer[i] = written[i]
    <2>1. DOMAIN written = 1..Len(written)
      OBVIOUS
    <2>. QED
      BY <2>1, AppendProperties
  <1>5. m <= Len(list)
    BY <1>1
  <1>6. NextOf(list, written) = list[m]
    BY <1>1 DEF NextOf
  <1>. HIDE DEF longer
  <1>7. ASesAgree(longer, list, pool)
    BY <1>2, <1>3, <1>4, <1>5, <1>6 DEF ASesAgree
  <1>. QED
    BY <1>7 DEF longer

LEMMA OneCountryMore ==
    ASSUME NEW Object, NEW written \in Seq(Object), NEW list \in Seq(Country), NEW pool,
           CountriesAgree(written, list, pool), Len(written) < Len(list),
           NEW object \in Object, object.key = NextOf(list, written).key,
           NextOf(list, written).continent # NoContinent =>
               object.continent = NextOf(list, written).continent,
           NextOf(list, written).name # NoString =>
               LeadsTo(pool, object.name, NextOf(list, written).name)
    PROVE  CountriesAgree(Append(written, object), list, pool)
  <1>. DEFINE longer == Append(written, object)
  <1>1. PICK m : m = Len(written) + 1
    OBVIOUS
  <1>2. /\ Len(longer) = m
        /\ DOMAIN longer = DOMAIN written \cup {m}
    BY <1>1, Appended
  <1>3. longer[m] = object
    BY <1>1, AppendProperties
  <1>4. \A i \in DOMAIN written : longer[i] = written[i]
    <2>1. DOMAIN written = 1..Len(written)
      OBVIOUS
    <2>. QED
      BY <2>1, AppendProperties
  <1>5. m <= Len(list)
    BY <1>1
  <1>6. NextOf(list, written) = list[m]
    BY <1>1 DEF NextOf
  <1>. HIDE DEF longer
  <1>7. CountriesAgree(longer, list, pool)
    BY <1>2, <1>3, <1>4, <1>5, <1>6 DEF CountriesAgree
  <1>. QED
    BY <1>7 DEF longer

LEMMA NextObject ==
    ASSUME NEW Object, NEW list \in Seq(Object), NEW Written, NEW section \in Seq(Written),
           Len(section) < Len(list)
    PROVE  NextOf(list, section) \in Object
  <1>1. Len(section) + 1 \in 1..Len(list)
    OBVIOUS
  <1>. QED
    BY <1>1 DEF NextOf

LEMMA WriteASInv == SectionsInv /\ WriteAS => SectionsInv'
  <1>. SUFFICES ASSUME SectionsInv, WriteAS
                PROVE  SectionsInv'
    OBVIOUS
  <1>. DEFINE as == NextOf(as_list, file.ases)
              name == IF as.name = NoString THEN EmptyString ELSE as.name
              object == [key |-> as.key, name |-> offset']
              Written == [key : Numbers, name : Int]
  <1>1. /\ step = "as" /\ Len(file.ases) < Len(as_list)
        /\ AddString(name)
        /\ file' = [file EXCEPT !.ases = Append(file.ases, object)]
        /\ UNCHANGED <<listVars, step, block, published, writes, saved, readVars>>
    BY DEF WriteAS
  <1>2. PoolIInv /\ TypeOK /\ AddedOnce /\ file \in File /\ as_list \in Seq(AS)
    BY <1>1 DEF SectionsInv, PoolIInv, TypeOK
  <1>3. file.ases \in Seq(Written)
    BY <1>2 DEF File
  <1>. HIDE DEF Written
  <1>4. as \in AS
    BY <1>1, <1>2, <1>3, NextObject
  <1>. HIDE DEF as
  <1>5. name \in Strings
    BY <1>4, StringsAssumption DEF AS
  <1>. HIDE DEF name
  <1>6. PoolIInv'
    BY <1>1, <1>2, <1>5, AddStringInv
  <1>7. offset' \in Int
    BY <1>6 DEF PoolIInv, PoolTypeOK
  <1>8. object \in Written /\ object.key = as.key /\ object.name = offset'
    BY <1>4, <1>7 DEF AS, Written
  <1>. HIDE DEF object
  <1>9. /\ file'.ases = Append(file.ases, object)
        /\ file'.metadata = file.metadata /\ file'.countries = file.countries
        /\ file' \in File
    <2>1. Append(file.ases, object) \in Seq(Written)
      BY <1>3, <1>8, AppendProperties
    <2>. QED
      BY <1>1, <1>2, <2>1 DEF File, Written
  <1>10. TypeOK'
    BY <1>1, <1>2, <1>6, <1>9 DEF TypeOK, PoolIInv, listVars, readVars
  <1>11. AddedOnce'
    BY <1>1, <1>2 DEF AddedOnce, listVars
  <1>12. ASSUME Intact'
         PROVE  Intact /\ MetadataAgrees(metadata', given', data') /\ WritingInv'
    <2>1. Intact /\ LeadsTo(data', offset', name)
      BY <1>1, <1>2, <1>5, <1>12, AddedLeads
    <2>2. MetadataAgrees(metadata, given, data) /\ WritingInv
      BY <2>1 DEF SectionsInv
    <2>3. \A o \in DOMAIN data : o \in DOMAIN data' /\ data'[o] = data[o]
      BY <1>1, <1>2, <1>5, StringsStay DEF Starts
    <2>4. /\ MetadataAgrees(metadata, given, data')
          /\ ASesAgree(file.ases, as_list, data')
          /\ CountriesAgree(file.countries, country_list, data')
      BY <1>1, <2>2, <2>3, AgreeStill DEF WritingInv
    <2>5. ASesAgree(file'.ases, as_list, data')
      BY <1>1, <1>2, <1>3, <1>8, <1>9, <2>1, <2>4, OneASMore DEF as, name
    <2>. QED
      BY <1>1, <1>9, <2>1, <2>2, <2>4, <2>5 DEF WritingInv, listVars
  <1>13. outcome # "searching"
    BY <1>1, NotSearching
  <1>. QED
    BY <1>1, <1>6, <1>10, <1>11, <1>12, <1>13, WriterInv

LEMMA ASesWrittenInv == SectionsInv /\ ASesWritten => SectionsInv'
  <1>. SUFFICES ASSUME SectionsInv, ASesWritten
                PROVE  SectionsInv'
    OBVIOUS
  <1>1. /\ step = "as" /\ Len(file.ases) = Len(as_list) /\ step' = "countries"
        /\ block' \in Continents \cup {NoContinent}
        /\ UNCHANGED <<poolVars, listVars, file, published, writes, saved, readVars>>
    BY DEF ASesWritten
  <1>2. PoolIInv /\ TypeOK /\ AddedOnce
    BY DEF SectionsInv, PoolIInv, TypeOK
  <1>3. PoolIInv'
    BY <1>1, <1>2, AddNullInv
  <1>4. TypeOK'
    BY <1>1, <1>2, <1>3 DEF TypeOK, PoolIInv, listVars, readVars
  <1>5. AddedOnce'
    BY <1>1, <1>2 DEF AddedOnce, listVars
  <1>6. Intact' => Intact /\ MetadataAgrees(metadata', given', data') /\ WritingInv'
    BY <1>1 DEF SectionsInv, WritingInv, Intact, poolVars, listVars
  <1>7. outcome # "searching"
    BY <1>1, NotSearching
  <1>. QED
    BY <1>1, <1>3, <1>4, <1>5, <1>6, <1>7, WriterInv

LEMMA WriteCountryInv == SectionsInv /\ WriteCountry => SectionsInv'
  <1>. SUFFICES ASSUME SectionsInv, WriteCountry
                PROVE  SectionsInv'
    OBVIOUS
  <1>. DEFINE country == NextOf(country_list, file.countries)
              object == [key |-> country.key, continent |-> block',
                         name |-> IF country.name = NoString THEN 0 ELSE offset']
              Written == [key : ValidCodes, continent : Continents \cup {NoContinent}, name : Int]
  <1>1. /\ step = "countries" /\ Len(file.countries) < Len(country_list)
        /\ IF country.name = NoString THEN UNCHANGED poolVars ELSE AddString(country.name)
        /\ block' = ContinentWritten(country)
        /\ file' = [file EXCEPT !.countries = Append(file.countries, object)]
        /\ UNCHANGED <<listVars, step, published, writes, saved, readVars>>
    BY DEF WriteCountry
  <1>2. /\ PoolIInv /\ TypeOK /\ AddedOnce /\ file \in File /\ country_list \in Seq(Country)
        /\ block \in Continents \cup {NoContinent}
    BY <1>1 DEF SectionsInv, PoolIInv, TypeOK
  <1>3. file.countries \in Seq(Written)
    BY <1>2 DEF File
  <1>. HIDE DEF Written
  <1>4. country \in Country
    BY <1>1, <1>2, <1>3, NextObject
  <1>. HIDE DEF country
  <1>5. country.name # NoString => country.name \in Strings
    BY <1>4 DEF Country
  <1>6. PoolIInv'
    BY <1>1, <1>2, <1>5, AddStringInv, AddNullInv
  <1>7. offset' \in Int
    BY <1>6 DEF PoolIInv, PoolTypeOK
  <1>8. block' \in Continents \cup {NoContinent} /\
        (country.continent # NoContinent => block' = country.continent)
    BY <1>1, <1>2, <1>4 DEF ContinentWritten, Country
  <1>9. /\ object \in Written /\ object.key = country.key /\ object.continent = block'
        /\ country.name # NoString => object.name = offset'
    BY <1>4, <1>7, <1>8 DEF Country, Written
  <1>. HIDE DEF object
  <1>10. /\ file'.countries = Append(file.countries, object)
         /\ file'.metadata = file.metadata /\ file'.ases = file.ases
         /\ file' \in File
    <2>1. Append(file.countries, object) \in Seq(Written)
      BY <1>3, <1>9, AppendProperties
    <2>. QED
      BY <1>1, <1>2, <2>1 DEF File, Written
  <1>11. TypeOK'
    BY <1>1, <1>2, <1>6, <1>8, <1>10 DEF TypeOK, PoolIInv, listVars, readVars
  <1>12. AddedOnce'
    BY <1>1, <1>2 DEF AddedOnce, listVars
  <1>13. ASSUME Intact'
         PROVE  Intact /\ MetadataAgrees(metadata', given', data') /\ WritingInv'
    <2>1. /\ Intact
          /\ country.name # NoString => LeadsTo(data', offset', country.name)
      <3>1. CASE country.name = NoString
        BY <1>1, <1>13, <3>1 DEF poolVars, Intact
      <3>2. CASE country.name # NoString
        BY <1>1, <1>2, <1>5, <1>13, <3>2, AddedLeads
      <3>. QED
        BY <3>1, <3>2
    <2>2. MetadataAgrees(metadata, given, data) /\ WritingInv
      BY <2>1 DEF SectionsInv
    <2>3. \A o \in DOMAIN data : o \in DOMAIN data' /\ data'[o] = data[o]
      <3>1. CASE country.name = NoString
        BY <1>1, <3>1 DEF poolVars
      <3>2. CASE country.name # NoString
        BY <1>1, <1>2, <1>5, <3>2, StringsStay DEF Starts
      <3>. QED
        BY <3>1, <3>2
    <2>4. /\ MetadataAgrees(metadata, given, data')
          /\ ASesAgree(file.ases, as_list, data')
          /\ CountriesAgree(file.countries, country_list, data')
      BY <1>1, <2>2, <2>3, AgreeStill DEF WritingInv
    <2>5. CountriesAgree(file'.countries, country_list, data')
      BY <1>1, <1>2, <1>3, <1>8, <1>9, <1>10, <2>1, <2>4, OneCountryMore DEF country
    <2>. QED
      BY <1>1, <1>10, <2>1, <2>2, <2>4, <2>5 DEF WritingInv, listVars
  <1>14. outcome # "searching"
    BY <1>1, NotSearching
  <1>. QED
    BY <1>1, <1>6, <1>11, <1>12, <1>13, <1>14, WriterInv

\* With the pool the file is complete.
LEMMA WritePoolInv == SectionsInv /\ WritePool => SectionsInv'
  <1>. SUFFICES ASSUME SectionsInv, WritePool
                PROVE  SectionsInv'
    OBVIOUS
  <1>1. /\ step = "countries" /\ Len(file.countries) = Len(country_list)
        /\ file' = [file EXCEPT !.pool = data]
        /\ published' = file' /\ step' = "idle" /\ outcome' = "none"
        /\ UNCHANGED <<poolVars, listVars, block, writes, saved, searched, wanted, lo, hi>>
    BY DEF WritePool
  <1>2. PoolIInv /\ TypeOK /\ AddedOnce /\ file \in File
    BY <1>1 DEF SectionsInv, PoolIInv, TypeOK
  <1>3. PoolIInv'
    BY <1>1, <1>2, AddNullInv
  <1>4. data \in Pool
    BY <1>2 DEF PoolIInv, PoolTypeOK, Pool
  <1>5. /\ file' \in File /\ file'.pool = data /\ file'.metadata = file.metadata
        /\ file'.ases = file.ases /\ file'.countries = file.countries
    BY <1>1, <1>2, <1>4 DEF File
  <1>6. TypeOK'
    BY <1>1, <1>2, <1>3, <1>5 DEF TypeOK, PoolIInv, listVars
  <1>7. AddedOnce'
    BY <1>1, <1>2 DEF AddedOnce, listVars
  <1>8. SearchedInv'
    BY <1>1 DEF SearchedInv
  <1>9. ASSUME Intact'
        PROVE  MetadataAgrees(metadata', given', data') /\ WritingInv' /\ PublishedInv'
    <2>1. MetadataAgrees(metadata, given, data) /\ WritingInv
      BY <1>1, <1>9 DEF SectionsInv, Intact, poolVars
    <2>2. /\ saved = [ases |-> as_list, countries |-> country_list, given |-> given]
          /\ Increasing(as_list) /\ file.metadata = metadata
          /\ ASesAgree(file.ases, as_list, data)
          /\ CountriesAgree(file.countries, country_list, data)
          /\ Len(file.ases) = Len(as_list)
      BY <1>1, <2>1 DEF WritingInv
    <2>3. saved \in Saved
      BY <1>2, <2>2 DEF TypeOK, Saved
    <2>4. PublishedInv'
      BY <1>1, <1>5, <2>1, <2>2, <2>3 DEF PublishedInv, listVars
    <2>. QED
      BY <1>1, <2>1, <2>4 DEF WritingInv, poolVars, listVars
  <1>. QED
    BY <1>3, <1>6, <1>7, <1>8, <1>9 DEF SectionsInv, PoolIInv
-----------------------------------------------------------------------------
(* The invariant: the reader *)

\* A reader changes nothing but his search.
LEMMA ReaderInv ==
    ASSUME SectionsInv, UNCHANGED <<poolVars, listVars, writeVars>>,
           searched' \in {"as", "countries"}, SearchedInv'
    PROVE  SectionsInv'
  <1>1. PoolIInv /\ TypeOK
    BY DEF SectionsInv, PoolIInv, TypeOK
  <1>2. PoolIInv'
    BY <1>1, AddNullInv
  <1>3. TypeOK'
    BY <1>1, <1>2 DEF TypeOK, PoolIInv, listVars, writeVars
  <1>4. AddedOnce'
    BY DEF SectionsInv, AddedOnce, listVars
  <1>5. Intact' => MetadataAgrees(metadata', given', data') /\ WritingInv' /\ PublishedInv'
    BY DEF SectionsInv, WritingInv, PublishedInv, Intact, poolVars, listVars, writeVars
  <1>. QED
    BY <1>2, <1>3, <1>4, <1>5 DEF SectionsInv, PoolIInv

LEMMA GetASInv ==
    ASSUME SectionsInv, NEW number \in Numbers, GetAS(number)
    PROVE  SectionsInv'
  <1>1. /\ step = "idle" /\ published # NoFile
        /\ UNCHANGED <<poolVars, listVars, writeVars>>
        /\ searched' = "as"
        /\ SearchAS!Ask(number)
    BY DEF GetAS, Idle
  <1>2. published \in File \cup {NoFile}
    BY DEF SectionsInv, TypeOK
  <1>3. SearchAS!SearchInv'
    BY <1>1, <1>2, ASSearchAsk
  <1>4. SearchedInv'
    BY <1>1, <1>3 DEF SearchedInv, writeVars
  <1>. QED
    BY <1>1, <1>4, ReaderInv

LEMMA GetCountryInv ==
    ASSUME SectionsInv, NEW code \in Codes, GetCountry(code)
    PROVE  SectionsInv'
  <1>1. /\ step = "idle" /\ published # NoFile
        /\ UNCHANGED <<poolVars, listVars, writeVars>>
        /\ searched' = "countries"
        /\ SearchCountry!Ask(code)
    BY DEF GetCountry, Idle
  <1>2. published \in File \cup {NoFile}
    BY DEF SectionsInv, TypeOK
  <1>3. SearchCountry!SearchInv'
    BY <1>1, <1>2, CountrySearchAsk
  <1>4. SearchedInv'
    BY <1>1, <1>3 DEF SearchedInv, writeVars
  <1>. QED
    BY <1>1, <1>4, ReaderInv

LEMMA ReadInv == SectionsInv /\ Read => SectionsInv'
  <1>. SUFFICES ASSUME SectionsInv, Read
                PROVE  SectionsInv'
    OBVIOUS
  <1>1. /\ UNCHANGED <<poolVars, listVars, writeVars, searched>>
        /\ \/ searched = "as" /\ SearchAS!SearchStep
           \/ searched = "countries" /\ SearchCountry!SearchStep
    BY DEF Read
  <1>2. outcome = "searching"
    BY <1>1 DEF SearchAS!SearchStep, SearchAS!SearchTurn, SearchAS!FetchMatch,
           SearchAS!FetchBelow, SearchAS!FetchAbove, SearchAS!NothingFound, SearchAS!FetchFails,
           SearchAS!Searching, SearchCountry!SearchStep, SearchCountry!SearchTurn,
           SearchCountry!FetchMatch, SearchCountry!FetchBelow, SearchCountry!FetchAbove,
           SearchCountry!NothingFound, SearchCountry!FetchFails, SearchCountry!Searching
  <1>3. /\ published # NoFile /\ step = "idle"
        /\ searched = "as" => SearchAS!SearchInv
        /\ searched = "countries" => SearchCountry!SearchInv
    BY <1>2 DEF SectionsInv, SearchedInv
  <1>4. /\ searched = "as" => SearchAS!SearchInv'
        /\ searched = "countries" => SearchCountry!SearchInv'
    BY <1>1, <1>3, ASSearchGoesOn, CountrySearchGoesOn
  <1>5. SearchedInv'
    BY <1>1, <1>3, <1>4 DEF SearchedInv, writeVars
  <1>6. searched' \in {"as", "countries"}
    BY <1>1 DEF SectionsInv, TypeOK
  <1>. QED
    BY <1>1, <1>5, <1>6, ReaderInv

LEMMA StutterInv == SectionsInv /\ UNCHANGED vars => SectionsInv'
  <1>. SUFFICES ASSUME SectionsInv, UNCHANGED vars
                PROVE  SectionsInv'
    OBVIOUS
  <1>1. UNCHANGED <<poolVars, listVars, writeVars, readVars, published>>
    BY DEF vars, writeVars
  <1>2. SearchedInv'
    BY <1>1, SearchStays DEF SectionsInv, SearchedInv, readVars, writeVars
  <1>3. searched' \in {"as", "countries"}
    BY <1>1 DEF SectionsInv, TypeOK, readVars
  <1>. QED
    BY <1>1, <1>2, <1>3, ReaderInv

LEMMA SectionsInvNext == SectionsInv /\ [Next]_vars => SectionsInv'
  <1>1. ASSUME SectionsInv, NEW f \in Fields, NEW s \in Strings, SetMetadata(f, s)
        PROVE  SectionsInv'
    BY <1>1, SetMetadataInv
  <1>2. ASSUME SectionsInv, NEW n \in Numbers, AddAS(n)
        PROVE  SectionsInv'
    BY <1>2, AddASInv
  <1>3. ASSUME SectionsInv, NEW i \in DOMAIN as_list, NEW s \in Strings \cup {NoString},
               SetASName(i, s)
        PROVE  SectionsInv'
    BY <1>3, SetASNameInv
  <1>4. ASSUME SectionsInv, NEW c \in Codes, AddCountry(c)
        PROVE  SectionsInv'
    BY <1>4, AddCountryInv
  <1>5. ASSUME SectionsInv, NEW i \in DOMAIN country_list,
               \/ \E c \in Continents : SetContinentCode(i, c)
               \/ \E s \in Strings : SetCountryName(i, s)
        PROVE  SectionsInv'
    BY <1>5, SetCountryInv
  <1>6. ASSUME SectionsInv, NEW n \in Numbers, GetAS(n)
        PROVE  SectionsInv'
    BY <1>6, GetASInv
  <1>7. ASSUME SectionsInv, NEW c \in Codes, GetCountry(c)
        PROVE  SectionsInv'
    BY <1>7, GetCountryInv
  <1>. QED
    BY <1>1, <1>2, <1>3, <1>4, <1>5, <1>6, <1>7, SetMetadataNullInv, BeginWriteInv,
       WriteASInv, ASesWrittenInv, WriteCountryInv, WritePoolInv, ReadInv, StutterInv
    DEF Next

-----------------------------------------------------------------------------
(* What the sections are for *)

\* In every state of the sections, the pool is laid out as it should be, the file
\* that is written agrees with the lists, the last one with what they were when
\* its write began, and a search keeps what it looks for between its bounds.
THEOREM SectionsInvariant == Spec => []SectionsInv
  BY SectionsInitInv, SectionsInvNext, PTL DEF Spec

LEMMA ASesComeBack == SectionsInv /\ Readable => ASesReadBack
  <1>. SUFFICES ASSUME SectionsInv, Readable
                PROVE  ASesReadBack
    OBVIOUS
  <1>1. /\ published \in File /\ saved \in Saved /\ Increasing(saved.ases)
        /\ Len(published.ases) = Len(saved.ases)
        /\ ASesAgree(published.ases, saved.ases, published.pool)
    BY DEF Readable, SectionsInv, TypeOK, PublishedInv
  <1>. DEFINE written == published.ases
              list == saved.ases
              named(as) == [as EXCEPT !.name = IF @ = NoString THEN EmptyString ELSE @]
              Written == [key : Numbers, name : Int]
  <1>2. written \in Seq(Written) /\ list \in Seq(AS)
    BY <1>1 DEF File, Saved
  <1>. HIDE DEF Written
  <1>3. DOMAIN written = DOMAIN list /\ \A i \in DOMAIN list : written[i] \in Written
    BY <1>1, <1>2
  <1>4. ASSUME NEW i \in DOMAIN list
        PROVE  ReadObject(written[i]) = named(list[i]) /\ ReadObject(written[i]).key = list[i].key
    <2>1. written[i] \in Written /\ list[i] \in AS
      BY <1>2, <1>3
    <2>2. /\ written[i].key = list[i].key
          /\ LeadsTo(published.pool, written[i].name,
                     IF list[i].name = NoString THEN EmptyString ELSE list[i].name)
      BY <1>1, <1>3 DEF ASesAgree
    <2>3. ReadString(written[i].name) = IF list[i].name = NoString THEN EmptyString ELSE list[i].name
      BY <2>2 DEF ReadString, LeadsTo
    <2>. QED
      BY <2>1, <2>2, <2>3 DEF ReadObject, AS, Written
  <1>5. ASesRead = [i \in DOMAIN list |-> ReadObject(written[i])]
    BY <1>3 DEF ASesRead
  <1>6. ASesRead = [i \in DOMAIN list |-> named(list[i])]
    BY <1>4, <1>5
  <1>7. /\ DOMAIN ASesRead = DOMAIN list
        /\ \A i \in DOMAIN list : ASesRead[i].key = list[i].key
    BY <1>4, <1>5
  <1>8. \A i, j \in DOMAIN ASesRead : i < j => ASesRead[i].key < ASesRead[j].key
    BY <1>1, <1>7 DEF Increasing
  <1>. QED
    BY <1>6, <1>8 DEF ASesReadBack

LEMMA CountriesComeBack == SectionsInv /\ Readable => CountriesReadBack
  <1>. SUFFICES ASSUME SectionsInv, Readable
                PROVE  CountriesReadBack
    OBVIOUS
  <1>1. /\ published \in File /\ saved \in Saved
        /\ Len(published.countries) = Len(saved.countries)
        /\ CountriesAgree(published.countries, saved.countries, published.pool)
    BY DEF Readable, SectionsInv, TypeOK, PublishedInv
  <1>. DEFINE written == published.countries
              list == saved.countries
              Written == [key : ValidCodes, continent : Continents \cup {NoContinent}, name : Int]
  <1>2. written \in Seq(Written) /\ list \in Seq(Country)
    BY <1>1 DEF File, Saved
  <1>. HIDE DEF Written
  <1>3. DOMAIN written = DOMAIN list /\ \A i \in DOMAIN list : written[i] \in Written
    BY <1>1, <1>2
  <1>4. ASSUME NEW i \in DOMAIN list
        PROVE  /\ ReadObject(written[i]).key = list[i].key
               /\ list[i].continent # NoContinent =>
                      ReadObject(written[i]).continent = list[i].continent
               /\ list[i].name # NoString => ReadObject(written[i]).name = list[i].name
    <2>1. written[i] \in Written
      BY <1>3
    <2>2. /\ written[i].key = list[i].key
          /\ list[i].continent # NoContinent => written[i].continent = list[i].continent
          /\ list[i].name # NoString => LeadsTo(published.pool, written[i].name, list[i].name)
      BY <1>1, <1>3 DEF CountriesAgree
    <2>3. list[i].name # NoString => ReadString(written[i].name) = list[i].name
      BY <2>2 DEF ReadString, LeadsTo
    <2>. QED
      BY <2>1, <2>2, <2>3 DEF ReadObject, Written
  <1>5. CountriesRead = [i \in DOMAIN list |-> ReadObject(written[i])]
    BY <1>3 DEF CountriesRead
  <1>6. KeysOf(CountriesRead) = KeysOf(list)
    BY <1>4, <1>5 DEF KeysOf
  <1>. QED
    BY <1>4, <1>5, <1>6 DEF CountriesReadBack

LEMMA MetadataComesBack == SectionsInv /\ Readable => MetadataReadsBack
  <1>. SUFFICES ASSUME SectionsInv, Readable
                PROVE  MetadataReadsBack
    OBVIOUS
  <1>1. MetadataAgrees(published.metadata, saved.given, published.pool)
    BY DEF Readable, SectionsInv, PublishedInv
  <1>. QED
    BY <1>1 DEF MetadataReadsBack, MetadataAgrees, LeadsTo, ReadString

\* What was set of ASes, countries and metadata before a write reads back from its
\* file, however long the lists and the pool are and however many writes there were.
THEOREM EverythingReadsBack == Spec => []ReadsBack
  <1>1. SectionsInv => ReadsBack
    BY ASesComeBack, CountriesComeBack, MetadataComesBack DEF ReadsBack
  <1>. QED
    BY SectionsInvariant, <1>1, PTL

\* What a search in the keys of a section says holds of the list that was written.
LEMMA ASesFound == SectionsInv /\ Readable => ASesAreFound
  <1>. SUFFICES ASSUME SectionsInv, Readable, searched = "as"
                PROVE  /\ outcome = "found" =>
                             InFile("ases", wanted) /\ ASesRead[SearchAS!Middle + 1].key = wanted
                       /\ outcome = "absent" => ~InFile("ases", wanted)
    BY DEF ASesAreFound
  <1>1. /\ published \in File /\ published # NoFile /\ saved \in Saved /\ Increasing(saved.ases)
        /\ Len(published.ases) = Len(saved.ases)
        /\ ASesAgree(published.ases, saved.ases, published.pool)
    BY DEF Readable, SectionsInv, TypeOK, PublishedInv
  <1>. DEFINE written == published.ases
              list == saved.ases
              keys == KeysOf(written)
              n == Len(list)
              Written == [key : Numbers, name : Int]
  <1>2. written \in Seq(Written) /\ list \in Seq(AS)
    BY <1>1 DEF File, Saved
  <1>3. n \in Nat /\ DOMAIN written = 1..n /\ DOMAIN list = 1..n
    BY <1>1, <1>2
  <1>4. \A i \in 1..n : written[i].key = list[i].key
    BY <1>1, <1>3 DEF ASesAgree
  <1>5. Len(keys) = n /\ \A i \in 1..n : keys[i] = list[i].key
    <2>1. \A object \in Written : object.key \in Numbers
      OBVIOUS
    <2>. HIDE DEF Written
    <2>2. Len(keys) = Len(written)
      BY <1>2, <2>1, KeysOfSequence
    <2>. QED
      BY <1>1, <1>3, <1>4, <2>2 DEF KeysOf
  <1>6. SearchAS!Count = n /\ \A i : SearchAS!Key(i) = keys[i + 1]
    BY <1>1, <1>5 DEF SearchAS!Count, SearchAS!Key
  <1>. DEFINE m == SearchAS!Middle
  <1>. HIDE DEF m, written, list, keys, n
  <1>7. ASSUME outcome = "found"
        PROVE  InFile("ases", wanted) /\ ASesRead[SearchAS!Middle + 1].key = wanted
    <2>1. SearchAS!SearchInv
      BY <1>7 DEF SectionsInv, SearchedInv
    <2>2. m \in Int
      <3>1. lo \in Int /\ hi \in Int
        BY <2>1 DEF SearchAS!SearchInv, SearchAS!SearchTypeOK
      <3>. QED
        BY <3>1 DEF SearchAS!Middle, m
    <2>3. 0 <= m /\ m < n /\ keys[m + 1] = wanted
      BY <1>6, <1>7, <2>1 DEF SearchAS!SearchInv, SearchAS!FoundInMiddle, SearchAS!InRange, m
    <2>4. m + 1 \in 1..n
      BY <1>3, <2>2, <2>3
    <2>5. list[m + 1].key = wanted
      BY <1>5, <2>3, <2>4
    <2>6. InFile("ases", wanted)
      BY <1>3, <2>4, <2>5 DEF InFile, list
    <2>7. ASesRead[m + 1].key = list[m + 1].key
      <3>1. ASesReadBack
        BY ASesComeBack
      <3>2. ASesRead = [i \in DOMAIN list |->
                [list[i] EXCEPT !.name = IF @ = NoString THEN EmptyString ELSE @]]
        BY <3>1 DEF ASesReadBack, list
      <3>3. list[m + 1] \in AS
        BY <1>2, <1>3, <2>4
      <3>. QED
        BY <1>3, <2>4, <3>2, <3>3 DEF AS
    <2>. QED
      BY <2>5, <2>6, <2>7 DEF m
  <1>8. ASSUME outcome = "absent"
        PROVE  ~InFile("ases", wanted)
    <2>1. SearchAS!SearchInv
      BY <1>8 DEF SectionsInv, SearchedInv
    <2>2. SearchAS!Ascending
      <3>1. ASSUME NEW i \in 0..(n - 1), NEW j \in 0..(n - 1), i < j
            PROVE  keys[i + 1] < keys[j + 1]
        <4>1. i + 1 \in 1..n /\ j + 1 \in 1..n /\ i + 1 < j + 1
          BY <1>3, <3>1
        <4>2. list[i + 1].key < list[j + 1].key
          BY <1>1, <1>3, <4>1 DEF Increasing, list
        <4>. QED
          BY <1>5, <4>1, <4>2
      <3>. QED
        BY <1>6, <3>1 DEF SearchAS!Ascending
    <2>3. \A i \in 0..(n - 1) : keys[i + 1] # wanted
      BY <1>6, <1>8, <2>1, <2>2 DEF SearchAS!SearchInv, SearchAS!SearchAnswers, SearchAS!Holds
    <2>4. ASSUME NEW i \in 1..n
          PROVE  list[i].key # wanted
      <3>1. i - 1 \in 0..(n - 1) /\ (i - 1) + 1 = i
        BY <1>3
      <3>. QED
        BY <1>5, <2>3, <3>1
    <2>. QED
      BY <1>3, <2>4 DEF InFile, list
  <1>. QED
    BY <1>7, <1>8

LEMMA CountriesFound == SectionsInv /\ Readable => CountriesInOrderAreFound
  <1>. SUFFICES ASSUME SectionsInv, Readable, searched = "countries"
                PROVE  /\ outcome = "found" => InFile("countries", wanted)
                       /\ outcome = "absent" /\ SearchCountry!Ascending =>
                              ~InFile("countries", wanted)
    BY DEF CountriesInOrderAreFound
  <1>1. /\ published \in File /\ published # NoFile /\ saved \in Saved
        /\ Len(published.countries) = Len(saved.countries)
        /\ CountriesAgree(published.countries, saved.countries, published.pool)
    BY DEF Readable, SectionsInv, TypeOK, PublishedInv
  <1>. DEFINE written == published.countries
              list == saved.countries
              keys == KeysOf(written)
              n == Len(list)
              Written == [key : ValidCodes, continent : Continents \cup {NoContinent}, name : Int]
  <1>2. written \in Seq(Written) /\ list \in Seq(Country)
    BY <1>1 DEF File, Saved
  <1>3. n \in Nat /\ DOMAIN written = 1..n /\ DOMAIN list = 1..n
    BY <1>1, <1>2
  <1>4. \A i \in 1..n : written[i].key = list[i].key
    BY <1>1, <1>3 DEF CountriesAgree
  <1>5. Len(keys) = n /\ \A i \in 1..n : keys[i] = list[i].key
    <2>1. \A object \in Written : object.key \in ValidCodes
      OBVIOUS
    <2>. HIDE DEF Written
    <2>2. Len(keys) = Len(written)
      BY <1>2, <2>1, KeysOfSequence
    <2>. QED
      BY <1>1, <1>3, <1>4, <2>2 DEF KeysOf
  <1>6. SearchCountry!Count = n /\ \A i : SearchCountry!Key(i) = keys[i + 1]
    BY <1>1, <1>5 DEF SearchCountry!Count, SearchCountry!Key
  <1>. HIDE DEF written, list, keys, n
  <1>7. \A i \in 1..n : i - 1 \in 0..(n - 1) /\ (i - 1) + 1 = i
    BY <1>3
  <1>8. SearchCountry!Holds(wanted) <=> InFile("countries", wanted)
    <2>1. SearchCountry!Holds(wanted) <=> \E i \in 0..(n - 1) : keys[i + 1] = wanted
      BY <1>6 DEF SearchCountry!Holds
    <2>2. \A i \in 0..(n - 1) : i + 1 \in 1..n
      BY <1>3
    <2>3. SearchCountry!Holds(wanted) <=> \E i \in 1..n : list[i].key = wanted
      BY <1>5, <1>7, <2>1, <2>2
    <2>. QED
      BY <1>3, <2>3 DEF InFile, list
  <1>9. outcome # "none" => SearchCountry!SearchAnswers
    BY DEF SectionsInv, SearchedInv, SearchCountry!SearchInv
  <1>. QED
    BY <1>8, <1>9 DEF SearchCountry!SearchAnswers

\* An AS is found in a file just if it was added before the write of it, and so is
\* a country if they were added in the order of their codes.
THEOREM AddedIsFound == Spec => []AddedAreFound
  <1>1. SectionsInv => AddedAreFound
    BY ASesFound, CountriesFound DEF AddedAreFound
  <1>. QED
    BY SectionsInvariant, <1>1, PTL

\* All that callers and writer do with the pool are steps of StringPool: its layout
\* and the lasting of its offsets are those of the pool on its own.
THEOREM SectionsUsePool == Spec => PoolSpec
  <1>1. Init => PoolInit
    BY DEF Init
  <1>2. SectionsInv /\ [Next]_vars => [PoolNext]_poolVars
    <2>. SUFFICES ASSUME SectionsInv, [Next]_vars
                  PROVE  [PoolNext]_poolVars
      OBVIOUS
    <2>1. CASE WriteAS
      <3>. DEFINE as == NextOf(as_list, file.ases)
                  Written == [key : Numbers, name : Int]
      <3>1. /\ step = "as" /\ Len(file.ases) < Len(as_list)
            /\ AddString(IF as.name = NoString THEN EmptyString ELSE as.name)
        BY <2>1 DEF WriteAS
      <3>2. as_list \in Seq(AS) /\ file.ases \in Seq(Written)
        BY <3>1 DEF SectionsInv, TypeOK, File
      <3>. HIDE DEF Written
      <3>3. as \in AS
        BY <3>1, <3>2, NextObject
      <3>. HIDE DEF as
      <3>4. (IF as.name = NoString THEN EmptyString ELSE as.name) \in Strings
        BY <3>3, StringsAssumption DEF AS
      <3>. QED
        BY <3>1, <3>4 DEF PoolNext
    <2>2. CASE WriteCountry
      <3>. DEFINE country == NextOf(country_list, file.countries)
                  Written == [key : ValidCodes, continent : Continents \cup {NoContinent}, name : Int]
      <3>1. /\ step = "countries" /\ Len(file.countries) < Len(country_list)
            /\ IF country.name = NoString THEN UNCHANGED poolVars ELSE AddString(country.name)
        BY <2>2 DEF WriteCountry
      <3>2. country_list \in Seq(Country) /\ file.countries \in Seq(Written)
        BY <3>1 DEF SectionsInv, TypeOK, File
      <3>. HIDE DEF Written
      <3>3. country \in Country
        BY <3>1, <3>2, NextObject
      <3>. HIDE DEF country
      <3>4. country.name # NoString => country.name \in Strings
        BY <3>3 DEF Country
      <3>. QED
        BY <3>1, <3>4 DEF PoolNext
    <2>3. CASE UNCHANGED vars
      BY <2>3 DEF vars
    <2>4. CASE \E f \in Fields, s \in Strings : SetMetadata(f, s)
      BY <2>4 DEF SetMetadata, PoolNext
    <2>5. CASE SetMetadataNull
      BY <2>5 DEF SetMetadataNull, PoolNext
    <2>6. CASE \/ \E n \in Numbers : AddAS(n) \/ GetAS(n)
               \/ \E i \in DOMAIN as_list, s \in Strings \cup {NoString} : SetASName(i, s)
               \/ \E c \in Codes : AddCountry(c) \/ GetCountry(c)
               \/ \E i \in DOMAIN country_list, c \in Continents : SetContinentCode(i, c)
               \/ \E i \in DOMAIN country_list, s \in Strings : SetCountryName(i, s)
               \/ BeginWrite \/ ASesWritten \/ WritePool \/ Read
      <3>1. UNCHANGED poolVars
        BY <2>6 DEF AddAS, GetAS, SetASName, AddCountry, GetCountry, SetContinentCode,
               SetCountryName, BeginWrite, ASesWritten, WritePool, Read
      <3>. QED
        BY <3>1
    <2>. QED
      BY <2>1, <2>2, <2>3, <2>4, <2>5, <2>6 DEF Next
  <1>. QED
    BY <1>1, <1>2, SectionsInvariant, PTL DEF Spec, PoolSpec
=============================================================================

------------------------- MODULE DatabaseSections -------------------------
(***************************************************************************)
(* What a database says beside its networks: its vendor, description and   *)
(* license, the ASes and the countries.  The writer's lists, the sections  *)
(* and the pool as loc_writer_write makes them, one object at a time, and  *)
(* the searches of a reader who has opened the file.                       *)
(*                                                                         *)
(* Composes StringPool, the pool of the writer, and DatabaseSearch, the    *)
(* reader.  The network sections, between ASes and countries, store no     *)
(* string and are modelled by NetworkWriter.                               *)
(***************************************************************************)
EXTENDS StringPool, Sequences, Functions

CONSTANTS
    Numbers,      \* AS numbers
    Codes,        \* country codes, as integers in the order of strcmp
    ValidCodes,   \* those of two letters that are not reserved
    Continents,
    Fields,       \* vendor, description, license
    NoString,     \* NULL
    NoContinent,  \* a code of two zero bytes
    NoFile,
    MaxObjects, MaxWrites  \* bounds of the model: ASes and countries, writes

ASSUME SectionsAssumption ==
    /\ Numbers \subseteq Nat /\ Codes \subseteq Nat
    /\ ValidCodes \subseteq Codes
    /\ NoString \notin Strings
    /\ NoContinent \notin Continents

VARIABLES
    metadata,      \* offsets: writer->vendor, ->description, ->license
    as_list,       \* numbers and names, by position
    country_list,  \* codes, continents and names, by position
    step,          \* where loc_writer_write is: "idle", "as" or "countries"
    block,         \* the continent in the block on its stack
    file,          \* what has been written
    published,     \* the last complete file
    writes,        \* how many there have been
    given,         \* auxiliary: the strings that metadata was set to
    saved,         \* auxiliary: lists and given when the last write began
    searched,      \* the section that the reader searches: "as" or "countries"
    wanted, lo, hi, outcome

listVars == <<metadata, as_list, country_list, given>>
writeVars == <<step, block, file, published, writes, saved>>
readVars == <<searched, wanted, lo, hi, outcome>>
vars == <<poolVars, listVars, writeVars, readVars>>

KeysOf(section) == [i \in DOMAIN section |-> section[i].key]

SearchAS == INSTANCE DatabaseSearch WITH
    Keys <- Numbers, ValidKeys <- Numbers, Sections <- {},
    section <- IF published = NoFile THEN <<>> ELSE KeysOf(published.ases)
SearchCountry == INSTANCE DatabaseSearch WITH
    Keys <- Codes, ValidKeys <- ValidCodes, Sections <- {},
    section <- IF published = NoFile THEN <<>> ELSE KeysOf(published.countries)
-----------------------------------------------------------------------------
Init ==
    /\ PoolInit
    /\ metadata = [f \in Fields |-> 0]
    /\ given = [f \in Fields |-> NoString]
    /\ as_list = <<>> /\ country_list = <<>>
    /\ step = "idle" /\ block = NoContinent
    /\ file = NoFile /\ published = NoFile /\ writes = 0
    /\ saved = NoFile
    /\ searched = "as" /\ wanted = 0
    /\ lo = 0 /\ hi = -1 /\ outcome = "none"

\* Between two calls of the library, in a process that is still defined
Idle == step = "idle" /\ blocks # "undefined" /\ outcome # "searching"

\* Bound: after the last write there are only readers.
Adding == Idle /\ writes < MaxWrites

\* Bound
HasRoom == Len(as_list) + Len(country_list) < MaxObjects

\* The callers of loc_stringpool_add test its result only for being negative.
SetMetadata(f, s) ==
    /\ Adding
    /\ AddString(s)
    /\ metadata' = [metadata EXCEPT ![f] = IF offset' < 0 THEN @ ELSE offset']
    /\ given' = [given EXCEPT ![f] = s]
    /\ UNCHANGED <<as_list, country_list, writeVars, readVars>>

\* A NULL string is refused, and nothing changes but errno.
SetMetadataNull ==
    /\ Adding
    /\ AddNull
    /\ UNCHANGED <<listVars, writeVars, readVars>>

Lists(list, key) == \E i \in DOMAIN list : list[i].key = key

\* An AS that is in the list is not appended: the caller has an object that
\* the writer does not know, and whatever it sets there is not written.
AddAS(number) ==
    /\ Adding
    /\ HasRoom
    /\ as_list' = IF Lists(as_list, number) THEN as_list
                  ELSE Append(as_list, [key |-> number, name |-> NoString])
    /\ UNCHANGED <<poolVars, metadata, given, country_list, writeVars, readVars>>

SetASName(i, name) ==
    /\ Adding
    /\ as_list' = [as_list EXCEPT ![i].name = name]
    /\ UNCHANGED <<poolVars, metadata, given, country_list, writeVars, readVars>>

\* A country of which the code is no country's is refused, one that is in the
\* list is not appended.
AddCountry(code) ==
    /\ Adding
    /\ HasRoom
    /\ country_list' =
           IF code \notin ValidCodes \/ Lists(country_list, code) THEN country_list
           ELSE Append(country_list, [key |-> code, continent |-> NoContinent, name |-> NoString])
    /\ UNCHANGED <<poolVars, metadata, given, as_list, writeVars, readVars>>

SetContinentCode(i, continent) ==
    /\ Adding
    /\ country_list' = [country_list EXCEPT ![i].continent = continent]
    /\ UNCHANGED <<poolVars, metadata, given, as_list, writeVars, readVars>>

\* loc_country_set_name with NULL frees the name but keeps the pointer; callers
\* that go on with it are not modelled.
SetCountryName(i, name) ==
    /\ Adding
    /\ country_list' = [country_list EXCEPT ![i].name = name]
    /\ UNCHANGED <<poolVars, metadata, given, as_list, writeVars, readVars>>
-----------------------------------------------------------------------------
\* Fault: the ASes are written in the order of adding.
BeginWriteUnsorted ==
    /\ Adding
    /\ file' = [metadata |-> metadata, ases |-> <<>>, countries |-> <<>>, pool |-> <<>>]
    /\ saved' = [ases |-> as_list, countries |-> country_list, given |-> given]
    /\ step' = "as"
    /\ writes' = writes + 1
    /\ UNCHANGED <<poolVars, listVars, block, published, readVars>>

\* qsort: any permutation of a list in which the numbers do not fall
Sorted(list) ==
    {s \in {[i \in DOMAIN list |-> list[p[i]]] : p \in Bijection(DOMAIN list, DOMAIN list)} :
        \A i, j \in DOMAIN list : i < j => s[i].key <= s[j].key}

\* The header takes the offsets of the metadata first; the ASes are sorted in
\* the list itself.
BeginWrite ==
    /\ Adding
    /\ as_list' \in Sorted(as_list)
    /\ file' = [metadata |-> metadata, ases |-> <<>>, countries |-> <<>>, pool |-> <<>>]
    /\ saved' = [ases |-> as_list', countries |-> country_list, given |-> given]
    /\ step' = "as"
    /\ writes' = writes + 1
    /\ UNCHANGED <<poolVars, metadata, given, country_list, block, published, readVars>>

\* The first n objects of a list are in the file, and this is the next one.
NextOf(list, section) == list[Len(section) + 1]

\* loc_as_to_database_v1: whatever is returned for the name is stored.
WriteAS ==
    /\ step = "as"
    /\ Len(file.ases) < Len(as_list)
    /\ LET as == NextOf(as_list, file.ases)
       IN  /\ AddString(IF as.name = NoString THEN EmptyString ELSE as.name)
           /\ file' = [file EXCEPT !.ases = Append(@, [key |-> as.key, name |-> offset'])]
    /\ UNCHANGED <<listVars, step, block, published, writes, saved, readVars>>

\* The block of a country begins with what is on the stack.
ASesWritten ==
    /\ step = "as"
    /\ Len(file.ases) = Len(as_list)
    /\ step' = "countries"
    /\ block' \in Continents \cup {NoContinent}
    /\ UNCHANGED <<poolVars, listVars, file, published, writes, saved, readVars>>

\* What loc_country_to_database_v1 leaves in the block for a continent
ContinentWritten(country) ==
    IF country.continent = NoContinent THEN block ELSE country.continent

WriteCountry ==
    /\ step = "countries"
    /\ Len(file.countries) < Len(country_list)
    /\ LET country == NextOf(country_list, file.countries)
       IN  /\ IF country.name = NoString
              THEN UNCHANGED poolVars ELSE AddString(country.name)
           /\ block' = ContinentWritten(country)
           /\ file' = [file EXCEPT !.countries = Append(@,
                          [key |-> country.key, continent |-> block',
                           name |-> IF country.name = NoString THEN 0 ELSE offset'])]
    /\ UNCHANGED <<listVars, step, published, writes, saved, readVars>>

\* The pool comes last, and the header is written over the space left for it.
\* The reader opens the new file.
WritePool ==
    /\ step = "countries"
    /\ blocks # "undefined"
    /\ Len(file.countries) = Len(country_list)
    /\ file' = [file EXCEPT !.pool = data]
    /\ published' = file'
    /\ step' = "idle"
    /\ outcome' = "none"
    /\ UNCHANGED <<poolVars, listVars, block, writes, saved, searched, wanted, lo, hi>>
-----------------------------------------------------------------------------
\* loc_stringpool_get of the reader; without a string a name stays NULL.
ReadString(o) == IF o \in DOMAIN published.pool THEN published.pool[o] ELSE NoString

\* loc_as_new_from_database_v1, loc_country_new_from_database_v1
ReadObject(object) == [object EXCEPT !.name = ReadString(@)]
ASesRead == [i \in DOMAIN published.ases |-> ReadObject(published.ases[i])]
CountriesRead == [i \in DOMAIN published.countries |-> ReadObject(published.countries[i])]

\* loc_database_get_as
GetAS(number) ==
    /\ Idle
    /\ published # NoFile
    /\ UNCHANGED <<poolVars, listVars, writeVars>>
    /\ searched' = "as"
    /\ SearchAS!Ask(number)

\* loc_database_get_country
GetCountry(code) ==
    /\ Idle
    /\ published # NoFile
    /\ UNCHANGED <<poolVars, listVars, writeVars>>
    /\ searched' = "countries"
    /\ SearchCountry!Ask(code)

Read ==
    /\ UNCHANGED <<poolVars, listVars, writeVars, searched>>
    /\ \/ searched = "as" /\ SearchAS!SearchStep
       \/ searched = "countries" /\ SearchCountry!SearchStep

Next ==
    \/ \E f \in Fields, s \in Strings : SetMetadata(f, s)
    \/ SetMetadataNull
    \/ \E n \in Numbers : AddAS(n)
    \/ \E i \in DOMAIN as_list, s \in Strings \cup {NoString} : SetASName(i, s)
    \/ \E c \in Codes : AddCountry(c)
    \/ \E i \in DOMAIN country_list, c \in Continents : SetContinentCode(i, c)
    \/ \E i \in DOMAIN country_list, s \in Strings : SetCountryName(i, s)
    \/ BeginWrite \/ WriteAS \/ ASesWritten \/ WriteCountry \/ WritePool
    \/ \E n \in Numbers : GetAS(n)
    \/ \E c \in Codes : GetCountry(c)
    \/ Read

Spec == Init /\ [][Next]_vars
-----------------------------------------------------------------------------
(* Properties *)

AS == [key : Numbers, name : Strings \cup {NoString}]
Country == [key : ValidCodes, continent : Continents \cup {NoContinent},
            name : Strings \cup {NoString}]
Given == [Fields -> Strings \cup {NoString}]
Pool == UNION {[starts -> Strings] : starts \in SUBSET (0..MaxLength)}
File == [metadata : [Fields -> Int],
         ases : Seq([key : Numbers, name : Int]),
         countries : Seq([key : ValidCodes, continent : Continents \cup {NoContinent}, name : Int]),
         pool : Pool]
Saved == [ases : Seq(AS), countries : Seq(Country), given : Given]

\* Type correctness, above all that a file has numbers and codes that were added.
TypeOK ==
    /\ PoolTypeOK
    /\ metadata \in [Fields -> Int]
    /\ given \in Given
    /\ as_list \in Seq(AS)
    /\ country_list \in Seq(Country)
    /\ step \in {"idle", "as", "countries"}
    /\ block \in Continents \cup {NoContinent}
    /\ step # "idle" => file \in File
    /\ published \in File \cup {NoFile}
    /\ searched \in {"as", "countries"}

\* The list of ASes has none of them twice.
AddedOnce == \A i, j \in DOMAIN as_list : as_list[i].key = as_list[j].key => i = j

\* A string is in a pool where an offset says.
LeadsTo(pool, o, s) == o \in DOMAIN pool /\ pool[o] = s

\* What has been given out or written of a list, and all that is there of the
\* metadata, leads to the strings that it should.
MetadataAgrees(offsets, strings, pool) ==
    \A f \in Fields : strings[f] # NoString => LeadsTo(pool, offsets[f], strings[f])
ASesAgree(written, list, pool) ==
    /\ Len(written) <= Len(list)
    /\ \A i \in DOMAIN written :
          /\ written[i].key = list[i].key
          /\ LeadsTo(pool, written[i].name,
                     IF list[i].name = NoString THEN EmptyString ELSE list[i].name)
CountriesAgree(written, list, pool) ==
    /\ Len(written) <= Len(list)
    /\ \A i \in DOMAIN written :
          /\ written[i].key = list[i].key
          /\ list[i].continent # NoContinent => written[i].continent = list[i].continent
          /\ list[i].name # NoString => LeadsTo(pool, written[i].name, list[i].name)

Increasing(list) == \A i, j \in DOMAIN list : i < j => list[i].key < list[j].key

\* While a file is written, its first objects are those of the lists, which stay
\* as they were when the write began, and lead to their strings in the pool of
\* the writer, however much that has grown since.
WritingInv ==
    step # "idle" =>
        /\ saved = [ases |-> as_list, countries |-> country_list, given |-> given]
        /\ Increasing(as_list)
        /\ file.metadata = metadata
        /\ ASesAgree(file.ases, as_list, data)
        /\ CountriesAgree(file.countries, country_list, data)
        /\ step = "as" => file.countries = <<>>
        /\ step = "countries" => Len(file.ases) = Len(as_list)

\* The last complete file has all that there was when its write began, and leads
\* to the strings in its own pool.
PublishedInv ==
    published # NoFile /\ step = "idle" =>
        /\ saved \in Saved
        /\ Increasing(saved.ases)
        /\ Len(published.ases) = Len(saved.ases)
        /\ Len(published.countries) = Len(saved.countries)
        /\ MetadataAgrees(published.metadata, saved.given, published.pool)
        /\ ASesAgree(published.ases, saved.ases, published.pool)
        /\ CountriesAgree(published.countries, saved.countries, published.pool)

\* A search goes on in the file, or has ended in it, as DatabaseSearch says.
SearchedInv ==
    outcome # "none" =>
        /\ published # NoFile
        /\ outcome = "searching" => step = "idle"
        /\ searched = "as" => SearchAS!SearchInv
        /\ searched = "countries" => SearchCountry!SearchInv

\* The invariant of the sections: at every moment of a write that memory lasts for,
\* and for the file that it ends with, each offset leads to the string that was
\* set, and each object is the one of its place in the list.
SectionsInv ==
    /\ TypeOK /\ AddedOnce /\ PoolInv /\ OffsetLeadsToString /\ SearchedInv
    /\ Intact => MetadataAgrees(metadata, given, data) /\ WritingInv /\ PublishedInv

\* A reader has the last complete file, and memory has lasted until then.
Readable == published # NoFile /\ step = "idle" /\ Intact

\* In the order of their numbers, each with the name it had when the write
\* began; one without a name has an empty one.
ASesReadBack ==
    /\ \A i, j \in DOMAIN ASesRead : i < j => ASesRead[i].key < ASesRead[j].key
    /\ ASesRead = [i \in DOMAIN saved.ases |->
           [saved.ases[i] EXCEPT !.name = IF @ = NoString THEN EmptyString ELSE @]]

\* In the order of adding.  A continent that was never set is what the buffer
\* held, and a name that was never set is the first string of the pool: these
\* are no promise.
CountriesReadBack ==
    /\ KeysOf(CountriesRead) = KeysOf(saved.countries)
    /\ \A i \in DOMAIN saved.countries :
           LET country == saved.countries[i]
               read == CountriesRead[i]
           IN  /\ country.continent # NoContinent => read.continent = country.continent
               /\ country.name # NoString => read.name = country.name

MetadataReadsBack ==
    \A f \in Fields : saved.given[f] # NoString =>
        ReadString(published.metadata[f]) = saved.given[f]

\* What was set of ASes and countries and of vendor, description and license
\* reads back as it was when the write began, whatever is added to the pool
\* between setting a string, writing the objects and writing the pool.
ReadsBack == Readable => ASesReadBack /\ CountriesReadBack /\ MetadataReadsBack

InFile(kind, key) ==
    \E i \in DOMAIN saved[kind] : saved[kind][i].key = key

\* The sort of the writer and the search of the reader agree: an AS that was
\* added before the write is found, one that was not is not.
ASesAreFound ==
    searched = "as" =>
        /\ outcome = "found" =>
               InFile("ases", wanted) /\ ASesRead[SearchAS!Middle + 1].key = wanted
        /\ outcome = "absent" => ~InFile("ases", wanted)

\* A country that was added in the order of the codes, as the importer does
\* (location-importer.in:391), is found; none is found that was not added.
CountriesInOrderAreFound ==
    searched = "countries" =>
        /\ outcome = "found" => InFile("countries", wanted)
        /\ outcome = "absent" /\ SearchCountry!Ascending => ~InFile("countries", wanted)

\* What was added before a write is found in its file, and nothing else.
AddedAreFound == Readable => ASesAreFound /\ CountriesInOrderAreFound
=============================================================================

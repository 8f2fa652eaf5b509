---------------------------- MODULE StringPool ----------------------------
(***************************************************************************)
(* The string pool of stringpool.c: the names of a database one behind the *)
(* other in a block of memory, each with its final zero byte.  A string is *)
(* known by the offset of its first byte.                                  *)
(*                                                                         *)
(* Memory may run out whenever the block has to grow.  The pool forgets    *)
(* its block then ("lost") but not its size, and the next string that is   *)
(* appended goes to a NULL pointer or to memory that was never filled      *)
(* ("undefined"): nothing is said of what happens from there on.           *)
(***************************************************************************)
EXTENDS Integers, FiniteSets

CONSTANTS
    Strings,      \* the strings that callers add
    EmptyString,  \* ""
    Length,       \* strlen of each string
    BlockSize,    \* LOC_STRINGPOOL_BLOCK_SIZE
    MaxLength     \* bound of the model: no pool gets longer

ASSUME StringsAssumption ==
    /\ EmptyString \in Strings
    /\ Length \in [Strings -> Nat]
    /\ \A s \in Strings : Length[s] = 0 <=> s = EmptyString

\* The pool grows by one block for one string, and no name is that long.
ASSUME StringsFitInBlock ==
    /\ BlockSize \in Nat
    /\ \A s \in Strings : Length[s] < BlockSize

ASSUME MaxLengthAssumption == MaxLength \in Nat

VARIABLES
    data,    \* the string that begins at an offset
    length,  \* bytes in use
    size,    \* bytes asked for
    blocks,  \* the own storage: "none", "own", "lost" or "undefined"
    offset,  \* what the last call of loc_stringpool_add returned
    asked    \* auxiliary: the string it was called with

poolVars == <<data, length, size, blocks, offset, asked>>

Starts == DOMAIN data
-----------------------------------------------------------------------------
\* A string with its zero byte
Need(s) == Length[s] + 1

PoolInit ==
    /\ data = [o \in {} |-> EmptyString]
    /\ length = 0
    /\ size = 0
    /\ blocks = "none"
    /\ offset = -1
    /\ asked = EmptyString

\* Fault: the walk is one string further when it stops.
FirstBehind(s) ==
    LET o == CHOOSE o \in Starts : data[o] = s /\ \A p \in Starts : data[p] = s => o <= p
    IN  o + Need(data[o])

\* The walk of loc_stringpool_find from string to string stops at the first
\* that is the same.  It does not look for the empty string.
First(s) == CHOOSE o \in Starts :
                data[o] = s /\ \A p \in Starts : data[p] = s => o <= p
Known(s) == s # EmptyString /\ \E o \in Starts : data[o] = s

Fits(s) == length + Need(s) <= size

\* Fault: a new block takes the place of the old one.
StoreAlone(s) ==
    /\ length + Need(s) <= MaxLength
    /\ data' = [o \in {length} |-> s]
    /\ length' = length + Need(s)
    /\ offset' = length

\* The string is copied behind the others.
Store(s) ==
    /\ length + Need(s) <= MaxLength
    /\ data' = [o \in Starts \cup {length} |-> IF o = length THEN s ELSE data[o]]
    /\ length' = length + Need(s)
    /\ offset' = length

AddKnown(s) ==
    /\ Known(s)
    /\ offset' = First(s)
    /\ asked' = s
    /\ UNCHANGED <<data, length, size, blocks>>

AppendInPlace(s) ==
    /\ ~Known(s) /\ Fits(s)
    /\ blocks = "own"
    /\ Store(s)
    /\ asked' = s
    /\ UNCHANGED <<size, blocks>>

AppendGrown(s) ==
    /\ ~Known(s) /\ ~Fits(s)
    /\ blocks # "lost"
    /\ Store(s)
    /\ size' = size + BlockSize
    /\ blocks' = "own"
    /\ asked' = s

\* realloc() returns NULL: the new size stays, the block is forgotten, and the
\* result of loc_stringpool_grow, a 1, is returned in place of an offset.
AppendNoMemory(s) ==
    /\ ~Known(s) /\ ~Fits(s)
    /\ length + Need(s) <= MaxLength
    /\ size' = size + BlockSize
    /\ blocks' = "lost"
    /\ offset' = 1
    /\ asked' = s
    /\ UNCHANGED <<data, length>>

\* memcpy() to a NULL pointer, or into a new block that the older strings were
\* never copied to
AppendLost(s) ==
    /\ ~Known(s)
    /\ blocks = "lost"
    /\ blocks' = "undefined"
    /\ offset' = length
    /\ asked' = s
    /\ UNCHANGED <<data, length, size>>

\* loc_stringpool_add
AddString(s) ==
    /\ blocks # "undefined"
    /\ \/ AddKnown(s)
       \/ AppendInPlace(s)
       \/ AppendGrown(s)
       \/ AppendNoMemory(s)
       \/ AppendLost(s)

\* A NULL string is neither found nor appended.
AddNull ==
    /\ blocks # "undefined"
    /\ offset' = -1
    /\ UNCHANGED <<data, length, size, blocks, asked>>

PoolNext == AddNull \/ \E s \in Strings : AddString(s)

PoolSpec == PoolInit /\ [][PoolNext]_poolVars
-----------------------------------------------------------------------------
PoolTypeOK ==
    /\ Starts \subseteq 0..MaxLength
    /\ data \in [Starts -> Strings]
    /\ length \in 0..MaxLength
    /\ size \in Nat
    /\ blocks \in {"none", "own", "lost", "undefined"}
    /\ offset \in -1..(MaxLength + 1)
    /\ asked \in Strings

\* Behind the zero byte of a string
End(o) == o + Length[data[o]] + 1

\* Walking from the end of one string to the beginning of the next meets every
\* string: loc_stringpool_find and loc_stringpool_dump rely on it.
WalkMeetsAll ==
    /\ length > 0 <=> 0 \in Starts
    /\ \A o \in Starts : End(o) = length \/ End(o) \in Starts
    /\ \A o \in Starts : End(o) <= length
    /\ \A o, p \in Starts : o < p => End(o) <= p

\* No string but the empty one is stored twice.
StoredOnce ==
    \A o, p \in Starts : data[o] = data[p] /\ data[o] # EmptyString => o = p

\* The block holds all strings.
EnoughSpace ==
    /\ length <= size
    /\ blocks = "none" => size = 0

PoolInv == WalkMeetsAll /\ StoredOnce /\ EnoughSpace

Intact == blocks \in {"none", "own"}

\* While memory lasts, the offset that loc_stringpool_add returns is one at
\* which the string can be read.
OffsetLeadsToString ==
    Intact /\ offset >= 0 => offset \in Starts /\ data[offset] = asked

\* An offset that was given out keeps its string: headers, ASes and countries
\* store offsets while the pool goes on growing and moving.
OffsetsStable ==
    [][\A o \in Starts : o \in Starts' /\ data'[o] = data[o]]_poolVars
=============================================================================

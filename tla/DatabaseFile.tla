---------------------------- MODULE DatabaseFile ----------------------------
(***************************************************************************)
(* A database file from the writer's fopen to the reader's verdict: the    *)
(* layout and the signatures that loc_writer_write (src/src/writer.c)      *)
(* makes, through the buffer of stdio and on a disk that may be full, and  *)
(* loc_database_new and loc_database_verify (src/src/database.c) of a      *)
(* reader, who may come at any time or have a part of the file only.       *)
(*                                                                         *)
(* A file is a sequence of cells: the magic, the header, objects, zero     *)
(* bytes.  What is in an object is the matter of NetworkWriter,            *)
(* DatabaseSections and StringPool.  Sections are numbered in the order in *)
(* which they are written.                                                 *)
(***************************************************************************)
EXTENDS Integers, Sequences

CONSTANTS Contents,   \* numbers of objects, one for each section
          KeyPairs,   \* the writer's two private keys
          Keys,       \* public keys: the same as the private ones they belong to
          NoKey,
          Page,       \* cells of a page
          Buffer,     \* cells that stdio holds back
          MaxFills    \* bound: how often the disk gets full

Pool == 5
Sections == 1..Pool

\* A tree has a root, be it empty.
ASSUME ContentsAssumption == Contents \subseteq {c \in [Sections -> Nat] : c[2] > 0}
ASSUME KeysAssumption == NoKey \notin Keys /\ KeyPairs \subseteq [1..2 -> Keys \cup {NoKey}]
ASSUME SizesAssumption == Page \in Nat \ {0} /\ Buffer \in Nat

Name == <<"as", "node", "network", "country", "string">>
Object(k, i) == <<Name[k], i>>
Root == <<2, 0>>
Magic == <<"magic", 0>>
Zero == <<"zero", 0>>

\* Where the header is; the writer leaves a hole there first.
HeaderAt == 2

NoSignature == [of |-> NoKey]
Garbage == [of |-> "garbage"]
EmptyHeader == [offset |-> [k \in Sections |-> 0], length |-> [k \in Sections |-> 0]]
NoSignatures == [n \in 1..2 |-> NoSignature]

VARIABLES
    count, keys,          \* what the writer has been given
    step,                 \* where loc_writer_write is
    section,              \* the section it writes
    written,              \* how many objects of that it has passed to fwrite
    signer,               \* the key that is next to sign
    header, signatures,   \* on its stack and in the writer
    file,                 \* what stdio has accepted
    flushed,              \* how much of it is on the disk
    stored,               \* the header on the disk
    full, fills,          \* whether the disk is full, and how often it has been
    refused,              \* auxiliary: whether stdio has refused anything
    db,                   \* what a reader has opened
    verified              \* the keys that it has verified that with

writerVars == <<count, keys, step, section, written, signer, header, signatures, refused>>
fileVars == <<file, flushed, stored>>
diskVars == <<full, fills>>
readVars == <<db, verified>>
vars == <<writerVars, fileVars, diskVars, readVars>>

NoHeader == [header |-> EmptyHeader, signatures |-> NoSignatures]
Closed == [length |-> 0, copy |-> FALSE, header |-> EmptyHeader, signatures |-> NoSignatures]

\* fopen(path, "w+")
Init ==
    /\ count \in Contents /\ keys \in KeyPairs
    /\ step = "magic" /\ section = 0 /\ written = 0 /\ signer = 1
    /\ header = EmptyHeader /\ signatures = NoSignatures
    /\ file = <<>> /\ flushed = 0 /\ stored = NoHeader
    /\ full = FALSE /\ fills = 0 /\ refused = FALSE
    /\ db = Closed /\ verified = {}

-----------------------------------------------------------------------------
(* stdio and the disk *)

Offset == Len(file)
Disk == SubSeq(file, 1, flushed)

\* On a full disk, what the buffer has room for.
Accepts == full => Offset - flushed < Buffer

\* How much may be on the disk when length cells have been accepted.  The hole
\* gets there only with what is behind it.
Flushes(length) ==
    IF full THEN {flushed}
    ELSE {n \in flushed..length : length - n <= Buffer /\ n # HeaderAt}

Put(cell) ==
    /\ file' = Append(file, cell)
    /\ flushed' \in Flushes(Offset + 1)
    /\ UNCHANGED stored

\* fseek and rewind have to empty the buffer.
CanSeek == ~full \/ flushed = Offset
Seek == CanSeek /\ flushed' = Offset

DiskFills == ~full /\ fills < MaxFills /\ full' = TRUE /\ fills' = fills + 1
DiskFrees == full /\ full' = FALSE /\ UNCHANGED fills

-----------------------------------------------------------------------------
(* loc_writer_write *)

Fails == step' = "failed" /\ UNCHANGED <<section, written, signer, header, signatures, refused>>

WriteMagic ==
    /\ step = "magic"
    /\ Accepts
    /\ Put(Magic)
    /\ step' = "skipping"
    /\ UNCHANGED <<section, written, signer, header, signatures, refused>>

\* The signatures come from the hole, too.
SkipHeader ==
    /\ step = "skipping"
    /\ Seek
    /\ file' = Append(file, Zero)
    /\ step' = "aligning"
    /\ UNCHANGED <<section, written, signer, header, signatures, refused, stored>>

SkipHeaderFails ==
    /\ step = "skipping"
    /\ ~CanSeek
    /\ Fails
    /\ UNCHANGED fileVars

\* Fault: the padding has no bytes.
AlignNothing == step = "aligning" /\ Offset % Page > 0 /\ UNCHANGED <<writerVars, fileVars>>

\* align_page_boundary: while stdio accepts nothing, it tries again.
Align ==
    /\ step = "aligning"
    /\ Offset % Page > 0
    /\ Accepts
    /\ Put(Zero)
    /\ UNCHANGED <<step, section, written, signer, header, signatures, refused>>

StartSection ==
    /\ step = "aligning"
    /\ Offset % Page = 0
    /\ section' = section + 1
    /\ header' = [header EXCEPT !.offset[section'] = Offset]
    /\ written' = 0
    /\ step' = "writing"
    /\ UNCHANGED <<signer, signatures, refused, fileVars>>

\* An object that is not accepted counts, all the same.
WriteObject ==
    /\ step = "writing"
    /\ written < count[section]
    /\ section # Pool \/ Accepts
    /\ written' = written + 1
    /\ header' = [header EXCEPT !.length[section] = @ + 1]
    /\ IF Accepts THEN Put(Object(section, written)) ELSE UNCHANGED fileVars
    /\ refused' = (refused \/ ~Accepts)
    /\ UNCHANGED <<step, section, signer, signatures>>

\* The pool is one fwrite, and it counts what that has accepted.
WritePoolStops ==
    /\ step = "writing"
    /\ written < count[section]
    /\ section = Pool /\ ~Accepts
    /\ refused' = TRUE
    /\ step' = "signing"
    /\ UNCHANGED <<section, written, signer, header, signatures, fileVars>>

FinishSection ==
    /\ step = "writing"
    /\ written = count[section]
    /\ step' = IF section = Pool THEN "signing" ELSE "aligning"
    /\ UNCHANGED <<section, written, signer, header, signatures, refused, fileVars>>

NextKey == signer' = signer + 1 /\ UNCHANGED <<step, section, written, header, refused, stored>>

SkipKey ==
    /\ step = "signing"
    /\ signer <= 2 /\ keys[signer] = NoKey
    /\ NextKey
    /\ UNCHANGED <<signatures, file, flushed>>

Signing == step = "signing" /\ signer <= 2 /\ keys[signer] # NoKey

\* Fault: the sections are left out.
DigestWithoutSections(cells, h) ==
    [rest |-> <<>>, magic |-> cells[1], header |-> h]

\* The file without its header, and the header without signatures
Digest(cells, h) == [rest |-> SubSeq(cells, HeaderAt + 1, Len(cells)), magic |-> cells[1], header |-> h]

\* loc_writer_create_signature reads the file, but takes the header from memory.
Sign ==
    /\ Signing
    /\ Seek
    /\ signatures' = [signatures EXCEPT ![signer] =
                          [of |-> keys[signer], digest |-> Digest(file, header)]]
    /\ NextKey
    /\ UNCHANGED file

\* A function of OpenSSL that fails with 0 counts as success.
SignGarbage ==
    /\ Signing
    /\ signatures' = [signatures EXCEPT ![signer] = Garbage]
    /\ flushed' = IF full THEN flushed ELSE Offset
    /\ NextKey
    /\ UNCHANGED file

\* The file cannot be read, or OpenSSL fails in any other way.
SignFails ==
    /\ Signing
    /\ Fails
    /\ UNCHANGED fileVars

Signed == step = "signing" /\ signer > 2

\* Back to where the header goes
SeekHeader ==
    /\ Signed
    /\ Seek
    /\ step' = "header"
    /\ UNCHANGED <<section, written, signer, header, signatures, refused, file, stored>>

SeekHeaderFails ==
    /\ Signed
    /\ ~CanSeek
    /\ Fails
    /\ UNCHANGED fileVars

StoreHeader == stored' = [header |-> header, signatures |-> signatures]

\* fwrite puts it on the disk, or leaves it in the buffer.
WriteHeader ==
    /\ step = "header"
    /\ (~full /\ StoreHeader) \/ UNCHANGED stored
    /\ step' = "flushing"
    /\ UNCHANGED <<section, written, signer, header, signatures, refused, file, flushed>>

\* fflush, or the fclose of the caller after that has failed
FlushHeader ==
    /\ step = "flushing"
    /\ IF stored = NoHeader THEN ~full /\ StoreHeader ELSE UNCHANGED stored
    /\ step' = "done"
    /\ UNCHANGED <<section, written, signer, header, signatures, refused, file, flushed>>

\* What fwrite and fflush return is ignored: this, too, is reported as success.
LoseHeader ==
    /\ step \in {"header", "flushing"}
    /\ full /\ stored = NoHeader
    /\ refused' = TRUE
    /\ step' = "done"
    /\ UNCHANGED <<section, written, signer, header, signatures, fileVars>>

Ended == step \in {"done", "failed", "killed"}

Write ==
    /\ \/ WriteMagic \/ SkipHeader \/ SkipHeaderFails
       \/ Align \/ StartSection \/ WriteObject \/ WritePoolStops \/ FinishSection
       \/ SkipKey \/ Sign \/ SignGarbage \/ SignFails
       \/ SeekHeader \/ SeekHeaderFails \/ WriteHeader \/ FlushHeader \/ LoseHeader
    /\ UNCHANGED <<count, keys, diskVars, readVars>>

\* The process ends, and the buffer is lost.
Crash ==
    /\ ~Ended
    /\ step' = "killed"
    /\ file' = Disk
    /\ UNCHANGED <<count, keys, section, written, signer, header, signatures, refused>>
    /\ UNCHANGED <<flushed, stored, diskVars, readVars>>

ChangeDisk ==
    /\ ~Ended
    /\ DiskFills \/ DiskFrees
    /\ UNCHANGED <<writerVars, fileVars, readVars>>

-----------------------------------------------------------------------------
(* loc_database_new and loc_database_verify *)

\* Fault: only the start is checked.
WithinStart(length, offset, size) == offset <= length

\* loc_database_check_boundaries: the difference is unsigned, and large when
\* there is less than size in all.
Within(length, offset, size) == size > length \/ offset <= length - size

\* The magic, the header and the pool are checked, in the same way: a file that is
\* shorter than the header passes, too, since the difference is large then.  Of
\* sections, nothing is checked.
Opens(length, h) ==
    /\ length > 0
    /\ Within(length, h.offset[Pool], h.length[Pool])

\* The database, or a copy of its first cells.  Length and header are those of
\* the moment, while the sections are mapped.
Open(length, copy, seen) ==
    /\ db = Closed
    /\ Opens(length, seen.header)
    /\ db' = [length |-> length, copy |-> copy, header |-> seen.header,
              signatures |-> seen.signatures]
    /\ UNCHANGED <<writerVars, fileVars, diskVars, verified>>

\* The header has the offset and the length of each section, in this order; the
\* networks come before the tree there.  Behind the end of the file are zeroes.
Place == <<1, 3, 2, 4, 5>>
CutHeader(fields) ==
    [offset |-> [k \in Sections |-> IF 2 * Place[k] - 1 <= fields THEN stored.header.offset[k] ELSE 0],
     length |-> [k \in Sections |-> IF 2 * Place[k] <= fields THEN stored.header.length[k] ELSE 0]]

\* What is seen of a header whose end is missing; behind the fields come the
\* signatures, and a part of one is worth no more than all of it.
Cut(fields) ==
    [header |-> CutHeader(fields),
     signatures |-> IF fields = 2 * Pool THEN stored.signatures ELSE NoSignatures]

OpenFile == Open(flushed, FALSE, stored)
OpenCopy ==
    /\ Ended
    /\ \/ \E length \in HeaderAt..(flushed - 1) : Open(length, TRUE, stored)
       \/ \E length \in 1..(flushed - 1) : length < HeaderAt /\
              \E fields \in 0..(2 * Pool) : Open(length, TRUE, Cut(fields))

\* What the reader's file has, be it the file or the copy
Data == IF db.copy THEN SubSeq(file, 1, db.length) ELSE Disk

Valid(signature, key, digest) == signature = [of |-> key, digest |-> digest]

\* Fault: the second signature is looked at when there is no first one.
VerifiesFirst(key) ==
    LET digest == Digest(Data, stored.header)
        n == IF db.signatures[1] = NoSignature THEN 2 ELSE 1
    IN  Len(Data) >= HeaderAt /\ Valid(db.signatures[n], key, digest)

\* The header is read once more, and has to be complete; either signature will do.
Verifies(key) ==
    LET digest == Digest(Data, stored.header)
    IN  Len(Data) >= HeaderAt /\ \E n \in 1..2 : Valid(db.signatures[n], key, digest)

Verify ==
    /\ db # Closed
    /\ \E key \in Keys \ verified :
          /\ Verifies(key)
          /\ verified' = verified \cup {key}
    /\ UNCHANGED <<writerVars, fileVars, diskVars, db>>

Errors == {<<"ERANGE", 0>>, <<"EFAULT", 0>>}

\* Where an object is looked for.  The caller compares the index with the length,
\* but not that of the root: nobody asks whether there is one.
Counted(k, i) == i < db.header.length[k] \/ <<k, i>> = Root
At(k, i) == db.header.offset[k] + i

\* Fault: objects are counted from one.
ReadFromOne(k, i) ==
    IF ~Counted(k, i) THEN <<"ERANGE", 0>>
    ELSE IF k # Pool /\ ~Within(db.length, At(k, i), 1) THEN <<"EFAULT", 0>>
    ELSE IF At(k, i) \in DOMAIN Data THEN Data[At(k, i)] ELSE <<"SIGBUS", 0>>

\* loc_database_object, and loc_stringpool_get for the pool, which is not checked
\* again.  Memory without a file behind it is deadly.
Read(k, i) ==
    IF ~Counted(k, i) THEN <<"ERANGE", 0>>
    ELSE IF k # Pool /\ ~Within(db.length, At(k, i), 1) THEN <<"EFAULT", 0>>
    ELSE IF At(k, i) + 1 \in DOMAIN Data THEN Data[At(k, i) + 1] ELSE <<"SIGBUS", 0>>

-----------------------------------------------------------------------------
Next == Write \/ Crash \/ ChangeDisk \/ OpenFile \/ OpenCopy \/ Verify

Spec == Init /\ [][Next]_vars /\ WF_vars(Write)

-----------------------------------------------------------------------------
(* Properties *)

\* Whenever a reader has opened the file, and however much of it and of its header
\* there is: each object that it asks for is that object or an error.  It may take
\* the magic for the root of the tree, but gets from there to an error: no other
\* node and no network is found.  Two exceptions: objects the disk had no room for,
\* and a pool that is longer than all of the file, which passes the check.
ReadsAreRight ==
    db # Closed /\ ~refused /\ db.header.length[Pool] <= db.length =>
        /\ \A k \in Sections : \A i \in 0..count[k] :
               \/ Read(k, i) \in {Object(k, i)} \cup Errors
               \/ <<k, i>> = Root /\ Read(k, i) = Magic
        /\ Read(Root[1], Root[2]) = Magic =>
               \A k \in {2, 3} : \A i \in 0..count[k] : <<k, i>> # Root => Read(k, i) \in Errors

\* Every object of every section is found, and not one more.
Whole == \A k \in Sections :
    /\ \A i \in 0..(count[k] - 1) : Read(k, i) = Object(k, i)
    /\ Read(k, count[k]) = <<"ERANGE", 0>>

\* What verifies is a file that has its header, so that the writer has reached the
\* end, and all of it: no copy of a part, nothing that a crash has left before, and
\* nothing for a key that is not the writer's.  If the disk had room it has every
\* object.
VerifiedIsWhole ==
    verified # {} =>
        /\ verified \subseteq {keys[1], keys[2]}
        /\ stored # NoHeader /\ ~db.copy
        /\ ~refused => Whole

\* A file that the writer has reported as written opens, and has its header unless
\* the disk refused that; then it verifies with each key that it was signed with, be
\* the other signature what it may.  Without its header it verifies with none.
WrittenVerifies ==
    step = "done" =>
        /\ Opens(flushed, stored.header)
        /\ stored = NoHeader => refused /\ verified = {}
        /\ db # Closed /\ ~db.copy /\ db.header # EmptyHeader =>
               \A n \in 1..2 : signatures[n] \notin {NoSignature, Garbage} => Verifies(keys[n])

\* The writer comes to an end, if the disk does not stay full: where it is, the
\* padding is tried for ever.
WriteEnds == <>[]~full => <>Ended
=============================================================================

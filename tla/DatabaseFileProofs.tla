------------------------- MODULE DatabaseFileProofs -------------------------
(***************************************************************************)
(* For sections, keys, pages and buffers of any size, and however often    *)
(* the disk fills: a reader of the file or of a part of it reads what was  *)
(* written or an error, what verifies is whole, and what was written       *)
(* verifies.                                                               *)
(***************************************************************************)
EXTENDS DatabaseFile, Updater, SequenceTheorems, TLAPS

USE ContentsAssumption, KeysAssumption, SizesAssumption DEF Pool, Sections, HeaderAt

-----------------------------------------------------------------------------
(* The invariant *)

Cell == {Magic, Zero} \cup {Object(k, i) : k \in Sections, i \in Nat}
Headers == [offset : [Sections -> Nat], length : [Sections -> Nat]]
Digests == [rest : Seq(Cell), magic : Cell, header : Headers]
Signatures == [1..2 -> {NoSignature, Garbage} \cup [of : Keys, digest : Digests]]

\* From where on the file is complete but for the header
Last == {"signing", "header", "flushing", "done"}
Steps == {"magic", "skipping", "aligning", "writing", "failed", "killed"} \cup Last

Types ==
    /\ count \in [Sections -> Nat] /\ count[2] > 0 /\ keys \in [1..2 -> Keys \cup {NoKey}]
    /\ step \in Steps /\ section \in 0..Pool /\ written \in Nat /\ signer \in 1..3
    /\ header \in Headers /\ signatures \in Signatures
    /\ file \in Seq(Cell) /\ flushed \in 0..Len(file)

\* A file that has its header stays what it is, whatever becomes of the writer.
Headed == stored # NoHeader
Running == step \notin {"failed", "killed"} \/ Headed

\* How far the file and its sections are at each step
Position ==
    /\ step = "magic" => file = <<>>
    /\ step = "skipping" => Len(file) = 1
    /\ step \in {"aligning", "writing"} \cup Last \/ Headed => Len(file) >= HeaderAt
    /\ step \in {"magic", "skipping", "aligning"} => section < Pool
    /\ step = "writing" => section > 0
    /\ step \in Last \/ Headed => section = Pool

MagicFirst == Len(file) > 0 => file[1] = Magic

ObjectsInPlace ==
    ~refused => \A k \in Sections : \A i \in 0..(header.length[k] - 1) :
                    /\ header.offset[k] + i + 1 \in DOMAIN file
                    /\ file[header.offset[k] + i + 1] = Object(k, i)

\* The header tells where the objects of each section are, as far as these have
\* been written and nothing was refused; and where the pool ends, even then.
Laid ==
    /\ \A k \in Sections :
          /\ k > section => header.length[k] = 0
          /\ k <= section => header.offset[k] >= HeaderAt
          /\ k < section \/ (k = section /\ step # "writing") =>
                refused \/ header.length[k] = count[k]
          /\ k = section /\ step = "writing" =>
                /\ header.length[k] = written /\ written <= count[k]
                /\ refused \/ header.offset[k] + written = Len(file)
    /\ ObjectsInPlace
    /\ section = Pool => header.offset[Pool] + header.length[Pool] = Len(file)

\* What has been signed is still so when the header is written.
Genuine(n) ==
    /\ step \in Last \/ Headed
    /\ keys[n] \in Keys
    /\ signatures[n] = [of |-> keys[n], digest |-> Digest(file, header)]
SignaturesGenuine ==
    \A n \in 1..2 : signatures[n] \in {NoSignature, Garbage} \/ Genuine(n)

\* The header comes last, when the buffer is empty; success without it means that
\* the disk was full.
HeaderLast ==
    /\ Headed => /\ step \in {"flushing", "done", "killed"}
                 /\ stored = [header |-> header, signatures |-> signatures]
    /\ step \in {"header", "flushing", "done"} \/ Headed => flushed = Len(file)
    /\ step = "done" => Headed \/ refused

\* A reader came too early, and has no section and no signature; or it came when
\* the file was complete, and has that or less; or it has not even all of the
\* header.
Early == db.header = EmptyHeader /\ db.signatures = NoSignatures
Late ==
    /\ Headed /\ db.length >= HeaderAt
    /\ db.header = header /\ db.signatures = signatures
    /\ IF db.copy THEN db.length < Len(file) ELSE db.length = Len(file)
    /\ Within(db.length, header.offset[Pool], header.length[Pool])
Torn ==
    /\ Headed /\ db.copy /\ db.length < HeaderAt
    /\ \E fields \in 0..(2 * Pool) : db.header = CutHeader(fields)
    /\ Within(db.length, db.header.offset[Pool], db.header.length[Pool])
ReaderInv ==
    /\ db # Closed => db.length \in 1..flushed /\ (Early \/ Late \/ Torn)
    /\ verified # {} => db # Closed /\ Late /\ ~db.copy /\ verified \subseteq {keys[1], keys[2]}

WriterInv ==
    Types /\ MagicFirst /\ (Running => Position /\ Laid /\ SignaturesGenuine) /\ HeaderLast
IInv == WriterInv /\ ReaderInv

-----------------------------------------------------------------------------
(* Files *)

\* What a file has stays where it is when the file grows.
LEMMA Grown ==
    ASSUME NEW f \in Seq(Cell), NEW cell \in Cell
    PROVE  /\ Append(f, cell) \in Seq(Cell) /\ Len(Append(f, cell)) = Len(f) + 1
           /\ DOMAIN f = 1..Len(f) /\ DOMAIN Append(f, cell) = 1..(Len(f) + 1)
           /\ \A i \in 1..Len(f) : Append(f, cell)[i] = f[i]
           /\ Append(f, cell)[Len(f) + 1] = cell
  OBVIOUS

\* The first cells of a file
LEMMA Beginning ==
    ASSUME NEW f \in Seq(Cell), NEW n \in 0..Len(f)
    PROVE  /\ SubSeq(f, 1, n) \in Seq(Cell) /\ Len(SubSeq(f, 1, n)) = n
           /\ DOMAIN SubSeq(f, 1, n) = 1..n
           /\ \A i \in 1..n : SubSeq(f, 1, n)[i] = f[i]
           /\ n = Len(f) => SubSeq(f, 1, n) = f
  <1>1. \A i \in 1..n : f[i] \in Cell
    OBVIOUS
  <1>2. /\ SubSeq(f, 1, n) \in Seq(Cell) /\ Len(SubSeq(f, 1, n)) = n
        /\ \A i \in 1..n : SubSeq(f, 1, n)[i] = f[i]
    BY <1>1, SubSeqProperties, Z3
  <1>3. n = Len(f) => SubSeq(f, 1, n) = f
    BY SubSeqFull
  <1>. QED
    BY <1>2, <1>3

\* What is digested, and that no shorter file has the same digest
LEMMA DigestProperties ==
    ASSUME NEW f \in Seq(Cell), Len(f) >= HeaderAt, NEW h \in Headers
    PROVE  /\ Digest(f, h) \in Digests
           /\ \A n \in HeaderAt..(Len(f) - 1) : Digest(SubSeq(f, 1, n), h) # Digest(f, h)
  <1>1. ASSUME NEW g \in Seq(Cell), Len(g) >= HeaderAt
        PROVE  /\ SubSeq(g, HeaderAt + 1, Len(g)) \in Seq(Cell)
               /\ Len(SubSeq(g, HeaderAt + 1, Len(g))) = Len(g) - HeaderAt
               /\ g[1] \in Cell
    <2>. DEFINE first == HeaderAt + 1
                last == Len(g)
                rest == SubSeq(g, first, last)
    <2>1. first = 3 /\ last \in Int /\ last >= 2
      BY <1>1
    <2>2. \A i \in first..last : g[i] \in Cell
      BY <1>1, <2>1
    <2>3. g[1] \in Cell
      BY <1>1
    <2>. HIDE DEF first, last
    <2>4. rest \in Seq(Cell) /\ Len(rest) = IF first <= last THEN last - first + 1 ELSE 0
      BY <2>1, <2>2, SubSeqProperties, Z3
    <2>. HIDE DEF rest
    <2>5. Len(rest) = last - 2
      BY <2>1, <2>4
    <2>. QED
      BY <2>3, <2>4, <2>5 DEF rest, first, last
  <1>2. Digest(f, h) \in Digests
    BY <1>1 DEF Digest, Digests
  <1>3. ASSUME NEW n \in HeaderAt..(Len(f) - 1), Digest(SubSeq(f, 1, n), h) = Digest(f, h)
        PROVE  FALSE
    <2>1. SubSeq(f, 1, n) \in Seq(Cell) /\ Len(SubSeq(f, 1, n)) = n
      BY Beginning
    <2>2. SubSeq(SubSeq(f, 1, n), HeaderAt + 1, Len(SubSeq(f, 1, n)))
              = SubSeq(f, HeaderAt + 1, Len(f))
      BY <1>3 DEF Digest
    <2>. QED
      BY <1>1, <2>1, <2>2
  <1>. QED
    BY <1>2, <1>3

-----------------------------------------------------------------------------
(* Steps *)

\* The first state has the invariant.
LEMMA InitInv == Init => IInv
  <1>. SUFFICES ASSUME Init PROVE IInv
    OBVIOUS
  <1>1. header \in Headers /\ header.length = [k \in Sections |-> 0]
    BY DEF Init, EmptyHeader, Headers
  <1>2. count \in [Sections -> Nat] /\ count[2] > 0 /\ keys \in [1..2 -> Keys \cup {NoKey}]
    BY DEF Init
  <1>3. signatures \in Signatures
    BY DEF Init, Signatures, NoSignatures
  <1>4. Types
    BY <1>1, <1>2, <1>3 DEF Init, Types, Steps
  <1>5. Position /\ Laid /\ MagicFirst
    BY <1>1 DEF Init, Position, Laid, ObjectsInPlace, MagicFirst, Headed, Last
  <1>6. SignaturesGenuine
    BY DEF Init, SignaturesGenuine, NoSignatures
  <1>7. HeaderLast /\ ReaderInv
    BY DEF Init, HeaderLast, ReaderInv, Headed
  <1>. QED
    BY <1>4, <1>5, <1>6, <1>7 DEF IInv, WriterInv

\* Until the header is written, a reader has nothing, whatever the writer does; after
\* that what it has stays, as long as the file does.
LEMMA ReaderStays ==
    ASSUME IInv, UNCHANGED <<keys, readVars>>, flushed' \in Nat, flushed' >= flushed,
           Headed => UNCHANGED <<header, signatures, file, stored>>
    PROVE  ReaderInv'
  <1>1. UNCHANGED <<db, verified, keys>> /\ flushed \in Nat
    BY DEF readVars, IInv, WriterInv, Types
  <1>2. (db # Closed => db.length \in 1..flushed)'
    BY <1>1 DEF IInv, ReaderInv
  <1>3. Early => Early'
    BY <1>1 DEF Early
  <1>4. (Late => Late') /\ (Torn => Torn')
    BY <1>1 DEF Late, Torn, Headed, CutHeader
  <1>. QED
    BY <1>1, <1>2, <1>3, <1>4 DEF IInv, ReaderInv

\* What is put on the disk is what was accepted.
LEMMA PutTypes ==
    ASSUME Types, NEW cell \in Cell, Put(cell)
    PROVE  /\ file' \in Seq(Cell) /\ Len(file') = Len(file) + 1
           /\ flushed' \in 0..Len(file') /\ UNCHANGED stored
  BY Grown DEF Types, Put, Flushes, Offset

\* Objects are still in place when the file grows and no header changes.
LEMMA ObjectsStay ==
    ASSUME Types, ObjectsInPlace, UNCHANGED <<header, refused>>,
           file' = file \/ \E cell \in Cell : file' = Append(file, cell)
    PROVE  ObjectsInPlace'
  <1>1. CASE file' = file
    BY <1>1 DEF ObjectsInPlace
  <1>2. ASSUME NEW cell \in Cell, file' = Append(file, cell)
        PROVE  ObjectsInPlace'
    <2>1. file \in Seq(Cell)
      BY DEF Types
    <2>2. DOMAIN file \subseteq DOMAIN file' /\ \A i \in DOMAIN file : file'[i] = file[i]
      BY <1>2, <2>1, Grown
    <2>. QED
      BY <2>2 DEF ObjectsInPlace
  <1>. QED
    BY <1>1, <1>2

\* A step up to the first section: nothing is laid down or signed yet, but that
\* is known of the sections written before.
LEMMA FillInv ==
    ASSUME WriterInv, Running, UNCHANGED <<section, written, signer, header, signatures, refused, count, keys>>,
           step \in {"magic", "skipping", "aligning"}, step' \in {"skipping", "aligning"},
           file' = file \/ \E cell \in Cell : file' = Append(file, cell),
           Types', MagicFirst', Position', HeaderLast'
    PROVE  WriterInv'
  <1>1. section < Pool
    BY DEF WriterInv, Position
  <1>2. Laid'
    BY <1>1, ObjectsStay DEF WriterInv, Laid
  <1>3. SignaturesGenuine'
    BY DEF WriterInv, SignaturesGenuine, Genuine, HeaderLast, Last
  <1>. QED
    BY <1>2, <1>3 DEF WriterInv

\* A write that fails leaves a file without a header.
LEMMA FailInv ==
    ASSUME WriterInv, ~Headed, Fails, UNCHANGED <<count, keys, fileVars>>
    PROVE  WriterInv'
  <1>1. Types' /\ MagicFirst' /\ HeaderLast' /\ ~Running'
    BY DEF WriterInv, Fails, Types, Steps, MagicFirst, HeaderLast, Running, Headed, fileVars
  <1>. QED
    BY <1>1 DEF WriterInv

\* From the magic to the first section
LEMMA FillSteps ==
    ASSUME WriterInv, UNCHANGED <<count, keys>>, WriteMagic \/ SkipHeader \/ Align
    PROVE  WriterInv'
  <1>1. /\ Running /\ Running'
        /\ step \in {"magic", "skipping", "aligning"} /\ step' \in {"skipping", "aligning"}
        /\ UNCHANGED <<section, written, signer, header, signatures, refused, stored>>
    BY DEF WriteMagic, SkipHeader, Align, Put, Running
  <1>2. Types /\ Position /\ MagicFirst /\ ~Headed
    BY <1>1 DEF WriterInv, HeaderLast
  <1>3. PICK cell \in Cell : file' = Append(file, cell)
    BY DEF WriteMagic, SkipHeader, Align, Put, Cell
  <1>4. file' \in Seq(Cell) /\ Len(file') = Len(file) + 1 /\ Len(file) \in Nat
    BY <1>2, <1>3, Grown DEF Types
  <1>5. flushed' \in 0..Len(file')
    BY <1>2, <1>4, SMTT(30)
    DEF Types, WriteMagic, SkipHeader, Align, Put, Seek, Flushes, Offset
  <1>6. Types'
    BY <1>1, <1>2, <1>4, <1>5 DEF Types, Steps
  <1>7. Position'
    BY <1>1, <1>2, <1>4 DEF Position, WriteMagic, SkipHeader, Align, Headed, Last
  <1>8. HeaderLast'
    BY <1>1, <1>2 DEF HeaderLast, Headed
  <1>9. MagicFirst'
    <2>1. CASE Len(file) = 0
      <3>1. step = "magic" /\ file' = Append(file, Magic)
        BY <1>1, <1>2, <2>1 DEF Position, WriteMagic, SkipHeader, Align, Put
      <3>. QED
        BY <1>2, <2>1, <3>1 DEF MagicFirst, Types
    <2>2. CASE Len(file) # 0
      BY <1>2, <1>3, <1>4, <2>2, Grown DEF MagicFirst, Types
    <2>. QED
      BY <2>1, <2>2
  <1>. QED
    BY <1>1, <1>3, <1>6, <1>7, <1>8, <1>9, FillInv

\* Nothing is signed before the last section is written.
LEMMA Unsigned ==
    ASSUME WriterInv, step \in {"aligning", "writing"}, UNCHANGED signatures
    PROVE  SignaturesGenuine'
  BY DEF WriterInv, Running, SignaturesGenuine, Genuine, HeaderLast, Last

\* The offset of a section is where its first object is going to be.
LEMMA StartSectionInv ==
    ASSUME WriterInv, UNCHANGED <<count, keys>>, StartSection
    PROVE  WriterInv'
  <1>1. /\ Types /\ MagicFirst /\ Position /\ Laid /\ ~Headed /\ step = "aligning"
        /\ step' = "writing" /\ section' = section + 1 /\ written' = 0
        /\ UNCHANGED <<signer, signatures, refused, file, flushed, stored>>
    BY DEF WriterInv, HeaderLast, StartSection, Running, fileVars
  <1>2. section' \in Sections /\ Len(file) \in Nat
    BY <1>1 DEF Types, Position
  <1>3. /\ header' \in Headers /\ header'.length = header.length
        /\ header'.offset[section'] = Len(file)
        /\ \A k \in Sections : k # section' => header'.offset[k] = header.offset[k]
    BY <1>1, <1>2 DEF Types, Headers, StartSection, Offset
  <1>4. Types' /\ MagicFirst' /\ Position' /\ HeaderLast'
    BY <1>1, <1>2, <1>3 DEF Types, Steps, MagicFirst, Position, HeaderLast, Headed, Last
  <1>5. header.length[section'] = 0
    BY <1>1, <1>2 DEF Laid, Types
  <1>6. ObjectsInPlace'
    <2>1. ASSUME NEW k \in Sections, NEW i \in 0..(header'.length[k] - 1)
          PROVE  header'.length[k] = header.length[k] /\ header'.offset[k] = header.offset[k]
      <3>1. header'.length[k] = header.length[k]
        BY <1>3
      <3>2. 0..(0 - 1) = {}
        OBVIOUS
      <3>3. k # section'
        BY <1>5, <3>1, <3>2
      <3>. QED
        BY <1>3, <3>1, <3>3
    <2>2. ObjectsInPlace /\ UNCHANGED <<refused, file>>
      BY <1>1 DEF Laid
    <2>. QED
      BY <2>1, <2>2 DEF ObjectsInPlace
  <1>7. Laid'
    <2>1. \A k \in Sections : k > section' => header'.length[k] = 0
      BY <1>1, <1>2, <1>3 DEF Laid, Types
    <2>2. \A k \in Sections : k < section' => refused' \/ header'.length[k] = count'[k]
      BY <1>1, <1>2, <1>3 DEF Laid, Types
    <2>3. /\ header'.length[section'] = written' /\ written' <= count'[section']
          /\ header'.offset[section'] + written' = Len(file')
      BY <1>1, <1>2, <1>3, <1>5 DEF Types
    <2>4. section' = Pool => header'.offset[Pool] + header'.length[Pool] = Len(file')
      BY <1>1, <1>2, <1>3, <1>5
    <2>5. \A k \in Sections : k <= section' => header'.offset[k] >= HeaderAt
      <3>1. header'.offset[section'] >= HeaderAt
        BY <1>1, <1>3 DEF Position
      <3>2. ASSUME NEW k \in Sections, k <= section', k # section'
            PROVE  header'.offset[k] >= HeaderAt
        <4>1. k <= section
          BY <1>1, <3>2 DEF Types
        <4>. QED
          BY <1>1, <1>3, <3>2, <4>1 DEF Laid
      <3>. QED
        BY <3>1, <3>2
    <2>. QED
      BY <1>1, <1>2, <1>6, <2>1, <2>2, <2>3, <2>4, <2>5 DEF Laid
  <1>. QED
    BY <1>1, <1>4, <1>7, Unsigned DEF WriterInv

\* An object that is accepted comes behind those before it; after one that is not,
\* nothing is said of where objects are, but the pool still ends with the file.
LEMMA WriteObjectInv ==
    ASSUME WriterInv, UNCHANGED <<count, keys>>, WriteObject
    PROVE  WriterInv'
  <1>1. /\ Types /\ MagicFirst /\ Position /\ Laid /\ ~Headed /\ step = "writing"
        /\ written < count[section] /\ written' = written + 1
        /\ UNCHANGED <<step, section, signer, signatures, stored>>
        /\ section = Pool => Accepts
    BY DEF WriterInv, HeaderLast, WriteObject, Running, Put, fileVars
  <1>2. section \in Sections
    BY <1>1 DEF Types, Position
  <1>3. /\ header.length[section] = written
        /\ ~refused => header.offset[section] + written = Len(file)
        /\ section = Pool => header.offset[section] + written = Len(file)
    BY <1>1, <1>2 DEF Laid
  <1>4. /\ written \in Nat /\ count[section] \in Nat
        /\ header.offset[section] \in Nat /\ file \in Seq(Cell) /\ Len(file) \in Nat
    <2>1. written \in Nat /\ count \in [Sections -> Nat] /\ file \in Seq(Cell)
      BY <1>1 DEF Types
    <2>2. header.offset \in [Sections -> Nat]
      BY <1>1 DEF Types, Headers
    <2>3. count[section] \in Nat
      BY <1>2, <2>1
    <2>4. header.offset[section] \in Nat
      BY <1>2, <2>2
    <2>5. Len(file) \in Nat
      BY <2>1
    <2>. QED
      BY <2>1, <2>3, <2>4, <2>5
  <1>5. header' = [header EXCEPT !.length[section] = written + 1]
    BY <1>1, <1>2, <1>3 DEF Types, Headers, WriteObject
  <1>6. /\ header' \in Headers /\ header'.offset = header.offset
        /\ header'.length[section] = written + 1
        /\ \A k \in Sections : k # section => header'.length[k] = header.length[k]
    <2>1. header \in Headers /\ written + 1 \in Nat
      BY <1>1, <1>4 DEF Types
    <2>. QED
      BY <1>2, <1>5, <2>1 DEF Headers
  <1>7. Object(section, written) \in Cell
    <2>1. written \in Nat
      BY <1>4
    <2>. QED
      BY <1>2, <2>1 DEF Cell
  <1>8. CASE Accepts
    <2>1. /\ Put(Object(section, written)) /\ (refused' <=> refused)
          /\ file' = Append(file, Object(section, written))
      <3>1. Put(Object(section, written))
        BY <1>8, Zenon DEF WriteObject
      <3>2. refused' <=> refused
        BY <1>8, Zenon DEF WriteObject
      <3>. QED
        BY <3>1, <3>2 DEF Put
    <2>2. /\ file' \in Seq(Cell) /\ Len(file') = Len(file) + 1
          /\ flushed' \in 0..Len(file')
      BY <1>1, <1>7, <2>1, PutTypes
    <2>3. Types' /\ Position' /\ HeaderLast'
      BY <1>1, <1>4, <1>6, <2>2 DEF Types, Steps, Position, HeaderLast, Headed, Last
    <2>8. MagicFirst'
      <3>1. Len(file) > 0
        BY <1>1 DEF Position
      <3>. QED
        BY <1>1, <1>4, <1>7, <2>1, <3>1, Grown DEF MagicFirst
    <2>4. ASSUME NEW k \in Sections, NEW i \in 0..(header'.length[k] - 1), ~refused
          PROVE  /\ header'.offset[k] + i + 1 \in DOMAIN file'
                 /\ file'[header'.offset[k] + i + 1] = Object(k, i)
      <3>1. CASE k = section /\ i = written
        <4>1. header'.offset[k] + i + 1 = Len(file) + 1
          BY <1>3, <1>4, <1>6, <2>4, <3>1
        <4>. QED
          BY <1>4, <1>7, <2>1, <3>1, <4>1, Grown
      <3>2. CASE ~(k = section /\ i = written)
        <4>1. i \in 0..(header.length[k] - 1)
          BY <1>3, <1>4, <1>6, <3>2, SMTT(30)
        <4>2. /\ header.offset[k] + i + 1 \in DOMAIN file
              /\ file[header.offset[k] + i + 1] = Object(k, i)
          BY <1>1, <2>4, <4>1 DEF Laid, ObjectsInPlace
        <4>3. DOMAIN file \subseteq DOMAIN file' /\ \A j \in DOMAIN file : file'[j] = file[j]
          BY <1>4, <1>7, <2>1, Grown
        <4>. QED
          BY <1>6, <4>2, <4>3
      <3>. QED
        BY <3>1, <3>2
    <2>5. ObjectsInPlace'
      BY <2>1, <2>4 DEF ObjectsInPlace
    <2>6. /\ written' <= count[section]
          /\ ~refused \/ section = Pool => header'.offset[section] + written' = Len(file')
      <3>1. written' = written + 1 /\ written < count[section]
        BY <1>1
      <3>2. header'.offset[section] = header.offset[section]
        BY <1>6
      <3>3. written' <= count[section]
        BY <1>4, <3>1
      <3>4. ASSUME header.offset[section] + written = Len(file)
            PROVE  header'.offset[section] + written' = Len(file')
        <4>1. Len(file') = Len(file) + 1
          BY <2>2
        <4>2. \A o, w \in Nat : o + (w + 1) = (o + w) + 1
          OBVIOUS
        <4>3. header.offset[section] + (written + 1) = (header.offset[section] + written) + 1
          BY <1>4, <4>2
        <4>. QED
          BY <3>1, <3>2, <3>4, <4>1, <4>3, Zenon
      <3>. QED
        BY <1>3, <3>3, <3>4
    <2>7. Laid'
      BY <1>1, <1>2, <1>6, <2>1, <2>5, <2>6 DEF Laid
    <2>. QED
      BY <1>1, <2>3, <2>7, <2>8, Unsigned DEF WriterInv
  <1>9. CASE ~Accepts
    <2>1. section # Pool /\ refused' /\ UNCHANGED <<file, flushed>>
      BY <1>1, <1>9 DEF WriteObject, fileVars
    <2>2. Types' /\ MagicFirst' /\ Position' /\ HeaderLast'
      BY <1>1, <1>4, <1>6, <2>1 DEF Types, Steps, MagicFirst, Position, HeaderLast, Headed, Last
    <2>3. written' <= count[section]
      BY <1>1, <1>4
    <2>4. Laid'
      BY <1>1, <1>2, <1>6, <2>1, <2>3 DEF Laid, ObjectsInPlace
    <2>. QED
      BY <1>1, <2>2, <2>4, Unsigned DEF WriterInv
  <1>. QED
    BY <1>8, <1>9

\* A section ends when it has all its objects, the pool when the disk is full.
LEMMA SectionEndsInv ==
    ASSUME WriterInv, UNCHANGED <<count, keys>>, WritePoolStops \/ FinishSection
    PROVE  WriterInv'
  <1>1. /\ Types /\ MagicFirst /\ Position /\ Laid /\ ~Headed /\ step = "writing"
        /\ UNCHANGED <<section, written, signer, header, signatures, file, flushed, stored>>
        /\ step' \in {"aligning", "signing"} /\ (step' = "aligning" <=> section # Pool)
        /\ refused' \/ (~refused /\ written = count[section]) \/ (refused /\ UNCHANGED refused)
        /\ refused => refused'
    BY DEF WriterInv, HeaderLast, WritePoolStops, FinishSection, Running, fileVars
  <1>2. section \in Sections
    BY <1>1 DEF Types, Position
  <1>3. Types' /\ MagicFirst' /\ Position' /\ HeaderLast'
    BY <1>1, <1>2 DEF Types, Steps, MagicFirst, Position, HeaderLast, Headed, Last
  <1>4. ObjectsInPlace'
    BY <1>1 DEF Laid, ObjectsInPlace
  <1>5. Laid'
    BY <1>1, <1>2, <1>4 DEF Laid, Types
  <1>. QED
    BY <1>1, <1>3, <1>5, Unsigned DEF WriterInv

\* A signature has a digest, unlike none and garbage.
LEMMA SignatureShapes ==
    ASSUME NEW key, NEW digest
    PROVE  [of |-> key, digest |-> digest] \notin {NoSignature, Garbage}
  <1>1. /\ DOMAIN [of |-> key, digest |-> digest] = {"of", "digest"}
        /\ DOMAIN NoSignature = {"of"} /\ DOMAIN Garbage = {"of"}
    BY DEF NoSignature, Garbage
  <1>. QED
    BY <1>1

\* Signing leaves the file as it is, and with it the other signature.
LEMMA SignInv ==
    ASSUME WriterInv, UNCHANGED <<count, keys>>, SkipKey \/ Sign \/ SignGarbage
    PROVE  WriterInv'
  <1>1. /\ Types /\ MagicFirst /\ Position /\ Laid /\ SignaturesGenuine
        /\ ~Headed /\ step = "signing"
        /\ signer <= 2 /\ signer' = signer + 1
        /\ UNCHANGED <<step, section, written, header, refused, stored, file>>
    BY DEF WriterInv, HeaderLast, SkipKey, Sign, SignGarbage, NextKey, Signing, Running
  <1>2. signer \in 1..2 /\ signer' \in 1..3 /\ Len(file) >= HeaderAt
    BY <1>1 DEF Types, Position, Last
  <1>3. flushed' \in 0..Len(file')
    BY <1>1 DEF Types, SkipKey, Sign, SignGarbage, Seek, Offset
  <1>4. /\ signatures' \in Signatures
        /\ \A n \in 1..2 : signatures'[n] = signatures[n] \/ signatures'[n] = Garbage \/ Genuine(n)'
    <2>1. signatures \in Signatures /\ file \in Seq(Cell) /\ header \in Headers
      BY <1>1 DEF Types
    <2>2. CASE SkipKey
      BY <2>1, <2>2 DEF SkipKey
    <2>3. CASE SignGarbage
      BY <1>2, <2>1, <2>3 DEF SignGarbage, Signatures
    <2>4. CASE Sign
      <3>. DEFINE signature == [of |-> keys[signer], digest |-> Digest(file, header)]
      <3>1. keys[signer] \in Keys
        BY <1>1, <1>2, <2>4 DEF Types, Sign, Signing
      <3>2. signature \in [of : Keys, digest : Digests]
        BY <1>2, <2>1, <3>1, DigestProperties
      <3>3. signatures' = [signatures EXCEPT ![signer] = signature]
        BY <2>4 DEF Sign
      <3>4. Digest(file, header)' = Digest(file, header)
        BY <1>1 DEF Digest
      <3>5. ASSUME NEW n \in 1..2, n = signer, signatures'[n] = signature
            PROVE  Genuine(n)'
        BY <1>1, <3>1, <3>4, <3>5 DEF Genuine, Last
      <3>. HIDE DEF signature
      <3>6. /\ signatures' \in Signatures /\ signatures'[signer] = signature
            /\ \A n \in 1..2 : n # signer => signatures'[n] = signatures[n]
        BY <1>2, <2>1, <3>2, <3>3 DEF Signatures
      <3>. QED
        BY <3>5, <3>6
    <2>. QED
      BY <2>2, <2>3, <2>4
  <1>5. \A n \in 1..2 : Genuine(n) /\ signatures'[n] = signatures[n] => Genuine(n)'
    BY <1>1 DEF Genuine, Digest, Headed
  <1>6. SignaturesGenuine'
    BY <1>1, <1>4, <1>5 DEF SignaturesGenuine
  <1>7. Types' /\ MagicFirst' /\ Position' /\ HeaderLast'
    BY <1>1, <1>2, <1>3, <1>4 DEF Types, MagicFirst, Position, HeaderLast, Headed, Last
  <1>8. Laid'
    BY <1>1 DEF Laid, ObjectsInPlace
  <1>. QED
    BY <1>6, <1>7, <1>8 DEF WriterInv

\* From the signatures to the end: the header that is written is the one that was
\* signed, and nothing else changes; without it the writer has been refused.
LEMMA HeaderInv ==
    ASSUME WriterInv, UNCHANGED <<count, keys>>,
           SeekHeader \/ WriteHeader \/ FlushHeader \/ LoseHeader
    PROVE  WriterInv'
  <1>1. /\ Types /\ MagicFirst /\ Position /\ Laid /\ SignaturesGenuine /\ HeaderLast
        /\ step \in Last \ {"done"} /\ step' \in Last \ {"signing"}
        /\ UNCHANGED <<section, written, signer, header, signatures, file>>
    BY DEF WriterInv, SeekHeader, WriteHeader, FlushHeader, LoseHeader, Signed, Running, Last,
           fileVars
  <1>2. refused => refused'
    BY DEF SeekHeader, WriteHeader, FlushHeader, LoseHeader
  <1>3. flushed' = Len(file)
    BY <1>1 DEF SeekHeader, WriteHeader, FlushHeader, LoseHeader, Seek, Offset, HeaderLast, fileVars
  <1>4. section = Pool /\ Len(file) >= HeaderAt /\ file \in Seq(Cell)
    BY <1>1 DEF Position, Types
  <1>5. [header |-> header, signatures |-> signatures] # NoHeader
    <2>1. header.offset[Pool] >= HeaderAt
      BY <1>1, <1>4 DEF Laid
    <2>2. EmptyHeader.offset[Pool] = 0
      BY DEF EmptyHeader
    <2>3. header # EmptyHeader
      BY <2>1, <2>2
    <2>4. NoHeader.header = EmptyHeader
      BY DEF NoHeader
    <2>. QED
      BY <2>3, <2>4
  <1>6. Types' /\ MagicFirst' /\ Position'
    BY <1>1, <1>3, <1>4 DEF Types, Steps, MagicFirst, Position, Last
  <1>7. HeaderLast'
    <2>1. CASE SeekHeader
      BY <1>1, <1>3, <2>1 DEF SeekHeader, Signed, HeaderLast, Headed
    <2>2. CASE WriteHeader
      BY <1>1, <1>3, <2>2 DEF WriteHeader, StoreHeader, HeaderLast, Headed
    <2>3. CASE FlushHeader
      BY <1>1, <1>3, <1>5, <2>3 DEF FlushHeader, StoreHeader, HeaderLast, Headed
    <2>4. CASE LoseHeader
      BY <1>1, <1>3, <2>4 DEF LoseHeader, HeaderLast, Headed, fileVars
    <2>. QED
      BY <2>1, <2>2, <2>3, <2>4
  <1>8. Laid'
    BY <1>1, <1>2, <1>4 DEF Laid, ObjectsInPlace, Last
  <1>9. SignaturesGenuine'
    BY <1>1 DEF SignaturesGenuine, Genuine, Digest
  <1>. QED
    BY <1>6, <1>7, <1>8, <1>9 DEF WriterInv

\* What is on the disk stays there.
LEMMA Flushed ==
    ASSUME WriterInv, Write
    PROVE  flushed' >= flushed
  <1>1. flushed \in Nat /\ Len(file) \in Nat /\ flushed <= Len(file)
    BY DEF WriterInv, Types
  <1>2. ASSUME NEW cell, Put(cell) PROVE flushed' >= flushed
    BY <1>1, <1>2 DEF Put, Flushes, Offset
  <1>3. CASE WriteMagic \/ Align \/ WriteObject
    <2>1. flushed' = flushed \/ \E cell \in {Magic, Zero, Object(section, written)} : Put(cell)
      BY <1>3 DEF WriteMagic, Align, WriteObject, fileVars
    <2>. QED
      BY <1>1, <1>2, <2>1
  <1>4. CASE SkipHeader \/ Sign \/ SeekHeader
    BY <1>1, <1>4 DEF SkipHeader, Sign, SeekHeader, Seek, Offset
  <1>5. CASE SignGarbage
    BY <1>1, <1>5 DEF SignGarbage, Offset
  <1>6. CASE SkipHeaderFails \/ StartSection \/ WritePoolStops \/ FinishSection \/ SkipKey
                 \/ SignFails \/ SeekHeaderFails \/ WriteHeader \/ FlushHeader \/ LoseHeader
    BY <1>1, <1>6 DEF SkipHeaderFails, StartSection, WritePoolStops, FinishSection, SkipKey,
                      SignFails, SeekHeaderFails, WriteHeader, FlushHeader, LoseHeader, fileVars
  <1>. QED
    BY <1>3, <1>4, <1>5, <1>6 DEF Write

\* Every step of the writer keeps the invariant.
LEMMA WriteInv == IInv /\ Write => IInv'
  <1>. SUFFICES ASSUME IInv, Write PROVE IInv'
    OBVIOUS
  <1>1. WriterInv /\ UNCHANGED <<count, keys, readVars>>
    BY DEF IInv, Write
  <1>2. WriterInv'
    <2>1. CASE SkipHeaderFails \/ SignFails \/ SeekHeaderFails
      <3>1. ~Headed /\ Fails /\ UNCHANGED fileVars
        BY <1>1, <2>1 DEF WriterInv, HeaderLast, SkipHeaderFails, SignFails, SeekHeaderFails,
                          Signing, Signed
      <3>. QED
        BY <1>1, <3>1, FailInv
    <2>2. CASE WriteMagic \/ SkipHeader \/ Align
      BY <1>1, <2>2, FillSteps
    <2>3. CASE StartSection
      BY <1>1, <2>3, StartSectionInv
    <2>4. CASE WriteObject
      BY <1>1, <2>4, WriteObjectInv
    <2>5. CASE WritePoolStops \/ FinishSection
      BY <1>1, <2>5, SectionEndsInv
    <2>6. CASE SkipKey \/ Sign \/ SignGarbage
      BY <1>1, <2>6, SignInv
    <2>7. CASE SeekHeader \/ WriteHeader \/ FlushHeader \/ LoseHeader
      BY <1>1, <2>7, HeaderInv
    <2>. QED
      BY <2>1, <2>2, <2>3, <2>4, <2>5, <2>6, <2>7 DEF Write
  <1>3. flushed' \in Nat /\ flushed' >= flushed
    BY <1>1, <1>2, Flushed DEF WriterInv, Types
  <1>4. Headed => UNCHANGED <<header, signatures, file, stored>>
    <2>1. Headed => step \in {"flushing", "done", "killed"}
      BY <1>1 DEF WriterInv, HeaderLast
    <2>2. Headed => FlushHeader
      BY <2>1 DEF Write, WriteMagic, SkipHeader, SkipHeaderFails, Align, StartSection, WriteObject,
           WritePoolStops, FinishSection, SkipKey, Sign, SignGarbage, SignFails, SeekHeader,
           SeekHeaderFails, WriteHeader, LoseHeader, Signing, Signed, Headed
    <2>. QED
      BY <2>2 DEF FlushHeader, Headed
  <1>. QED
    BY <1>1, <1>2, <1>3, <1>4, ReaderStays DEF IInv

\* A crash leaves the file without a header, or has nothing to lose any more.
LEMMA CrashInv == IInv /\ Crash => IInv'
  <1>. SUFFICES ASSUME IInv, Crash PROVE IInv'
    OBVIOUS
  <1>1. /\ Types /\ MagicFirst /\ HeaderLast /\ step' = "killed" /\ file' = Disk
        /\ UNCHANGED <<count, keys, section, written, signer, header, signatures, refused>>
        /\ UNCHANGED <<flushed, stored, readVars>>
    BY DEF IInv, WriterInv, Crash
  <1>2. /\ file' \in Seq(Cell) /\ Len(file') = flushed
        /\ \A i \in 1..flushed : file'[i] = file[i]
        /\ flushed = Len(file) => file' = file
    BY <1>1, Beginning DEF Types, Disk
  <1>3. Types'
    BY <1>1, <1>2 DEF Types, Steps
  <1>4. MagicFirst'
    BY <1>1, <1>2 DEF MagicFirst, Types
  <1>5. HeaderLast' /\ (Headed => file' = file)
    BY <1>1, <1>2 DEF HeaderLast, Headed
  <1>6. ASSUME Running' PROVE Position' /\ Laid' /\ SignaturesGenuine'
    <2>1. Headed /\ UNCHANGED stored /\ file' = file
      BY <1>1, <1>5, <1>6 DEF Running, Headed
    <2>2. Position /\ Laid /\ SignaturesGenuine /\ step # "writing"
      BY <1>1, <2>1 DEF IInv, WriterInv, Running, HeaderLast
    <2>3. Position'
      BY <1>1, <2>1, <2>2 DEF Position, Headed
    <2>4. Laid'
      BY <1>1, <2>1, <2>2 DEF Laid, ObjectsInPlace
    <2>5. SignaturesGenuine'
      BY <1>1, <2>1, <2>2 DEF SignaturesGenuine, Genuine, Digest, Headed
    <2>. QED
      BY <2>3, <2>4, <2>5
  <1>7. flushed' \in Nat /\ flushed' >= flushed
    BY <1>1 DEF Types
  <1>8. ReaderInv'
    BY <1>1, <1>5, <1>7, ReaderStays
  <1>. QED
    BY <1>3, <1>4, <1>5, <1>6, <1>8 DEF IInv, WriterInv

\* The writer's part does not see readers and the disk's state.
LEMMA OthersInv ==
    ASSUME WriterInv, UNCHANGED <<writerVars, fileVars>>
    PROVE  WriterInv'
  <1>. USE DEF writerVars, fileVars
  <1>1. Types' /\ MagicFirst' /\ HeaderLast' /\ (Running' <=> Running)
    BY DEF WriterInv, Types, MagicFirst, HeaderLast, Running, Headed
  <1>2. Running => Position' /\ Laid'
    BY DEF WriterInv, Position, Laid, ObjectsInPlace, Headed
  <1>3. Running => SignaturesGenuine'
    BY DEF WriterInv, SignaturesGenuine, Genuine, Digest, Headed
  <1>. QED
    BY <1>1, <1>2, <1>3 DEF WriterInv

\* Then a reader has what it had, too.
LEMMA ReaderOthers ==
    ASSUME IInv, UNCHANGED <<writerVars, fileVars, readVars>>
    PROVE  IInv'
  <1>1. UNCHANGED <<keys, readVars, header, signatures, file, stored, flushed>> /\ flushed \in Nat
    BY DEF writerVars, fileVars, IInv, WriterInv, Types
  <1>2. flushed' \in Nat /\ flushed' >= flushed
    BY <1>1
  <1>. QED
    BY <1>1, <1>2, OthersInv, ReaderStays DEF IInv

\* What opening requires and does, whatever is seen of the header
LEMMA OpenFacts ==
    ASSUME IInv, NEW length, NEW copy, NEW seen, Open(length, copy, seen)
    PROVE  /\ verified = {} /\ WriterInv' /\ length > 0
           /\ Within(length, seen.header.offset[Pool], seen.header.length[Pool])
           /\ db'.length = length /\ db'.copy = copy
           /\ db'.header = seen.header /\ db'.signatures = seen.signatures
           /\ UNCHANGED <<keys, header, signatures, file, flushed, stored, verified>>
  BY OthersInv DEF Open, Opens, IInv, ReaderInv, writerVars, fileVars

\* A reader finds the header of the end or none.
LEMMA OpenInv ==
    ASSUME IInv, NEW length \in 1..flushed, NEW copy \in BOOLEAN, Open(length, copy, stored),
           IF copy THEN length \in HeaderAt..(flushed - 1) ELSE length = flushed
    PROVE  IInv'
  <1>1. Types /\ HeaderLast /\ flushed \in Nat
    BY DEF IInv, WriterInv, Types
  <1>2. CASE ~Headed
    <2>1. Early'
      BY <1>2, OpenFacts DEF Headed, NoHeader, Early
    <2>. QED
      BY <1>1, <2>1, OpenFacts DEF IInv, ReaderInv
  <1>3. CASE Headed
    <2>1. stored.header = header /\ stored.signatures = signatures /\ flushed = Len(file)
      BY <1>1, <1>3 DEF HeaderLast
    <2>2. Len(file) >= HeaderAt
      BY <1>3 DEF IInv, WriterInv, Running, Position
    <2>3. Late'
      BY <1>1, <1>3, <2>1, <2>2, OpenFacts DEF Late, Within, Headed
    <2>. QED
      BY <1>1, <2>3, OpenFacts DEF IInv, ReaderInv
  <1>. QED
    BY <1>2, <1>3

\* Of no header a part is none.
LEMMA OpenCutInv ==
    ASSUME IInv, NEW length \in 1..(flushed - 1), length < HeaderAt,
           NEW fields \in 0..(2 * Pool), Open(length, TRUE, Cut(fields))
    PROVE  IInv'
  <1>1. flushed \in Nat
    BY DEF IInv, WriterInv, Types
  <1>2. /\ WriterInv' /\ verified' = {} /\ flushed' = flushed
        /\ db'.length = length /\ db'.copy = TRUE
        /\ db'.header = CutHeader(fields) /\ db'.signatures = Cut(fields).signatures
        /\ Within(length, CutHeader(fields).offset[Pool], CutHeader(fields).length[Pool])
        /\ UNCHANGED stored
    <2>1. Cut(fields).header = CutHeader(fields)
      BY DEF Cut
    <2>2. /\ WriterInv' /\ verified = {} /\ flushed' = flushed
          /\ db'.length = length /\ db'.copy = TRUE
          /\ db'.header = Cut(fields).header /\ db'.signatures = Cut(fields).signatures
          /\ Within(length, Cut(fields).header.offset[Pool], Cut(fields).header.length[Pool])
          /\ UNCHANGED <<stored, verified>>
      BY OpenFacts
    <2>. QED
      BY <2>1, <2>2
  <1>3. db'.length \in 1..flushed'
    BY <1>1, <1>2
  <1>4. CASE ~Headed
    <2>1. CutHeader(fields) = EmptyHeader
      <3>1. stored.header = EmptyHeader
        BY <1>4 DEF Headed, NoHeader
      <3>. QED
        BY <3>1 DEF CutHeader, EmptyHeader
    <2>2. Cut(fields).signatures = NoSignatures
      BY <1>4 DEF Cut, Headed, NoHeader
    <2>3. Early'
      BY <1>2, <2>1, <2>2 DEF Early
    <2>. QED
      BY <1>2, <1>3, <2>3 DEF IInv, ReaderInv
  <1>5. CASE Headed
    <2>1. CutHeader(fields)' = CutHeader(fields)
      BY <1>2 DEF CutHeader
    <2>2. Torn'
      BY <1>2, <1>5, <2>1 DEF Torn, Within, Headed
    <2>. QED
      BY <1>2, <1>3, <2>2 DEF IInv, ReaderInv
  <1>. QED
    BY <1>4, <1>5

\* Whatever a reader has opened, the first cell of that is the magic.
LEMMA DataBegins ==
    ASSUME IInv, db # Closed
    PROVE  /\ db.length \in Nat /\ db.length >= 1
           /\ Data \in Seq(Cell) /\ 1 \in DOMAIN Data /\ Data[1] = Magic
           /\ db.copy => Len(Data) = db.length
  <1>1. /\ file \in Seq(Cell) /\ flushed \in 0..Len(file) /\ Len(file) \in Nat
        /\ db.length \in 1..flushed /\ (Len(file) > 0 => file[1] = Magic)
    BY DEF IInv, WriterInv, ReaderInv, Types, MagicFirst
  <1>2. PICK n \in 0..Len(file) : Data = SubSeq(file, 1, n) /\ n >= 1 /\ (db.copy => n = db.length)
    BY <1>1 DEF Data, Disk
  <1>. QED
    BY <1>1, <1>2, Beginning

\* What a reader who came late has: the file, or the first cells of it
LEMMA LateData ==
    ASSUME IInv, db # Closed, Late
    PROVE  /\ Types /\ Position /\ Laid /\ SignaturesGenuine
           /\ Headed /\ step # "writing" /\ section = Pool
           /\ db.length \in HeaderAt..Len(file) /\ stored.header = header
           /\ Data = SubSeq(file, 1, db.length)
           /\ DOMAIN Data = 1..db.length /\ \A j \in 1..db.length : Data[j] = file[j]
           /\ ~db.copy => Data = file
  <1>1. /\ Types /\ Position /\ Laid /\ SignaturesGenuine /\ Headed /\ step # "writing"
        /\ section = Pool /\ stored.header = header /\ flushed = Len(file)
    BY DEF IInv, WriterInv, Late, Running, HeaderLast, Position
  <1>2. file \in Seq(Cell) /\ Len(file) \in Nat
    BY <1>1 DEF Types
  <1>3. db.length \in HeaderAt..Len(file) /\ (~db.copy => db.length = Len(file))
    BY <1>1, <1>2 DEF IInv, ReaderInv, Late
  <1>4. Data = SubSeq(file, 1, db.length)
    BY <1>1, <1>3 DEF Data, Disk
  <1>. QED
    BY <1>1, <1>2, <1>3, <1>4, Beginning

\* What verifies has been signed, and is all there.
LEMMA VerifyInv == IInv /\ Verify => IInv'
  <1>. SUFFICES ASSUME IInv, Verify PROVE IInv'
    OBVIOUS
  <1>1. PICK key \in Keys : Verifies(key) /\ verified' = verified \cup {key}
    BY DEF Verify
  <1>2. /\ Len(Data) >= HeaderAt
        /\ \E n \in 1..2 : db.signatures[n] = [of |-> key, digest |-> Digest(Data, stored.header)]
    BY <1>1 DEF Verifies, Valid
  <1>3. PICK n \in 1..2 : db.signatures[n] = [of |-> key, digest |-> Digest(Data, stored.header)]
    BY <1>2
  <1>4. db # Closed /\ UNCHANGED <<writerVars, fileVars, db>>
    BY DEF Verify
  <1>5. db.signatures[n] \notin {NoSignature, Garbage}
    BY <1>3, SignatureShapes
  <1>6. Late
    <2>1. ~Early
      BY <1>5 DEF Early, NoSignatures
    <2>2. ~Torn
      BY <1>2, <1>4, DataBegins DEF Torn
    <2>. QED
      BY <1>4, <2>1, <2>2 DEF IInv, ReaderInv
  <1>7. Genuine(n) /\ signatures[n] = db.signatures[n]
    BY <1>4, <1>5, <1>6, LateData DEF Late, SignaturesGenuine
  <1>8. key = keys[n] /\ Digest(Data, header) = Digest(file, header)
    BY <1>3, <1>4, <1>6, <1>7, LateData DEF Genuine
  <1>9. ~db.copy
    <2>1. file \in Seq(Cell) /\ header \in Headers /\ Len(file) >= HeaderAt
      BY <1>4, <1>6, LateData DEF Types, Position
    <2>2. db.copy => db.length \in HeaderAt..(Len(file) - 1)
      BY <1>4, <1>6, <2>1, LateData DEF Late
    <2>3. Data = SubSeq(file, 1, db.length)
      BY <1>4, <1>6, LateData
    <2>4. db.copy => Digest(SubSeq(file, 1, db.length), header) # Digest(file, header)
      BY <2>1, <2>2, DigestProperties
    <2>. QED
      BY <1>8, <2>3, <2>4
  <1>10. Late' /\ db' # Closed' /\ ~db'.copy
    BY <1>4, <1>6, <1>9 DEF Late, Headed, writerVars, fileVars, Closed, EmptyHeader, NoSignatures,
                            NoSignature
  <1>11. verified' \subseteq {keys'[1], keys'[2]}
    BY <1>1, <1>4, <1>8 DEF IInv, ReaderInv, writerVars
  <1>12. ReaderInv'
    BY <1>4, <1>10, <1>11 DEF IInv, ReaderInv, fileVars
  <1>. QED
    BY <1>4, <1>12, OthersInv DEF IInv

LEMMA NextInv == IInv /\ [Next]_vars => IInv'
  <1>. SUFFICES ASSUME IInv, [Next]_vars PROVE IInv'
    OBVIOUS
  <1>1. flushed \in Nat
    BY DEF IInv, WriterInv, Types
  <1>2. CASE OpenFile
    <2>1. flushed > 0
      BY <1>2 DEF OpenFile, Open, Opens
    <2>2. flushed \in 1..flushed
      BY <1>1, <2>1
    <2>. QED
      BY <1>2, <2>2, OpenInv DEF OpenFile
  <1>3. CASE OpenCopy
    <2>1. ASSUME NEW length \in HeaderAt..(flushed - 1), Open(length, TRUE, stored)
          PROVE  IInv'
      <3>1. length \in 1..flushed
        BY <1>1
      <3>. QED
        BY <2>1, <3>1, OpenInv
    <2>2. ASSUME NEW length \in 1..(flushed - 1), length < HeaderAt,
                 NEW fields \in 0..(2 * Pool), Open(length, TRUE, Cut(fields))
          PROVE  IInv'
      BY <2>2, OpenCutInv
    <2>. QED
      BY <1>3, <2>1, <2>2 DEF OpenCopy
  <1>4. CASE ChangeDisk \/ UNCHANGED vars
    <2>1. UNCHANGED <<writerVars, fileVars, readVars>>
      BY <1>4 DEF vars, ChangeDisk
    <2>. QED
      BY <2>1, ReaderOthers
  <1>. QED
    BY <1>2, <1>3, <1>4, WriteInv, CrashInv, VerifyInv DEF Next

-----------------------------------------------------------------------------
(* Reading *)

\* A reader without the header or without its end finds no object that it looks
\* for, though maybe the magic instead of the root.
LEMMA ReadsWithoutHeader ==
    ASSUME IInv, db # Closed, Early \/ Torn, db.header.length[Pool] <= db.length,
           NEW k \in Sections, NEW i \in Nat
    PROVE  Read(k, i) \in Errors \/ (<<k, i>> = Root /\ Read(k, i) = Magic)
  <1>. DEFINE offset(j) == db.header.offset[j]
              size(j) == db.header.length[j]
  <1>1. db.length \in Nat /\ db.length >= 1 /\ 1 \in DOMAIN Data /\ Data[1] = Magic
    BY DataBegins
  <1>2. \A j \in Sections : /\ offset(j) \in Nat /\ size(j) \in Nat
                            /\ offset(j) = 0 \/ offset(j) >= db.length
                            /\ size(j) > 0 => j # Pool /\ offset(j) >= db.length
    <2>1. CASE Early
      BY <2>1 DEF Early, EmptyHeader
    <2>2. CASE Torn
      <3>1. PICK fields \in 0..(2 * Pool) : db.header = CutHeader(fields)
        BY <2>2 DEF Torn
      <3>2. stored.header = header /\ header \in Headers
        BY <2>2 DEF Torn, IInv, WriterInv, HeaderLast, Types
      <3>3. \A j \in Sections : header.offset[j] >= HeaderAt
        BY <2>2 DEF Torn, IInv, WriterInv, Running, Position, Laid
      <3>4. \A j \in Sections : header.offset[j] \in Nat /\ header.length[j] \in Nat
        BY <3>2 DEF Headers
      <3>5. \A j \in Sections : /\ offset(j) \in {0, header.offset[j]}
                                /\ size(j) \in {0, header.length[j]}
                                /\ size(j) # 0 => offset(j) = header.offset[j]
        <4>1. \A j \in Sections : Place[j] \in Nat
          BY DEF Place
        <4>2. \A j \in Sections :
                 /\ offset(j) = IF 2 * Place[j] - 1 <= fields THEN header.offset[j] ELSE 0
                 /\ size(j) = IF 2 * Place[j] <= fields THEN header.length[j] ELSE 0
          BY <3>1, <3>2 DEF CutHeader
        <4>. QED
          BY <4>1, <4>2
      <3>6. db.length = 1
        BY <1>1, <2>2 DEF Torn
      <3>7. Within(db.length, offset(Pool), size(Pool))
        BY <2>2 DEF Torn
      <3>8. size(Pool) = 0
        BY <3>3, <3>4, <3>5, <3>6, <3>7 DEF Within
      <3>. QED
        BY <3>3, <3>4, <3>5, <3>6, <3>8
    <2>. QED
      BY <2>1, <2>2
  <1>3. CASE ~Counted(k, i)
    BY <1>3 DEF Read, Errors
  <1>4. CASE At(k, i) >= db.length /\ k # Pool
    <2>1. At(k, i) \in Nat
      BY <1>2 DEF At
    <2>2. ~Within(db.length, At(k, i), 1)
      BY <1>1, <1>4, <2>1 DEF Within
    <2>. QED
      BY <1>4, <2>2 DEF Read, Errors
  <1>5. CASE i < size(k)
    <2>1. k # Pool /\ At(k, i) >= db.length
      BY <1>1, <1>2, <1>5 DEF At
    <2>. QED
      BY <1>4, <2>1
  <1>6. CASE <<k, i>> = Root /\ At(k, i) = 0
    <2>1. Within(db.length, 0, 1)
      BY <1>1 DEF Within
    <2>2. Counted(k, i) /\ k # Pool
      BY <1>6 DEF Counted, Root
    <2>. QED
      BY <1>1, <1>6, <2>1, <2>2 DEF Read
  <1>7. CASE <<k, i>> = Root /\ At(k, i) # 0
    <2>1. k # Pool /\ i = 0
      BY <1>7 DEF Root
    <2>2. At(k, i) = offset(k)
      BY <1>2, <2>1 DEF At
    <2>. QED
      BY <1>2, <1>4, <1>7, <2>1, <2>2
  <1>. QED
    BY <1>3, <1>5, <1>6, <1>7 DEF Counted

\* A reader with the header finds each object in its place, if it has that.
LEMMA ReadsWithHeader ==
    ASSUME IInv, db # Closed, Late, ~refused, header.length[Pool] <= db.length,
           NEW k \in Sections, NEW i \in 0..count[k]
    PROVE  Read(k, i) \in {Object(k, i)} \cup Errors
  <1>1. /\ Types /\ Laid /\ section = Pool /\ step # "writing"
        /\ db.header = header /\ db.length \in HeaderAt..Len(file)
        /\ DOMAIN Data = 1..db.length /\ \A j \in 1..db.length : Data[j] = file[j]
    BY LateData DEF Late
  <1>2. count[2] > 0 /\ count[k] \in Nat /\ header.length[k] = count[k]
    <2>1. count[2] > 0 /\ count[k] \in Nat
      BY <1>1 DEF Types
    <2>2. k < section \/ k = section
      BY <1>1 DEF Sections, Pool
    <2>3. header.length[k] = count[k]
      BY <1>1, <2>2 DEF Laid
    <2>. QED
      BY <2>1, <2>3
  <1>3. CASE ~Counted(k, i)
    BY <1>3 DEF Read, Errors
  <1>4. CASE Counted(k, i)
    <2>1. i \in 0..(header.length[k] - 1)
      <3>1. <<k, i>> = Root => i = 0 /\ count[k] > 0
        BY <1>2 DEF Root
      <3>. QED
        BY <1>1, <1>2, <1>4, <3>1 DEF Counted
    <2>2. header.offset[k] \in Nat
      BY <1>1 DEF Types, Headers
    <2>3. At(k, i) \in Nat /\ db.length \in Nat /\ db.length >= 2
      <3>1. Len(file) \in Nat
        BY <1>1 DEF Types
      <3>. QED
        BY <1>1, <1>2, <2>2, <3>1 DEF At
    <2>4. file[At(k, i) + 1] = Object(k, i)
      BY <1>1, <2>1 DEF Laid, ObjectsInPlace, At
    <2>5. CASE At(k, i) + 1 \in 1..db.length
      <3>1. Data[At(k, i) + 1] = Object(k, i) /\ At(k, i) + 1 \in DOMAIN Data
        BY <1>1, <2>4, <2>5
      <3>. QED
        BY <3>1 DEF Read, Errors
    <2>6. CASE At(k, i) + 1 \notin 1..db.length
      <3>1. At(k, i) >= db.length
        BY <2>3, <2>6
      <3>2. k # Pool
        <4>1. Within(db.length, header.offset[Pool], header.length[Pool])
          BY DEF Late
        <4>2. header.length[Pool] <= db.length
          OBVIOUS
        <4>3. ASSUME k = Pool PROVE At(k, i) < db.length
          <5>1. /\ header.length[Pool] \in Nat /\ header.offset[Pool] \in Nat
                /\ i \in 0..(header.length[Pool] - 1)
            BY <1>2, <2>1, <2>2, <4>3
          <5>2. At(k, i) = header.offset[Pool] + i
            BY <1>1, <4>3 DEF At
          <5>3. header.offset[Pool] <= db.length - header.length[Pool]
            BY <2>3, <4>1, <4>2, <5>1 DEF Within
          <5>. QED
            BY <2>3, <5>1, <5>2, <5>3
        <4>. QED
          BY <2>3, <3>1, <4>3
      <3>3. ~Within(db.length, At(k, i), 1)
        BY <2>3, <3>1 DEF Within
      <3>. QED
        BY <1>4, <3>2, <3>3 DEF Read, Errors
    <2>. QED
      BY <2>5, <2>6
  <1>. QED
    BY <1>3, <1>4

-----------------------------------------------------------------------------
(* Theorems *)

\* Every state that the writer, the disk and the readers reach has the invariant.
THEOREM FileInvariance == Spec => []IInv
  BY InitInv, NextInv, PTL DEF Spec

\* Whatever part of the file there is, each object that a reader asks for is that
\* object or an error, but for a full disk and a pool longer than the file; and no
\* way leads on from the magic that is taken for the root.
THEOREM ReadsProved == Spec => []ReadsAreRight
  <1>1. IInv => ReadsAreRight
    <2>. SUFFICES ASSUME IInv, db # Closed, ~refused, db.header.length[Pool] <= db.length
                  PROVE  /\ \A k \in Sections : \A i \in 0..count[k] :
                               \/ Read(k, i) \in {Object(k, i)} \cup Errors
                               \/ <<k, i>> = Root /\ Read(k, i) = Magic
                         /\ Read(Root[1], Root[2]) = Magic =>
                               \A k \in {2, 3} : \A i \in 0..count[k] :
                                   <<k, i>> # Root => Read(k, i) \in Errors
      BY DEF ReadsAreRight
    <2>1. \A k \in Sections : count[k] \in Nat
      BY DEF IInv, WriterInv, Types
    <2>2. CASE Early \/ Torn
      <3>1. \A k \in Sections : \A i \in 0..count[k] :
                Read(k, i) \in Errors \/ (<<k, i>> = Root /\ Read(k, i) = Magic)
        BY <2>1, <2>2, ReadsWithoutHeader
      <3>. QED
        BY <3>1
    <2>3. CASE Late
      <3>1. \A k \in Sections : \A i \in 0..count[k] : Read(k, i) \in {Object(k, i)} \cup Errors
        BY <2>3, ReadsWithHeader DEF Late
      <3>2. Read(2, 0) \in {Object(2, 0)} \cup Errors
        BY <2>1, <3>1
      <3>3. Magic \notin {Object(2, 0)} \cup Errors
        BY DEF Magic, Object, Name, Errors
      <3>4. Read(Root[1], Root[2]) # Magic
        BY <3>2, <3>3 DEF Root
      <3>. QED
        BY <3>1, <3>4
    <2>. QED
      BY <2>2, <2>3 DEF IInv, ReaderInv
  <1>. QED
    BY <1>1, FileInvariance, PTL

\* What verifies is complete, and for a key of the writer's.
THEOREM VerifiedProved == Spec => []VerifiedIsWhole
  <1>1. IInv => VerifiedIsWhole
    <2>. SUFFICES ASSUME IInv, verified # {} PROVE VerifiedIsWhole
      BY DEF VerifiedIsWhole
    <2>1. db # Closed /\ Late /\ ~db.copy /\ verified \subseteq {keys[1], keys[2]}
      BY DEF IInv, ReaderInv
    <2>2. /\ Headed /\ section = Pool /\ step # "writing" /\ Types /\ Laid
          /\ Data = file /\ db.header = header
      BY <2>1, LateData DEF Late
    <2>3. ASSUME ~refused, NEW k \in Sections
          PROVE  /\ \A i \in 0..(count[k] - 1) : Read(k, i) = Object(k, i)
                 /\ Read(k, count[k]) = <<"ERANGE", 0>>
      <3>1. header.length[k] = count[k] /\ count[2] > 0 /\ count[k] \in Nat
        BY <2>2, <2>3 DEF Laid, Types
      <3>2. Read(k, count[k]) = <<"ERANGE", 0>>
        <4>1. <<k, count[k]>> # Root
          BY <3>1 DEF Root
        <4>2. ~Counted(k, count[k])
          BY <2>2, <3>1, <4>1 DEF Counted
        <4>. QED
          BY <4>2 DEF Read
      <3>3. ASSUME NEW i \in 0..(count[k] - 1)
            PROVE  Read(k, i) = Object(k, i)
        <4>1. At(k, i) + 1 \in DOMAIN file /\ file[At(k, i) + 1] = Object(k, i)
          BY <2>2, <2>3, <3>1 DEF Laid, ObjectsInPlace, At
        <4>2. header.offset[k] \in Nat /\ file \in Seq(Cell) /\ db.length = Len(file)
          BY <2>1, <2>2 DEF Types, Headers, Late
        <4>3. At(k, i) \in Nat /\ At(k, i) + 1 <= db.length /\ db.length >= 1
          <5>1. At(k, i) = header.offset[k] + i
            BY <2>2 DEF At
          <5>2. At(k, i) \in Nat
            BY <3>1, <4>2, <5>1
          <5>. QED
            BY <4>1, <4>2, <5>2
        <4>4. Within(db.length, At(k, i), 1)
          BY <4>2, <4>3 DEF Within
        <4>5. Counted(k, i)
          BY <2>2, <3>1 DEF Counted
        <4>. QED
          BY <2>2, <4>1, <4>4, <4>5 DEF Read
      <3>. QED
        BY <3>2, <3>3
    <2>. QED
      BY <2>1, <2>2, <2>3 DEF VerifiedIsWhole, Whole, Headed
  <1>. QED
    BY <1>1, FileInvariance, PTL

\* What is reported as written opens, and verifies with the keys that signed it,
\* unless the disk has refused the header.
THEOREM WrittenProved == Spec => []WrittenVerifies
  <1>1. IInv => WrittenVerifies
    <2>. SUFFICES ASSUME IInv, step = "done" PROVE WrittenVerifies
      BY DEF WrittenVerifies
    <2>1. /\ Types /\ Position /\ Laid /\ SignaturesGenuine /\ flushed = Len(file)
          /\ Headed \/ refused
          /\ Headed => stored.header = header /\ stored.signatures = signatures
      BY DEF IInv, WriterInv, HeaderLast, Running
    <2>2. /\ header.offset[Pool] \in Nat /\ header.length[Pool] \in Nat
          /\ header.offset[Pool] + header.length[Pool] = Len(file) /\ Len(file) >= HeaderAt
      BY <2>1 DEF Types, Headers, Laid, Position, Last
    <2>3. Opens(flushed, stored.header)
      <3>1. CASE Headed
        BY <2>1, <2>2, <3>1 DEF Opens, Within
      <3>2. CASE ~Headed
        <4>1. stored.header.offset[Pool] = 0 /\ stored.header.length[Pool] = 0
          BY <3>2 DEF Headed, NoHeader, EmptyHeader
        <4>. QED
          BY <2>1, <2>2, <4>1 DEF Opens, Within
      <3>. QED
        BY <3>1, <3>2
    <2>4. ASSUME stored = NoHeader PROVE refused /\ verified = {}
      BY <2>1, <2>4 DEF Headed, IInv, ReaderInv, Late
    <2>5. ASSUME db # Closed, ~db.copy, db.header # EmptyHeader,
                 NEW n \in 1..2, signatures[n] \notin {NoSignature, Garbage}
          PROVE  Verifies(keys[n])
      <3>1. Late
        BY <2>5 DEF IInv, ReaderInv, Early, Torn
      <3>2. Data = file /\ db.signatures = signatures /\ stored.header = header
        BY <2>5, <3>1, LateData DEF Late
      <3>3. signatures[n] = [of |-> keys[n], digest |-> Digest(file, header)]
        BY <2>1, <2>5 DEF SignaturesGenuine, Genuine
      <3>. QED
        BY <2>2, <3>2, <3>3 DEF Verifies, Valid
    <2>. QED
      BY <2>3, <2>4, <2>5 DEF WrittenVerifies
  <1>. QED
    BY <1>1, FileInvariance, PTL

-----------------------------------------------------------------------------
(***************************************************************************)
(* Updaters of the installed file (Updater), for any number of them, of    *)
(* mirrors and of versions: what is installed is one whole database with a *)
(* valid signature, and no updater that knows the latest version replaces  *)
(* what it found by an older database.                                     *)
(***************************************************************************)

USE TimedAssumption, MirrorsAssumption, MaxVersionAssumption

\* A file has the version of its first piece.
LEMMA VersionOfFile ==
    ASSUME NEW f \in File
    PROVE  VersionOf(f) \in {None} \cup Versions
  <1>1. f # <<>> => Head(f) \in Piece
    BY DEF File
  <1>. QED
    BY <1>1 DEF VersionOf, Piece, Scrap

\* What a mirror sends are pieces of versions published before.
LEMMA DeliveriesAreFiles ==
    ASSUME TypeOK, NEW data \in Deliveries
    PROVE  data \in File
  <1>1. 1..latest \subseteq Versions
    BY DEF TypeOK, Versions
  <1>2. SignedDatabase(latest) \in Piece
    BY DEF TypeOK, SignedDatabase, Piece
  <1>3. /\ Scrap \in Piece
        /\ \A version \in 1..latest, kind \in {"signed", "unsigned"} :
              [version |-> version, kind |-> kind] \in Piece
    BY <1>1 DEF Piece
  <1>4. \A piece \in Piece : <<piece>> \in File
    BY DEF File
  <1>5. <<>> \in File
    BY DEF File
  <1>6. CASE healthy
    <2>1. data = <<SignedDatabase(latest)>>
      BY <1>6 DEF Deliveries
    <2>. QED
      BY <2>1, <1>2, <1>4
  <1>7. CASE ~healthy
    <2>1. \/ data = <<>> \/ data = <<Scrap>>
          \/ \E version \in 1..latest, kind \in {"signed", "unsigned"} :
                data = <<[version |-> version, kind |-> kind]>>
      BY <1>7 DEF Deliveries
    <2>. QED
      BY <2>1, <1>3, <1>4, <1>5
  <1>. QED
    BY <1>6, <1>7

\* So are the answers of the DNS.
LEMMA AnswersAreVersions ==
    ASSUME TypeOK, NEW t \in Answers
    PROVE  t \in {None} \cup Versions
  BY DEF TypeOK, Answers, Versions, None

\* The first state has the invariant.
LEMMA UpdaterInitInv == UpdaterInit => UpdaterInv
  <1>1. 1 \in Versions
    BY DEF Versions
  <1>2. SignedDatabase(1) \in Piece
    BY <1>1 DEF Piece, SignedDatabase
  <1>3. <<>> \in File /\ <<SignedDatabase(1)>> \in File
    BY <1>2 DEF File
  <1>. SUFFICES ASSUME UpdaterInit PROVE UpdaterInv
    OBVIOUS
  <1>4. TypeOK
    <2>1. installed \in File /\ temporary \in [Updaters -> File]
      BY <1>3 DEF UpdaterInit
    <2>2. untried \in [Updaters -> 0..Mirrors]
      BY DEF UpdaterInit
    <2>. QED
      BY <1>1, <2>1, <2>2 DEF UpdaterInit, TypeOK
  <1>5. InstalledIsVerified
    BY <1>1 DEF UpdaterInit, InstalledIsVerified
  <1>6. MovingIsChecked /\ WantsNewer
    BY DEF UpdaterInit, MovingIsChecked, WantsNewer
  <1>. QED
    BY <1>4, <1>5, <1>6 DEF UpdaterInv

\* The end of a run, however it ends, keeps the invariant.
LEMMA ExitInv ==
    ASSUME UpdaterInv, NEW u \in Updaters, Exit(u), UNCHANGED env,
           installed' \in File, InstalledIsVerified'
    PROVE  UpdaterInv'
  <1>1. TypeOK'
    BY DEF UpdaterInv, TypeOK, Exit, GoTo, env, File
  <1>2. \A v \in Updaters : pc'[v] # "idle" =>
            /\ pc'[v] = pc[v] /\ temporary'[v] = temporary[v]
            /\ current'[v] = current[v] /\ timestamp'[v] = timestamp[v]
    BY DEF UpdaterInv, TypeOK, Exit, GoTo
  <1>. QED
    BY <1>1, <1>2 DEF UpdaterInv, MovingIsChecked, WantsNewer, Outdated, IsLatest

\* A step that leaves what other runs know alone, and its own run where it has
\* nothing to move, keeps the invariant.
LEMMA RunInv ==
    ASSUME UpdaterInv, TypeOK', UNCHANGED installed, NEW u \in Updaters,
           \A v \in Updaters \ {u} :
               /\ pc'[v] = pc[v] /\ temporary'[v] = temporary[v]
               /\ current'[v] = current[v] /\ timestamp'[v] = timestamp[v],
           pc'[u] = "moving" => Verified(temporary'[u]) /\ ~Outdated(u)',
           pc'[u] \in {"requesting", "checking", "moving"} => ~IsLatest(u, timestamp[u])'
    PROVE  UpdaterInv'
  <1>1. InstalledIsVerified'
    BY DEF UpdaterInv, InstalledIsVerified
  <1>2. MovingIsChecked'
    BY DEF UpdaterInv, MovingIsChecked, Outdated
  <1>3. WantsNewer'
    BY DEF UpdaterInv, WantsNewer, IsLatest
  <1>. QED
    BY <1>1, <1>2, <1>3 DEF UpdaterInv

\* Receiving data, which is put behind what the file has.
LEMMA ReceiveTypes ==
    ASSUME TypeOK, NEW u \in Updaters, NEW data \in Deliveries, Receive(u, data),
           pc' \in [Updaters -> {"idle", "opened", "requesting", "checking", "moving"}]
    PROVE  TypeOK'
  <1>1. data \in File /\ temporary[u] \in File
    BY DeliveriesAreFiles DEF TypeOK
  <1>2. temporary[u] \o data \in File
    BY <1>1 DEF File
  <1>3. temporary' \in [Updaters -> File]
    BY <1>2 DEF Receive, TypeOK
  <1>4. untried' \in [Updaters -> 0..Mirrors]
    BY DEF Receive, Requesting, Try, TypeOK
  <1>. QED
    BY <1>3, <1>4 DEF Receive, TypeOK, env

\* Every step of an updater keeps the invariant.
LEMMA ProgressInv ==
    ASSUME UpdaterInv, NEW u \in Updaters, RunsOn(u) \/ ConnectionEnds(u) \/ Fail(u)
    PROVE  UpdaterInv'
  <1>0. TypeOK /\ InstalledIsVerified
    BY DEF UpdaterInv
  <1>1. ASSUME Exit(u), UNCHANGED <<env, installed>>
        PROVE  UpdaterInv'
    BY <1>0, <1>1, ExitInv DEF TypeOK, InstalledIsVerified
  <1>2. CASE UpdatedRecently(u) \/ AlreadyLatest(u) \/ NotFound(u) \/ CheckRaises(u) \/ Fail(u)
    BY <1>1, <1>2 DEF UpdatedRecently, AlreadyLatest, NotFound, CheckRaises, Fail
  <1>3. CASE Discover(u)
    <2>1. PICK t \in Answers : ~IsLatest(u, t) /\ timestamp' = [timestamp EXCEPT ![u] = t]
      BY <1>3 DEF Discover
    <2>2. t \in {None} \cup Versions
      BY <1>0, AnswersAreVersions
    <2>3. TypeOK'
      BY <1>0, <1>3, <2>1, <2>2 DEF TypeOK, Discover, GoTo, env
    <2>4. timestamp'[u] = t /\ current' = current /\ pc'[u] = "requesting"
      BY <1>0, <1>3, <2>1 DEF TypeOK, Discover, GoTo
    <2>5. ~IsLatest(u, timestamp[u])'
      BY <2>1, <2>4 DEF IsLatest
    <2>. QED
      BY <1>0, <1>3, <2>1, <2>3, <2>4, <2>5, RunInv DEF TypeOK, Discover, GoTo
  <1>4. CASE Refused(u)
    <2>1. TypeOK'
      BY <1>0, <1>4 DEF TypeOK, Refused, Requesting, Try, env
    <2>2. pc[u] = "requesting" /\ UNCHANGED <<installed, pc, current, timestamp, temporary>>
      BY <1>4 DEF Refused, Requesting
    <2>3. ~IsLatest(u, timestamp[u])'
      BY <2>2 DEF UpdaterInv, WantsNewer, IsLatest
    <2>. QED
      BY <2>1, <2>2, <2>3, RunInv
  <1>5. ASSUME NEW data \in Deliveries, Receive(u, data),
               pc' = pc \/ GoTo(u, "checking")
        PROVE  UpdaterInv'
    <2>1. /\ pc[u] = "requesting" /\ pc'[u] # "moving"
          /\ \A v \in Updaters \ {u} : pc'[v] = pc[v] /\ temporary'[v] = temporary[v]
          /\ pc' \in [Updaters -> {"idle", "opened", "requesting", "checking", "moving"}]
      BY <1>0, <1>5 DEF TypeOK, GoTo, Receive, Requesting
    <2>2. TypeOK'
      BY <1>0, <1>5, <2>1, ReceiveTypes
    <2>3. UNCHANGED <<installed, current, timestamp>>
      BY <1>5 DEF Receive
    <2>4. ~IsLatest(u, timestamp[u])'
      BY <2>1, <2>3 DEF UpdaterInv, WantsNewer, IsLatest
    <2>. QED
      BY <2>1, <2>2, <2>3, <2>4, RunInv
  <1>6. CASE Download(u) \/ DecompressionFails(u)
    BY <1>5, <1>6 DEF Download, DecompressionFails
  <1>7. CASE CheckPasses(u)
    <2>1. TypeOK' /\ UNCHANGED <<installed, current, timestamp, temporary>>
      BY <1>0, <1>7 DEF TypeOK, CheckPasses, GoTo, env, run
    <2>2. Verified(temporary'[u]) /\ ~Outdated(u)'
      BY <1>7, <2>1 DEF CheckPasses, Outdated
    <2>3. ~IsLatest(u, timestamp[u])'
      BY <1>7, <2>1 DEF CheckPasses, UpdaterInv, WantsNewer, IsLatest
    <2>4. \A v \in Updaters \ {u} : pc'[v] = pc[v]
      BY <1>0, <1>7 DEF TypeOK, CheckPasses, GoTo
    <2>. QED
      BY <2>1, <2>2, <2>3, <2>4, RunInv
  <1>8. CASE CheckFails(u)
    <2>1. TypeOK' /\ UNCHANGED <<installed, current, timestamp, temporary>>
      BY <1>0, <1>8 DEF TypeOK, CheckFails, GoTo, env, run
    <2>2. ~IsLatest(u, timestamp[u])'
      BY <1>8, <2>1 DEF CheckFails, UpdaterInv, WantsNewer, IsLatest
    <2>3. pc'[u] = "requesting" /\ \A v \in Updaters \ {u} : pc'[v] = pc[v]
      BY <1>0, <1>8 DEF TypeOK, CheckFails, GoTo
    <2>. QED
      BY <2>1, <2>2, <2>3, RunInv
  <1>9. CASE Move(u)
    <2>1. installed' = temporary[u] /\ Exit(u) /\ UNCHANGED env /\ Verified(temporary[u])
      BY <1>9 DEF Move, UpdaterInv, MovingIsChecked
    <2>2. installed' \in File /\ InstalledIsVerified'
      BY <1>0, <2>1 DEF TypeOK, Verified, InstalledIsVerified
    <2>. QED
      BY <2>1, <2>2, ExitInv
  <1>. QED
    BY <1>2, <1>3, <1>4, <1>6, <1>7, <1>8, <1>9 DEF RunsOn, ConnectionEnds

\* So does every step of anybody.
LEMMA UpdaterNextInv == UpdaterInv /\ [UpdaterNext]_updaterVars => UpdaterInv'
  <1>. SUFFICES ASSUME UpdaterInv, [UpdaterNext]_updaterVars PROVE UpdaterInv'
    OBVIOUS
  <1>0. TypeOK
    BY DEF UpdaterInv
  <1>1. ASSUME UNCHANGED <<installed, pc, run>>, TypeOK'
        PROVE  UpdaterInv'
    BY <1>1 DEF UpdaterInv, run, InstalledIsVerified, MovingIsChecked, WantsNewer, Outdated, IsLatest
  <1>2. CASE Publish
    BY <1>0, <1>1, <1>2 DEF Publish, TypeOK, Versions, run
  <1>3. CASE Settle
    BY <1>0, <1>1, <1>3 DEF Settle, TypeOK, run
  <1>4. ASSUME NEW u \in Updaters, Start(u)
        PROVE  UpdaterInv'
    <2>1. VersionOf(installed) \in {None} \cup Versions
      BY <1>0, VersionOfFile DEF TypeOK
    <2>2. TypeOK'
      BY <1>0, <1>4, <2>1 DEF TypeOK, Start, GoTo, env
    <2>3. /\ pc'[u] = "opened" /\ UNCHANGED <<installed, timestamp, temporary>>
          /\ \A v \in Updaters \ {u} : pc'[v] = pc[v] /\ current'[v] = current[v]
      BY <1>0, <1>4 DEF TypeOK, Start, GoTo
    <2>. QED
      BY <2>2, <2>3, RunInv
  <1>5. ASSUME NEW u \in Updaters, RunsOn(u) \/ ConnectionEnds(u) \/ Fail(u)
        PROVE  UpdaterInv'
    BY <1>5, ProgressInv
  <1>6. CASE UNCHANGED updaterVars
    BY <1>0, <1>1, <1>6 DEF updaterVars, env, TypeOK, run
  <1>. QED
    BY <1>2, <1>3, <1>4, <1>5, <1>6 DEF UpdaterNext

-----------------------------------------------------------------------------
\* The invariant of the updaters: files are made of published pieces, no run goes
\* where there is no code, what is moved has passed the check and is wanted.
THEOREM UpdaterInvariant == UpdaterSpec => []UpdaterInv
  <1>. QED
    BY UpdaterInitInv, UpdaterNextInv, PTL DEF UpdaterSpec

\* Whatever mirrors send, however updaters overlap and wherever they stop: the
\* installed database is whole and signed.
THEOREM InstalledDatabaseIsVerified == UpdaterSpec => []InstalledIsVerified
  <1>1. UpdaterInv => InstalledIsVerified
    BY DEF UpdaterInv
  <1>. QED
    BY <1>1, UpdaterInvariant, PTL

\* A file that is moved over the database an updater found is newer than that.
THEOREM MovesAreUpgrades == UpdaterSpec => OnlyNewerReplaces
  <1>1. ASSUME UpdaterInv, NEW u \in Updaters, Move(u), timestamp[u] # None,
               current[u] = VersionOf(installed)
        PROVE  VersionOf(temporary[u]) > VersionOf(installed)
    <2>1. VersionOf(temporary[u]) \in {None} \cup Versions
      BY <1>1, VersionOfFile DEF UpdaterInv, TypeOK
    <2>2. current[u] \in Nat /\ timestamp[u] \in Versions /\ VersionOf(temporary[u]) \in Nat
      BY <1>1, <2>1 DEF UpdaterInv, TypeOK, None, Versions
    <2>3. pc[u] = "moving" /\ ~(VersionOf(temporary[u]) < timestamp[u])
      BY <1>1 DEF Move, UpdaterInv, MovingIsChecked, Outdated
    <2>4. current[u] = None \/ ~(current[u] >= timestamp[u])
      BY <1>1, <2>3 DEF UpdaterInv, WantsNewer, IsLatest
    <2>. QED
      BY <1>1, <2>2, <2>3, <2>4 DEF None, Versions
  <1>2. UpdaterInv => [\A u \in Updaters : Move(u) =>
                    \/ timestamp[u] = None
                    \/ current[u] # VersionOf(installed)
                    \/ VersionOf(temporary[u]) > VersionOf(installed)]_updaterVars
    BY <1>1
  <1>. QED
    BY <1>2, UpdaterInvariant, PTL DEF OnlyNewerReplaces
=============================================================================

# libloc, specified

libloc keeps a database of IP networks with their country, AS number and flags.
A program builds a database from networks (`loc_writer_*`), others map the file
into memory and ask it for an address (`loc_database_lookup`) or list it
(`loc_database_enumerator_*`). An updater downloads new databases, an importer
makes them from registry data.

This directory holds TLA+ specifications of that system, TLC configurations that
check them on small instances, and proofs that TLAPS checks. Line numbers refer
to the sources under `src/`.

## The system

| Component | State | Operations | What makes it correct |
|---|---|---|---|
| Addresses (`libloc/address.h`) | none | compare, mask, get and set bits, increment, decrement | IPv4 is the part of IPv6 below `::ffff:0:0/96`; nothing crosses its border unnoticed |
| Networks (`network.c`) | first and last address, prefix, attributes, reference count | new, set attributes, compare, contains, subnets, exclude | a network is its first `prefix` bits |
| Network tree (`network.c:610-881`) | binary tree, one node a bit, references to network objects | add network, walk | every node's ancestors exist; a node holds the network of its own path |
| Writer (`writer.c`) | the tree, AS list, country list, string pool, keys | add, write | the file says what was added, whole and in order |
| Database (`database.c`) | the file mapped read-only, offsets of its sections | open, verify, lookup, get AS or country | a lookup finds the longest match; nothing outside the file is read |
| Enumerator (`database.c:1086-1701`) | a stack, the nodes visited, a shared address, filters, lists for flattening and bogons | set filters, next | everything that matches, in order, once; every call ends |
| Lists of networks (`network-list.c`, exclusion in `network.c:303-553`) | growing sorted array | push, pop, merge, summarise a range, exclude networks from a network | sorted, without duplicates; what is computed covers exactly the addresses it should |
| AS and country lists, string pool | arrays, one block of text | append, contains, sort, add, find | what is looked for by binary search is sorted; an offset leads to its string |
| Signatures (`writer.c:538`, `database.c:531`) | digest contexts | sign, verify twice | what is verified is what was signed |
| Updater and downloader (`location.in`, `downloader.py`, `resolv.c`) | the current database, a temporary file | discover version, download from mirrors in turn, check, rename | only a verified and newer database replaces the current one |
| Importer (`location-importer.in`) | an SQL database | parse registries, transactions | a failed import leaves the previous data |
| Bindings, export, logging | none of their own | conversions | |

The parts meet in these places. The writer's caller holds references to the same
network objects as the tree, and may change them until (and between) writes. The
writer and the reader share only the file, whose nodes refer to each other by
index. The enumerator and the lookup each build the address of a node as they go
and hand it to the same `loc_database_fetch_network`. An enumerator keeps its
search state from one call to the next. The updater replaces a file that readers
have mapped.

What is hard about it: the indices in the file are given before the things they
number exist; an address is a variable that several steps update in place, so
that bits outlive the path they belong to; IPv4 is a special case of IPv6 decided
by looking at those bits; a fixed stack; allocation failures in the middle of a
change; and, around the library, downloads and transactions that fail half way.
`PROJECT.json` lists these hazards with their lines.

## The modules

| Module | Models |
|---|---|
| `Addresses` | addresses, families, prefixes, the order of networks |
| `AddressArithmetic` | increment, decrement, subtraction by borrows and counting of bits, on the last 32 bits when an address is v4-mapped |
| `DatabaseFormat` | the network sections of the file, fetching a network, and what a well-formed database is |
| `DatabaseEncoding` | a reference definition of the file for given networks, without queues |
| `NetworkTree` | the tree of the writer, the network objects, the calls between two writes |
| `NetworkWriter` | writing the tree (composes `NetworkTree`) |
| `NetworkMap` | what the writer promises: a map that is published as a whole |
| `NetworkLookup` | `loc_database_lookup` |
| `LongestPrefixMatch` | what a lookup promises: question and answer |
| `NetworkEnumerator` | listing networks with a filter |
| `NetworkListing` | what an enumerator promises: the networks that match, once each and in order |
| `NetworkOperations` | what is computed with networks and sorted lists, one turn at a time |
| `NetworkLists` | sorted lists, summarising a range, excluding networks (extends `NetworkOperations`) |
| `DatabaseEnumerator` | flattened listings and bogons, on top of `NetworkListing` and the lists |
| `StringPool` | the pool of strings: find, append, grow |
| `DatabaseSearch` | the binary searches for an AS and for a country |
| `DatabaseFile` | a whole file: layout, stdio and a disk that fills, signatures, crashes, readers at any time |
| `Updater` | `location update`: several updaters, mirrors, the temporary file, the move into place |
| `DatabaseSections` | metadata, ASes and countries, written and read back (composes `StringPool` and `DatabaseSearch`) |
| `MC*` | these systems on small instances |
| `DatabaseFormatProofs`, `WriterAndLookupProofs`, `NetworkEnumeratorProofs`, `DatabaseEnumeratorProofs`, `NetworkListsProofs`, `DatabaseSearchProofs`, `DatabaseSectionsProofs`, `DatabaseFileProofs` (with those of `Updater`) | the proofs |

### Addresses and networks

An address is a sequence of `W` bits (128 in the code) and `V4Prefix` stands for
the 96 bits of `::ffff:0:0/96`. A network is the sequence of its first `prefix`
bits: the code keeps first address, last address and prefix, all functions of
that sequence. `V4Prefix` ends in a one, as in the code, and is shorter than an
address. Scaling both down keeps what matters: networks above, below, beside and
across the IPv4 range. A country code, an AS number and a set of flags are the
attributes, members of small sets.

### NetworkTree and NetworkWriter

`tree` is a function from the paths of the nodes that exist to the number of the
network object a node holds; `objects` are the objects made, tree members or
not. `AddNetwork` is the whole of `loc_writer_add_network`: the object, the
missing nodes, and `-EBUSY` when the node has a network, with the caller left
with an object outside the tree. `AddNetworkNoMemory` stops on the way: the last
node fails with `-ENOMEM`, any other is a NULL that is dereferenced, and the
process is gone. The setters change objects at any time between two writes.

`NetworkWriter` takes one step per node and per network written. `nodes`,
`index`, `networks` and `network_index` are the variables of
`loc_database_write_networks`; `file` is what has been written of the arrays,
with the auxiliary array `path` that says at which tree node each entry was made.
No action reads `path`. `FinishWriting` stands for the rest of
`loc_writer_write`, which does not touch the network sections; the database
counts as published when the call returns success. `WriteNodeNoMemory` is the
queue entry that cannot be allocated: a dereferenced NULL for a child, a
failed write for a network.

`NetworkMap` knows neither tree nor file: a map that grows by `Add`, changes by
`Update` (a flag is never taken away) and is published by `Publish`. The
refinement mapping takes the map from the tree and its objects, and the published
map from the arrays of the last complete file.

### NetworkLookup

The code recurses; `frames` is the stack of its calls. `Descend` and `ReachEnd`
follow one bit and set it in `network_address`. `Return` is the part of the
function after the recursive call: try the network of this node, then go back to
the caller. Bits that were set further down stay set, as in the code. At level
`W` the bit after the end of the address is read: both values are possible. The
database is any well-formed one; a lookup in a damaged file is not modelled.

`LongestPrefixMatch` asks and answers in one step each.

### NetworkEnumerator

`network_stack`, `networks_visited` and `network_address` are the enumerator's
fields. The stack starts with the root (the code never uses entry 0 of its array,
and starts with depth 1). `PushNode` is `loc_database_enumerator_stack_push_node`:
absent children are skipped, a full stack and an index out of range are errors,
and one more outcome, `overrun`, is the write to the entry behind the array that
the code's test lets through. `VisitNode` is one turn of the loop; `NextNetwork`
is the caller, who may also go on after an error. `Matches` is the filter with
its order of tests.

`NetworkListing` has no tree and no stack: a set of networks still to come, of
which each call returns the least. The refinement mapping takes for this set the
networks that match and whose node was not visited. An `irregular` database, one
with a network around the IPv4 range or one that fills the stack, may be listed
in part, but still in order and without anything that is not in it. Which trees
fill the stack can be told from the paths: a node lies on the stack above the
nodes on the way to it and above each right child that waits beside that way
(`StackPosition`), and `FillsStack` is that some node has the last place or one
behind it.

### NetworkOperations and NetworkLists

`NetworkOperations` has what is a function in the code (halves, subnets, overlap,
the insertion point, one turn of a summary), and `Remaining`, the reference for
exclusion: the largest networks inside one that avoid all others.

`list` is the caller's list and `result` the one a call has made; a call runs one
turn of its loop at a time. `Bisection` is the loop of `loc_network_list_find`,
`Find` what comes before it, `Push` their use. `start` is
the address a summary has come to; the number of addresses that are left is an
address, as in the code, and so subject to the rules for v4-mapped ones. The
recursion of `__loc_network_exclude` is a tail call, so that `halving` needs no
stack: it is the network that is halved and the one it is halved around.
`loc_network_exclude_list` first halves the network around each one on the list
into `todo` (`to_check`), then checks what it has collected from the front, and
breaks it up further; `at` is the index of the first loop and `smallest_subnet`
in the second one. Failures of the first loop end the call, failures of the second
are ignored, as in the code (`GiveUp`, `CheckPassed`). `trouble` is auxiliary and
says what has gone wrong. The attributes the halves copy are left out, and an
array that grows by blocks is any insertion that may fail. The caller makes one
call after the other and lets go of what one has returned before the next, or
merges it into its list.

### DatabaseEnumerator

`unread` is what the plain enumerator has still to return, by its promise in
`NetworkListing`; `stack` is the sorted list in front of it, a set since lists
are sorted and have no network twice (`ListsSorted`, proved for all lists). `Taken` is
`__loc_database_enumerator_next_network`, with the filter on, or off while
subnets are read ahead; `Untaken` is that without memory, when the filter is on.
The attributes that
count are whether a network matches and whether it has a country code. `Collect`
reads ahead one network at a time, `Break` replaces a network by its subnets and
what is left around them, which is `Remaining` (`RemainderIsExact`, which is
proved as well, is the reason why it may be). In the other mode, `PassNetwork`, `GapEnds` and the three steps
of `Finish` are the code around `loc_network_list_summarize`, which goes by turns
here as in `NetworkLists`, since whether it ends and what it refuses matters.
Each operation that allocates has a variant that fails, with what it leaves
behind; memory runs out once, and the caller gives up after two failed calls. One
of these failures no caller survives: when a network of the database cannot be
read ahead there is no subnet, and the code drops its reference to it all the
same, which goes through a null pointer (`database.c:1436`, `network.c:119`).
`CollectCrashes` ends in the state `"crashed"`, in which nothing more happens. A
network that was read ahead and finds no room in a list is an error that is
returned (`CollectNoMemory`).
Databases with a network around the IPv4 range are left out: they are not even
listed reliably.

### DatabaseFile

A file is a sequence of cells, one for the magic, one for the header, one for
each object or byte of padding. `file` is what stdio has accepted, `flushed` how
much of it is on the disk, `header` and `signatures` what the writer holds in
memory, `stored` the header on the disk. `loc_writer_write` goes by one step per
object. A full disk (`ChangeDisk`) makes stdio accept only what its buffer has
room for: an object that is not accepted counts all the same (`WriteObject`),
the pool counts what was accepted (`WritePoolStops`), the padding is tried again
(`Align`), a seek fails. `Sign` digests the file from behind the header and
the header from memory; `SignGarbage` is the function of OpenSSL that returns 0
and is taken for success. `Crash` keeps the disk and loses the buffer. A reader
(`OpenFile`) comes at any time, or has a copy of the first cells of what a writer
has left (`OpenCopy`); `Opens` is what `loc_database_new` checks, `Read` is what
fetching an object checks, `Verifies` is `loc_database_verify` with one key.
The header is written in the order of the code: `SeekHeader`, which may fail,
`WriteHeader`, which puts it on the disk or leaves it in the buffer, `FlushHeader`,
which is the `fflush` or the `fclose` of the caller, and `LoseHeader`, when the disk
refuses it in either: nobody looks at the result, and the write is reported as a
success. A file that is shorter than the header opens too, as the subtraction of
`loc_database_check_boundaries` is one of unsigned numbers, and what is missing is
read as zeroes, behind the end of the file in the mapped page: `Cut` has every
part of the header's fields. The root of the tree is read without asking whether
there is one (`Counted`), so that a reader without a header takes the magic for it.
Three simplifications: a field of the header is there as a whole or not at all;
the header goes to the disk as a whole, of which it is a part of one page or, with
long signatures, of two, of which a crash may keep the first (it then
has a signature that is cut, and does not verify with that); and the tree has its root, as
every tree of a writer does (`ContentsAssumption`). A
digest is a record of all that goes into it: two are equal when the digested data
are. Contents of objects are the matter of `NetworkWriter` and `DatabaseSections`.

### Updater

One process for each updater, `Timed` those that the systemd timer starts. A
version is a creation time. The temporary file is a sequence of pieces, one for
each mirror that has sent anything, because nothing ever empties it: `truncate()`
cuts where the position is. `Verified` asks for a whole signed database and
nothing else, since the digest reads to the end of the file; the version is that
of the first piece, whose header it has. A mirror that is not `healthy` sends
nothing, any old version, something unsigned, or scrap; so may the DNS
answer an old version or none. `Fail` is any exception that ends the run, or the
end of the process. `Settle` is the moment from which DNS and mirrors have the
latest version and work.

### StringPool

`data` is the string that begins at an offset of the block, `length` and `size`
are the pool's fields. `loc_stringpool_find` walks from string to string;
`First` is where it stops, and `WalkMeetsAll` is what makes this the first offset
of the string. The empty string is not looked for and appended each time, as in
the code. A failed `realloc` leaves the pool without its block, with its new
size, and returns 1 (`AppendNoMemory`); what the pool does with the next string
is undefined (`AppendLost`), and so is what comes after. The pool grows by one
block for one string: `StringsFitInBlock` assumes that none is longer.

### DatabaseSearch

One step is one fetch of an object. An object is its key; codes are integers in
the order of `strcmp`. `Sections` are the sections that can be searched, sorted or
not. `get_as` reports an absent AS as a failure, `get_country` an absent country
as a success without an object; both are the outcome `absent`.

### DatabaseSections

The writer's calls between two writes, then a write with one step for each AS and
country, then a reader. `WriteAS` and `WriteCountry` add names to the pool while
they go, whatever that returns. The objects are entries of the lists: an object
that was refused by the list (a second AS of the same number, `as-list.c:126`) is
not known to the writer and is left out, so that no property here says anything of
what its caller sets on it; `NetworkTree` has such objects of networks. `block` is the buffer on the stack of
`loc_database_write_countries`, which keeps the continent of the last country
that had one and begins with anything. `saved` and `given` are auxiliary: what
callers had set when the write began. The reader is the binary search on the
published sections (`SearchAS`, `SearchCountry`), and `ReadObject` with the
reader's pool. The network sections in between store no strings.

## The runs

| Run | Bounds | Shows |
|---|---|---|
| `writer` | `W = 3`, up to three of five networks (nested, side by side, far below), three objects, one flag, two writes, memory running out anywhere | the inductive invariant at every step, the complete file equal to the reference encoding, `NetworkMap` implemented, every write ends |
| `lookup_all` | `W = 4`, IPv4 below two bits, all databases of up to two networks, each also with a branch that holds no network, and three networks inside each other; all addresses | the inductive invariant at every step; sequences of lookups implement `LongestPrefixMatch` and return; where a network spans the IPv4 range an answer may be missing, but none is made up |
| `enumerator_lists` | `W = 4`, IPv4 below three bits, stack of 8, all databases of up to three networks, all with a full left edge, and any path with all right children beside it and two children at its end; three filters | the inductive invariant at every step; the search with its stack and its shared address implements `NetworkListing`; calls return |
| `enumerator_stack` | as above, the databases with a full left edge | violated: see below |
| `enumerator_modes` | `W = 7`, three of them IPv4, all databases of up to three out of eleven networks, one of them filtered or without a country, memory running out once anywhere, two failed calls | the invariants of both modes at every step (`ListingInv`); flattened, each address comes once, in order and with its longest match; as bogons, the gaps and all of them; calls return, but for the crash of the read-ahead |
| `bogons` | as above, two networks one address apart | violated: see below |
| `lists_calls` | `W = 6`, IPv4 below four bits, six networks, eight ends of ranges, lists of up to two networks pushed, up to three merged or excluded | lists are sorted; a merge is the union; summaries and remainders are exact and disjoint; refusals are the known ones; calls return |
| `search` | ascending sections of up to five keys, any order up to three, six keys of which one is invalid | range, answer, number of fetches |
| `sections_readback` | two ASes or countries, two continents, two names and the empty one, a vendor, one write, a pool of up to two blocks | the inductive invariant at every step, with the layout of the pool; stable offsets, what was set reads back, searches find it |
| `database_file` | pages of three cells, a buffer of two, three contents of up to eight objects, none, one or two keys and a third one to verify with, a disk that fills twice | what a reader reads and verifies, at any time and of any part, down to a part of the header; a file reported as written has its header, or the disk has refused something; the writer ends |
| `updater` | two updaters (timer and hand), two mirrors, two versions | the inductive invariant at every step; what is installed is whole and signed, is replaced by newer ones only, and is the latest in the end unless the run of the timer hangs in a connection |
| `updater_mirrors` | the same | violated: see below |

Why these bounds. Three networks are enough for nesting, siblings and a third in
another branch; `V4Prefix` of three bits with two ones in a row is the shortest in
which a left over bit of one branch completes the prefix on another. A deeper tree
adds no case to the writer: what its steps see is a node, its two children and
two queues. The stack is `2 * W` as it is in the code (256 for 128 bits). In the
lists and modes the IPv4 prefix is longer than the bits behind it, as in the code
(96 and 32): only then can a number of addresses look like an IPv4 address. Their
networks lie around, in and beside the IPv4 range, at the ends of the families,
adjacent and apart. The contents of `database_file` have empty sections, sections
that end on a page and behind one, and a pool that does not fit into the
buffer; a disk that fills twice can refuse objects of two sections, or an
object and the pool. Two mirrors are what it takes to
append to a temporary file, two versions to go back by one, two updaters to
overtake each other.

Fairness. A call of the library runs to its end once it is made
(`WF_vars(Write)`, `WF_vars(Step)`, `WF_vars(Turn)`): a single thread without
blocking calls. In `DatabaseFile` a turn of the padding loop that stdio does not
accept is a stutter, so that `WriteEnds` asks for a disk that does not
stay full. In `Updater` a run goes on by itself (`RunsOn`; the
resolver has a timeout), and the timer starts the next one when it has ended
(`Start` of `Timed` only). How a connection ends (`ConnectionEnds`) has no fairness:
the downloader sets no timeout (`downloader.py:96`), so that a mirror may keep a run
waiting forever, and `LatestGetsInstalled` says that it is this, of every updater
that the timer starts, or the latest version gets installed. Callers owe nothing: no
fairness on adding, writing, looking up, asking for the next network, publishing,
or on running an update by hand. `CHECK_DEADLOCK FALSE` where a system may stop:
the writer at its bounds or after a crash, an enumerator at its end, a file that
is read.

Every property of the passing runs has a faulty variant of one definition, marked
`Fault` in the modules and used nowhere, under which TLC finds the property
violated; `PROJECT.json` lists them as mutants.

### What the runs found

* `enumerator_stack`: the test at `database.c:1254` lets the 256th entry through
  and the entry is written behind the array, in the field that follows it. It
  takes a tree with a path to a single address at which the search goes left past a
  right child at every level, or at every level but one; `ImplementsListing`
  shows that nothing else gets there.
* `bogons`: `loc_network_list_summarize` refuses a range of a single address
  (`network-list.c:322`), and the search for bogons asks it for one when two
  networks are one address apart: the call fails. It also fails when a network has
  the first address of its family, where the decrement stops, or the last one,
  where the increment does: the gap in front of it, or behind it, is then that one
  address.
* `updater_mirrors`: what one mirror has sent stays in the temporary file, and what
  the next one sends is put behind it (`downloader.py:165`). After one bad or
  outdated download no other mirror can help in that run; the next run can, which
  is why `LatestGetsInstalled` holds.

### What the properties except

The code departs from the obvious promise in more places. They are stated as
exceptions of a property, which then shows that there are no others. Of most of
them no document, comment or test says anything. The networks that
`Unnoticed` names are different: what becomes of them contradicts a comment and
the manual, see below, and no run of its own shows it.

* A network that contains the IPv4 range, `::/0` for example, may not be found for
  an IPv4 address: on the way back `loc_network_new_from_database_v1` takes it for
  an IPv4 one and subtracts 96 from a smaller prefix
  (`ImplementsLongestPrefixMatch`). The same subtraction may fail an enumeration
  when bits left over from another branch complete the prefix (`irregular` in
  `ImplementsListing`).
* Flattened, a merge of subnets that runs out of memory half way loses the others,
  whose addresses then come as a part of the network around them
  (`FlattenedIsLongestMatch`). After any failed call networks may be missing.
* A network of a single address right where a gap starts, at the first address of
  the family or behind another network, is skipped, and its address becomes a part
  of the bogon that follows: the comparison at `database.c:1585` is `>=`. The comment
  above it says "Skip if this network is a subnet of a former one", which it is not,
  and `man/location.txt:86` that bogons are "networks that are unknown to the
  database", which it is not either. `Unnoticed` names these networks, and `BogonsAreGaps`
  shows that no other one meets a bogon.
* Bogons next to the IPv4 range: gaps around IPv6 networks in the block that
  ends with it, or next to it, are not computed right (`NearV4` in `BogonsAreGaps`):
  their ends are taken for IPv4 addresses, or the number of their addresses is, or
  the decrement stops half way: `loc_address_decrement` asks in each turn whether the
  address is v4-mapped, which `::ff00:0:0` becomes on the way, so that the address
  before it is `::ffff:ffff:ffff` (`BecomesMapped`; with the prefix of the runs, which
  has a single one, there is no such address, and the proofs are for any prefix). A
  family without any network has no bogons (`BogonsAreComplete`). After a failed call,
  the stack holds what was summarised for a network that is gone, and what comes
  may overlap (`trouble` in `BogonsAreGaps`).
* `loc_network_list_summarize` keeps the number of addresses that are left in a
  `struct in6_addr`. Between 2^48 - 2^32 and 2^48 this looks like an IPv4 address,
  so that `loc_address_increment` and `loc_address_bit_length` look at its last 32
  bits only (`network-list.c:352`). The networks become too small, or the prefix
  one too long and the call fails. `SummaryIsExact` shows that what is summarised
  is right nevertheless, `RefusalsAreKnown` that no other range of one family is
  refused. The number of all addresses of a family does not fit either, and comes as
  two halves. `Miscounted` has both cases, and `SummaryIsMinimal` excepts them.
* `loc_network_exclude_list` returns nothing, and not the network, when no listed
  network is a strict part of it (`RemainderIsExact`); a network around the IPv4
  range that has to be halved at `::ffff:0:0` is refused (`RefusalsAreKnown`), or,
  while parts are checked, silently dropped.
* A country of which no continent was set is written with what the buffer holds,
  uninitialised or left over from the country before; one without a name refers
  to offset 0, the first string of the pool (`CountriesReadBack`). The list of
  countries is never sorted: the importer adds them by `ORDER BY country_code`
  (`location-importer.in:392`), which is enough (`AddedAreFound`), but other users
  of the interface lose countries.
* A flattened listing that cannot read ahead ends the process (`CallReturns`,
  `CollectCrashes`).
* A pool that cannot grow returns the 1 of its helper, which its callers take for
  an offset (`writer.c:198`): that offsets lead to strings, and what reads back, is stated
  for as long as memory lasts.
* On a full disk objects may be missing from a file that was written, signed and
  verifies, if there is room again for the header (`refused` in
  `ReadsAreRight` and `VerifiedIsWhole`), or the header itself, and the write is
  reported as a success: such a file opens as an empty database and does not verify
  (`WrittenVerifies`). A reader without a header takes the magic for the root of the
  tree, and gets from there to errors only (`ReadsAreRight`). A pool that is longer than all of the
  file passes `loc_database_check_boundaries`, and reading it ends the process
  (`ReadsAreRight`). A signature of garbage counts as success
  (`WrittenVerifies`).
* Without an answer of the DNS an updater may go back to an older database
  (`OnlyNewerReplaces`). A mirror that keeps a connection open without an end keeps
  the timer from trying again (`LatestGetsInstalled`).

## The proofs

The theorems on the writer hold for every `W`, every `V4Prefix` that ends in a one,
every set of candidates and attributes and any number of objects and writes. The
assumptions are the named `ASSUME`s of the modules; they say no more than what the
constants are.

* `WriterInvariant`, `WritesWellFormed` (`WriterAndLookupProofs`).
  That a complete file is well-formed is not inductive: when it is completed it
  is too late. `WriterInv` says of every moment of a write that the nodes written
  followed by the nodes queued (`Discovered`) are numbered by their position,
  that each of them is discovered once and from its parent, and that each index
  stored in a written node is the position of the child in `Discovered`; and the
  same of the networks and their queue. There is one lemma per action. When the
  queue is empty, everything discovered is written, and every node of the tree
  is: a shortest node that is not would have a parent that is, which stores the
  index of the child (`EveryNodeWritten`).
* `CompleteFileIsRight` (`WriterAndLookupProofs`): the complete file is the one
  `DatabaseEncoding` gives for the tree, which knows no queue and numbers nodes and
  networks by counting those that come before. It needs that what is discovered
  is in the order of the levels, and the networks numbered in the order of their
  nodes with no number left out (`LevelByLevel`, a part of `WriterInv`). The first
  is inductive because the queue is: children come after everything discovered,
  since each of those is the root or the child of a node before theirs. A sequence
  in that order lists the set of its members, and the place of each is its rank
  (`SortedIsRanked`), once for the nodes and once for the networks.
* `CompleteFileIsTree`, `WriterImplementsMap` (`WriterAndLookupProofs`). From
  the invariant, the contents of the complete file are those of the tree, and so
  every step of the writer and its callers is a step of `NetworkMap` or none:
  adding is `Add` or nothing (`-EBUSY`), a setter is `Update` or nothing (the
  object is not in the tree), completing a write is `Publish`.
* `LookupInvariant`, `LookupImplementsLongestPrefixMatch` (`WriterAndLookupProofs`),
  for every well-formed database. The assumption is what `WritesWellFormed` proves
  of what the writer publishes, so that the two theorems together lead from
  adding a network to finding it. That an answer is the longest match is only
  known at the end; what holds during a call is that the frames are the path of
  the address (`OnTheWay`) and, once the tree has ended, that no network below
  the frame contains the address, but for one that spans the IPv4 range
  (`NothingBelow`). A node without the child that is asked for has no network
  below it on that path (`TreeEnds`), a leaf has exactly one network, its own
  (`LeafIsNetwork`), and fetching it gives that network or, if it spans the IPv4
  range, possibly nothing (`FetchedNetwork`).
* `EnumeratorInvariant`, `EnumeratorImplementsListing` (`NetworkEnumeratorProofs`),
  for every well-formed database, any filters and a stack of any size. That
  networks come in order is not inductive, and neither is that the stack does not
  overrun. `StackIsPath` says that each entry lies where its path puts it
  (`StackPosition`), which is what makes `FillsStack` the exact condition;
  `PendingInOrder` that of the entries still to be visited the one on top is left
  of all others, and that the shared address is right for each of them up to its
  own bit, whatever other branches have left behind that; `VisitedInOrder` that
  what was not visited is what those entries lead to, and comes behind all that
  was visited. Visiting a node replaces one pending entry by up to two, which
  lead to the same nodes but for itself. The proof has found an error of the
  model: `FillsStack` first named one shape of tree only, and one with a right turn
  on the way fills the stack as well.
* `FlattenedInvariant`, `FlattenedIsRight`, `FlattenedIsWhole`
  (`DatabaseEnumeratorProofs`), for every database and any failures of calls, those
  that return and the one that ends the process (`CrashKeeps`). That each
  address comes with its longest match takes an order in which nothing is written
  down: the enumerator knows no more than a list, the database behind it, and the
  network in its hand. `FlattenedInv` says that these are in order, and that the
  list and the subnets come before whatever inside a network is still to be read
  (`InFront`); that a part of a network has no address of a more specific one,
  while the networks inside one that is still whole are all still to come
  (`MoreSpecificFirst`); that what was returned lies in front of the rest
  (`ReturnedInFront`); and, as long as nothing has failed, that no address of a
  network that matches was dropped on the way (`NothingLost`). Reading ahead stops
  at the first network that is no subnet, and that is enough since networks
  inside another follow it without a gap (`TakenIsFirst`, `UntakenIsBehind`, and
  the lemmas on the order of paths in `DatabaseFormatProofs`, which the listing
  shares). What is left around the subnets is disjoint from them and in order
  (`ExcludedParts`), and nothing is missing from it (`ExcludedIsAll`). Networks are
  paths here, and what is proved of paths holds for every `W`; `Remaining` stands for
  the exclusion, of whose own steps `RemainderIsWhole` proves it.
* `ListingInvariant`, `BogonsAreRight`, `BogonsAreAll` (`DatabaseEnumeratorProofs`),
  for every database without a network near the IPv4 range, every `W`, and a
  listing that has not failed yet. Neither is inductive: that a bogon is free of
  networks is decided when a gap is found, several calls before the bogon is
  returned, and that none is missing only when the family is finished. `BogonsInv`
  says where the gaps are in between. The next one starts at the first address of
  its family, or behind a network that comes before all those still to be read
  (`GapStarts`). What is left of a gap lies between its start and the network that ends
  it, and no network that is noticed has an address there (`GapInHand`). A network
  is still to be read, or in front of the next gap, until its family is finished
  (`NetworksPassed`), which is where those of a single address must be excepted:
  `ReadFromGap` shows that of what is read, only they and subnets of a former network
  do not end behind the start of the gap. Bogons are in order and in front of
  the gaps still to be found (`BogonsInFront`), apart from networks
  (`BogonsOutside`), and together with the networks they have every address there
  (`SettledInFront`). The last one holds at every turn because the network that is
  summarised is the next aligned one: no address between the last and the next is
  skipped (`DecrementIsPrevious`, `BehindInFamily`), and it never leads across the
  end of the gap. A gap that starts at `::` would do so through the IPv4 range, if its
  first network were smaller than the block the range is in; it is not, since the
  gap ends beyond that block (`FirstFits`): this is what `NearV4` is about. That
  FINISH leaves nothing takes that all networks of the family are passed
  (`CloseIs`, `ResetIs`). The proof has corrected the property: the one that was
  checked before held in the run, whose networks did not have one of a single address
  right behind another.
* `ListsStaySorted`, `MergesAreUnions`, `SummariesAreExact`, `SummariesAreMinimal`,
  `RemainderIsApart`, `RemainderIsWhole`, `RefusalsProved` (`NetworkListsProofs`), for
  every `W` and lists of any length.
  - That a list is sorted depends on the place that the bisection returns. It is a
    recursive function over its own variables, and that there is one such function
    takes an argument: each turn leaves fewer networks to look at, so a smallest
    set of values on which the turns do not determine it cannot exist
    (`BisectionIsLoop`). Everything in front of `lo` stays smaller, everything
    behind `hi` larger than what is looked for (`TurnNarrows`, `BisectionFinds`),
    and so a network is inserted where it belongs, if it is not there already
    (`FindIsRight`, `PushIsRight`). `ListsInv` adds what a merge has still to do:
    all of the union is in the list, or behind `at` in the one that is merged.
  - The code has the second half of a network start behind the end of the first
    one, by an increment; that this is the second child takes the carry through
    the bits, and the special treatment of IPv4 addresses (`IncrementIs`,
    `HalvesAreChildren`). It is not if the first half ends where the IPv4 range
    does but starts before it: of `::ffff:ffff:ffff`, only the last 32 bits are
    incremented. That network must then be refused since its prefix is longer than
    an IPv4 address, which takes `HalvingAssumption`: there is a zero in `V4Prefix`
    behind as many bits as an IPv4 address has of its own. The network in question
    is `::/79`, with a half of 80 bits; `::ffff:0:0/96` has 48 such zeroes.
  - What is returned by an exclusion is apart from the others only because the
    halves are checked in the order of the list while they are broken up further.
    `ExcludeInv` says where its loops are: `halving` is inside the network of the
    call and around the one it is halved around (`HalvedInv`); whatever is kept
    is a half of a network that meets one of the list, and what is on the
    result is a network that remains (`KeptInv`); while halves are collected, each
    stems from a network in front of `at` (`CollectInv`), and once they are
    checked, the networks in front of `at` are left of everything that is still to
    be checked (`CheckInv`), so that the search may start behind them. That nothing
    is missing is `ReachedInv`: each network that remains is on the result, or
    inside one that is still to be checked or halved, unless something has failed.
  - What may be refused (`RefusalsInv`) takes that the start of what is left of a
    range is inside the range, and so of its family, since IPv4 addresses have no
    others between them (`V4IsConvex`); a prefix is then too long only if the
    number of addresses was a wrong one (`RefusedIsMiscounted`).
  - What a summary consists of (`SummaryInv`) takes the size of the networks from the
    number of addresses that are left. Subtraction is a borrow at each bit, which
    looks at all bits behind it and needs no recursion: so no sum over bits, and no
    induction, is needed to show that a network of 2^n addresses ends in the range
    if the difference, incremented, has more than n bits (`SmallDifference`,
    `CountedFits`), and that every one that ends there is counted if the number is
    right (`CountedIsEnough`). The first makes the summary
    exact even when the number is a wrong one, which is then too small; the second makes each
    network that starts on an even boundary the largest one there (`LargestInv`), so
    that no two are the halves of one.
* `PoolKeepsLayout`, `PoolOffsetsLead`, `PoolOffsetsStable`, `PoolTypeCorrect`
  (`DatabaseSectionsProofs`). The invariant is the layout: strings end where others
  begin or where the pool does, do not overlap, and none but the empty one occurs
  twice. One lemma says that storing a new string behind the others keeps it; the
  ways of adding a string are its cases. The assumptions are those on the lengths
  of strings.
* `SearchIsCorrect`, `SearchInRange`, `SearchKeepsRange`, `SearchIsLogarithmic`
  (`DatabaseSearchProofs`), for sections of any length. The invariant is
  `SearchNarrows`: the range lies in the section, and in an ascending one what is
  looked for lies in the range.
* `SectionsInvariant`, `EverythingReadsBack`, `AddedIsFound`, `SectionsUsePool`
  (`DatabaseSectionsProofs`), for lists and pools of any length and any number of
  writes. What reads back at the end takes what holds in between: while a file is
  written, its objects are the first ones of the lists, each with an offset that
  leads to its string in the pool of the writer (`WritingInv`), which it still does
  when the pool has grown (`StringsStay`, `AgreeStill`); metadata has such offsets
  from the moment it is set (`MetadataAgrees`); with the pool the file takes them
  along (`PublishedInv`). All of it is stated for as long as memory lasts: after a
  failure to grow, offsets lead anywhere. The reader's searches are two instances of
  `DatabaseSearchProofs`, in the keys of the last file: an AS is found because the
  list was sorted (`SortedList`) and has none twice (`AddedOnce`). `Sorted` is any
  permutation in order, since that a sort ends with one is an induction, and no
  promise of the code but of `qsort`.

* `ReadsProved`, `VerifiedProved`, `WrittenProved` (`DatabaseFileProofs`), for
  sections, pages and buffers of any size, any keys and a disk that fills as often
  as it likes. That what verifies is whole is not inductive: it takes that a
  signature in memory is that of the file and the header as they still are
  (`SignaturesGenuine`), which takes that nothing is written after the first
  signature but the header; that objects stay where the header says while the
  file grows (`ObjectsInPlace`), and that the pool ends with the file even when
  objects were refused (`Laid`); that the header comes last, when the buffer is
  empty, and that a success without one means that the disk has refused it
  (`HeaderLast`); and so that a reader has come too early, with nothing, or when
  all was there, or has not even all of the header (`Early`, `Late`, `Torn`). What
  the last two of these read is `ReadsWithHeader`; what the others do,
  `ReadsWithoutHeader`, takes that the file begins with the magic
  (`MagicFirst`), the one object that can be taken for another. A file that is cut off has another digest
  because its rest is shorter (`DigestProperties`): this, and no assumption on
  the keys, is why it does not verify. `WriteInv` has one lemma for each group of
  the writer's steps.
* `UpdaterInvariant`, `InstalledDatabaseIsVerified`, `MovesAreUpgrades`
  (`DatabaseFileProofs`),
  for any number of updaters, mirrors and versions. `InstalledIsVerified` needs
  that what is about to be moved has passed the check and nobody else writes to it
  (`MovingIsChecked`), and the action property needs that a mirror is only asked
  when what was found is older than what the DNS said (`WantsNewer`).

What is only model-checked is liveness (`WritesFinish`, `LookupReturns`, `WriteEnds`,
the `CallReturns` of three modules, `LatestGetsInstalled`), which is out of the
prover's reach.

## Not modelled

* Parsing and formatting of addresses, the DNS reply, logging, i18n, the
  conversions of the Python and Perl bindings: no property here depends on them.
* Reference counts, and the arrays of lists that grow by blocks. A failed growth
  is a failed insertion in the lists of networks; in the lists of ASes and
  countries it is left out.
* The enumerations of ASes and countries: a counter over the fetches that
  `DatabaseFile` and `DatabaseSearch` have.
* The other subcommands of `location`, the export, and the dump: queries, and the
  formatting of what they return.
* The importer. Which rows it writes is decided by SQL that PostgreSQL executes,
  and its nested transactions mean what PostgreSQL makes of them: there is no code
  under `src/` to translate.
* The cryptography. A digest is what was digested, and only a key's owner signs.
* Files that are damaged within (readers are checked on any part of a file that
  the writer has written), that are written again while readers have them mapped,
  or that a file system loses in a power failure.
* Of memory that runs out, the failures modelled are those that leave something
  behind: in the tree, in the queues of a write, in the pool, in a list, in an
  enumeration.

## What could be added

1. Readers of a file that is written a second time in place.

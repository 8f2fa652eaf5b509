--------------------------- MODULE NetworkLookup ---------------------------
(***************************************************************************)
(* Looking up an address: loc_database_lookup in src/src/database.c.       *)
(*                                                                         *)
(* The code descends the tree recursively along the bits of the address    *)
(* and, when the tree ends, tries the networks on the way back up.  The    *)
(* frames of the recursion are the node indices they were called with, so  *)
(* the level of a frame is its position.  The database is an input: any    *)
(* one of Databases, mapped read-only.                                     *)
(***************************************************************************)
EXTENDS DatabaseFormat

CONSTANT Databases

\* What a writer publishes is well-formed (PublishedWellFormed in NetworkWriter).
ASSUME DatabasesAssumption == \A d \in Databases : WellFormed(d)

VARIABLES db,               \* the database
          state,            \* "idle", "descending" or "returning"
          address,          \* the address looked up last, NoAddress before the first call
          frames,           \* the node index of each active call, outermost first
          network_address,  \* the bits followed so far, in a zeroed address
          network           \* *network: what was found, {} for NULL

lookupVars == <<db, state, address, frames, network_address, network>>

\* A call in progress: its level, its node and the bit it follows.
Level == Len(frames) - 1
ThisNode == NodeAt(db, frames[Len(frames)])

LookupInit ==
    /\ db \in Databases
    /\ state = "idle"
    /\ address = NoAddress
    /\ frames = <<>>
    /\ network_address = AllZeroes
    /\ network = {}

-----------------------------------------------------------------------------
\* Fault: nodes are counted from one.
LookupFromOne(a) ==
    /\ state = "idle"
    /\ state' = "descending"
    /\ address' = a
    /\ frames' = <<1>>
    /\ network_address' = AllZeroes
    /\ network' = {}
    /\ UNCHANGED db

\* loc_database_lookup
Lookup(a) ==
    /\ state = "idle"
    /\ state' = "descending"
    /\ address' = a
    /\ frames' = <<0>>
    /\ network_address' = AllZeroes
    /\ network' = {}
    /\ UNCHANGED db

\* The bit at the current level.  A node at level W is reached by the address of
\* a single host; the code then reads, and sets, the bit after the last one, and
\* what it reads may be either.
NextBits == IF Level < W THEN {address[Level + 1]} ELSE Bit

Follow(bit) == network_address' = IF Level < W
                                  THEN SetBit(network_address, Level + 1, bit)
                                  ELSE network_address

\* Fault: a call for a node without a network does not return to its caller.
CallerOfLeaf == IF IsLeaf(ThisNode) THEN SubSeq(frames, 1, Level) ELSE frames

Caller == SubSeq(frames, 1, Level)

\* There is a node further down: call for it, or, if its index is out of range,
\* give up on this node with ERANGE, its network left untried.
Descend ==
    /\ state = "descending"
    /\ \E bit \in NextBits :
          LET child == Child(ThisNode, bit) IN
          /\ child > 0
          /\ Follow(bit)
          /\ IF child >= Len(db.nodes)
             THEN /\ frames' = Caller
                  /\ state' = IF Level = 0 THEN "idle" ELSE "returning"
             ELSE /\ frames' = Append(frames, child)
                  /\ UNCHANGED state
    /\ UNCHANGED <<db, address, network>>

\* The tree ends here.
ReachEnd ==
    /\ state = "descending"
    /\ \E bit \in NextBits :
          /\ Child(ThisNode, bit) = 0
          /\ Follow(bit)
    /\ state' = "returning"
    /\ UNCHANGED <<db, address, frames, network>>

\* Fault: the level is that of the call that failed below.
HandleLeafBelow ==
    IF IsLeaf(ThisNode)
    THEN {n \in FetchNetwork(db, network_address, Level + 1, ThisNode.network) :
              MatchesAddress(n.path, address)}
    ELSE {}

\* __loc_database_lookup_handle_leaf
HandleLeaf ==
    IF IsLeaf(ThisNode)
    THEN {n \in FetchNetwork(db, network_address, Level, ThisNode.network) :
              MatchesAddress(n.path, address)}
    ELSE {}

\* The calls below found nothing: this node's network is tried.  When it is no
\* match, or there is none, the caller is next; when it is, all callers return it.
Return ==
    /\ state = "returning"
    /\ network' = HandleLeaf
    /\ IF network' # {} \/ Level = 0
       THEN state' = "idle" /\ frames' = <<>>
       ELSE frames' = Caller /\ UNCHANGED state
    /\ UNCHANGED <<db, address, network_address>>

Step == Descend \/ ReachEnd \/ Return

LookupNext == Step \/ \E a \in Address : Lookup(a)

\* A call runs to its end once it is made.
LookupSpec == LookupInit /\ [][LookupNext]_lookupVars /\ WF_lookupVars(Step)

-----------------------------------------------------------------------------
(* Properties *)

\* Types: above all, a frame never has a node that is not in the database.
LookupTypeOK ==
    /\ db \in Database
    /\ state \in {"idle", "descending", "returning"}
    /\ address \in Address \cup {NoAddress}
    /\ frames \in Seq(0..(Len(db.nodes) - 1))
    /\ network_address \in Address
    /\ network \in SUBSET Found

\* The calls that are active are for the nodes on the path of the address, one
\* for each level from the root, and network_address is right as far as that.
OnTheWay ==
    /\ address \in Address /\ network = {}
    /\ frames # <<>>
    /\ \A k \in 1..Len(frames) : db.path[frames[k] + 1] = Masked(address, k - 1)
    /\ \A i \in 1..Level : network_address[i] = address[i]

\* On the way back, a network of the database further down that contains the
\* address can only have been missed if it spans the IPv4 range.
NothingBelow ==
    \A p \in NetworksOf(db) : OnPath(p, address) /\ Len(p) > Level => SpansV4(p)

\* Type correctness, above all that frames has nodes of the database only, and
\* what is known of the path during a call: where it is, and what is not below.
LookupInv ==
    /\ LookupTypeOK
    /\ state # "idle" => OnTheWay
    /\ state = "returning" => NothingBelow

\* The lookup, with its descent and its way back, implements the abstract
\* question and answer: it returns the longest network that contains the address,
\* with the attributes the database has for it, or nothing if no network does.
\* Whatever the database holds, it is never a network made up from the bits left
\* in network_address by the descent below it.
LPM == INSTANCE LongestPrefixMatch
          WITH contents <- ContentsOf(db),
               asked <- IF state = "idle" THEN NoAddress ELSE address,
               answer <- network
ImplementsLongestPrefixMatch == LPM!Spec

\* Every lookup returns: the descent ends, and so does the way back.
LookupReturns == state # "idle" ~> state = "idle"
=============================================================================

------------------------- MODULE NetworkEnumerator -------------------------
(***************************************************************************)
(* Listing the networks of a database, with a filter:                      *)
(* loc_database_enumerator_next_network in src/src/database.c, without     *)
(* flattening.                                                             *)
(*                                                                         *)
(* The tree is searched depth first with a stack of fixed size.  A node is *)
(* expanded under its children and removed when it is seen again.  The     *)
(* path to a node is not stored: each node sets one bit of the shared      *)
(* network_address and leaves the bits behind it as they are.  A call      *)
(* returns at the first network that matches, the next one goes on.        *)
(***************************************************************************)
EXTENDS DatabaseFormat, SequencesExt

CONSTANTS Databases,
          Filters,        \* what callers ask for, see Filter
          MaxStackDepth,  \* MAX_STACK_DEPTH, 256 for 128-bit addresses
          Unset           \* NULL

VARIABLES db,               \* the database
          filter,           \* what the enumerator is set up to return
          state,            \* "idle", "searching", or "overrun" when the stack was overrun
          network_stack,    \* the nodes of the stack, from network_stack[1]
          networks_visited, \* the nodes expanded so far
          network_address,
          outcome,          \* how the last call ended: "network", "end", "error", or "none"
          returned          \* auxiliary: the networks returned so far

vars == <<db, filter, state, network_stack, networks_visited, network_address,
          outcome, returned>>

\* The lists are Unset or given, and may be given empty.
Filter == [family : {"any", "IPv4", "IPv6"},
           countries : {Unset} \cup SUBSET Countries,
           asns : {Unset} \cup SUBSET ASNs,
           flags : SUBSET Flags]

\* What a writer publishes is well-formed (PublishedWellFormed in NetworkWriter).
ASSUME DatabasesAssumption == \A d \in Databases : WellFormed(d)
ASSUME FiltersAssumption == Filters \subseteq Filter
ASSUME MaxStackDepthAssumption == MaxStackDepth \in Nat /\ MaxStackDepth > 1

\* struct loc_node_stack
StackNode(offset, bit, depth) == [offset |-> offset, i |-> bit, depth |-> depth]

Init ==
    /\ db \in Databases
    /\ filter \in Filters
    /\ state = "idle"
    /\ network_stack = <<StackNode(0, 0, 0)>>
    /\ networks_visited = {}
    /\ network_address = AllZeroes
    /\ outcome = "none"
    /\ returned = <<>>

-----------------------------------------------------------------------------
\* loc_database_enumerator_match_network: the family must match, and one of the
\* criteria, if there is any.  No country code is in no list of countries.
Matches(network) ==
    LET a == network.attributes IN
    /\ \/ filter.family = "any"
       \/ filter.family = (IF IsV4(network.path) THEN "IPv4" ELSE "IPv6")
    /\ \/ filter.countries = Unset /\ filter.asns = Unset /\ filter.flags = {}
       \/ filter.countries # Unset /\ a.country \in filter.countries \ {NoCountry}
       \/ filter.asns # Unset /\ a.asn \in filter.asns
       \/ filter.flags \cap a.flags # {}

\* Fault: absent children are put on the stack.
PushAbsent(pushed, offset, bit, depth) ==
    IF pushed.result # "ok" \/ Len(pushed.stack) + 1 >= MaxStackDepth THEN pushed
    ELSE [stack |-> Append(pushed.stack, StackNode(offset, bit, depth)), result |-> "ok"]

\* loc_database_enumerator_stack_push_node: the stack after it and whether it
\* worked.  It is full at MaxStackDepth nodes; the array has the indices 0 to
\* MaxStackDepth - 1.
PushNode(pushed, offset, bit, depth) ==
    LET stack == pushed.stack IN
    IF pushed.result # "ok" \/ offset = 0 THEN pushed
    ELSE IF Len(stack) >= MaxStackDepth \/ offset >= Len(db.nodes)
    THEN [stack |-> stack, result |-> "error"]
    ELSE IF Len(stack) + 1 = MaxStackDepth THEN [stack |-> stack, result |-> "overrun"]
    ELSE [stack |-> Append(stack, StackNode(offset, bit, depth)), result |-> "ok"]

Top == network_stack[Len(network_stack)]

\* The caller asks for the next network, until there is none.
NextNetwork ==
    /\ state = "idle"
    /\ outcome # "end"
    /\ state' = "searching"
    /\ UNCHANGED <<db, filter, network_stack, networks_visited, network_address,
                   outcome, returned>>

ReturnEnd ==
    /\ state = "searching"
    /\ network_stack = <<>>
    /\ state' = "idle"
    /\ outcome' = "end"
    /\ UNCHANGED <<db, filter, network_stack, networks_visited, network_address, returned>>

\* Fault: the root is never removed.
WithoutTopUnlessRoot ==
    IF Len(network_stack) = 1 THEN network_stack
    ELSE SubSeq(network_stack, 1, Len(network_stack) - 1)

WithoutTop == SubSeq(network_stack, 1, Len(network_stack) - 1)

\* The node was expanded before, everything below it is done.
RemoveVisited ==
    /\ state = "searching"
    /\ network_stack # <<>>
    /\ Top.offset \in networks_visited
    /\ network_stack' = WithoutTop
    /\ UNCHANGED <<db, filter, state, networks_visited, network_address, outcome, returned>>

\* The search goes on, or the call returns.
Continue == UNCHANGED <<state, outcome, returned>>
ReturnError == state' = "idle" /\ outcome' = "error" /\ UNCHANGED returned
Overrun == state' = "overrun" /\ UNCHANGED <<outcome, returned>>
ReturnNetwork(network) ==
    /\ state' = "idle"
    /\ outcome' = "network"
    /\ returned' = Append(returned, network)

\* The bit of the node is set, its children go on the stack, the one child
\* first, and its network, if it has one, is returned if it matches.
VisitNode ==
    /\ state = "searching"
    /\ network_stack # <<>>
    /\ Top.offset \notin networks_visited
    /\ network_address' = SetBit(network_address, IF Top.depth > 0 THEN Top.depth ELSE 1, Top.i)
    /\ networks_visited' = networks_visited \cup {Top.offset}
    /\ LET n == NodeAt(db, Top.offset)
           one == PushNode([stack |-> network_stack, result |-> "ok"], n.one, 1, Top.depth + 1)
           zero == PushNode(one, n.zero, 0, Top.depth + 1)
           fetched == FetchNetwork(db, network_address', Top.depth, n.network)
           failed == zero.result = "error" \/ (IsLeaf(n) /\ fetched = {})
       IN /\ network_stack' = zero.stack
          /\ \/ zero.result = "overrun" /\ Overrun
             \/ zero.result # "overrun" /\ failed /\ ReturnError
             \/ zero.result = "ok" /\ ~IsLeaf(n) /\ Continue
             \/ /\ zero.result = "ok" /\ IsLeaf(n)
                /\ \E network \in fetched :
                      IF Matches(network) THEN ReturnNetwork(network) ELSE Continue
    /\ UNCHANGED <<db, filter>>

Step == ReturnEnd \/ RemoveVisited \/ VisitNode

Next == NextNetwork \/ Step

\* A call runs to its end once it is made; the caller need not make another.
Spec == Init /\ [][Next]_vars /\ WF_vars(Step)

-----------------------------------------------------------------------------
(* Properties *)

\* Type correctness: above all, the stack holds nodes of the database and their
\* depths are levels of the tree.
TypeOK ==
    /\ db \in Database
    /\ filter \in Filters
    /\ state \in {"idle", "searching", "overrun"}
    /\ network_stack \in Seq([offset : 0..(Len(db.nodes) - 1), i : Bit, depth : 0..W])
    /\ networks_visited \subseteq 0..(Len(db.nodes) - 1)
    /\ network_address \in Address
    /\ outcome \in {"none", "network", "end", "error"}
    /\ returned \in Seq(Found)

\* Where on the stack the search has the node of a path: there is one entry for
\* the root and one for each level down to it, and one more for the right child
\* wherever the path takes the left child of a node that has both.
RightBeside(d, p) ==
    {n \in 1..Len(p) : p[n] = 0 /\ \E i \in 1..Len(d.path) :
                                      d.path[i] = Append(SubSeq(p, 1, n - 1), 1)}
StackPosition(d, p) == 1 + Len(p) + Cardinality(RightBeside(d, p))

\* The trees for which the stack is too small.
FillsStack(d) == \E i \in 1..Len(d.path) : StackPosition(d, d.path[i]) >= MaxStackDepth

PathOf(offset) == db.path[offset + 1]
Offsets == 0..(Len(db.nodes) - 1)

\* The nodes of the stack that are still to be visited.
Pending == {k \in 1..Len(network_stack) : network_stack[k].offset \notin networks_visited}

\* Each entry has the depth and the last bit of the path of its node, the place
\* that is given by that path, and none above it that is less deep.
StackIsPath ==
    /\ Len(network_stack) < MaxStackDepth
    /\ \A k \in 1..Len(network_stack) :
          LET n == network_stack[k]
              p == PathOf(n.offset) IN
          /\ n.depth = Len(p)
          /\ n.depth > 0 => n.i = p[n.depth]
          /\ k = StackPosition(db, p)
          /\ \A j \in 1..k : network_stack[j].depth <= n.depth

\* Of the nodes to be visited, the one on top is on the left of the others, and
\* network_address is right for each of them up to its own bit.
PendingInOrder ==
    \A k \in Pending :
        LET p == PathOf(network_stack[k].offset) IN
        /\ \A j \in Pending : j < k => LeftOf(p, PathOf(network_stack[j].offset))
        /\ \A i \in 1..(Len(p) - 1) : network_address[i] = p[i]

\* The nodes not visited are those that nodes to be visited lead to, and they are
\* all behind those that were visited.
VisitedInOrder ==
    /\ \A u \in Offsets : u \notin networks_visited
          <=> \E k \in Pending : Leads(PathOf(network_stack[k].offset), PathOf(u))
    /\ \A v \in networks_visited : \A u \in Offsets \ networks_visited :
          NetworkLess(PathOf(v), PathOf(u))

\* Type correctness and, until the stack is overrun, what the stack, the marks and
\* network_address say together: how far the search has come.
EnumeratorInv ==
    /\ TypeOK
    /\ state # "overrun" => StackIsPath /\ PendingInOrder /\ VisitedInOrder
    /\ returned # <<>> => \E v \in networks_visited : Last(returned).path = PathOf(v)

\* The enumerator, with its stack and its marks, implements the listing: whatever
\* the order in which the networks were added, they come in the order of
\* loc_network_cmp, which flattening and the search for bogons rely on; none comes
\* twice; and all that match have come when the end is returned.
\* Exceptions are a database with a network around the IPv4 range, since a bit
\* left over from another branch may complete its prefix, and one that fills the
\* stack.  Even then what comes is in order, in the database and matches.
ToCome == {network \in FoundIn(db, NetworksOf(db)) :
              /\ Matches(network)
              /\ \A i \in 1..Len(db.path) :
                    db.path[i] = network.path => i - 1 \notin networks_visited}
Listing == INSTANCE NetworkListing
    WITH irregular <- ~NoneSpansV4(db) \/ FillsStack(db),
         unread <- ToCome,
         calling <- state = "searching",
         current <- {network \in Range(returned) : network = Last(returned)},
         outcome <- IF state = "overrun" THEN "error" ELSE outcome
ImplementsListing == Listing!Spec

\* Every call returns, at the latest when the stack is empty.
CallReturns == state = "searching" ~> state # "searching"

\* There is space left on the stack for what is put on it (database.c:1253).
NeverOverruns == state # "overrun"
=============================================================================

--------------------------- MODULE DatabaseFormat ---------------------------
(***************************************************************************)
(* The network sections of a database file (src/src/libloc/format.h), what *)
(* the writer writes and the reader maps into memory.                      *)
(*                                                                         *)
(* nodes is the array of struct loc_database_network_node_v1 and networks  *)
(* the array of struct loc_database_network_v1.  The indices in a node     *)
(* count from 0, as in the file, while TLA+ sequences count from 1:        *)
(* NodeAt and NetworkAt do the shift.  A child index of 0 means "no child" *)
(* (the root is nobody's child) and NoNetwork, 0xffffffff in the file,     *)
(* means "no network".                                                     *)
(*                                                                         *)
(* path is an auxiliary array: the path from the root at which the writer  *)
(* found the node.  It is not in the file, no action reads it; it says     *)
(* what the indices are meant to encode.                                   *)
(***************************************************************************)
EXTENDS Addresses

CONSTANTS Countries,  \* the country codes a network may carry, "" for none included
          ASNs,       \* the AS numbers, 0 for none included
          Flags,      \* the network flags (anonymous proxy, satellite, anycast, drop)
          NoCountry,  \* the empty country code
          NoNetwork   \* 0xffffffff

ASSUME AttributesAssumption == NoCountry \in Countries /\ 0 \in ASNs
ASSUME NoNetworkAssumption == NoNetwork \notin Nat

\* What the writer stores for a network: struct loc_database_network_v1
Attributes == [country : Countries, asn : ASNs, flags : SUBSET Flags]

\* loc_network_new leaves them zeroed (calloc)
NoAttributes == [country |-> NoCountry, asn |-> 0, flags |-> {}]

Node == [zero : Nat, one : Nat, network : Nat \cup {NoNetwork}]

Database == [nodes : Seq(Node), networks : Seq(Attributes), path : Seq(Path)]

EmptyDatabase == [nodes |-> <<>>, networks |-> <<>>, path |-> <<>>]

NodeAt(d, index) == d.nodes[index + 1]
NetworkAt(d, index) == d.networks[index + 1]

Child(n, bit) == IF bit = 0 THEN n.zero ELSE n.one

\* __loc_database_node_is_leaf
IsLeaf(n) == n.network # NoNetwork

\* A network the reader returns.
Found == [path : Path, attributes : Attributes]

\* loc_database_fetch_network: the network at index, made of the first depth bits
\* of a.  The depth of a v4-mapped address loses the V4Len bits of the prefix
\* with no check that it has them, and what wraps around is refused.  {} is an
\* error.
FetchNetwork(d, a, depth, index) ==
    IF /\ index < Len(d.networks)
       /\ ValidPrefix(a, IF V4Mapped(a) THEN depth - V4Len ELSE depth)
    THEN {[path |-> Masked(a, depth), attributes |-> NetworkAt(d, index)]}
    ELSE {}

-----------------------------------------------------------------------------
(***************************************************************************)
(* A well-formed database.  Each child index leads to the node one bit     *)
(* further down and is 0 only where there is no such node; no node is      *)
(* stored twice; the nodes are closed under prefixes; and the network      *)
(* indices stay within the networks array and are never shared.            *)
(***************************************************************************)
RootFirst(d) == Len(d.path) > 0 /\ d.path[1] = <<>>

OneNodePerPath(d) ==
    /\ Len(d.path) = Len(d.nodes)
    /\ \A i, j \in 1..Len(d.path) : d.path[i] = d.path[j] => i = j

ChildrenLinked(d) ==
    \A i \in 1..Len(d.nodes), bit \in Bit :
        LET child == Child(d.nodes[i], bit) IN
        IF \E j \in 1..Len(d.path) : d.path[j] = Append(d.path[i], bit)
        THEN /\ child \in 1..(Len(d.nodes) - 1)
             /\ d.path[child + 1] = Append(d.path[i], bit)
        ELSE child = 0

PrefixClosed(d) ==
    \A i \in 1..Len(d.path) : \A n \in 0..Len(d.path[i]) :
        \E j \in 1..Len(d.path) : d.path[j] = SubSeq(d.path[i], 1, n)

NetworksNumbered(d) ==
    /\ \A i \in 1..Len(d.nodes) :
          IsLeaf(d.nodes[i]) => d.nodes[i].network \in 0..(Len(d.networks) - 1)
    /\ \A i, j \in 1..Len(d.nodes) :
          IsLeaf(d.nodes[i]) /\ d.nodes[i].network = d.nodes[j].network => i = j

WellFormed(d) ==
    /\ d \in Database
    /\ RootFirst(d)
    /\ OneNodePerPath(d)
    /\ ChildrenLinked(d)
    /\ PrefixClosed(d)
    /\ NetworksNumbered(d)

-----------------------------------------------------------------------------
(* What the arrays mean: the networks and the attributes of each. *)

LeafAt(d, p) == CHOOSE i \in 1..Len(d.nodes) : IsLeaf(d.nodes[i]) /\ d.path[i] = p

NetworksOf(d) == {d.path[i] : i \in {k \in 1..Len(d.nodes) : IsLeaf(d.nodes[k])}}

ContentsOf(d) == [p \in NetworksOf(d) |-> NetworkAt(d, d.nodes[LeafAt(d, p)].network)]

\* The networks with their attributes.
FoundIn(d, networks) == {[path |-> p, attributes |-> ContentsOf(d)[p]] : p \in networks}

\* No network of the database strictly contains the IPv4 range.
NoneSpansV4(d) == \A p \in NetworksOf(d) : ~SpansV4(p)
=============================================================================

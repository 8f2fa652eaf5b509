---------------------------- MODULE NetworkTree ----------------------------
(***************************************************************************)
(* The tree of networks a writer collects (struct loc_network_tree in      *)
(* src/src/network.c) and the network objects it refers to.                *)
(*                                                                         *)
(* A tree node is the path that leads to it, so tree is a function from    *)
(* the nodes that exist to the network object each one holds.  Nodes keep  *)
(* a reference to the object, not a copy: what the caller sets on the      *)
(* object later is what the writer will write.  Objects are numbered in    *)
(* the order the callers made them.                                        *)
(***************************************************************************)
EXTENDS DatabaseFormat

CONSTANTS Candidates,     \* the networks callers add
          MaxObjects,     \* bound on the network objects made in a behaviour
          CallocMayFail   \* whether memory for a node or a queue entry may run out

ASSUME CandidatesAssumption == Candidates \subseteq Path
ASSUME CallocAssumption == CallocMayFail \in BOOLEAN

VARIABLES tree,      \* node -> number of the network object it holds, or NoObject
          objects,   \* the network objects: path and attributes
          crashed    \* the process is gone

treeVars == <<tree, objects, crashed>>

NoObject == 0

Object == [path : Path, attributes : Attributes]

\* The nodes from the root down to p.
Ancestry(p) == {SubSeq(p, 1, n) : n \in 0..Len(p)}

\* The networks the tree holds.
Held == {p \in DOMAIN tree : tree[p] # NoObject}

Contents == [p \in Held |-> objects[tree[p]].attributes]

TreeInit ==
    /\ tree = [p \in {<<>>} |-> NoObject]
    /\ objects = <<>>
    /\ crashed = FALSE

-----------------------------------------------------------------------------
\* loc_network_tree_get_path creates the nodes that are missing down to p.
Grown(p) == [q \in DOMAIN tree \cup Ancestry(p) |->
                IF q \in DOMAIN tree THEN tree[q] ELSE NoObject]

\* loc_network_new_from_string, whatever becomes of the object.
NewObject(p) ==
    /\ ~crashed
    /\ Len(objects) < MaxObjects
    /\ objects' = Append(objects, [path |-> p, attributes |-> NoAttributes])

\* Fault: a network added again replaces the one before.
AddNetworkReplaces(p) ==
    /\ NewObject(p)
    /\ tree' = [Grown(p) EXCEPT ![p] = Len(objects) + 1]
    /\ UNCHANGED crashed

\* loc_writer_add_network: the object is made first and the tree gets its
\* nodes; a node that already holds a network keeps it (-EBUSY), and the
\* caller is left with an object the tree does not know.
AddNetwork(p) ==
    /\ NewObject(p)
    /\ tree' = [Grown(p) EXCEPT ![p] = IF @ = NoObject THEN Len(objects) + 1 ELSE @]
    /\ UNCHANGED crashed

\* There is no memory for the node at depth n on the way to p.  get_node
\* returns NULL: for the last node the caller gets -ENOMEM, with the nodes made
\* before left in the tree; for any other the loop in get_path goes on to
\* dereference the NULL.
AddNetworkNoMemory(p, n) ==
    /\ CallocMayFail
    /\ NewObject(p)
    /\ SubSeq(p, 1, n) \notin DOMAIN tree
    /\ tree' = Grown(SubSeq(p, 1, n - 1))
    /\ crashed' = (n < Len(p))

\* loc_network_set_country_code with a valid or empty code
SetCountryCode(o, country) ==
    /\ ~crashed
    /\ objects' = [objects EXCEPT ![o].attributes.country = country]
    /\ UNCHANGED <<tree, crashed>>

\* loc_network_set_asn
SetASN(o, asn) ==
    /\ ~crashed
    /\ objects' = [objects EXCEPT ![o].attributes.asn = asn]
    /\ UNCHANGED <<tree, crashed>>

\* loc_network_set_flag: flags are added, there is no call to remove one
SetFlag(o, flag) ==
    /\ ~crashed
    /\ objects' = [objects EXCEPT ![o].attributes.flags = @ \cup {flag}]
    /\ UNCHANGED <<tree, crashed>>

TreeNext ==
    \/ \E p \in Candidates : AddNetwork(p)
    \/ \E p \in Candidates : \E n \in 1..Len(p) : AddNetworkNoMemory(p, n)
    \/ \E o \in 1..Len(objects) :
          \/ \E country \in Countries : SetCountryCode(o, country)
          \/ \E asn \in ASNs : SetASN(o, asn)
          \/ \E flag \in Flags : SetFlag(o, flag)

-----------------------------------------------------------------------------
\* Every node of the tree is a path and refers to an object that was made.
TreeTypeOK ==
    /\ objects \in Seq(Object)
    /\ DOMAIN tree \subseteq Path
    /\ tree \in [DOMAIN tree -> 0..Len(objects)]
    /\ crashed \in BOOLEAN

\* The tree: the root and every node's ancestors exist, and a node holds an
\* object made for its own path.
TreeShape ==
    /\ <<>> \in DOMAIN tree
    /\ \A p \in DOMAIN tree : Ancestry(p) \subseteq DOMAIN tree
    /\ \A p \in Held : objects[tree[p]].path = p
=============================================================================

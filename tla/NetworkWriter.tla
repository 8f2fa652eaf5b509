--------------------------- MODULE NetworkWriter ---------------------------
(***************************************************************************)
(* Writing the tree to a database file: loc_database_write_networks in     *)
(* src/src/writer.c.                                                       *)
(*                                                                         *)
(* The tree is written breadth first from a queue.  A node's children get  *)
(* their index when the node is written, long before they are: the index   *)
(* counts the nodes ever queued and has to turn out to be the place where  *)
(* each child lands in the array.  The networks are queued as their nodes  *)
(* are written and written after them, again under an index given ahead.   *)
(***************************************************************************)
EXTENDS NetworkTree, DatabaseEncoding

CONSTANT MaxWrites   \* bound on the calls of loc_writer_write in a behaviour

VARIABLES section,        \* what is being written: "none", "nodes", "networks"
          nodes,          \* the queue of tree nodes
          index,          \* the last node index given
          networks,       \* the queue of network objects
          network_index,  \* the next network index to give
          file,           \* the database being written
          published,      \* the last complete database
          writes          \* the calls of loc_writer_write so far

writeVars == <<section, nodes, index, networks, network_index, file, writes>>
vars == <<treeVars, writeVars, published>>

Init ==
    /\ TreeInit
    /\ section = "none"
    /\ nodes = <<>>
    /\ index = 0
    /\ networks = <<>>
    /\ network_index = 0
    /\ file = EmptyDatabase
    /\ published = EmptyDatabase
    /\ writes = 0

-----------------------------------------------------------------------------
\* The caller adds networks and sets attributes between two writes.
Collect ==
    /\ section = "none"
    /\ TreeNext
    /\ UNCHANGED <<writeVars, published>>

\* loc_writer_write starts over at the beginning of the file; the queue holds the root.
StartWriting ==
    /\ ~crashed
    /\ section = "none"
    /\ writes < MaxWrites
    /\ writes' = writes + 1
    /\ section' = "nodes"
    /\ nodes' = << <<>> >>
    /\ index' = 0
    /\ networks' = <<>>
    /\ network_index' = 0
    /\ file' = EmptyDatabase
    /\ UNCHANGED <<treeVars, published>>

\* Fault: the child one is queued first.
ChildrenOneFirst(p) ==
    (IF Append(p, 1) \in DOMAIN tree THEN <<Append(p, 1)>> ELSE <<>>)
    \o (IF Append(p, 0) \in DOMAIN tree THEN <<Append(p, 0)>> ELSE <<>>)

\* The children of a tree node, zero first.
ChildrenOf(p) ==
    (IF Append(p, 0) \in DOMAIN tree THEN <<Append(p, 0)>> ELSE <<>>)
    \o (IF Append(p, 1) \in DOMAIN tree THEN <<Append(p, 1)>> ELSE <<>>)

\* Fault: an index is kept for the child zero even where there is none.
IndexOneAfterZero(p) == IF Append(p, 1) \in DOMAIN tree THEN index + 2 ELSE 0

\* The next index goes to the child zero, if there is one, the one after to the child one.
IndexZero(p) == IF Append(p, 0) \in DOMAIN tree THEN index + 1 ELSE 0
IndexOne(p) == IF Append(p, 1) \in DOMAIN tree THEN index + Len(ChildrenOf(p)) ELSE 0

WriteNode ==
    /\ section = "nodes"
    /\ nodes # <<>>
    /\ LET p == Head(nodes)
           leaf == tree[p] # NoObject
       IN /\ nodes' = Tail(nodes) \o ChildrenOf(p)
          /\ index' = index + Len(ChildrenOf(p))
          /\ networks' = IF leaf THEN Append(networks, tree[p]) ELSE networks
          /\ network_index' = IF leaf THEN network_index + 1 ELSE network_index
          /\ file' = [file EXCEPT
                        !.nodes = Append(@, [zero |-> IndexZero(p),
                                             one |-> IndexOne(p),
                                             network |-> IF leaf THEN network_index
                                                         ELSE NoNetwork]),
                        !.path = Append(@, p)]
    /\ UNCHANGED <<treeVars, section, published, writes>>

\* There is no memory for a queue entry: for that of a child, make_node's NULL
\* is put in the queue and dereferenced; for that of the network, the write fails
\* with the nodes written so far in the file.
WriteNodeNoMemory ==
    /\ CallocMayFail
    /\ section = "nodes"
    /\ nodes # <<>>
    /\ \/ ChildrenOf(Head(nodes)) # <<>> /\ crashed' = TRUE
       \/ tree[Head(nodes)] # NoObject /\ UNCHANGED crashed
    /\ section' = "none"
    /\ UNCHANGED <<tree, objects, nodes, index, networks, network_index, file,
                   published, writes>>

\* The tree is written, the queued networks follow.
StartNetworks ==
    /\ section = "nodes"
    /\ nodes = <<>>
    /\ section' = "networks"
    /\ UNCHANGED <<treeVars, nodes, index, networks, network_index, file, published, writes>>

\* Fault: a network without attributes is passed over and stays in the queue.
WriteNetworkSkipsEmpty ==
    /\ section = "networks"
    /\ networks # <<>>
    /\ objects[Head(networks)].attributes # NoAttributes
    /\ networks' = Tail(networks)
    /\ file' = [file EXCEPT !.networks = Append(@, objects[Head(networks)].attributes)]
    /\ UNCHANGED <<treeVars, section, nodes, index, network_index, published, writes>>

\* loc_network_to_database_v1 copies what the object holds by now.
WriteNetwork ==
    /\ section = "networks"
    /\ networks # <<>>
    /\ networks' = Tail(networks)
    /\ file' = [file EXCEPT !.networks = Append(@, objects[Head(networks)].attributes)]
    /\ UNCHANGED <<treeVars, section, nodes, index, network_index, published, writes>>

\* loc_writer_write goes on with the other sections, writes the header last and
\* returns: the file is complete.
FinishWriting ==
    /\ section = "networks"
    /\ networks = <<>>
    /\ section' = "none"
    /\ published' = file
    /\ UNCHANGED <<treeVars, nodes, index, networks, network_index, file, writes>>

Write == WriteNode \/ StartNetworks \/ WriteNetwork \/ FinishWriting

Next == Collect \/ StartWriting \/ Write \/ WriteNodeNoMemory

\* loc_writer_write runs to its end once it is called; callers owe nothing.
Spec == Init /\ [][Next]_vars /\ WF_vars(Write)

-----------------------------------------------------------------------------
(* Properties *)

\* Type correctness: the queues hold nodes and objects that exist, and the file
\* and what was published are databases.
TypeOK ==
    /\ TreeTypeOK
    /\ section \in {"none", "nodes", "networks"}
    /\ nodes \in Seq(Path)
    /\ index \in Nat
    /\ networks \in Seq(1..Len(objects))
    /\ network_index \in Nat
    /\ file \in Database
    /\ published \in Database
    /\ writes \in Nat

\* The tree nodes that have an index: the written ones, then the queued ones.
Discovered == file.path \o nodes

\* While a database is written, the index given last is the place of the last
\* node discovered, and every child index in a node already written is the
\* place where the queue will deliver, or has delivered, that child: indices are
\* handed out before the nodes they number, and nothing checks them afterwards.
IndicesAreForesight ==
    section # "none" =>
        /\ Len(Discovered) = index + 1
        /\ \A i \in 1..Len(file.nodes), bit \in Bit :
              LET child == Child(file.nodes[i], bit)
                  path == Append(file.path[i], bit)
              IN IF path \in DOMAIN tree
                 THEN child \in 1..index /\ Discovered[child + 1] = path
                 ELSE child = 0

\* The queue reaches every node of the tree once, from its parent.
QueueIsTree ==
    section # "none" =>
        /\ Len(file.path) = Len(file.nodes)
        /\ Len(Discovered) > 0 /\ Discovered[1] = <<>>
        /\ \A k \in 1..Len(Discovered) : Discovered[k] \in DOMAIN tree
        /\ \A k, l \in 1..Len(Discovered) : Discovered[k] = Discovered[l] => k = l
        /\ \A k \in 2..Len(Discovered) : \E i \in 1..Len(file.path), bit \in Bit :
              Discovered[k] = Append(file.path[i], bit)
        /\ section = "networks" => nodes = <<>>

\* The network number in a written node is the place of its network: in the
\* array, once written, and before that in the queue.
NetworksAreForesight ==
    section # "none" =>
        /\ network_index = Len(file.networks) + Len(networks)
        /\ section = "nodes" => file.networks = <<>>
        /\ \A i, j \in 1..Len(file.nodes) :
              IsLeaf(file.nodes[i]) /\ file.nodes[i].network = file.nodes[j].network => i = j
        /\ \A i \in 1..Len(file.nodes) :
              LET number == file.nodes[i].network
                  object == tree[file.path[i]]
              IN IF object = NoObject
                 THEN number = NoNetwork
                 ELSE /\ number \in 0..(network_index - 1)
                      /\ IF number < Len(file.networks)
                         THEN NetworkAt(file, number) = objects[object].attributes
                         ELSE networks[number - Len(file.networks) + 1] = object

\* The queue reaches the nodes level by level and from left to right, and numbers
\* the networks on its way, with no number left out.
LevelByLevel ==
    section # "none" =>
        /\ \A k, l \in 1..Len(Discovered) : k < l => LevelOrder(Discovered[k], Discovered[l])
        /\ \A i, j \in 1..Len(file.nodes) :
              i < j /\ IsLeaf(file.nodes[i]) /\ IsLeaf(file.nodes[j]) =>
                 file.nodes[i].network < file.nodes[j].network
        /\ \A number \in 0..(network_index - 1) :
              \E i \in 1..Len(file.nodes) : file.nodes[i].network = number

\* A database that was written to its end is well-formed, whatever networks
\* were added in whatever order and however often it was written before.
PublishedWellFormed == published # EmptyDatabase => WellFormed(published)

\* When the last network is written, the file holds the networks of the tree,
\* all of them and no other, each with the attributes its object has.
CompleteFileHoldsTree ==
    section = "networks" /\ networks = <<>> => ContentsOf(file) = Contents

\* The complete file is the one the reference definition gives for the tree, node
\* for node and network for network: no other order, and no gap in the numbers.
CompleteFileIsEncoding ==
    section = "networks" /\ networks = <<>> =>
        file = EncodeNodes(Contents, DOMAIN tree)

\* Together they are inductive.
WriterInv ==
    /\ TypeOK
    /\ TreeShape
    /\ QueueIsTree
    /\ IndicesAreForesight
    /\ NetworksAreForesight
    /\ LevelByLevel
    /\ PublishedWellFormed

\* The writer implements the map its caller sees: adding a network twice and
\* changing the object of a refused network change nothing, and a complete
\* write publishes the whole map at once.
Map == INSTANCE NetworkMap WITH contents <- Contents,
                                published <- ContentsOf(published)
ImplementsMap == Map!Spec

\* A call of loc_writer_write ends: both queues run empty, unless memory does
\* not last.
WritesFinish == section # "none" ~> section = "none"
=============================================================================

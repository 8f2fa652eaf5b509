-------------------------- MODULE DatabaseEncoding --------------------------
(***************************************************************************)
(* A reference definition of the file the writer has to produce, without a *)
(* queue: the nodes are the prefixes of the networks, in order of their    *)
(* depth and then from left to right, and the networks are numbered in the *)
(* order of their nodes.  The writer's complete file is shown to be this   *)
(* one, and the readers are model-checked on the databases it produces.    *)
(***************************************************************************)
EXTENDS DatabaseFormat, FiniteSets

\* p comes before q in a tree read level by level.
LevelOrder(p, q) ==
    \/ Len(p) < Len(q)
    \/ /\ Len(p) = Len(q)
       /\ \E i \in 1..Len(p) : p[i] < q[i] /\ \A j \in 1..(i - 1) : p[j] = q[j]

\* The members of the set that come before p; how many there are is the index of p.
Rank(p, paths) == Cardinality({q \in paths : LevelOrder(q, p)})

InLevelOrder(paths) ==
    [i \in 1..Cardinality(paths) |-> CHOOSE p \in paths : Rank(p, paths) = i - 1]

\* The database of a map from networks to attributes, with further nodes that
\* hold no network.
EncodeNodes(contents, further) ==
    LET held == DOMAIN contents
        paths == {<<>>} \cup UNION {{SubSeq(p, 1, n) : n \in 0..Len(p)} : p \in held \cup further}
        ChildIndex(p) == IF p \in paths THEN Rank(p, paths) ELSE 0
        order == InLevelOrder(paths)
        leaves == InLevelOrder(held)
    IN [nodes |-> [i \in DOMAIN order |->
                     [zero |-> ChildIndex(Append(order[i], 0)),
                      one |-> ChildIndex(Append(order[i], 1)),
                      network |-> IF order[i] \in held THEN Rank(order[i], held)
                                  ELSE NoNetwork]],
        networks |-> [i \in DOMAIN leaves |-> contents[leaves[i]]],
        path |-> order]

Encode(contents) == EncodeNodes(contents, {})
=============================================================================

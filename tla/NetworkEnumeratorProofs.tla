---------------------- MODULE NetworkEnumeratorProofs ----------------------
(***************************************************************************)
(* Listing the networks of any well-formed database: the stack, the marks  *)
(* and the shared network_address agree on how far the search has come,    *)
(* and what is returned is the listing that NetworkListing promises.       *)
(***************************************************************************)
EXTENDS NetworkEnumerator, DatabaseFormatProofs

\* The database is one of those assumed well-formed.
IInv == db \in Databases /\ EnumeratorInv

-----------------------------------------------------------------------------
(* Places on the stack *)

LEMMA PositionType ==
    ASSUME NEW d, NEW p \in Path
    PROVE  /\ IsFiniteSet(RightBeside(d, p)) /\ Cardinality(RightBeside(d, p)) \in Nat
           /\ StackPosition(d, p) \in Nat
<1>1. Len(p) \in Nat
    BY PathType
<1>2. IsFiniteSet(1..Len(p))
    BY <1>1, FS_Interval
<1>3. RightBeside(d, p) \subseteq 1..Len(p)
    BY DEF RightBeside
<1>4. IsFiniteSet(RightBeside(d, p)) /\ Cardinality(RightBeside(d, p)) \in Nat
    BY <1>2, <1>3, FS_Subset, FS_CardinalityType
<1> QED BY <1>1, <1>4 DEF StackPosition

\* The root has the first place.
LEMMA PositionOfRoot ==
    ASSUME NEW d
    PROVE  StackPosition(d, <<>>) = 1
<1>1. Len(<<>>) = 0 /\ RightBeside(d, <<>>) = {}
    BY EmptySeq DEF RightBeside
<1>2. Cardinality({}) = 0
    BY FS_EmptySet
<1> QED BY <1>1, <1>2 DEF StackPosition

\* A child has the place above its parent, or the one above that, when it is the
\* left one of two.
LEMMA PositionOfChild ==
    ASSUME NEW d, NEW p \in Path, NEW bit \in Bit, Append(p, bit) \in Path
    PROVE  StackPosition(d, Append(p, bit)) =
              IF bit = 0 /\ \E i \in 1..Len(d.path) : d.path[i] = Append(p, 1)
              THEN StackPosition(d, p) + 2
              ELSE StackPosition(d, p) + 1
<1> DEFINE q == Append(p, bit)
           n == Len(p)
           both == bit = 0 /\ \E i \in 1..Len(d.path) : d.path[i] = Append(p, 1)
           P == RightBeside(d, p)
           Q == RightBeside(d, q)
<1>1. /\ p \in Seq(Bit) /\ n \in Nat /\ Len(q) = n + 1
      /\ (\A i \in 1..n : q[i] = p[i]) /\ q[n + 1] = bit
    BY PathType, PathChild
<1>2. ASSUME NEW m \in 1..(n + 1)
      PROVE  SubSeq(q, 1, m - 1) = SubSeq(p, 1, m - 1)
    <2>1. m - 1 \in 0..n /\ m - 1 \in 0..(n + 1)
        BY <1>1
    <2>2. /\ SubSeq(q, 1, m - 1) \in Path /\ Len(SubSeq(q, 1, m - 1)) = m - 1
          /\ \A i \in 1..(m - 1) : SubSeq(q, 1, m - 1)[i] = q[i]
        BY <1>1, <2>1, PathPrefix
    <2>3. /\ SubSeq(p, 1, m - 1) \in Path /\ Len(SubSeq(p, 1, m - 1)) = m - 1
          /\ \A i \in 1..(m - 1) : SubSeq(p, 1, m - 1)[i] = p[i]
        BY <2>1, PathPrefix
    <2>4. \A i \in 1..(m - 1) : i \in 1..n
        BY <1>1, <2>1
    <2>5. \A i \in 1..(m - 1) : SubSeq(q, 1, m - 1)[i] = SubSeq(p, 1, m - 1)[i]
        BY <1>1, <2>2, <2>3, <2>4
    <2> QED BY <2>2, <2>3, <2>5, PathType, SeqEqual
<1>3. SubSeq(p, 1, n) = p
    <2>1. n \in 0..n
        BY <1>1
    <2>2. /\ SubSeq(p, 1, n) \in Path /\ Len(SubSeq(p, 1, n)) = n
          /\ \A i \in 1..n : SubSeq(p, 1, n)[i] = p[i]
        BY <2>1, PathPrefix
    <2> QED BY <1>1, <2>2, PathType, SeqEqual
<1>4. ASSUME NEW m \in 1..n PROVE m \in P <=> m \in Q
    <2>1. m \in 1..(n + 1) /\ m \in 1..Len(q) /\ q[m] = p[m]
        BY <1>1
    <2> QED BY <1>2, <2>1 DEF RightBeside
<1>5. n + 1 \in Q <=> both
    <2>1. ASSUME NEW m, m = n + 1 PROVE m \in Q <=> both
        <3>1. m \in 1..(n + 1) /\ m \in 1..Len(q) /\ m - 1 = n
            BY <1>1, <2>1
        <3>2. SubSeq(q, 1, m - 1) = p
            BY <1>2, <1>3, <3>1
        <3> QED BY <1>1, <2>1, <3>1, <3>2 DEF RightBeside
    <2> QED BY <2>1
<1>6. P \subseteq 1..n /\ Q \subseteq 1..(n + 1)
    BY <1>1 DEF RightBeside
<1>7. IsFiniteSet(P) /\ Cardinality(P) \in Nat
    BY PositionType
<1>8. n + 1 \notin P
    BY <1>1, <1>6
<1>9. StackPosition(d, p) = 1 + n + Cardinality(P) /\ StackPosition(d, q) = 1 + (n + 1) + Cardinality(Q)
    BY <1>1 DEF StackPosition
<1>10. CASE both
    <2>1. Q = P \cup {n + 1}
        <3>1. \A m \in 1..(n + 1) : m \in 1..n \/ m = n + 1
            BY <1>1
        <3> HIDE DEF P, Q, n, both
        <3> QED BY <1>4, <1>5, <1>6, <1>10, <3>1
    <2>2. Cardinality(Q) = Cardinality(P) + 1
        BY <1>7, <1>8, <2>1, FS_AddElement
    <2> HIDE DEF P, Q, n
    <2>3. StackPosition(d, q) = StackPosition(d, p) + 2
        BY <1>1, <1>7, <1>9, <2>2
    <2> QED BY <1>10, <2>3
<1>11. CASE ~both
    <2>1. Q = P
        <3>1. \A m \in 1..(n + 1) : m \in 1..n \/ m = n + 1
            BY <1>1
        <3> HIDE DEF P, Q, n, both
        <3> QED BY <1>4, <1>5, <1>6, <1>8, <1>11, <3>1
    <2>2. Cardinality(Q) = Cardinality(P)
        BY <2>1
    <2> HIDE DEF P, Q, n
    <2>3. StackPosition(d, q) = StackPosition(d, p) + 1
        BY <1>1, <1>7, <1>9, <2>2
    <2> QED BY <1>11, <2>3
<1> QED BY <1>10, <1>11

-----------------------------------------------------------------------------
(* The nodes of the stack *)

\* The paths of a database's nodes
LEMMA PathsOfNodes ==
    ASSUME IInv
    PROVE  /\ WellFormed(db) /\ Len(db.nodes) \in Nat /\ Len(db.path) = Len(db.nodes)
           /\ \A u \in Offsets : u + 1 \in 1..Len(db.nodes) /\ PathOf(u) \in Path
           /\ \A i \in 1..Len(db.nodes) : i - 1 \in Offsets /\ PathOf(i - 1) = db.path[i]
           /\ \A u, v \in Offsets : PathOf(u) = PathOf(v) => u = v
           /\ 0 \in Offsets /\ PathOf(0) = <<>>
<1>1. WellFormed(db)
    BY DatabasesAssumption DEF IInv
<1>2. /\ Len(db.nodes) \in Nat /\ Len(db.nodes) > 0 /\ Len(db.path) = Len(db.nodes) /\ db.path[1] = <<>>
      /\ \A i \in 1..Len(db.nodes) : db.path[i] \in Path
    BY <1>1, NodesType
<1>3. \A u \in Offsets : u \in Nat /\ u + 1 \in 1..Len(db.nodes)
    BY <1>2 DEF Offsets
<1>4. \A u \in Offsets : PathOf(u) \in Path
    BY <1>2, <1>3 DEF PathOf
<1>5. ASSUME NEW i \in 1..Len(db.nodes) PROVE i - 1 \in Offsets /\ PathOf(i - 1) = db.path[i]
    <2>1. i - 1 \in Offsets /\ i - 1 + 1 = i
        BY <1>2 DEF Offsets
    <2> QED BY <2>1 DEF PathOf
<1>6. ASSUME NEW u \in Offsets, NEW v \in Offsets, PathOf(u) = PathOf(v) PROVE u = v
    <2>1. u + 1 = v + 1
        BY <1>1, <1>2, <1>3, <1>6 DEF PathOf, WellFormed, OneNodePerPath
    <2> QED BY <1>3, <2>1
<1>7. 0 \in Offsets /\ PathOf(0) = <<>>
    BY <1>2 DEF Offsets, PathOf
<1> QED BY <1>1, <1>2, <1>3, <1>4, <1>5, <1>6, <1>7

\* What an entry of the stack is
LEMMA StackEntry ==
    ASSUME IInv, state # "overrun", NEW k \in 1..Len(network_stack)
    PROVE  LET n == network_stack[k] IN
           /\ n \in [offset : Offsets, i : Bit, depth : 0..W]
           /\ n.offset \in Offsets /\ PathOf(n.offset) \in Path
           /\ n.depth = Len(PathOf(n.offset)) /\ n.depth \in Nat /\ n.depth \in 0..W
           /\ n.depth > 0 => n.i = PathOf(n.offset)[n.depth]
           /\ k = StackPosition(db, PathOf(n.offset))
           /\ k \in Pending <=> n.offset \notin networks_visited
<1>1. TypeOK /\ StackIsPath
    BY DEF IInv, EnumeratorInv
<1>2. network_stack[k] \in [offset : Offsets, i : Bit, depth : 0..W]
    BY <1>1, ElementOfSeq DEF TypeOK, Offsets
<1>3. network_stack[k].depth \in Nat
    BY <1>2, WidthAssumption
<1> QED BY <1>1, <1>2, <1>3, PathsOfNodes DEF StackIsPath, Pending

\* The node on top, when it is visited: it is pending, and the paths of the others
\* that are pending are on the right of its path.
LEMMA TopEntry ==
    ASSUME IInv, VisitNode
    PROVE  /\ state = "searching" /\ state # "overrun"
           /\ Len(network_stack) \in Nat /\ Len(network_stack) \in 1..Len(network_stack)
           /\ Len(network_stack) \in Pending
           /\ Top.offset \in Offsets /\ Top.offset \notin networks_visited
           /\ Top.offset + 1 \in 1..Len(db.nodes)
           /\ NodeAt(db, Top.offset) = db.nodes[Top.offset + 1]
           /\ db.path[Top.offset + 1] = PathOf(Top.offset)
           /\ PathOf(Top.offset) \in Path /\ Top.depth = Len(PathOf(Top.offset))
           /\ Top.depth \in Nat /\ Top.depth \in 0..W
           /\ Len(network_stack) = StackPosition(db, PathOf(Top.offset))
           /\ \A j \in Pending : j # Len(network_stack) =>
                 /\ j \in 1..Len(network_stack) /\ j < Len(network_stack)
                 /\ LeftOf(PathOf(Top.offset), PathOf(network_stack[j].offset))
<1> DEFINE L == Len(network_stack)
<1>1. state = "searching" /\ state # "overrun" /\ network_stack # <<>> /\ Top.offset \notin networks_visited
    BY DEF VisitNode
<1>2. TypeOK /\ PendingInOrder
    BY <1>1 DEF IInv, EnumeratorInv
<1>3. L \in Nat /\ L > 0
    BY <1>1, <1>2, EmptySeq, LenProperties DEF TypeOK
<1>4. L \in 1..L
    BY <1>3
<1>5. L \in Pending
    BY <1>1, <1>4 DEF Pending, Top
<1>6. /\ Top.offset \in Offsets /\ PathOf(Top.offset) \in Path /\ Top.depth = Len(PathOf(Top.offset))
      /\ Top.depth \in Nat /\ Top.depth \in 0..W /\ L = StackPosition(db, PathOf(Top.offset))
    BY <1>1, <1>4, StackEntry DEF Top
<1>7. Top.offset + 1 \in 1..Len(db.nodes)
    BY <1>6, PathsOfNodes
<1>8. ASSUME NEW j \in Pending, j # L
      PROVE  j \in 1..L /\ j < L /\ LeftOf(PathOf(Top.offset), PathOf(network_stack[j].offset))
    <2>1. j \in 1..L
        BY DEF Pending
    <2>2. j < L
        BY <1>3, <1>8, <2>1
    <2> QED BY <1>2, <1>5, <2>1, <2>2 DEF PendingInOrder, Top
<1> QED BY <1>1, <1>3, <1>4, <1>5, <1>6, <1>7, <1>8 DEF NodeAt, PathOf

\* The node that is visited, and what is put on the stack for it.
ThisNode == NodeAt(db, Top.offset)
ThisPath == PathOf(Top.offset)
Here == Len(network_stack)
OnePushed == PushNode([stack |-> network_stack, result |-> "ok"], ThisNode.one, 1, Top.depth + 1)
BothPushed == PushNode(OnePushed, ThisNode.zero, 0, Top.depth + 1)

\* Its children: there is one where there is a node with one bit more in its path,
\* and it has not been visited.
LEMMA ChildOfThis ==
    ASSUME IInv, VisitNode, NEW bit \in Bit
    PROVE  LET c == Child(ThisNode, bit) IN
           /\ c = 0 <=> ~\E i \in 1..Len(db.path) : db.path[i] = Append(ThisPath, bit)
           /\ c # 0 => /\ c \in Offsets /\ ~(c >= Len(db.nodes))
                       /\ PathOf(c) = Append(ThisPath, bit) /\ Append(ThisPath, bit) \in Path
                       /\ Top.depth + 1 \in 0..W /\ Top.depth + 1 = Len(Append(ThisPath, bit))
                       /\ c \notin networks_visited /\ c # Top.offset
<1> DEFINE c == Child(ThisNode, bit)
           i == Top.offset + 1
<1>1. /\ i \in 1..Len(db.nodes) /\ ThisNode = db.nodes[i] /\ db.path[i] = ThisPath
      /\ ThisPath \in Path /\ Top.depth = Len(ThisPath) /\ Top.depth \in Nat /\ state # "overrun"
      /\ Here \in Pending /\ Top.offset \in Offsets
    BY TopEntry DEF ThisNode, ThisPath, Here
<1>2. WellFormed(db) /\ Len(db.nodes) \in Nat
    BY PathsOfNodes
<1>3. c = 0 <=> ~\E j \in 1..Len(db.path) : db.path[j] = Append(ThisPath, bit)
    <2>1. IF \E j \in 1..Len(db.path) : db.path[j] = Append(ThisPath, bit)
          THEN c \in 1..(Len(db.nodes) - 1)
          ELSE c = 0
        BY <1>1, <1>2 DEF WellFormed, ChildrenLinked
    <2>2. 0 \notin 1..(Len(db.nodes) - 1)
        BY <1>2
    <2> QED BY <2>1, <2>2
<1>4. ASSUME c # 0
      PROVE  /\ c \in Offsets /\ ~(c >= Len(db.nodes))
             /\ PathOf(c) = Append(ThisPath, bit) /\ Append(ThisPath, bit) \in Path
             /\ Top.depth + 1 \in 0..W /\ Top.depth + 1 = Len(Append(ThisPath, bit))
             /\ c \notin networks_visited /\ c # Top.offset
    <2>1. c \in 1..(Len(db.nodes) - 1) /\ db.path[c + 1] = Append(ThisPath, bit) /\ Len(ThisPath) < W
        BY <1>1, <1>2, <1>4, ChildOfNode
    <2> HIDE DEF c
    <2>2. c \in Offsets /\ ~(c >= Len(db.nodes))
        BY <1>2, <2>1 DEF Offsets
    <2>3. PathOf(c) = Append(ThisPath, bit) /\ Append(ThisPath, bit) \in Path
        BY <2>1, <2>2, PathsOfNodes DEF PathOf
    <2>4. Top.depth + 1 \in 0..W /\ Top.depth + 1 = Len(Append(ThisPath, bit))
        BY <1>1, <2>1, PathChild, WidthAssumption
    <2>5. Leads(ThisPath, PathOf(c)) /\ PathOf(c) # ThisPath
        BY <1>1, <2>3, LeadsToChild
    <2>6. c \notin networks_visited
        BY <1>1, <2>2, <2>5 DEF IInv, EnumeratorInv, VisitedInOrder, ThisPath, Top, Here
    <2>7. c # Top.offset
        BY <2>5 DEF ThisPath
    <2> QED BY <2>2, <2>3, <2>4, <2>6, <2>7
<1> QED BY <1>3, <1>4

\* What loc_database_enumerator_stack_push_node does while there is space.
LEMMA PushWithSpace ==
    ASSUME NEW stack, NEW offset, NEW bit, NEW depth,
           Len(stack) \in Nat, Len(stack) < MaxStackDepth, ~(offset >= Len(db.nodes))
    PROVE  PushNode([stack |-> stack, result |-> "ok"], offset, bit, depth) =
              IF offset = 0 THEN [stack |-> stack, result |-> "ok"]
              ELSE IF Len(stack) + 1 = MaxStackDepth THEN [stack |-> stack, result |-> "overrun"]
              ELSE [stack |-> Append(stack, StackNode(offset, bit, depth)), result |-> "ok"]
<1> DEFINE pushed == [stack |-> stack, result |-> "ok"]
<1>1. ~(Len(stack) >= MaxStackDepth)
    BY MaxStackDepthAssumption
<1>2. pushed.result = "ok" /\ pushed.stack = stack
    OBVIOUS
<1> HIDE DEF pushed
<1>3. CASE offset = 0
    BY <1>3 DEF PushNode, pushed
<1>4. CASE offset # 0 /\ Len(stack) + 1 = MaxStackDepth
    BY <1>1, <1>2, <1>4 DEF PushNode
<1>5. CASE offset # 0 /\ Len(stack) + 1 # MaxStackDepth
    BY <1>1, <1>2, <1>5 DEF PushNode
<1> QED BY <1>3, <1>4, <1>5 DEF pushed

LEMMA PushAfterOverrun ==
    ASSUME NEW stack, NEW offset, NEW bit, NEW depth
    PROVE  PushNode([stack |-> stack, result |-> "overrun"], offset, bit, depth)
              = [stack |-> stack, result |-> "overrun"]
<1> DEFINE pushed == [stack |-> stack, result |-> "overrun"]
<1>1. pushed.result # "ok"
    OBVIOUS
<1> HIDE DEF pushed
<1>2. PushNode(pushed, offset, bit, depth) = pushed
    BY <1>1 DEF PushNode
<1> QED BY <1>2 DEF pushed

\* The stack with the children on it
Entry == [offset : Offsets, i : Bit, depth : 0..W]
RightEntry == StackNode(ThisNode.one, 1, Top.depth + 1)
LeftEntry == StackNode(ThisNode.zero, 0, Top.depth + 1)
WithRight == IF ThisNode.one = 0 THEN network_stack ELSE Append(network_stack, RightEntry)
WithBoth == IF ThisNode.zero = 0 THEN WithRight ELSE Append(WithRight, LeftEntry)

LEMMA ChildrenOnStack ==
    ASSUME IInv, VisitNode
    PROVE  /\ Here \in Nat /\ Here > 0
           /\ WithRight \in Seq(Entry)
           /\ Len(WithRight) = (IF ThisNode.one = 0 THEN Here ELSE Here + 1)
           /\ \A k \in 1..Here : WithRight[k] = network_stack[k]
           /\ ThisNode.one # 0 => WithRight[Here + 1] = RightEntry
           /\ WithBoth \in Seq(Entry)
           /\ Len(WithBoth) = (IF ThisNode.zero = 0 THEN Len(WithRight) ELSE Len(WithRight) + 1)
           /\ \A k \in 1..Len(WithRight) : WithBoth[k] = WithRight[k]
           /\ ThisNode.zero # 0 => WithBoth[Len(WithRight) + 1] = LeftEntry
<1>1. network_stack \in Seq(Entry)
    BY DEF IInv, EnumeratorInv, TypeOK, Entry, Offsets
<1>2. Here \in Nat /\ Here > 0
    BY TopEntry DEF Here
<1>3. Child(ThisNode, 1) = ThisNode.one /\ Child(ThisNode, 0) = ThisNode.zero /\ 0 \in Bit /\ 1 \in Bit
    BY DEF Child, Bit
<1>4. ThisNode.one # 0 => RightEntry \in Entry
    BY <1>3, ChildOfThis DEF RightEntry, StackNode, Entry
<1>5. ThisNode.zero # 0 => LeftEntry \in Entry
    BY <1>3, ChildOfThis DEF LeftEntry, StackNode, Entry
<1>6. /\ WithRight \in Seq(Entry)
      /\ Len(WithRight) = (IF ThisNode.one = 0 THEN Here ELSE Here + 1)
      /\ \A k \in 1..Here : WithRight[k] = network_stack[k]
      /\ ThisNode.one # 0 => WithRight[Here + 1] = RightEntry
    <2>1. CASE ThisNode.one = 0
        BY <1>1, <2>1 DEF WithRight, Here
    <2>2. CASE ThisNode.one # 0
        BY <1>1, <1>4, <2>2, AppendProperties DEF WithRight, Here
    <2> QED BY <2>1, <2>2
<1>7. /\ WithBoth \in Seq(Entry)
      /\ Len(WithBoth) = (IF ThisNode.zero = 0 THEN Len(WithRight) ELSE Len(WithRight) + 1)
      /\ \A k \in 1..Len(WithRight) : WithBoth[k] = WithRight[k]
      /\ ThisNode.zero # 0 => WithBoth[Len(WithRight) + 1] = LeftEntry
    <2>1. CASE ThisNode.zero = 0
        BY <1>6, <2>1 DEF WithBoth
    <2>2. CASE ThisNode.zero # 0
        BY <1>5, <1>6, <2>2, AppendProperties DEF WithBoth
    <2> QED BY <2>1, <2>2
<1> QED BY <1>2, <1>6, <1>7

\* The children are put where their paths have their places.
LEMMA PlacesOfChildren ==
    ASSUME IInv, VisitNode
    PROVE  /\ ThisNode.one # 0 => StackPosition(db, Append(ThisPath, 1)) = Here + 1
           /\ ThisNode.zero # 0 => StackPosition(db, Append(ThisPath, 0)) = Len(WithRight) + 1
<1>1. /\ Here \in Nat /\ Here = StackPosition(db, ThisPath) /\ ThisPath \in Path
    BY TopEntry DEF Here, ThisPath
<1>2. Child(ThisNode, 1) = ThisNode.one /\ Child(ThisNode, 0) = ThisNode.zero /\ 0 \in Bit /\ 1 \in Bit
    BY DEF Child, Bit
<1>3. Len(WithRight) = (IF ThisNode.one = 0 THEN Here ELSE Here + 1)
    BY ChildrenOnStack
<1>4. ThisNode.one = 0 <=> ~\E i \in 1..Len(db.path) : db.path[i] = Append(ThisPath, 1)
    BY <1>2, ChildOfThis
<1>5. ASSUME ThisNode.one # 0 PROVE StackPosition(db, Append(ThisPath, 1)) = Here + 1
    <2>1. Append(ThisPath, 1) \in Path
        BY <1>2, <1>5, ChildOfThis
    <2> QED BY <1>1, <1>2, <2>1, PositionOfChild
<1>6. ASSUME ThisNode.zero # 0 PROVE StackPosition(db, Append(ThisPath, 0)) = Len(WithRight) + 1
    <2>1. Append(ThisPath, 0) \in Path
        BY <1>2, <1>6, ChildOfThis
    <2>2. StackPosition(db, Append(ThisPath, 0)) =
             IF ThisNode.one = 0 THEN StackPosition(db, ThisPath) + 1 ELSE StackPosition(db, ThisPath) + 2
        BY <1>1, <1>2, <1>4, <2>1, PositionOfChild
    <2> QED BY <1>1, <1>3, <2>2
<1> QED BY <1>5, <1>6

\* Either both are put on the stack, or it is overrun, and then the place of one
\* of them is where the stack ends.
LEMMA ChildrenPushed ==
    ASSUME IInv, VisitNode
    PROVE  /\ BothPushed.result \in {"ok", "overrun"}
           /\ BothPushed.stack \in Seq(Entry)
           /\ BothPushed.result = "ok" => BothPushed.stack = WithBoth /\ Len(WithBoth) < MaxStackDepth
           /\ BothPushed.result = "overrun" => FillsStack(db)
<1>1. network_stack \in Seq(Entry) /\ Here \in Nat /\ Here < MaxStackDepth /\ MaxStackDepth \in Nat
    BY TopEntry, MaxStackDepthAssumption
       DEF IInv, EnumeratorInv, TypeOK, StackIsPath, Entry, Offsets, Here
<1>2. Child(ThisNode, 1) = ThisNode.one /\ Child(ThisNode, 0) = ThisNode.zero /\ 0 \in Bit /\ 1 \in Bit
    BY DEF Child, Bit
<1>3. ASSUME NEW bit \in Bit
      PROVE  /\ ~(Child(ThisNode, bit) >= Len(db.nodes))
             /\ Child(ThisNode, bit) # 0 /\ StackPosition(db, Append(ThisPath, bit)) >= MaxStackDepth
                   => FillsStack(db)
    <2>1. CASE Child(ThisNode, bit) = 0
        <3>1. 0 \in Offsets /\ Len(db.nodes) \in Nat
            BY PathsOfNodes
        <3>2. ~(0 >= Len(db.nodes))
            BY <3>1 DEF Offsets
        <3> QED BY <2>1, <3>2
    <2>2. CASE Child(ThisNode, bit) # 0
        <3>1. ~(Child(ThisNode, bit) >= Len(db.nodes))
            BY <2>2, ChildOfThis
        <3>2. \E i \in 1..Len(db.path) : db.path[i] = Append(ThisPath, bit)
            BY <2>2, ChildOfThis
        <3> QED BY <3>1, <3>2 DEF FillsStack
    <2> QED BY <2>1, <2>2
<1>4. OnePushed = IF ThisNode.one = 0 THEN [stack |-> network_stack, result |-> "ok"]
                  ELSE IF Here + 1 = MaxStackDepth THEN [stack |-> network_stack, result |-> "overrun"]
                  ELSE [stack |-> Append(network_stack, RightEntry), result |-> "ok"]
    <2>1. ~(ThisNode.one >= Len(db.nodes))
        BY <1>2, <1>3
    <2> QED BY <1>1, <2>1, PushWithSpace DEF OnePushed, RightEntry, Here
<1>5. CASE ThisNode.one # 0 /\ Here + 1 = MaxStackDepth
    <2>1. BothPushed = [stack |-> network_stack, result |-> "overrun"]
        BY <1>4, <1>5, PushAfterOverrun DEF BothPushed
    <2>2. StackPosition(db, Append(ThisPath, 1)) >= MaxStackDepth
        BY <1>1, <1>5, PlacesOfChildren
    <2>3. FillsStack(db)
        BY <1>2, <1>3, <1>5, <2>2
    <2> QED BY <1>1, <2>1, <2>3
<1>6. CASE ~(ThisNode.one # 0 /\ Here + 1 = MaxStackDepth)
    <2>1. OnePushed = [stack |-> WithRight, result |-> "ok"]
        BY <1>4, <1>6 DEF WithRight
    <2>2. /\ WithRight \in Seq(Entry) /\ WithBoth \in Seq(Entry)
          /\ Len(WithRight) = (IF ThisNode.one = 0 THEN Here ELSE Here + 1)
          /\ Len(WithBoth) = (IF ThisNode.zero = 0 THEN Len(WithRight) ELSE Len(WithRight) + 1)
        BY ChildrenOnStack
    <2>3. Len(WithRight) \in Nat /\ Len(WithRight) < MaxStackDepth
        BY <1>1, <1>6, <2>2
    <2>4. ~(ThisNode.zero >= Len(db.nodes))
        BY <1>2, <1>3
    <2>5. BothPushed =
             IF ThisNode.zero = 0 THEN [stack |-> WithRight, result |-> "ok"]
             ELSE IF Len(WithRight) + 1 = MaxStackDepth THEN [stack |-> WithRight, result |-> "overrun"]
             ELSE [stack |-> Append(WithRight, LeftEntry), result |-> "ok"]
        BY <2>1, <2>3, <2>4, PushWithSpace DEF BothPushed, LeftEntry
    <2>6. CASE ThisNode.zero # 0 /\ Len(WithRight) + 1 = MaxStackDepth
        <3>1. BothPushed = [stack |-> WithRight, result |-> "overrun"]
            BY <2>5, <2>6
        <3>2. StackPosition(db, Append(ThisPath, 0)) >= MaxStackDepth
            BY <1>1, <2>6, PlacesOfChildren
        <3>3. FillsStack(db)
            BY <1>2, <1>3, <2>6, <3>2
        <3> QED BY <2>2, <3>1, <3>3
    <2>7. CASE ~(ThisNode.zero # 0 /\ Len(WithRight) + 1 = MaxStackDepth)
        <3>1. BothPushed = [stack |-> WithBoth, result |-> "ok"]
            BY <2>5, <2>7 DEF WithBoth
        <3>2. Len(WithBoth) < MaxStackDepth
            BY <1>1, <2>2, <2>3, <2>7
        <3> QED BY <2>2, <3>1, <3>2
    <2> QED BY <2>6, <2>7
<1> QED BY <1>5, <1>6

\* The k-th entry of the new stack is the one for the child of that bit.
IsChild(k, bit) ==
    /\ bit \in Bit /\ k \in 1..Len(WithBoth) /\ k > Here
    /\ Child(ThisNode, bit) # 0
    /\ WithBoth[k] = StackNode(Child(ThisNode, bit), bit, Top.depth + 1)
    /\ k = StackPosition(db, Append(ThisPath, bit))

\* What is on the new stack: what was there, and the children, the left one on top.
LEMMA EntriesAfterVisit ==
    ASSUME IInv, VisitNode
    PROVE  /\ Len(WithBoth) \in Nat /\ Here \in Nat /\ Here <= Len(WithBoth)
           /\ \A k \in 1..Here : k \in 1..Len(WithBoth) /\ WithBoth[k] = network_stack[k]
           /\ \A k \in 1..Len(WithBoth) : k \in 1..Here \/ \E bit \in Bit : IsChild(k, bit)
           /\ \A bit \in Bit : Child(ThisNode, bit) # 0 => \E k \in 1..Len(WithBoth) : IsChild(k, bit)
           /\ \A j, k : \A b, c \in Bit :
                 IsChild(j, b) /\ IsChild(k, c) /\ j < k => b = 1 /\ c = 0
<1> DEFINE R == Len(WithRight)
           B == Len(WithBoth)
<1>1. Child(ThisNode, 1) = ThisNode.one /\ Child(ThisNode, 0) = ThisNode.zero /\ 0 \in Bit /\ 1 \in Bit
    BY DEF Child, Bit
<1>2. /\ Here \in Nat
      /\ R = (IF ThisNode.one = 0 THEN Here ELSE Here + 1)
      /\ \A k \in 1..Here : WithRight[k] = network_stack[k]
      /\ ThisNode.one # 0 => WithRight[Here + 1] = RightEntry
      /\ B = (IF ThisNode.zero = 0 THEN R ELSE R + 1)
      /\ \A k \in 1..R : WithBoth[k] = WithRight[k]
      /\ ThisNode.zero # 0 => WithBoth[R + 1] = LeftEntry
    BY ChildrenOnStack
<1>3. /\ ThisNode.one # 0 => StackPosition(db, Append(ThisPath, 1)) = Here + 1
      /\ ThisNode.zero # 0 => StackPosition(db, Append(ThisPath, 0)) = R + 1
    BY PlacesOfChildren
<1> HIDE DEF R, B
<1>4. R \in Nat /\ B \in Nat /\ Here <= R /\ R <= B /\ Here <= B
    BY <1>2
<1>5. ASSUME NEW k \in 1..Here PROVE k \in 1..B /\ WithBoth[k] = network_stack[k]
    <2>1. k \in 1..R /\ k \in 1..B
        BY <1>2, <1>4
    <2> QED BY <1>2, <2>1
<1>6. ASSUME ThisNode.one # 0 PROVE IsChild(Here + 1, 1)
    <2>1. R = Here + 1 /\ Here + 1 \in 1..R /\ Here + 1 \in 1..B /\ Here + 1 > Here
        BY <1>2, <1>4, <1>6
    <2>2. WithBoth[Here + 1] = RightEntry
        BY <1>2, <1>6, <2>1
    <2> QED BY <1>1, <1>3, <1>6, <2>1, <2>2 DEF IsChild, RightEntry, B
<1>7. ASSUME ThisNode.zero # 0 PROVE IsChild(R + 1, 0)
    <2>1. B = R + 1 /\ R + 1 \in 1..B /\ R + 1 > Here
        BY <1>2, <1>4, <1>7
    <2>2. WithBoth[R + 1] = LeftEntry
        BY <1>2, <1>7
    <2> QED BY <1>1, <1>3, <1>7, <2>1, <2>2 DEF IsChild, LeftEntry, B
<1>8. ASSUME NEW k \in 1..B PROVE k \in 1..Here \/ \E bit \in Bit : IsChild(k, bit)
    <2>1. k \in 1..Here \/ (k = Here + 1 /\ ThisNode.one # 0) \/ (k = R + 1 /\ ThisNode.zero # 0)
        BY <1>2, <1>4
    <2> QED BY <1>1, <1>6, <1>7, <2>1
<1>9. ASSUME NEW bit \in Bit, Child(ThisNode, bit) # 0 PROVE \E k \in 1..B : IsChild(k, bit)
    <2>1. bit = 0 \/ bit = 1
        BY DEF Bit
    <2>2. \A k : IsChild(k, bit) => k \in 1..B
        BY DEF IsChild, B
    <2> QED BY <1>1, <1>6, <1>7, <1>9, <2>1, <2>2
<1>10. ASSUME NEW j, NEW k, NEW b \in Bit, NEW c \in Bit, IsChild(j, b), IsChild(k, c), j < k
       PROVE  b = 1 /\ c = 0
    <2>1. ASSUME NEW m, IsChild(m, 1) PROVE m = Here + 1
        BY <1>1, <1>3, <2>1 DEF IsChild
    <2>2. ASSUME NEW m, IsChild(m, 0) PROVE m = R + 1
        BY <1>1, <1>3, <2>2 DEF IsChild
    <2>3. (b = 0 \/ b = 1) /\ (c = 0 \/ c = 1)
        BY DEF Bit
    <2>4. (b = 1 => j = Here + 1) /\ (b = 0 => j = R + 1) /\ (c = 1 => k = Here + 1) /\ (c = 0 => k = R + 1)
        BY <1>10, <2>1, <2>2
    <2> QED BY <1>2, <1>4, <1>10, <2>3, <2>4
<1> QED BY <1>2, <1>4, <1>5, <1>8, <1>9, <1>10 DEF B

\* A visit in terms of this: what it does when the stack is not overrun.
LEMMA VisitEffect ==
    ASSUME IInv, VisitNode
    PROVE  /\ UNCHANGED <<db, filter>>
           /\ networks_visited' = networks_visited \cup {Top.offset}
           /\ network_stack' = BothPushed.stack
           /\ state' # "overrun" => BothPushed.result = "ok" /\ network_stack' = WithBoth
<1>1. /\ UNCHANGED <<db, filter>> /\ networks_visited' = networks_visited \cup {Top.offset}
      /\ network_stack' = BothPushed.stack /\ state = "searching"
    BY DEF VisitNode, BothPushed, OnePushed, ThisNode
<1>2. BothPushed.result = "overrun" => Overrun
    BY DEF VisitNode, BothPushed, OnePushed, ThisNode
<1>3. state' # "overrun" => BothPushed.result # "overrun"
    BY <1>2 DEF Overrun
<1> QED BY <1>1, <1>3, ChildrenPushed

\* What is pending after a visit: what else was pending, and the children.
StillPending == {k \in 1..Len(WithBoth) : WithBoth[k].offset \notin networks_visited \cup {Top.offset}}

LEMMA PendingAfterVisit ==
    ASSUME IInv, VisitNode
    PROVE  /\ \A k \in StillPending :
                 \/ k \in Pending /\ k \in 1..Here /\ k < Here /\ WithBoth[k] = network_stack[k]
                 \/ \E bit \in Bit : IsChild(k, bit)
           /\ \A k \in Pending : k # Here => k \in StillPending /\ WithBoth[k] = network_stack[k]
           /\ \A k : \A bit \in Bit : IsChild(k, bit) =>
                 /\ k \in StillPending
                 /\ WithBoth[k].offset \in Offsets
                 /\ WithBoth[k].depth = Top.depth + 1 /\ WithBoth[k].i = bit
                 /\ PathOf(WithBoth[k].offset) = Append(ThisPath, bit)
                 /\ Append(ThisPath, bit) \in Path /\ Top.depth + 1 = Len(Append(ThisPath, bit))
<1>1. ASSUME NEW k, NEW bit \in Bit, IsChild(k, bit)
      PROVE  /\ k \in StillPending
             /\ WithBoth[k].offset \in Offsets
             /\ WithBoth[k].depth = Top.depth + 1 /\ WithBoth[k].i = bit
             /\ PathOf(WithBoth[k].offset) = Append(ThisPath, bit)
             /\ Append(ThisPath, bit) \in Path /\ Top.depth + 1 = Len(Append(ThisPath, bit))
    <2>1. /\ k \in 1..Len(WithBoth) /\ Child(ThisNode, bit) # 0
          /\ WithBoth[k] = StackNode(Child(ThisNode, bit), bit, Top.depth + 1)
        BY <1>1 DEF IsChild
    <2>2. WithBoth[k].offset = Child(ThisNode, bit) /\ WithBoth[k].depth = Top.depth + 1 /\ WithBoth[k].i = bit
        BY <2>1 DEF StackNode
    <2> QED BY <2>1, <2>2, ChildOfThis DEF StillPending
<1>2. ASSUME NEW k \in StillPending
      PROVE  \/ k \in Pending /\ k \in 1..Here /\ k < Here /\ WithBoth[k] = network_stack[k]
             \/ \E bit \in Bit : IsChild(k, bit)
    <2>1. k \in 1..Len(WithBoth) /\ WithBoth[k].offset \notin networks_visited /\ WithBoth[k].offset # Top.offset
        BY DEF StillPending
    <2>2. CASE k \in 1..Here
        <3>1. WithBoth[k] = network_stack[k]
            BY <2>2, EntriesAfterVisit
        <3>2. k \in Pending
            BY <2>1, <2>2, <3>1 DEF Pending, Here
        <3>3. k # Here
            BY <2>1, <3>1 DEF Top, Here
        <3> QED BY <2>2, <3>1, <3>2, <3>3, EntriesAfterVisit
    <2>3. CASE k \notin 1..Here
        BY <2>1, <2>3, EntriesAfterVisit
    <2> QED BY <2>2, <2>3
<1>3. ASSUME NEW k \in Pending, k # Here
      PROVE  k \in StillPending /\ WithBoth[k] = network_stack[k]
    <2>1. /\ k \in 1..Here /\ network_stack[k].offset \notin networks_visited
          /\ LeftOf(PathOf(Top.offset), PathOf(network_stack[k].offset))
        BY <1>3, TopEntry DEF Pending, Here
    <2>2. k \in 1..Len(WithBoth) /\ WithBoth[k] = network_stack[k]
        BY <2>1, EntriesAfterVisit
    <2>3. network_stack[k].offset # Top.offset
        BY <2>1, TopEntry, LeftIsApart
    <2> QED BY <2>1, <2>2, <2>3 DEF StillPending
<1> QED BY <1>1, <1>2, <1>3

\* The stack is the path of its nodes after a visit too.
LEMMA VisitKeepsStack ==
    ASSUME IInv, VisitNode, state' # "overrun"
    PROVE  StackIsPath'
<1> DEFINE PathAt(k) == PathOf(WithBoth[k].offset)
           IsEntry(k) ==
               /\ WithBoth[k].depth = Len(PathAt(k))
               /\ WithBoth[k].depth > 0 => WithBoth[k].i = PathAt(k)[WithBoth[k].depth]
               /\ k = StackPosition(db, PathAt(k))
               /\ \A j \in 1..k : WithBoth[j].depth <= WithBoth[k].depth
<1>1. db' = db /\ network_stack' = WithBoth /\ Len(WithBoth) < MaxStackDepth
    BY VisitEffect, ChildrenPushed
<1>2. StackIsPath /\ state # "overrun"
    BY TopEntry DEF IInv, EnumeratorInv
<1>3. /\ Len(WithBoth) \in Nat /\ Here \in Nat /\ Here <= Len(WithBoth)
      /\ \A k \in 1..Here : k \in 1..Len(WithBoth) /\ WithBoth[k] = network_stack[k]
      /\ \A k \in 1..Len(WithBoth) : k \in 1..Here \/ \E bit \in Bit : IsChild(k, bit)
    BY EntriesAfterVisit
<1>4. ASSUME NEW k \in 1..Here PROVE IsEntry(k)
    <2>1. WithBoth[k] = network_stack[k] /\ k \in 1..Len(network_stack)
        BY <1>3 DEF Here
    <2>2. \A j \in 1..k : WithBoth[j] = network_stack[j]
        BY <1>3
    <2> QED BY <1>2, <2>1, <2>2 DEF StackIsPath
<1>5. ASSUME NEW k \in 1..Here PROVE WithBoth[k].depth \in Nat /\ WithBoth[k].depth <= Top.depth
    <2>1. WithBoth[k] = network_stack[k] /\ k \in 1..Len(network_stack) /\ Here \in 1..Len(network_stack)
        BY <1>3, TopEntry DEF Here
    <2>2. \A j \in 1..Here : network_stack[j].depth <= network_stack[Here].depth
        BY <1>2, <2>1 DEF StackIsPath
    <2>3. network_stack[k].depth \in Nat
        BY <1>2, <2>1, StackEntry
    <2> QED BY <2>1, <2>2, <2>3 DEF Top, Here
<1>6. ASSUME NEW k \in 1..Len(WithBoth), NEW bit \in Bit, IsChild(k, bit) PROVE IsEntry(k)
    <2>1. /\ WithBoth[k].depth = Top.depth + 1 /\ WithBoth[k].i = bit
          /\ PathAt(k) = Append(ThisPath, bit) /\ Top.depth + 1 = Len(Append(ThisPath, bit))
        BY <1>6, PendingAfterVisit
    <2>2. k = StackPosition(db, Append(ThisPath, bit))
        BY <1>6 DEF IsChild
    <2>3. Append(ThisPath, bit)[Top.depth + 1] = bit
        BY TopEntry, PathChild DEF ThisPath
    <2>4. Top.depth \in Nat
        BY TopEntry
    <2>5. ASSUME NEW j \in 1..k PROVE WithBoth[j].depth <= Top.depth + 1
        <3>1. j \in 1..Len(WithBoth)
            BY <1>3
        <3>2. CASE j \in 1..Here
            BY <1>5, <2>4, <3>2
        <3>3. CASE \E b \in Bit : IsChild(j, b)
            <4>1. WithBoth[j].depth = Top.depth + 1
                BY <3>3, PendingAfterVisit
            <4> QED BY <2>4, <4>1
        <3> QED BY <1>3, <3>1, <3>2, <3>3
    <2> QED BY <2>1, <2>2, <2>3, <2>5
<1>7. \A k \in 1..Len(WithBoth) : IsEntry(k)
    BY <1>3, <1>4, <1>6
<1> QED BY <1>1, <1>7 DEF StackIsPath, PathOf

\* network_address has the bits of the path of the node that is visited.
LEMMA BitsOfThis ==
    ASSUME IInv, VisitNode
    PROVE  /\ network_address' \in Address
           /\ \A i \in 1..Len(ThisPath) : network_address'[i] = ThisPath[i]
           /\ \A i \in 1..(Len(ThisPath) - 1) : network_address'[i] = network_address[i]
<1> DEFINE n == Len(ThisPath)
           at == IF Top.depth > 0 THEN Top.depth ELSE 1
<1>1. /\ ThisPath \in Path /\ Top.depth = n /\ n \in Nat /\ n <= W /\ W \in Nat /\ W > 0
      /\ Here \in Pending /\ Here \in 1..Len(network_stack) /\ state # "overrun"
    BY TopEntry, PathType, WidthAssumption DEF ThisPath, Here
<1>2. Top.i \in Bit /\ (n > 0 => Top.i = ThisPath[n])
    BY <1>1, StackEntry DEF Top, Here, ThisPath
<1>3. network_address' = [network_address EXCEPT ![at] = Top.i]
    BY DEF VisitNode, SetBit
<1>4. network_address \in Address /\ at \in 1..W
    BY <1>1 DEF IInv, EnumeratorInv, TypeOK
<1>5. network_address' \in Address
    BY <1>2, <1>3, <1>4 DEF Address
<1>6. \A i \in 1..(n - 1) : network_address[i] = ThisPath[i]
    BY <1>1 DEF IInv, EnumeratorInv, PendingInOrder, Top, Here, ThisPath
<1> HIDE DEF n
<1>7. ASSUME NEW i \in 1..(n - 1) PROVE network_address'[i] = network_address[i]
    <2>1. i # at /\ i \in 1..W
        BY <1>1
    <2> HIDE DEF at
    <2> QED BY <1>3, <1>4, <2>1 DEF Address
<1>8. ASSUME NEW i \in 1..n PROVE network_address'[i] = ThisPath[i]
    <2>1. i \in 1..(n - 1) \/ (i = n /\ n > 0)
        BY <1>1
    <2>2. CASE i \in 1..(n - 1)
        BY <1>6, <1>7, <2>2
    <2>3. CASE i = n /\ n > 0
        <3>1. at = i
            BY <1>1, <2>3
        <3> HIDE DEF at
        <3> QED BY <1>2, <1>3, <1>4, <2>3, <3>1 DEF Address
    <2> QED BY <2>1, <2>2, <2>3
<1> QED BY <1>5, <1>7, <1>8 DEF n

\* What is pending is in order after a visit, and network_address is right for it.
LEMMA VisitKeepsPending ==
    ASSUME IInv, VisitNode, state' # "overrun"
    PROVE  PendingInOrder'
<1> DEFINE PathAt(k) == PathOf(WithBoth[k].offset)
<1>1. db' = db /\ network_stack' = WithBoth /\ networks_visited' = networks_visited \cup {Top.offset}
    BY VisitEffect
<1>2. Pending' = StillPending
    BY <1>1 DEF Pending, StillPending
<1>3. /\ ThisPath \in Path /\ Len(ThisPath) \in Nat /\ state # "overrun"
      /\ Here \in Nat /\ Here \in 1..Len(network_stack) /\ Top.depth = Len(ThisPath)
    BY TopEntry, PathType DEF ThisPath, Here
<1>4. ASSUME NEW k \in Pending, k # Here
      PROVE  /\ WithBoth[k] = network_stack[k] /\ PathAt(k) \in Path /\ LeftOf(ThisPath, PathAt(k))
             /\ Len(PathAt(k)) \in Nat /\ Len(PathAt(k)) <= Len(ThisPath)
    <2>1. WithBoth[k] = network_stack[k] /\ k \in 1..Len(network_stack) /\ k < Here /\ LeftOf(ThisPath, PathAt(k))
        BY <1>4, PendingAfterVisit, TopEntry DEF Here, ThisPath
    <2>2. PathAt(k) \in Path /\ network_stack[k].depth = Len(PathAt(k)) /\ network_stack[k].depth \in Nat
        BY <1>3, <2>1, StackEntry
    <2>3. k \in 1..Here
        BY <1>3, <2>1 DEF Here
    <2>4. network_stack[k].depth <= network_stack[Here].depth
        BY <1>3, <2>3 DEF IInv, EnumeratorInv, StackIsPath
    <2> QED BY <1>3, <2>1, <2>2, <2>4 DEF Top, Here
<1>5. ASSUME NEW k \in StillPending, NEW j \in StillPending, j < k
      PROVE  LeftOf(PathAt(k), PathAt(j))
    <2>1. CASE k \in Pending /\ k # Here /\ j \in Pending /\ j # Here
        <3>1. LeftOf(PathOf(network_stack[k].offset), PathOf(network_stack[j].offset))
            BY <1>3, <1>5, <2>1 DEF IInv, EnumeratorInv, PendingInOrder
        <3> QED BY <1>4, <2>1, <3>1
    <2>2. ASSUME NEW bit \in Bit, IsChild(k, bit), j \in Pending, j # Here
          PROVE  LeftOf(PathAt(k), PathAt(j))
        <3>1. PathAt(k) = Append(ThisPath, bit) /\ Append(ThisPath, bit) \in Path
            BY <2>2, PendingAfterVisit
        <3>2. PathAt(j) \in Path /\ LeftOf(ThisPath, PathAt(j))
            BY <1>4, <2>2
        <3>3. Leads(ThisPath, Append(ThisPath, bit)) /\ Leads(PathAt(j), PathAt(j))
            BY <1>3, <3>1, <3>2, LeadsToChild, LeadsToItself
        <3> QED BY <1>3, <3>1, <3>2, <3>3, LeftLeads
    <2>3. ASSUME NEW b \in Bit, IsChild(j, b), k \in Pending, k # Here
          PROVE  FALSE
        <3>1. j > Here /\ j \in 1..Len(WithBoth) /\ Len(WithBoth) \in Nat
            BY <2>3, EntriesAfterVisit DEF IsChild
        <3>2. k \in 1..Len(network_stack) /\ k < Here
            BY <2>3, TopEntry DEF Here
        <3> QED BY <1>3, <1>5, <3>1, <3>2 DEF Here
    <2>4. ASSUME NEW c \in Bit, IsChild(k, c), NEW b \in Bit, IsChild(j, b)
          PROVE  LeftOf(PathAt(k), PathAt(j))
        <3>1. b = 1 /\ c = 0
            BY <1>5, <2>4, EntriesAfterVisit
        <3>2. /\ PathAt(k) = Append(ThisPath, c) /\ Append(ThisPath, c) \in Path
              /\ PathAt(j) = Append(ThisPath, b) /\ Append(ThisPath, b) \in Path
            BY <2>4, PendingAfterVisit
        <3> QED BY <1>3, <3>1, <3>2, LeftChild
    <2>5. ASSUME NEW m \in StillPending
          PROVE  (m \in Pending /\ m # Here) \/ \E bit \in Bit : IsChild(m, bit)
        BY <1>3, PendingAfterVisit
    <2> QED BY <2>1, <2>2, <2>3, <2>4, <2>5
<1>6. ASSUME NEW k \in StillPending, NEW i \in 1..(Len(PathAt(k)) - 1)
      PROVE  network_address'[i] = PathAt(k)[i]
    <2>1. CASE k \in Pending /\ k # Here
        <3>1. WithBoth[k] = network_stack[k] /\ Len(PathAt(k)) \in Nat /\ Len(PathAt(k)) <= Len(ThisPath)
            BY <1>4, <2>1
        <3>2. network_address[i] = PathAt(k)[i]
            BY <1>3, <2>1, <3>1 DEF IInv, EnumeratorInv, PendingInOrder
        <3>3. i \in 1..(Len(ThisPath) - 1)
            BY <1>3, <3>1
        <3> QED BY <3>2, <3>3, BitsOfThis
    <2>2. CASE \E bit \in Bit : IsChild(k, bit)
        <3>1. PICK bit \in Bit : IsChild(k, bit)
            BY <2>2
        <3>2. PathAt(k) = Append(ThisPath, bit)
            BY <3>1, PendingAfterVisit
        <3>3. Len(PathAt(k)) - 1 = Len(ThisPath) /\ \A m \in 1..Len(ThisPath) : PathAt(k)[m] = ThisPath[m]
            BY <1>3, <3>2, PathChild
        <3>4. i \in 1..Len(ThisPath)
            BY <3>3
        <3> QED BY <3>3, <3>4, BitsOfThis
    <2> QED BY <1>3, <2>1, <2>2, PendingAfterVisit
<1> QED BY <1>1, <1>2, <1>5, <1>6 DEF PendingInOrder, PathOf

\* A node not visited is one that a pending one leads to, or behind one.
LEMMA UnvisitedIsBehind ==
    ASSUME IInv, VisitNode, NEW u \in Offsets \ networks_visited, u # Top.offset
    PROVE  \/ Leads(ThisPath, PathOf(u)) /\ PathOf(u) # ThisPath
           \/ \E k \in Pending : /\ k # Here /\ Leads(PathOf(network_stack[k].offset), PathOf(u))
                                /\ LeftOf(ThisPath, PathOf(u))
<1>1. /\ ThisPath \in Path /\ Top.offset \in Offsets /\ state # "overrun"
      /\ Here \in Pending /\ PathOf(u) \in Path
    BY TopEntry, PathsOfNodes DEF ThisPath, Here
<1>2. PICK k \in Pending : Leads(PathOf(network_stack[k].offset), PathOf(u))
    BY <1>1 DEF IInv, EnumeratorInv, VisitedInOrder
<1>3. CASE k = Here
    BY <1>1, <1>2, <1>3, PathsOfNodes DEF ThisPath, Top, Here
<1>4. CASE k # Here
    <2>1. k \in 1..Len(network_stack) /\ LeftOf(ThisPath, PathOf(network_stack[k].offset))
        BY <1>4, TopEntry DEF Here, ThisPath
    <2>2. PathOf(network_stack[k].offset) \in Path
        BY <1>1, <2>1, StackEntry
    <2>3. LeftOf(ThisPath, PathOf(u))
        BY <1>1, <1>2, <2>1, <2>2, LeftLeads, LeadsToItself
    <2> QED BY <1>2, <1>4, <2>3
<1> QED BY <1>3, <1>4

\* The visited nodes are those in front of where the search is, after a visit too.
LEMMA VisitKeepsVisited ==
    ASSUME IInv, VisitNode, state' # "overrun"
    PROVE  VisitedInOrder'
<1> DEFINE V == networks_visited \cup {Top.offset}
           PathAt(k) == PathOf(WithBoth[k].offset)
<1>1. db' = db /\ network_stack' = WithBoth /\ networks_visited' = V
    BY VisitEffect
<1>2. Pending' = StillPending
    BY <1>1 DEF Pending, StillPending
<1>3. /\ ThisPath \in Path /\ Len(ThisPath) \in Nat /\ state # "overrun" /\ Top.offset \in Offsets
      /\ Here \in Pending /\ Here \in 1..Len(network_stack) /\ PathOf(Top.offset) = ThisPath
    BY TopEntry, PathType DEF ThisPath, Here
<1>4. VisitedInOrder
    BY <1>3 DEF IInv, EnumeratorInv
<1>5. ASSUME NEW u \in Offsets, u \notin V
      PROVE  \E k \in StillPending : Leads(PathAt(k), PathOf(u))
    <2>1. u \in Offsets \ networks_visited /\ u # Top.offset /\ PathOf(u) \in Path /\ u + 1 \in 1..Len(db.nodes)
        BY <1>5, PathsOfNodes
    <2>2. CASE \E k \in Pending : k # Here /\ Leads(PathOf(network_stack[k].offset), PathOf(u))
        BY <2>2, PendingAfterVisit
    <2>3. CASE Leads(ThisPath, PathOf(u)) /\ PathOf(u) # ThisPath
        <3> DEFINE bit == PathOf(u)[Len(ThisPath) + 1]
                   q == Append(ThisPath, bit)
        <3>1. /\ bit \in Bit /\ q \in Path /\ Leads(q, PathOf(u))
              /\ SubSeq(PathOf(u), 1, Len(ThisPath) + 1) = q /\ Len(ThisPath) + 1 \in 0..Len(PathOf(u))
            BY <1>3, <2>1, <2>3, LeadsByChild
        <3>2. PathOf(u) = db.path[u + 1] /\ u + 1 \in 1..Len(db.path) /\ WellFormed(db)
            BY <2>1, PathsOfNodes DEF PathOf
        <3>3. \E j \in 1..Len(db.path) : db.path[j] = q
            BY <3>1, <3>2 DEF WellFormed, PrefixClosed
        <3> HIDE DEF bit
        <3>4. Child(ThisNode, bit) # 0
            BY <3>1, <3>3, ChildOfThis
        <3>5. PICK k \in 1..Len(WithBoth) : IsChild(k, bit)
            BY <3>1, <3>4, EntriesAfterVisit
        <3>6. k \in StillPending /\ PathAt(k) = q
            BY <3>1, <3>5, PendingAfterVisit
        <3> QED BY <3>1, <3>6
    <2> QED BY <2>1, <2>2, <2>3, UnvisitedIsBehind
<1>6. ASSUME NEW u \in Offsets, NEW k \in StillPending, Leads(PathAt(k), PathOf(u))
      PROVE  u \notin V
    <2>1. PathOf(u) \in Path
        BY PathsOfNodes
    <2>2. CASE k \in Pending /\ k # Here
        <3>1. /\ WithBoth[k] = network_stack[k] /\ k \in 1..Len(network_stack)
              /\ LeftOf(ThisPath, PathAt(k))
            BY <2>2, PendingAfterVisit, TopEntry DEF Here, ThisPath
        <3>2. u \notin networks_visited
            BY <1>4, <1>6, <2>2, <3>1 DEF VisitedInOrder
        <3>3. PathAt(k) \in Path
            BY <1>3, <3>1, StackEntry
        <3>4. u # Top.offset
            BY <1>3, <1>6, <3>1, <3>3, LeftIsApart
        <3> QED BY <3>2, <3>4
    <2>3. CASE \E bit \in Bit : IsChild(k, bit)
        <3>1. PICK bit \in Bit : IsChild(k, bit)
            BY <2>3
        <3>2. PathAt(k) = Append(ThisPath, bit) /\ Append(ThisPath, bit) \in Path
            BY <3>1, PendingAfterVisit
        <3>3. Leads(ThisPath, PathAt(k)) /\ ~Leads(PathAt(k), ThisPath)
            BY <1>3, <3>2, LeadsToChild
        <3>4. Leads(ThisPath, PathOf(u))
            BY <1>3, <1>6, <2>1, <3>2, <3>3, LeadsOn
        <3>5. u \notin networks_visited
            BY <1>3, <1>4, <3>4 DEF VisitedInOrder, ThisPath, Top, Here
        <3>6. u # Top.offset
            BY <1>3, <1>6, <3>3
        <3> QED BY <3>5, <3>6
    <2> QED BY <1>3, <2>2, <2>3, PendingAfterVisit
<1>7. ASSUME NEW v \in V, NEW u \in Offsets \ V PROVE NetworkLess(PathOf(v), PathOf(u))
    <2>1. CASE v \in networks_visited
        BY <1>4, <2>1 DEF VisitedInOrder
    <2>2. CASE v = Top.offset
        <3>1. u \in Offsets \ networks_visited /\ u # Top.offset /\ PathOf(u) \in Path
            BY PathsOfNodes
        <3>2. \/ Leads(ThisPath, PathOf(u)) /\ PathOf(u) # ThisPath
              \/ LeftOf(ThisPath, PathOf(u))
            BY <3>1, UnvisitedIsBehind
        <3> QED BY <1>3, <2>2, <3>1, <3>2, LeadingIsLess, LeftIsLess
    <2> QED BY <2>1, <2>2
<1>8. \A u \in Offsets : u \notin V <=> \E k \in StillPending : Leads(PathAt(k), PathOf(u))
    BY <1>5, <1>6
<1>9. Offsets' = Offsets
    BY <1>1 DEF Offsets
<1> HIDE DEF V
<1> QED BY <1>1, <1>2, <1>7, <1>8, <1>9 DEF VisitedInOrder, PathOf

\* The network of the node that is visited, and what is read for it: that one,
\* unless it spans the IPv4 range.
ThisNetwork == [path |-> ThisPath, attributes |-> ContentsOf(db)[ThisPath]]
Fetched == FetchNetwork(db, network_address', Top.depth, ThisNode.network)

LEMMA FetchedForThis ==
    ASSUME IInv, VisitNode, IsLeaf(ThisNode)
    PROVE  /\ ThisPath \in NetworksOf(db) /\ ThisNetwork \in Found
           /\ Fetched \in {{}, {ThisNetwork}}
           /\ Fetched = {} => ~NoneSpansV4(db)
<1> DEFINE i == Top.offset + 1
           a == network_address'
<1>1. /\ WellFormed(db) /\ i \in 1..Len(db.nodes) /\ ThisNode = db.nodes[i] /\ db.path[i] = ThisPath
      /\ Top.depth \in 0..W /\ Len(ThisPath) = Top.depth /\ ThisPath \in Path
    BY TopEntry, PathsOfNodes DEF ThisNode, ThisPath
<1>2. a \in Address /\ \A k \in 1..Top.depth : a[k] = ThisPath[k]
    BY <1>1, BitsOfThis
<1> HIDE DEF i, a
<1>3. /\ ThisPath \in NetworksOf(db)
      /\ FetchNetwork(db, a, Top.depth, ThisNode.network) \in {{}, {ThisNetwork}}
      /\ FetchNetwork(db, a, Top.depth, ThisNode.network) = {} => SpansV4(ThisPath)
    BY <1>1, <1>2, FetchedNetwork DEF ThisNetwork
<1>4. ThisNetwork \in Found
    BY <1>1, <1>3, ContentsType DEF ThisNetwork, Found
<1> QED BY <1>3, <1>4 DEF Fetched, a, NoneSpansV4

\* How a visit ends: the stack is overrun, the network cannot be read, there is
\* none that matches, or it is returned.
LEMMA VisitEnds ==
    ASSUME IInv, VisitNode
    PROVE  \/ BothPushed.result = "overrun" /\ Overrun
           \/ BothPushed.result = "ok" /\ IsLeaf(ThisNode) /\ Fetched = {} /\ ReturnError
           \/ BothPushed.result = "ok" /\ Continue /\ (IsLeaf(ThisNode) => ~Matches(ThisNetwork))
           \/ /\ BothPushed.result = "ok" /\ IsLeaf(ThisNode)
              /\ Matches(ThisNetwork) /\ ReturnNetwork(ThisNetwork)
<1>1. BothPushed.result \in {"ok", "overrun"}
    BY ChildrenPushed
<1>2. LET failed == BothPushed.result = "error" \/ (IsLeaf(ThisNode) /\ Fetched = {}) IN
      \/ BothPushed.result = "overrun" /\ Overrun
      \/ BothPushed.result # "overrun" /\ failed /\ ReturnError
      \/ BothPushed.result = "ok" /\ ~IsLeaf(ThisNode) /\ Continue
      \/ /\ BothPushed.result = "ok" /\ IsLeaf(ThisNode)
         /\ \E network \in Fetched :
               IF Matches(network) THEN ReturnNetwork(network) ELSE Continue
    BY DEF VisitNode, BothPushed, OnePushed, ThisNode, Fetched
<1>3. CASE BothPushed.result = "ok" /\ IsLeaf(ThisNode)
    <2>1. Fetched \in {{}, {ThisNetwork}}
        BY <1>3, FetchedForThis
    <2>2. CASE Fetched = {}
        BY <1>2, <1>3, <2>2
    <2>3. CASE Fetched = {ThisNetwork}
        <3>1. IF Matches(ThisNetwork) THEN ReturnNetwork(ThisNetwork) ELSE Continue
            BY <1>2, <1>3, <2>3
        <3> QED BY <1>3, <3>1
    <2> QED BY <2>1, <2>2, <2>3
<1>4. CASE ~(BothPushed.result = "ok" /\ IsLeaf(ThisNode))
    BY <1>1, <1>2, <1>4
<1> QED BY <1>3, <1>4

-----------------------------------------------------------------------------
(* The invariant is inductive. *)

LEMMA VisitKeeps ==
    ASSUME IInv, VisitNode
    PROVE  IInv'
<1>1. /\ UNCHANGED <<db, filter>> /\ networks_visited' = networks_visited \cup {Top.offset}
      /\ network_stack' = BothPushed.stack
    BY VisitEffect
<1>2. TypeOK /\ state = "searching" /\ db \in Databases
      /\ (returned # <<>> => \E v \in networks_visited : Last(returned).path = PathOf(v))
    BY TopEntry DEF IInv, EnumeratorInv
<1>3. network_stack' \in Seq(Entry) /\ network_address' \in Address /\ Top.offset \in Offsets
    BY <1>1, ChildrenPushed, BitsOfThis, TopEntry
<1>4. CASE ReturnNetwork(ThisNetwork) /\ IsLeaf(ThisNode)
    <2>1. ThisNetwork \in Found /\ returned \in Seq(Found)
        BY <1>2, <1>4, FetchedForThis DEF TypeOK
    <2>2. returned' = Append(returned, ThisNetwork)
        BY <1>4 DEF ReturnNetwork
    <2>3. returned' \in Seq(Found) /\ Last(returned') = ThisNetwork
        <3>1. /\ Len(returned) \in Nat /\ returned' \in Seq(Found) /\ Len(returned') = Len(returned) + 1
              /\ returned'[Len(returned) + 1] = ThisNetwork
            BY <2>1, <2>2, AppendProperties, LenProperties
        <3> QED BY <3>1 DEF Last
    <2>4. Last(returned').path = PathOf(Top.offset)
        BY <2>3 DEF ThisNetwork, ThisPath
    <2>5. state' = "idle" /\ outcome' = "network"
        BY <1>4 DEF ReturnNetwork
    <2>6. TypeOK'
        BY <1>1, <1>2, <1>3, <2>3, <2>5 DEF TypeOK, Entry, Offsets
    <2>7. StackIsPath' /\ PendingInOrder' /\ VisitedInOrder'
        BY <2>5, VisitKeepsStack, VisitKeepsPending, VisitKeepsVisited
    <2>8. \E v \in networks_visited' : Last(returned').path = PathOf(v)'
        BY <1>1, <2>4 DEF PathOf
    <2> QED BY <1>1, <1>2, <2>6, <2>7, <2>8 DEF IInv, EnumeratorInv
<1>5. CASE UNCHANGED returned
    <2>1. state' \in {"idle", "searching", "overrun"} /\ outcome' \in {"none", "network", "end", "error"}
        BY <1>2, VisitEnds DEF Overrun, ReturnError, Continue, ReturnNetwork, TypeOK
    <2>2. TypeOK'
        BY <1>1, <1>2, <1>3, <1>5, <2>1 DEF TypeOK, Entry, Offsets
    <2>3. state' # "overrun" => StackIsPath' /\ PendingInOrder' /\ VisitedInOrder'
        BY VisitKeepsStack, VisitKeepsPending, VisitKeepsVisited
    <2>4. returned' # <<>> => \E v \in networks_visited' : Last(returned').path = PathOf(v)'
        BY <1>1, <1>2, <1>5 DEF PathOf
    <2> QED BY <1>1, <1>2, <2>2, <2>3, <2>4 DEF IInv, EnumeratorInv
<1> QED BY <1>4, <1>5, VisitEnds DEF Overrun, ReturnError, Continue

\* The pending nodes are the same when one that was visited is removed.
LEMMA RemoveKeeps ==
    ASSUME IInv, RemoveVisited
    PROVE  IInv'
<1> DEFINE L == Len(network_stack)
           stack == SubSeq(network_stack, 1, L - 1)
<1>1. /\ state = "searching" /\ network_stack # <<>> /\ Top.offset \in networks_visited
      /\ network_stack' = stack
      /\ UNCHANGED <<db, filter, state, networks_visited, network_address, outcome, returned>>
    BY DEF RemoveVisited, WithoutTop
<1>2. TypeOK /\ StackIsPath /\ PendingInOrder /\ VisitedInOrder /\ db \in Databases
      /\ (returned # <<>> => \E v \in networks_visited : Last(returned).path = PathOf(v))
    BY <1>1 DEF IInv, EnumeratorInv
<1>3. network_stack \in Seq(Entry) /\ L \in Nat /\ L > 0 /\ L - 1 \in Nat /\ L < MaxStackDepth
    BY <1>1, <1>2, EmptySeq, LenProperties DEF TypeOK, Entry, Offsets, StackIsPath
<1>4. stack \in Seq(Entry) /\ Len(stack) = L - 1 /\ \A k \in 1..(L - 1) : stack[k] = network_stack[k]
    <2>1. \A k \in 1..(L - 1) : network_stack[k] \in Entry
        BY <1>3, ElementOfSeq
    <2>2. ASSUME NEW n \in Nat, \A k \in 1..n : network_stack[k] \in Entry
          PROVE  /\ SubSeq(network_stack, 1, n) \in Seq(Entry) /\ Len(SubSeq(network_stack, 1, n)) = n
                 /\ \A k \in 1..n : SubSeq(network_stack, 1, n)[k] = network_stack[k]
        BY <2>2, SubSeqProperties
    <2> QED BY <1>3, <2>1, <2>2
<1> HIDE DEF stack
<1>5. Pending' = Pending
    <2>1. L \notin Pending
        BY <1>1 DEF Pending, Top
    <2>2. \A k \in 1..L : k \in 1..(L - 1) \/ k = L
        BY <1>3
    <2>3. \A k \in 1..(L - 1) : k \in 1..L
        BY <1>3
    <2> QED BY <1>1, <1>4, <2>1, <2>2, <2>3 DEF Pending
<1>6. ASSUME NEW k \in Pending PROVE network_stack'[k] = network_stack[k]
    <2>1. k \in 1..(L - 1)
        BY <1>4, <1>1, <1>5 DEF Pending
    <2> QED BY <1>1, <1>4, <2>1
<1>7. TypeOK'
    BY <1>1, <1>2, <1>4 DEF TypeOK, Entry, Offsets
<1>8. StackIsPath'
    <2>1. Len(network_stack') < MaxStackDepth
        BY <1>1, <1>3, <1>4, MaxStackDepthAssumption
    <2>2. \A k \in 1..(L - 1) : k \in 1..L /\ \A j \in 1..k : j \in 1..(L - 1)
        BY <1>3
    <2> QED BY <1>1, <1>2, <1>4, <2>1, <2>2, SMTT(30) DEF StackIsPath, PathOf
<1>9. PendingInOrder'
    BY <1>1, <1>2, <1>5, <1>6 DEF PendingInOrder, PathOf
<1>10. VisitedInOrder'
    BY <1>1, <1>2, <1>5, <1>6 DEF VisitedInOrder, PathOf, Offsets
<1>11. returned' # <<>> => \E v \in networks_visited' : Last(returned').path = PathOf(v)'
    BY <1>1, <1>2 DEF PathOf
<1> QED BY <1>1, <1>2, <1>7, <1>8, <1>9, <1>10, <1>11 DEF IInv, EnumeratorInv

\* The search starts with the root, which leads to every node.
LEMMA InitInv == Init => IInv
<1> SUFFICES ASSUME Init PROVE IInv
    OBVIOUS
<1> DEFINE root == StackNode(0, 0, 0)
<1>1. /\ db \in Databases /\ filter \in Filters /\ state = "idle" /\ network_stack = <<root>>
      /\ networks_visited = {} /\ network_address = AllZeroes /\ outcome = "none" /\ returned = <<>>
    BY DEF Init
<1>2. WellFormed(db)
    BY <1>1, DatabasesAssumption
<1>3. /\ Len(db.nodes) \in Nat /\ Len(db.nodes) > 0 /\ db.path[1] = <<>> /\ Len(db.path) = Len(db.nodes)
      /\ \A i \in 1..Len(db.nodes) : db.path[i] \in Path
    BY <1>2, NodesType
<1>4. 0 \in Offsets /\ PathOf(0) = <<>> /\ \A u \in Offsets : PathOf(u) \in Path
    <2>1. \A u \in Offsets : u + 1 \in 1..Len(db.nodes)
        BY <1>3 DEF Offsets
    <2> QED BY <1>3, <2>1 DEF Offsets, PathOf
<1>5. /\ root.offset = 0 /\ root.i = 0 /\ root.depth = 0
      /\ root \in [offset : 0..(Len(db.nodes) - 1), i : Bit, depth : 0..W]
    BY <1>4, WidthAssumption DEF StackNode, Bit, Offsets
<1> HIDE DEF root
<1>6. Len(<<root>>) = 1 /\ <<root>>[1] = root /\ <<root>> \in Seq([offset : 0..(Len(db.nodes) - 1), i : Bit, depth : 0..W])
    BY <1>5
<1>7. TypeOK
    <2>1. db \in Database
        BY <1>2 DEF WellFormed
    <2>2. AllZeroes \in Address
        BY DEF AllZeroes, Address, Bit
    <2>3. returned \in Seq(Found)
        BY <1>1, EmptySeq
    <2> QED BY <1>1, <1>6, <2>1, <2>2, <2>3 DEF TypeOK
<1>8. Len(<<>>) = 0 /\ StackPosition(db, <<>>) = 1
    BY EmptySeq, PositionOfRoot
<1>9. \A k \in 1..1 : k = 1
    OBVIOUS
<1>10. StackIsPath
    <2>1. \A k \in 1..1 : network_stack[k] = root
        BY <1>1, <1>6, <1>9
    <2>2. 1 < MaxStackDepth
        BY MaxStackDepthAssumption
    <2>3. \A k \in 1..1 : \A j \in 1..k : network_stack[j] = root
        BY <1>1, <1>6
    <2> QED BY <1>1, <1>4, <1>5, <1>6, <1>8, <1>9, <2>1, <2>2, <2>3 DEF StackIsPath
<1>11. Pending = {1}
    BY <1>1, <1>6 DEF Pending
<1>12. network_stack[1].offset = 0
    BY <1>1, <1>5, <1>6
<1>13. PendingInOrder
    <2>1. ~(1 < 1) /\ 1..(0 - 1) = {}
        OBVIOUS
    <2> QED BY <1>4, <1>8, <1>11, <1>12, <2>1 DEF PendingInOrder
<1>14. VisitedInOrder
    <2>1. ASSUME NEW u \in Offsets PROVE Leads(<<>>, PathOf(u))
        <3>1. Len(PathOf(u)) \in Nat
            BY <1>4, PathType
        <3> QED BY <1>8, <3>1 DEF Leads, OnPath
    <2> QED BY <1>1, <1>4, <1>11, <1>12, <2>1 DEF VisitedInOrder
<1> QED BY <1>1, <1>7, <1>10, <1>13, <1>14 DEF IInv, EnumeratorInv

\* The steps that leave the search where it is.
LEMMA OtherStepsKeep ==
    ASSUME IInv, UNCHANGED <<db, filter, network_stack, networks_visited, network_address, returned>>,
           state' = state \/ (state # "overrun" /\ state' \in {"idle", "searching"}),
           outcome' = outcome \/ outcome' = "end"
    PROVE  IInv'
<1>1. TypeOK'
    BY DEF IInv, EnumeratorInv, TypeOK
<1>2. state' # "overrun" => StackIsPath' /\ PendingInOrder' /\ VisitedInOrder'
    BY DEF IInv, EnumeratorInv, StackIsPath, PendingInOrder, VisitedInOrder, Pending, PathOf, Offsets
<1>3. returned' # <<>> => \E v \in networks_visited' : Last(returned').path = PathOf(v)'
    BY DEF IInv, EnumeratorInv, PathOf
<1> QED BY <1>1, <1>2, <1>3 DEF IInv, EnumeratorInv

LEMMA NextKeeps == IInv /\ [Next]_vars => IInv'
<1> SUFFICES ASSUME IInv, [Next]_vars PROVE IInv'
    OBVIOUS
<1>1. CASE NextNetwork
    BY <1>1, OtherStepsKeep DEF NextNetwork
<1>2. CASE ReturnEnd
    BY <1>2, OtherStepsKeep DEF ReturnEnd
<1>3. CASE RemoveVisited
    BY <1>3, RemoveKeeps
<1>4. CASE VisitNode
    BY <1>4, VisitKeeps
<1>5. CASE UNCHANGED vars
    BY <1>5, OtherStepsKeep DEF vars
<1> QED BY <1>1, <1>2, <1>3, <1>4, <1>5 DEF Next, Step

-----------------------------------------------------------------------------
(* The listing *)

\* The operators of the abstract specification are those of this one.
LEMMA SameOperators ==
    /\ Listing!Found = Found
    /\ \A m, n : Listing!Before(m, n) = NetworkLess(m.path, n.path)
<1>1. Listing!Found = Found
    BY DEF Listing!Found, Found, Listing!Path, Path, Listing!Attributes, Attributes, Listing!Bit, Bit
<1>2. \A p, q : Listing!NetworkLess(p, q) = NetworkLess(p, q)
    BY DEF Listing!NetworkLess, NetworkLess, Listing!Less, Less, Listing!FirstAddress, FirstAddress
<1> QED BY <1>1, <1>2 DEF Listing!Before

\* A network that is to come is one of the database's that matches, at a node that
\* is still to be visited.
LEMMA NetworkToCome ==
    ASSUME IInv, NEW n
    PROVE  n \in ToCome <=> /\ n.path \in NetworksOf(db) /\ Matches(n)
                            /\ n = [path |-> n.path, attributes |-> ContentsOf(db)[n.path]]
                            /\ \E u \in Offsets \ networks_visited : PathOf(u) = n.path
<1>1. n \in FoundIn(db, NetworksOf(db)) <=>
         /\ n.path \in NetworksOf(db)
         /\ n = [path |-> n.path, attributes |-> ContentsOf(db)[n.path]]
    BY DEF FoundIn
<1>2. ASSUME n.path \in NetworksOf(db)
      PROVE  (\A i \in 1..Len(db.path) : db.path[i] = n.path => i - 1 \notin networks_visited)
                <=> \E u \in Offsets \ networks_visited : PathOf(u) = n.path
    <2>1. PICK i \in 1..Len(db.nodes) : db.path[i] = n.path
        BY <1>2 DEF NetworksOf
    <2>2. i - 1 \in Offsets /\ PathOf(i - 1) = n.path /\ i \in 1..Len(db.path)
        BY <2>1, PathsOfNodes
    <2>3. \A j \in 1..Len(db.path) : db.path[j] = n.path => j - 1 = i - 1
        BY <2>2, PathsOfNodes
    <2>4. \A u \in Offsets : PathOf(u) = n.path => u = i - 1
        BY <2>2, PathsOfNodes
    <2> QED BY <2>1, <2>2, <2>3, <2>4
<1> QED BY <1>1, <1>2 DEF ToCome

\* A visit takes the network of its node from those to come, and no other one.
LEMMA ToComeAfterVisit ==
    ASSUME IInv, VisitNode
    PROVE  /\ ToCome' = ToCome \ {ThisNetwork}
           /\ ThisNetwork \in ToCome <=> IsLeaf(ThisNode) /\ Matches(ThisNetwork)
<1>1. /\ UNCHANGED <<db, filter>> /\ networks_visited' = networks_visited \cup {Top.offset}
      /\ IInv'
    BY VisitEffect, VisitKeeps
<1>2. /\ Top.offset \in Offsets \ networks_visited /\ PathOf(Top.offset) = ThisPath
      /\ ThisNetwork.path = ThisPath
    BY TopEntry DEF ThisPath, ThisNetwork
<1>3. ThisNetwork \in ToCome <=> IsLeaf(ThisNode) /\ Matches(ThisNetwork)
    <2>1. IsLeaf(ThisNode) <=> ThisPath \in NetworksOf(db)
        BY TopEntry, PathsOfNodes, LeafIsNetwork DEF ThisNode, ThisPath
    <2> QED BY <1>2, <2>1, NetworkToCome DEF ThisNetwork
<1>4. ASSUME NEW n PROVE n \in ToCome' <=> n \in ToCome /\ n # ThisNetwork
    <2> DEFINE listed == n \in FoundIn(db, NetworksOf(db)) /\ Matches(n)
               Unseen(i) == i - 1 \notin networks_visited
    <2>1. n \in ToCome <=> listed /\ \A i \in 1..Len(db.path) : db.path[i] = n.path => Unseen(i)
        BY DEF ToCome
    <2>2. n \in ToCome' <=>
             /\ listed
             /\ \A i \in 1..Len(db.path) : db.path[i] = n.path => Unseen(i) /\ i - 1 # Top.offset
        BY <1>1 DEF ToCome, Matches
    <2>3. \A i \in 1..Len(db.path) : i - 1 = Top.offset <=> db.path[i] = ThisPath
        BY <1>2, PathsOfNodes
    <2>4. ASSUME listed PROVE n = ThisNetwork <=> n.path = ThisPath
        BY <2>4 DEF FoundIn, ThisNetwork
    <2>5. \E i \in 1..Len(db.path) : db.path[i] = ThisPath
        BY TopEntry, PathsOfNodes DEF ThisPath
    <2> HIDE DEF listed, Unseen
    <2> QED BY <2>1, <2>2, <2>3, <2>4, <2>5
<1> QED BY <1>3, <1>4

\* The network returned is the first of those to come.
LEMMA ThisIsFirst ==
    ASSUME IInv, VisitNode
    PROVE  /\ \A n \in ToCome \ {ThisNetwork} : NetworkLess(ThisPath, n.path)
           /\ returned # <<>> => NetworkLess(Last(returned).path, ThisPath)
<1>1. Top.offset \in Offsets \ networks_visited /\ PathOf(Top.offset) = ThisPath /\ ThisPath \in Path
    BY TopEntry DEF ThisPath
<1>2. ASSUME NEW n \in ToCome \ {ThisNetwork} PROVE NetworkLess(ThisPath, n.path)
    <2>1. /\ n = [path |-> n.path, attributes |-> ContentsOf(db)[n.path]]
          /\ \E u \in Offsets \ networks_visited : PathOf(u) = n.path
        BY NetworkToCome
    <2>2. PICK u \in Offsets \ networks_visited : PathOf(u) = n.path
        BY <2>1
    <2>3. n.path # ThisPath
        BY <2>1 DEF ThisNetwork
    <2>4. u # Top.offset /\ PathOf(u) \in Path
        BY <1>1, <2>2, <2>3, PathsOfNodes
    <2>5. (Leads(ThisPath, PathOf(u)) /\ PathOf(u) # ThisPath) \/ LeftOf(ThisPath, PathOf(u))
        BY <2>4, UnvisitedIsBehind
    <2> QED BY <1>1, <2>2, <2>4, <2>5, LeadingIsLess, LeftIsLess
<1>3. ASSUME returned # <<>> PROVE NetworkLess(Last(returned).path, ThisPath)
    <2>1. PICK v \in networks_visited : Last(returned).path = PathOf(v)
        BY <1>3 DEF IInv, EnumeratorInv
    <2>2. VisitedInOrder
        BY TopEntry DEF IInv, EnumeratorInv
    <2> QED BY <1>1, <2>1, <2>2 DEF VisitedInOrder
<1> QED BY <1>2, <1>3

\* The network returned last, as a set
Current(networks) == {network \in Range(networks) : network = Last(networks)}

LEMMA CurrentIsLast ==
    ASSUME NEW S, NEW networks \in Seq(S), NEW n \in S
    PROVE  /\ Current(Append(networks, n)) = {n}
           /\ \A m \in Current(networks) : networks # <<>> /\ m = Last(networks)
<1>1. /\ Len(networks) \in Nat
      /\ Append(networks, n) \in Seq(S) /\ Len(Append(networks, n)) = Len(networks) + 1
      /\ Append(networks, n)[Len(networks) + 1] = n
    BY LenProperties, AppendProperties
<1>2. Last(Append(networks, n)) = n
    BY <1>1 DEF Last
<1>3. DOMAIN Append(networks, n) = 1..(Len(networks) + 1)
    BY <1>1, LenProperties
<1>4. n \in Range(Append(networks, n))
    <2>1. Len(networks) + 1 \in DOMAIN Append(networks, n)
        BY <1>1, <1>3
    <2> QED BY <1>1, <2>1 DEF Range
<1>5. Range(<<>>) = {}
    BY EmptySeq DEF Range
<1>6. \A m \in Current(networks) : networks # <<>> /\ m = Last(networks)
    BY <1>5 DEF Current
<1> QED BY <1>2, <1>4, <1>6 DEF Current

LEMMA InitIsInit == Init => Listing!Init
<1> SUFFICES ASSUME Init PROVE Listing!Init
    OBVIOUS
<1>1. state = "idle" /\ outcome = "none" /\ returned = <<>> /\ WellFormed(db)
    BY DatabasesAssumption DEF Init
<1>2. (~NoneSpansV4(db) \/ FillsStack(db)) \in BOOLEAN
    BY DEF NoneSpansV4, FillsStack
<1>3. ToCome \subseteq Found
    <2>1. ASSUME NEW n \in ToCome PROVE n \in Found
        <3>1. PICK p \in NetworksOf(db) : n = [path |-> p, attributes |-> ContentsOf(db)[p]]
            BY DEF ToCome, FoundIn
        <3> QED BY <1>1, <3>1, ContentsType DEF Found
    <2> QED BY <2>1
<1>4. {network \in Range(returned) : network = Last(returned)} = {}
    BY <1>1, EmptySeq DEF Range
<1> QED BY <1>1, <1>2, <1>3, <1>4, SameOperators DEF Listing!Init

\* The visit of a node returns a network, fails, or goes on.
LEMMA VisitIsStep ==
    ASSUME IInv, VisitNode
    PROVE  Listing!Next \/ UNCHANGED Listing!vars
<1> DEFINE irregular == ~NoneSpansV4(db) \/ FillsStack(db)
<1>1. state = "searching" /\ UNCHANGED <<db, filter>> /\ irregular' = irregular
    BY TopEntry, VisitEffect
<1>2. ToCome' = ToCome \ {ThisNetwork}
    BY ToComeAfterVisit
<1>3. ToCome' = ToCome \/ \E n \in ToCome : ToCome' = ToCome \ {n}
    BY <1>2
<1>4. CASE BothPushed.result = "overrun" /\ Overrun
    <2>1. irregular
        BY <1>4, ChildrenPushed
    <2>2. state' = "overrun" /\ UNCHANGED returned
        BY <1>4 DEF Overrun
    <2>3. Listing!Fail
        BY <1>1, <1>3, <2>1, <2>2 DEF Listing!Fail
    <2> QED BY <2>3 DEF Listing!Next
<1>5. CASE IsLeaf(ThisNode) /\ Fetched = {} /\ ReturnError
    <2>1. irregular
        BY <1>5, FetchedForThis
    <2>2. state' = "idle" /\ outcome' = "error" /\ UNCHANGED returned
        BY <1>5 DEF ReturnError
    <2>3. Listing!Fail
        BY <1>1, <1>3, <2>1, <2>2 DEF Listing!Fail
    <2> QED BY <2>3 DEF Listing!Next
<1>6. CASE Continue /\ (IsLeaf(ThisNode) => ~Matches(ThisNetwork))
    <2>1. ToCome' = ToCome
        BY <1>2, <1>6, ToComeAfterVisit
    <2> QED BY <1>1, <1>6, <2>1 DEF Continue, Listing!vars
<1>7. CASE IsLeaf(ThisNode) /\ Matches(ThisNetwork) /\ ReturnNetwork(ThisNetwork)
    <2>1. ThisNetwork \in ToCome /\ ThisNetwork.path = ThisPath
        BY <1>7, ToComeAfterVisit DEF ThisNetwork
    <2>2. state' = "idle" /\ outcome' = "network" /\ returned' = Append(returned, ThisNetwork)
        BY <1>7 DEF ReturnNetwork
    <2>3. returned \in Seq(Found) /\ ThisNetwork \in Found
        BY <1>7, FetchedForThis DEF IInv, EnumeratorInv, TypeOK
    <2>4. /\ Current(returned') = {ThisNetwork}
          /\ \A m \in Current(returned) : returned # <<>> /\ m = Last(returned)
        BY <2>2, <2>3, CurrentIsLast
    <2>5. \A former \in Current(returned) : Listing!Before(former, ThisNetwork)
        BY <2>1, <2>4, ThisIsFirst, SameOperators
    <2>6. \A m \in ToCome \ {ThisNetwork} : Listing!Before(ThisNetwork, m)
        BY <2>1, ThisIsFirst, SameOperators
    <2>7. Listing!Return
        BY <1>1, <1>2, <2>1, <2>2, <2>4, <2>5, <2>6 DEF Listing!Return, Current
    <2> QED BY <2>7 DEF Listing!Next
<1> QED BY <1>4, <1>5, <1>6, <1>7, VisitEnds

\* A call is one, the end comes when nothing is left, and removing a node from the
\* stack changes nothing.
LEMMA StepIsStep == IInv /\ [Next]_vars => [Listing!Next]_Listing!vars
<1> SUFFICES ASSUME IInv, [Next]_vars PROVE Listing!Next \/ UNCHANGED Listing!vars
    OBVIOUS
<1>1. ASSUME UNCHANGED <<db, filter, networks_visited, returned>>
      PROVE  /\ (~NoneSpansV4(db) \/ FillsStack(db))' = (~NoneSpansV4(db) \/ FillsStack(db))
             /\ ToCome' = ToCome
             /\ {network \in Range(returned) : network = Last(returned)}'
                   = {network \in Range(returned) : network = Last(returned)}
    BY <1>1 DEF ToCome, Matches
<1>2. CASE NextNetwork
    <2>1. Listing!Call
        BY <1>1, <1>2 DEF NextNetwork, Listing!Call
    <2> QED BY <2>1 DEF Listing!Next
<1>3. CASE ReturnEnd
    <2>1. state = "searching" /\ network_stack = <<>> /\ VisitedInOrder
        BY <1>3 DEF ReturnEnd, IInv, EnumeratorInv
    <2>2. Pending = {}
        BY <2>1, EmptySeq DEF Pending
    <2>3. Offsets \ networks_visited = {}
        BY <2>1, <2>2 DEF VisitedInOrder
    <2>4. ToCome = {}
        BY <2>3, NetworkToCome
    <2>5. Listing!End
        BY <1>1, <1>3, <2>4 DEF ReturnEnd, Listing!End
    <2> QED BY <2>5 DEF Listing!Next
<1>4. CASE RemoveVisited
    BY <1>1, <1>4 DEF RemoveVisited, Listing!vars
<1>5. CASE VisitNode
    BY <1>5, VisitIsStep
<1>6. CASE UNCHANGED vars
    BY <1>1, <1>6 DEF vars, Listing!vars
<1> QED BY <1>2, <1>3, <1>4, <1>5, <1>6 DEF Next, Step

-----------------------------------------------------------------------------
(* Theorems *)

\* In every well-formed database, as long as the stack is not overrun: each node of
\* the stack is at the place its path gives it, what is pending is in order from
\* top to bottom and leads to just the nodes not visited, these are behind those
\* visited, and network_address is right for the node to be visited next.
THEOREM EnumeratorInvariant == Spec => []EnumeratorInv
<1>1. Init => IInv
    BY InitInv
<1>2. IInv /\ [Next]_vars => IInv'
    BY NextKeeps
<1>3. IInv => EnumeratorInv
    BY DEF IInv
<1> QED BY <1>1, <1>2, <1>3, PTL DEF Spec

\* What the enumerator returns, call by call, are the networks of the database that
\* match, in the order of loc_network_cmp, none twice and none passed over, and the
\* end only when there is no other one; where a network spans the IPv4 range or the
\* stack is too small, what it returns is still in order, there and a match.
THEOREM EnumeratorImplementsListing == Spec => ImplementsListing
<1>1. Init => IInv
    BY InitInv
<1>2. IInv /\ [Next]_vars => IInv'
    BY NextKeeps
<1>3. Init => Listing!Init
    BY InitIsInit
<1>4. IInv /\ [Next]_vars => [Listing!Next]_Listing!vars
    BY StepIsStep
<1> QED BY <1>1, <1>2, <1>3, <1>4, PTL DEF Spec, ImplementsListing, Listing!Spec
=============================================================================

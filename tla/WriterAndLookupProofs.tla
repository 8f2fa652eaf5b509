----------------------- MODULE WriterAndLookupProofs -----------------------
(***************************************************************************)
(* The tree of networks, from both ends.  NetworkWriter, for every tree    *)
(* and every number of writes: its invariant, that the complete file is    *)
(* the reference encoding of the tree, and that it implements NetworkMap,  *)
(* the map from networks to attributes that its caller sees.               *)
(* NetworkLookup, in any well-formed database: the descent follows the     *)
(* path of the address, the way back misses no network that does not span  *)
(* the IPv4 range, and the answer is the one LongestPrefixMatch gives.     *)
(***************************************************************************)
EXTENDS NetworkWriter, NetworkLookup, DatabaseFormatProofs

-----------------------------------------------------------------------------
(* The tree *)

\* What a new network carries is something a network may carry.
LEMMA NoAttributesType == NoAttributes \in Attributes
BY AttributesAssumption DEF NoAttributes, Attributes

\* The ancestors of a path are paths, the root and the path itself among them.
LEMMA AncestryType ==
    ASSUME NEW p \in Path
    PROVE  /\ Ancestry(p) \subseteq Path
           /\ p \in Ancestry(p)
           /\ <<>> \in Ancestry(p)
<1>1. p \in Seq(Bit) /\ Len(p) \in Nat /\ 0 \in 0..Len(p) /\ Len(p) \in 0..Len(p)
    BY PathType
<1>2. Ancestry(p) \subseteq Path
    BY PathPrefix DEF Ancestry
<1>3. SubSeq(p, 1, Len(p)) = p
    BY <1>1, SubSeqFull
<1>4. SubSeq(p, 1, 0) = <<>>
    BY <1>1, SubSeqEmpty
<1> QED BY <1>1, <1>2, <1>3, <1>4 DEF Ancestry

\* An ancestor of an ancestor is an ancestor.
LEMMA AncestryTransitive ==
    ASSUME NEW p \in Path, NEW q \in Ancestry(p)
    PROVE  Ancestry(q) \subseteq Ancestry(p)
<1>1. PICK n \in 0..Len(p) : q = SubSeq(p, 1, n)
    BY DEF Ancestry
<1>2. Len(p) \in Nat /\ p \in Seq(Bit) /\ n \in Nat /\ n <= Len(p) /\ q \in Path /\ Len(q) = n
    BY <1>1, PathType, PathPrefix
<1>3. ASSUME NEW m \in 0..Len(q) PROVE SubSeq(q, 1, m) \in Ancestry(p)
    <2>1. m \in Nat /\ m <= n /\ m \in 0..Len(p)
        BY <1>2
    <2>2. SubSeq(q, 1, m) = SubSeq(p, 1, m)
        <3>1. /\ SubSeq(q, 1, m) \in Seq(Bit) /\ Len(SubSeq(q, 1, m)) = m
              /\ \A i \in 1..m : SubSeq(q, 1, m)[i] = q[i]
            BY <1>2, PathPrefix, PathType
        <3>2. /\ SubSeq(p, 1, m) \in Seq(Bit) /\ Len(SubSeq(p, 1, m)) = m
              /\ \A i \in 1..m : SubSeq(p, 1, m)[i] = p[i]
            BY <2>1, PathPrefix, PathType
        <3>3. \A i \in 1..m : q[i] = p[i]
            BY <1>1, <1>2, <2>1, PathPrefix
        <3> QED BY <3>1, <3>2, <3>3, SeqEqual
    <2> QED BY <2>1, <2>2 DEF Ancestry
<1> QED BY <1>3 DEF Ancestry

\* Making the nodes down to p keeps the tree a tree.
LEMMA GrownType ==
    ASSUME TreeTypeOK, TreeShape, NEW p \in Path
    PROVE  /\ DOMAIN Grown(p) = DOMAIN tree \cup Ancestry(p)
           /\ DOMAIN Grown(p) \subseteq Path
           /\ Grown(p) \in [DOMAIN Grown(p) -> 0..Len(objects)]
           /\ \A q \in DOMAIN Grown(p) : Ancestry(q) \subseteq DOMAIN Grown(p)
           /\ \A q \in DOMAIN Grown(p) : Grown(p)[q] # NoObject =>
                 q \in DOMAIN tree /\ Grown(p)[q] = tree[q]
<1>1. DOMAIN Grown(p) = DOMAIN tree \cup Ancestry(p)
    BY DEF Grown
<1>2. DOMAIN Grown(p) \subseteq Path
    BY <1>1, AncestryType DEF TreeTypeOK
<1>3. Grown(p) \in [DOMAIN Grown(p) -> 0..Len(objects)]
    <2>1. 0 \in 0..Len(objects)
        BY LenProperties DEF TreeTypeOK
    <2> QED BY <2>1 DEF Grown, TreeTypeOK, NoObject
<1>4. \A q \in DOMAIN Grown(p) : Ancestry(q) \subseteq DOMAIN Grown(p)
    BY <1>1, AncestryTransitive DEF TreeShape
<1>5. \A q \in DOMAIN Grown(p) : Grown(p)[q] # NoObject =>
          q \in DOMAIN tree /\ Grown(p)[q] = tree[q]
    BY DEF Grown
<1> QED BY <1>1, <1>2, <1>3, <1>4, <1>5

\* A new network object joins the others and changes none.
LEMMA NewObjectStep ==
    ASSUME TreeTypeOK, NEW p \in Candidates, NewObject(p)
    PROVE  /\ p \in Path
           /\ objects' \in Seq(Object)
           /\ Len(objects') = Len(objects) + 1
           /\ objects'[Len(objects) + 1].path = p
           /\ objects'[Len(objects) + 1].attributes = NoAttributes
           /\ \A o \in 1..Len(objects) : objects'[o] = objects[o]
<1>1. p \in Path
    BY CandidatesAssumption
<1>2. [path |-> p, attributes |-> NoAttributes] \in Object
    BY <1>1, NoAttributesType DEF Object
<1>3. objects' = Append(objects, [path |-> p, attributes |-> NoAttributes])
    BY DEF NewObject
<1>4. objects \in Seq(Object)
    BY DEF TreeTypeOK
<1> QED BY <1>1, <1>2, <1>3, <1>4, AppendProperties

\* What any call on the tree keeps.
LEMMA TreeStep ==
    ASSUME TreeTypeOK, TreeShape, TreeNext
    PROVE  TreeTypeOK' /\ TreeShape' /\ Len(objects) <= Len(objects')
<1> USE DEF TreeTypeOK, TreeShape
<1>0. Len(objects) \in Nat
    BY LenProperties
<1>1. ASSUME NEW p \in Candidates, NewObject(p)
      PROVE  /\ p \in Path
             /\ objects' \in Seq(Object)
             /\ Len(objects') = Len(objects) + 1
             /\ objects'[Len(objects) + 1].path = p
             /\ \A o \in 1..Len(objects) : objects'[o] = objects[o]
    BY <1>1, NewObjectStep
<1>2. ASSUME NEW p \in Candidates, AddNetwork(p)
      PROVE  TreeTypeOK' /\ TreeShape' /\ Len(objects) <= Len(objects')
    <2>1. /\ p \in Path
          /\ objects' \in Seq(Object)
          /\ Len(objects') = Len(objects) + 1
          /\ objects'[Len(objects) + 1].path = p
          /\ \A o \in 1..Len(objects) : objects'[o] = objects[o]
        BY <1>1, <1>2 DEF AddNetwork
    <2>2. tree' = [Grown(p) EXCEPT ![p] = IF @ = NoObject THEN Len(objects) + 1 ELSE @]
        BY <1>2 DEF AddNetwork
    <2>3. DOMAIN tree' = DOMAIN Grown(p) /\ p \in DOMAIN tree'
        <3>1. DOMAIN tree' = DOMAIN Grown(p)
            BY <2>2
        <3>2. DOMAIN Grown(p) = DOMAIN tree \cup Ancestry(p)
            BY DEF Grown
        <3>3. p \in Ancestry(p)
            BY <2>1, AncestryType
        <3> QED BY <3>1, <3>2, <3>3
    <2>4. \A q \in DOMAIN tree' :
             tree'[q] = IF q = p /\ Grown(p)[q] = NoObject THEN Len(objects) + 1
                        ELSE Grown(p)[q]
        BY <2>2, <2>3
    <2>5. tree' \in [DOMAIN tree' -> 0..Len(objects')]
        <3>1. \A q \in DOMAIN tree' : Grown(p)[q] \in 0..Len(objects)
            BY <2>1, <2>3, GrownType
        <3>2. \A q \in DOMAIN tree' : tree'[q] \in 0..Len(objects')
            BY <1>0, <2>1, <2>4, <3>1
        <3> QED BY <2>2, <3>2
    <2>6. TreeTypeOK'
        BY <1>2, <2>1, <2>3, <2>5, GrownType DEF AddNetwork
    <2>7. ASSUME NEW q \in Held' PROVE objects'[tree'[q]].path = q
        <3>1. q \in DOMAIN tree' /\ tree'[q] # NoObject
            BY DEF Held
        <3>2. CASE q = p /\ Grown(p)[q] = NoObject
            BY <2>1, <2>4, <3>1, <3>2
        <3>3. CASE ~(q = p /\ Grown(p)[q] = NoObject)
            <4>1. tree'[q] = Grown(p)[q] /\ Grown(p)[q] # NoObject
                BY <2>4, <3>1, <3>3
            <4>2. q \in DOMAIN tree /\ tree'[q] = tree[q] /\ tree[q] # NoObject
                BY <2>1, <2>3, <3>1, <4>1, GrownType
            <4>3. q \in Held /\ tree[q] \in 1..Len(objects)
                BY <1>0, <4>2 DEF Held, NoObject
            <4> QED BY <2>1, <4>2, <4>3
        <3> QED BY <3>2, <3>3
    <2>8. TreeShape'
        <3>1. \A r \in DOMAIN tree' : Ancestry(r) \subseteq DOMAIN tree'
            BY <2>1, <2>3, GrownType
        <3>2. <<>> \in DOMAIN tree'
            BY <2>3 DEF Grown
        <3> QED BY <2>7, <3>1, <3>2
    <2> QED BY <1>0, <2>1, <2>6, <2>8
<1>3. ASSUME NEW p \in Candidates, NEW n \in 1..Len(p), AddNetworkNoMemory(p, n)
      PROVE  TreeTypeOK' /\ TreeShape' /\ Len(objects) <= Len(objects')
    <2> DEFINE q == SubSeq(p, 1, n - 1)
    <2>1. /\ p \in Path
          /\ objects' \in Seq(Object)
          /\ Len(objects') = Len(objects) + 1
          /\ \A o \in 1..Len(objects) : objects'[o] = objects[o]
        BY <1>1, <1>3 DEF AddNetworkNoMemory
    <2>2. q \in Path
        <3>1. Len(p) \in Nat /\ n - 1 \in 0..Len(p)
            BY <2>1, PathType
        <3> QED BY <2>1, <3>1, PathPrefix
    <2>3. tree' = Grown(q) /\ crashed' \in BOOLEAN
        BY <1>3 DEF AddNetworkNoMemory
    <2> HIDE DEF q
    <2>4. /\ DOMAIN tree' \subseteq Path
          /\ DOMAIN tree' = DOMAIN tree \cup Ancestry(q)
          /\ tree' \in [DOMAIN tree' -> 0..Len(objects)]
          /\ \A r \in DOMAIN tree' : Ancestry(r) \subseteq DOMAIN tree'
          /\ \A r \in DOMAIN tree' : tree'[r] # NoObject => r \in DOMAIN tree /\ tree'[r] = tree[r]
        BY <2>2, <2>3, GrownType
    <2>5. tree' \in [DOMAIN tree' -> 0..Len(objects')]
        <3>1. \A r \in DOMAIN tree' : tree'[r] \in 0..Len(objects')
            BY <1>0, <2>1, <2>4
        <3> QED BY <2>4, <3>1
    <2>6. ASSUME NEW r \in Held' PROVE objects'[tree'[r]].path = r
        <3>1. r \in DOMAIN tree /\ tree'[r] = tree[r] /\ tree[r] # NoObject
            BY <2>4 DEF Held
        <3>2. r \in Held /\ tree[r] \in 1..Len(objects)
            BY <1>0, <3>1 DEF Held, NoObject
        <3> QED BY <2>1, <3>1, <3>2
    <2> QED BY <1>0, <2>1, <2>3, <2>4, <2>5, <2>6
<1>4. ASSUME NEW o \in 1..Len(objects), NEW a \in Attributes,
             objects' = [objects EXCEPT ![o].attributes = a],
             UNCHANGED <<tree, crashed>>
      PROVE  TreeTypeOK' /\ TreeShape' /\ Len(objects) <= Len(objects')
    <2>1. objects[o] \in Object
        BY ElementOfSeq
    <2>2. [objects[o] EXCEPT !.attributes = a] \in Object
        BY <2>1 DEF Object
    <2>3. objects' = [objects EXCEPT ![o] = [objects[o] EXCEPT !.attributes = a]]
        BY <1>4
    <2>4. /\ objects' \in Seq(Object)
          /\ Len(objects') = Len(objects)
        BY <2>2, <2>3, ExceptSeq
    <2>5. \A k \in 1..Len(objects) : objects'[k].path = objects[k].path
        <3> TAKE k \in 1..Len(objects)
        <3>1. objects'[k] = IF k = o THEN [objects[o] EXCEPT !.attributes = a] ELSE objects[k]
            BY <2>2, <2>3, ExceptSeq
        <3> QED BY <2>1, <3>1 DEF Object
    <2>6. ASSUME NEW r \in Held' PROVE objects'[tree'[r]].path = r
        <3>1. r \in Held /\ tree'[r] = tree[r] /\ tree[r] \in 1..Len(objects)
            BY <1>0, <1>4 DEF Held, NoObject
        <3> QED BY <2>5, <3>1
    <2>7. TreeTypeOK'
        BY <1>4, <2>4
    <2>8. TreeShape'
        BY <1>4, <2>6 DEF Ancestry
    <2> QED BY <1>0, <2>4, <2>7, <2>8
<1>5. ASSUME NEW o \in 1..Len(objects) PROVE objects[o].attributes \in Attributes
    <2>1. objects[o] \in Object
        BY ElementOfSeq
    <2> QED BY <2>1 DEF Object
<1>6. ASSUME NEW o \in 1..Len(objects), NEW country \in Countries, SetCountryCode(o, country)
      PROVE  TreeTypeOK' /\ TreeShape' /\ Len(objects) <= Len(objects')
    <2>1. [objects[o].attributes EXCEPT !.country = country] \in Attributes
        BY <1>5 DEF Attributes
    <2>2. objects' = [objects EXCEPT ![o].attributes =
                                        [objects[o].attributes EXCEPT !.country = country]]
        BY <1>6 DEF SetCountryCode
    <2> QED BY <1>4, <1>6, <2>1, <2>2 DEF SetCountryCode
<1>7. ASSUME NEW o \in 1..Len(objects), NEW asn \in ASNs, SetASN(o, asn)
      PROVE  TreeTypeOK' /\ TreeShape' /\ Len(objects) <= Len(objects')
    <2>1. [objects[o].attributes EXCEPT !.asn = asn] \in Attributes
        BY <1>5 DEF Attributes
    <2>2. objects' = [objects EXCEPT ![o].attributes =
                                        [objects[o].attributes EXCEPT !.asn = asn]]
        BY <1>7 DEF SetASN
    <2> QED BY <1>4, <1>7, <2>1, <2>2 DEF SetASN
<1>8. ASSUME NEW o \in 1..Len(objects), NEW flag \in Flags, SetFlag(o, flag)
      PROVE  TreeTypeOK' /\ TreeShape' /\ Len(objects) <= Len(objects')
    <2> DEFINE a == [objects[o].attributes EXCEPT !.flags = @ \cup {flag}]
    <2>1. a \in Attributes
        BY <1>5 DEF Attributes
    <2>2. objects' = [objects EXCEPT ![o].attributes = a]
        BY <1>8 DEF SetFlag
    <2> HIDE DEF a
    <2> QED BY <1>4, <1>8, <2>1, <2>2 DEF SetFlag
<1> QED BY <1>2, <1>3, <1>6, <1>7, <1>8 DEF TreeNext

-----------------------------------------------------------------------------
(* The queue *)

\* A member of a concatenation is a member of the one part or of the other.
LEMMA ConcatParts ==
    ASSUME NEW S, NEW s \in Seq(S), NEW t \in Seq(S)
    PROVE  /\ s \o t \in Seq(S)
           /\ Len(s \o t) = Len(s) + Len(t)
           /\ \A j \in 1..Len(s) : j \in 1..Len(s \o t) /\ (s \o t)[j] = s[j]
           /\ \A k \in 1..Len(t) :
                 Len(s) + k \in 1..Len(s \o t) /\ (s \o t)[Len(s) + k] = t[k]
           /\ \A j \in 1..Len(s \o t) :
                 j \in 1..Len(s) \/ \E k \in 1..Len(t) : j = Len(s) + k
<1> DEFINE u == s \o t
<1>1. /\ u \in Seq(S) /\ Len(u) = Len(s) + Len(t)
      /\ \A i \in 1..Len(s) + Len(t) : u[i] = IF i <= Len(s) THEN s[i] ELSE t[i - Len(s)]
    BY ConcatProperties
<1>2. Len(s) \in Nat /\ Len(t) \in Nat
    BY LenProperties
<1> HIDE DEF u
<1>3. \A j \in 1..Len(s) : j \in 1..Len(u) /\ u[j] = s[j]
    BY <1>1, <1>2
<1>4. ASSUME NEW k \in 1..Len(t) PROVE Len(s) + k \in 1..Len(u) /\ u[Len(s) + k] = t[k]
    <2>1. /\ Len(s) + k \in 1..Len(s) + Len(t)
          /\ ~(Len(s) + k <= Len(s))
          /\ (Len(s) + k) - Len(s) = k
        BY <1>2
    <2> QED BY <1>1, <2>1
<1>5. ASSUME NEW j \in 1..Len(u), j \notin 1..Len(s)
      PROVE  \E k \in 1..Len(t) : j = Len(s) + k
    <2>1. j - Len(s) \in 1..Len(t) /\ j = Len(s) + (j - Len(s))
        BY <1>1, <1>2, <1>5
    <2> QED BY <2>1
<1> QED BY <1>1, <1>3, <1>4, <1>5 DEF u

\* Taking the head of a queue and appending it to the sequence before the queue
\* leaves the whole as it was.
LEMMA QueueStep ==
    ASSUME NEW S, NEW s \in Seq(S), NEW q \in Seq(S), q # <<>>
    PROVE  Append(s, Head(q)) \o Tail(q) = s \o q
<1> DEFINE a == Append(s, Head(q))
           l == a \o Tail(q)
           r == s \o q
<1>1. /\ Head(q) \in S /\ Tail(q) \in Seq(S) /\ Len(Tail(q)) = Len(q) - 1
      /\ \A i \in 1..Len(Tail(q)) : Tail(q)[i] = q[i + 1]
    BY HeadTailProperties
<1>2. Len(s) \in Nat /\ Len(q) \in Nat /\ Len(q) > 0
    BY LenProperties, EmptySeq
<1>3. /\ a \in Seq(S) /\ Len(a) = Len(s) + 1
      /\ \A i \in 1..Len(s) : a[i] = s[i]
      /\ a[Len(s) + 1] = Head(q)
    BY <1>1, AppendProperties
<1>4. /\ l \in Seq(S) /\ Len(l) = Len(a) + Len(Tail(q))
      /\ \A i \in 1..Len(a) + Len(Tail(q)) :
            l[i] = IF i <= Len(a) THEN a[i] ELSE Tail(q)[i - Len(a)]
    BY <1>1, <1>3, ConcatProperties
<1>5. /\ r \in Seq(S) /\ Len(r) = Len(s) + Len(q)
      /\ \A i \in 1..Len(s) + Len(q) : r[i] = IF i <= Len(s) THEN s[i] ELSE q[i - Len(s)]
    BY ConcatProperties
<1>6. Head(q) = q[1]
    OBVIOUS
<1> HIDE DEF a, l, r
<1>7. Len(l) = Len(r)
    BY <1>1, <1>2, <1>3, <1>4, <1>5
<1>8. ASSUME NEW i \in 1..Len(l) PROVE l[i] = r[i]
    <2>1. i \in Nat /\ i \in 1..Len(a) + Len(Tail(q)) /\ i \in 1..Len(s) + Len(q)
        BY <1>2, <1>4, <1>5, <1>7
    <2>2. CASE i <= Len(s)
        <3>1. i \in 1..Len(s) /\ i <= Len(a)
            BY <1>2, <1>3, <2>1, <2>2
        <3> QED BY <1>3, <1>4, <1>5, <2>1, <2>2, <3>1
    <2>3. CASE i = Len(s) + 1
        <3>1. i <= Len(a) /\ ~(i <= Len(s)) /\ i - Len(s) = 1
            BY <1>2, <1>3, <2>3
        <3> QED BY <1>3, <1>4, <1>5, <1>6, <2>1, <2>3, <3>1
    <2>4. CASE i > Len(s) + 1
        <3>1. /\ ~(i <= Len(a)) /\ ~(i <= Len(s))
              /\ i - Len(a) \in 1..Len(Tail(q))
              /\ (i - Len(a)) + 1 = i - Len(s)
            BY <1>1, <1>2, <1>3, <2>1, <2>4
        <3>2. l[i] = Tail(q)[i - Len(a)] /\ r[i] = q[i - Len(s)]
            BY <1>4, <1>5, <2>1, <3>1
        <3> QED BY <1>1, <3>1, <3>2
    <2>5. i <= Len(s) \/ i = Len(s) + 1 \/ i > Len(s) + 1
        BY <1>2, <2>1
    <2> QED BY <2>2, <2>3, <2>4, <2>5
<1>9. l = r
    BY <1>4, <1>5, <1>7, <1>8, SeqEqual
<1> QED BY <1>9 DEF l, r, a

\* The children of a node: the nodes one bit further down that the tree has.
LEMMA ChildrenOfType ==
    ASSUME DOMAIN tree \subseteq Path, NEW p \in Path
    PROVE  /\ ChildrenOf(p) \in Seq(DOMAIN tree)
           /\ ChildrenOf(p) \in Seq(Path)
           /\ Len(ChildrenOf(p)) \in Nat
           /\ \A k \in 1..Len(ChildrenOf(p)) :
                 \E bit \in Bit : ChildrenOf(p)[k] = Append(p, bit)
           /\ \A k, l \in 1..Len(ChildrenOf(p)) :
                 ChildrenOf(p)[k] = ChildrenOf(p)[l] => k = l
           /\ Append(p, 0) \in DOMAIN tree =>
                 1 \in 1..Len(ChildrenOf(p)) /\ ChildrenOf(p)[1] = Append(p, 0)
           /\ Append(p, 1) \in DOMAIN tree =>
                 /\ Len(ChildrenOf(p)) \in 1..Len(ChildrenOf(p))
                 /\ ChildrenOf(p)[Len(ChildrenOf(p))] = Append(p, 1)
<1> DEFINE c == ChildrenOf(p)
           zero == Append(p, 0)
           one == Append(p, 1)
<1>1. 0 \in Bit /\ 1 \in Bit
    BY DEF Bit
<1>2. zero # one
    <2>1. zero[Len(p) + 1] = 0 /\ one[Len(p) + 1] = 1
        BY <1>1, PathChild
    <2> QED BY <2>1
<1>3. c = (IF zero \in DOMAIN tree THEN <<zero>> ELSE <<>>)
          \o (IF one \in DOMAIN tree THEN <<one>> ELSE <<>>)
    BY DEF ChildrenOf
<1> HIDE DEF c, zero, one
<1>4. CASE zero \in DOMAIN tree /\ one \in DOMAIN tree
    <2>1. <<zero>> \in Seq(DOMAIN tree) /\ Len(<<zero>>) = 1 /\ one \in DOMAIN tree
        BY <1>4
    <2>2. c = Append(<<zero>>, one)
        BY <1>3, <1>4, <2>1, AppendIsConcat
    <2>3. /\ c \in Seq(DOMAIN tree) /\ Len(c) = 1 + 1
          /\ c[1] = <<zero>>[1] /\ c[1 + 1] = one
        BY <2>1, <2>2, AppendProperties
    <2>4. /\ c \in Seq(DOMAIN tree) /\ Len(c) = 2
          /\ c[1] = zero /\ c[2] = one
        BY <2>3
    <2>5. c \in Seq(Path)
        BY <2>4, SeqMonotonic
    <2> QED BY <1>1, <1>2, <1>4, <2>4, <2>5 DEF c, zero, one
<1>5. CASE zero \in DOMAIN tree /\ one \notin DOMAIN tree
    <2>1. c = <<zero>>
        BY <1>3, <1>5
    <2> QED BY <1>1, <1>5, <2>1 DEF c, zero, one
<1>6. CASE zero \notin DOMAIN tree /\ one \in DOMAIN tree
    <2>1. c = <<one>>
        BY <1>3, <1>6
    <2> QED BY <1>1, <1>6, <2>1 DEF c, zero, one
<1>7. CASE zero \notin DOMAIN tree /\ one \notin DOMAIN tree
    <2>1. c = <<>>
        BY <1>3, <1>7
    <2> QED BY <1>7, <2>1 DEF c, zero, one
<1> QED BY <1>4, <1>5, <1>6, <1>7

\* Of two children the first is the child zero and the second the child one.
LEMMA ChildrenOfOrder ==
    ASSUME NEW p \in Path, NEW k \in 1..Len(ChildrenOf(p)), NEW l \in 1..Len(ChildrenOf(p)),
           k < l
    PROVE  ChildrenOf(p)[k] = Append(p, 0) /\ ChildrenOf(p)[l] = Append(p, 1)
<1> DEFINE c == ChildrenOf(p)
           zero == Append(p, 0)
           one == Append(p, 1)
<1>1. c = (IF zero \in DOMAIN tree THEN <<zero>> ELSE <<>>)
          \o (IF one \in DOMAIN tree THEN <<one>> ELSE <<>>)
    BY DEF ChildrenOf
<1>2. k \in 1..Len(c) /\ l \in 1..Len(c)
    OBVIOUS
<1> HIDE DEF c, zero, one
<1>3. CASE zero \in DOMAIN tree /\ one \in DOMAIN tree
    <2>1. <<zero>> \in Seq({zero, one}) /\ Len(<<zero>>) = 1 /\ one \in {zero, one}
        OBVIOUS
    <2>2. c = Append(<<zero>>, one)
        BY <1>1, <1>3, <2>1, AppendIsConcat
    <2>3. Len(c) = 1 + 1 /\ c[1] = <<zero>>[1] /\ c[1 + 1] = one
        BY <2>1, <2>2, AppendProperties
    <2>4. Len(c) = 2 /\ c[1] = zero /\ c[2] = one
        BY <2>3
    <2>5. k = 1 /\ l = 2
        BY <1>2, <2>4
    <2> QED BY <2>4, <2>5 DEF c, zero, one
<1>4. CASE ~(zero \in DOMAIN tree /\ one \in DOMAIN tree)
    <2>1. CASE zero \in DOMAIN tree /\ one \notin DOMAIN tree
        <3>1. c = <<zero>>
            BY <1>1, <2>1
        <3> QED BY <1>2, <3>1
    <2>2. CASE zero \notin DOMAIN tree /\ one \in DOMAIN tree
        <3>1. c = <<one>>
            BY <1>1, <2>2
        <3> QED BY <1>2, <3>1
    <2>3. CASE zero \notin DOMAIN tree /\ one \notin DOMAIN tree
        <3>1. c = <<>>
            BY <1>1, <2>3
        <3> QED BY <1>2, <3>1
    <2> QED BY <1>4, <2>1, <2>2, <2>3
<1> QED BY <1>3, <1>4

-----------------------------------------------------------------------------
(* The order of a tree read level by level *)

\* No path comes before itself, and of two paths only one comes before the other.
LEMMA LevelOrderStrict ==
    ASSUME NEW p \in Path, NEW q \in Path, LevelOrder(p, q)
    PROVE  p # q /\ ~LevelOrder(q, p)
<1>1. /\ Len(p) \in Nat /\ Len(q) \in Nat
      /\ \A i \in 1..Len(p) : p[i] \in Nat
      /\ \A i \in 1..Len(q) : q[i] \in Nat
    BY PathType DEF Bit
<1>2. CASE Len(p) < Len(q)
    BY <1>1, <1>2 DEF LevelOrder
<1>3. CASE Len(p) = Len(q)
    <2>1. PICK i \in 1..Len(p) : p[i] < q[i] /\ \A j \in 1..(i - 1) : p[j] = q[j]
        BY <1>1, <1>3 DEF LevelOrder
    <2>2. p[i] \in Nat /\ q[i] \in Nat /\ p[i] < q[i]
        BY <1>1, <1>3, <2>1
    <2>3. ASSUME NEW k \in 1..Len(q), q[k] < p[k], \A j \in 1..(k - 1) : q[j] = p[j]
          PROVE  FALSE
        <3>1. p[k] \in Nat /\ q[k] \in Nat
            BY <1>1, <1>3
        <3>2. k # i
            BY <2>2, <2>3, <3>1
        <3>3. CASE k < i
            BY <2>1, <2>3, <3>1, <3>3
        <3>4. CASE i < k
            BY <2>2, <2>3, <3>4
        <3> QED BY <3>2, <3>3, <3>4
    <2> QED BY <1>1, <1>3, <2>2, <2>3 DEF LevelOrder
<1> QED BY <1>1, <1>2, <1>3 DEF LevelOrder

\* The children of a path come after it, the child zero before the child one, and
\* those of a path after those of the paths before it.
LEMMA LevelOrderChild ==
    ASSUME NEW p \in Path, NEW q \in Path, NEW bit \in Bit, NEW b \in Bit
    PROVE  /\ LevelOrder(<<>>, Append(p, bit))
           /\ LevelOrder(Append(p, 0), Append(p, 1))
           /\ LevelOrder(p, q) => LevelOrder(Append(p, bit), Append(q, b))
<1> DEFINE pb == Append(p, bit)
           qb == Append(q, b)
<1>1. /\ Len(p) \in Nat /\ Len(q) \in Nat
      /\ Len(pb) = Len(p) + 1 /\ \A i \in 1..Len(p) : pb[i] = p[i]
      /\ Len(qb) = Len(q) + 1 /\ \A i \in 1..Len(q) : qb[i] = q[i]
    BY PathType, PathChild
<1>2. LevelOrder(<<>>, pb)
    <2>1. Len(<<>>) = 0
        BY EmptySeq
    <2> QED BY <1>1, <2>1 DEF LevelOrder
<1>3. LevelOrder(Append(p, 0), Append(p, 1))
    <2> DEFINE zero == Append(p, 0)
               one == Append(p, 1)
    <2>1. 0 \in Bit /\ 1 \in Bit
        BY DEF Bit
    <2>2. /\ Len(zero) = Len(p) + 1 /\ zero[Len(p) + 1] = 0
          /\ Len(one) = Len(p) + 1 /\ one[Len(p) + 1] = 1
          /\ \A i \in 1..Len(p) : zero[i] = p[i] /\ one[i] = p[i]
        BY <2>1, PathChild
    <2> HIDE DEF zero, one
    <2>3. Len(p) + 1 \in 1..Len(zero) /\ (Len(p) + 1) - 1 = Len(p)
        BY <1>1, <2>2
    <2>4. zero[Len(p) + 1] < one[Len(p) + 1]
        BY <2>2
    <2>5. \A j \in 1..((Len(p) + 1) - 1) : zero[j] = one[j]
        BY <2>2, <2>3
    <2>6. LevelOrder(zero, one)
        BY <2>2, <2>3, <2>4, <2>5 DEF LevelOrder
    <2> QED BY <2>6 DEF zero, one
<1>4. ASSUME LevelOrder(p, q) PROVE LevelOrder(pb, qb)
    <2> HIDE DEF pb, qb
    <2>1. CASE Len(p) < Len(q)
        BY <1>1, <2>1 DEF LevelOrder
    <2>2. CASE Len(p) = Len(q)
        <3>1. PICK i \in 1..Len(p) : p[i] < q[i] /\ \A j \in 1..(i - 1) : p[j] = q[j]
            BY <1>1, <1>4, <2>2 DEF LevelOrder
        <3>2. i \in 1..Len(pb) /\ pb[i] < qb[i]
            BY <1>1, <2>2, <3>1
        <3>3. \A j \in 1..(i - 1) : pb[j] = qb[j]
            <4>1. \A j \in 1..(i - 1) : j \in 1..Len(p)
                BY <1>1
            <4> QED BY <1>1, <2>2, <3>1, <4>1
        <3> QED BY <1>1, <2>2, <3>2, <3>3 DEF LevelOrder
    <2> QED BY <1>1, <1>4, <2>1, <2>2 DEF LevelOrder
<1> QED BY <1>2, <1>3, <1>4

\* A sequence in order lists the set of its members: the place of a member is its
\* rank.
LEMMA SortedIsRanked ==
    ASSUME NEW s \in Seq(Path), NEW S,
           \A k, l \in 1..Len(s) : k < l => LevelOrder(s[k], s[l]),
           \A k \in 1..Len(s) : s[k] \in S,
           \A p \in S : \E k \in 1..Len(s) : s[k] = p
    PROVE  /\ Cardinality(S) = Len(s)
           /\ \A k \in 1..Len(s) : Rank(s[k], S) = k - 1
           /\ InLevelOrder(S) = s
<1>1. /\ Len(s) \in Nat
      /\ \A k \in 1..Len(s) : s[k] \in Path
      /\ s = [k \in 1..Len(s) |-> s[k]]
    BY LenProperties, ElementOfSeq
<1>2. \A k, l \in 1..Len(s) : s[k] = s[l] => k = l
    <2>1. \A k, l \in 1..Len(s) : k < l => s[k] # s[l]
        BY <1>1, LevelOrderStrict
    <2> QED BY <1>1, <2>1
<1>3. \A k, l \in 1..Len(s) : LevelOrder(s[k], s[l]) <=> k < l
    <2>1. ASSUME NEW k \in 1..Len(s), NEW l \in 1..Len(s), LevelOrder(s[k], s[l])
          PROVE  k < l
        <3>1. s[k] # s[l] /\ ~LevelOrder(s[l], s[k])
            BY <1>1, <2>1, LevelOrderStrict
        <3>2. ~(l < k) /\ k # l
            BY <3>1
        <3> QED BY <1>1, <3>2
    <2> QED BY <2>1
<1>4. ASSUME NEW n \in 0..Len(s)
      PROVE  Cardinality({s[k] : k \in 1..n}) = n
    <2> DEFINE T == {s[k] : k \in 1..n}
               f == [k \in 1..n |-> s[k]]
    <2>1. n \in Nat /\ \A k \in 1..n : k \in 1..Len(s)
        BY <1>1
    <2>2. f \in Bijection(1..n, T)
        <3>1. f \in [1..n -> T]
            OBVIOUS
        <3>2. \A a, b \in 1..n : f[a] = f[b] => a = b
            BY <1>2, <2>1
        <3>3. \A t \in T : \E k \in 1..n : f[k] = t
            OBVIOUS
        <3> QED BY <3>1, <3>2, <3>3 DEF Bijection, Injection, Surjection, IsInjective
    <2>3. ExistsBijection(1..n, T)
        BY <2>2, Zenon DEF ExistsBijection
    <2>4. IsFiniteSet(1..n) /\ Cardinality(1..n) = n
        BY <2>1, FS_Interval
    <2> QED BY <2>3, <2>4, FS_Bijection
<1>5. Cardinality(S) = Len(s)
    <2>1. S = {s[k] : k \in 1..Len(s)}
        OBVIOUS
    <2>2. Len(s) \in 0..Len(s)
        BY <1>1
    <2>3. Cardinality({s[k] : k \in 1..Len(s)}) = Len(s)
        BY <1>4, <2>2
    <2> QED BY <2>1, <2>3
<1>6. ASSUME NEW l \in 1..Len(s) PROVE Rank(s[l], S) = l - 1
    <2>1. {q \in S : LevelOrder(q, s[l])} = {s[k] : k \in 1..(l - 1)}
        <3>1. ASSUME NEW q \in S, LevelOrder(q, s[l]) PROVE \E k \in 1..(l - 1) : q = s[k]
            <4>1. PICK k \in 1..Len(s) : s[k] = q
                OBVIOUS
            <4>2. k < l
                BY <1>3, <3>1, <4>1
            <4> QED BY <1>1, <4>1, <4>2
        <3>2. ASSUME NEW k \in 1..(l - 1) PROVE s[k] \in S /\ LevelOrder(s[k], s[l])
            <4>1. k \in 1..Len(s) /\ k < l
                BY <1>1
            <4> QED BY <1>3, <4>1
        <3> QED BY <3>1, <3>2
    <2>2. l - 1 \in 0..Len(s)
        BY <1>1
    <2> QED BY <1>4, <2>1, <2>2 DEF Rank
<1>7. InLevelOrder(S) = s
    <2>1. ASSUME NEW k \in 1..Len(s)
          PROVE  (CHOOSE p \in S : Rank(p, S) = k - 1) = s[k]
        <3>1. s[k] \in S /\ Rank(s[k], S) = k - 1
            BY <1>6
        <3>2. ASSUME NEW p \in S, Rank(p, S) = k - 1 PROVE p = s[k]
            <4>1. PICK l \in 1..Len(s) : s[l] = p
                OBVIOUS
            <4>2. l - 1 = k - 1
                BY <1>6, <3>2, <4>1
            <4> QED BY <1>1, <4>1, <4>2
        <3> QED BY <3>1, <3>2
    <2> QED BY <1>1, <1>5, <2>1 DEF InLevelOrder
<1> QED BY <1>5, <1>6, <1>7

-----------------------------------------------------------------------------
(* WriterInv is inductive: one lemma for each action *)

\* A file of which nothing is written yet is a database.
LEMMA EmptyDatabaseType == EmptyDatabase \in Database
<1>1. <<>> \in Seq(Node) /\ <<>> \in Seq(Attributes) /\ <<>> \in Seq(Path)
    BY EmptySeq
<1> QED BY <1>1 DEF EmptyDatabase, Database

\* The writer starts with a tree that is only a root, and nothing written.
LEMMA InitInv == Init => WriterInv
<1> SUFFICES ASSUME Init PROVE WriterInv
    OBVIOUS
<1> USE DEF Init, TreeInit
<1>1. objects \in Seq(Object) /\ Len(objects) = 0
    BY EmptySeq
<1>2. DOMAIN tree = {<<>>} /\ tree[<<>>] = NoObject
    OBVIOUS
<1>3. TreeTypeOK
    <2>1. tree \in [DOMAIN tree -> 0..Len(objects)]
        BY <1>1 DEF NoObject
    <2> QED BY <1>1, <1>2, <2>1, RootIsPath DEF TreeTypeOK
<1>4. TreeShape
    <2>1. Held = {}
        BY <1>2 DEF Held
    <2>2. Ancestry(<<>>) \subseteq {<<>>}
        <3>1. \A n \in 0..0 : n = 0
            OBVIOUS
        <3>2. SubSeq(<<>>, 1, 0) = <<>>
            BY SubSeqEmpty
        <3> QED BY <3>1, <3>2, RootIsPath, PathType, EmptySeq DEF Ancestry
    <2> QED BY <1>2, <2>1, <2>2 DEF TreeShape
<1>5. TypeOK
    <2>1. nodes \in Seq(Path) /\ networks \in Seq(1..Len(objects))
        BY EmptySeq
    <2> QED BY <1>3, <2>1, EmptyDatabaseType DEF TypeOK
<1>6. QueueIsTree /\ IndicesAreForesight /\ NetworksAreForesight /\ LevelByLevel
    BY DEF QueueIsTree, IndicesAreForesight, NetworksAreForesight, LevelByLevel
<1>7. PublishedWellFormed
    BY DEF PublishedWellFormed
<1> QED BY <1>4, <1>5, <1>6, <1>7 DEF WriterInv

\* Between two writes nothing of a database is at stake, and the tree keeps its shape.
LEMMA CollectInv == WriterInv /\ Collect => WriterInv'
<1> SUFFICES ASSUME WriterInv, Collect PROVE WriterInv'
    OBVIOUS
<1>1. TypeOK /\ TreeTypeOK /\ TreeShape /\ PublishedWellFormed /\ TreeNext
    BY DEF WriterInv, TypeOK, Collect
<1>2. /\ section' = "none" /\ section' = section /\ nodes' = nodes /\ index' = index
      /\ networks' = networks /\ network_index' = network_index /\ file' = file
      /\ published' = published /\ writes' = writes
    BY DEF Collect, writeVars
<1>3. TreeTypeOK' /\ TreeShape' /\ Len(objects) <= Len(objects')
    BY <1>1, TreeStep
<1>4. networks' \in Seq(1..Len(objects'))
    <2>1. Len(objects) \in Nat /\ Len(objects') \in Nat
        BY <1>1, <1>3, LenProperties DEF TreeTypeOK
    <2>2. 1..Len(objects) \subseteq 1..Len(objects')
        BY <1>3, <2>1
    <2> QED BY <1>1, <1>2, <2>2, SeqMonotonic DEF TypeOK
<1>5. TypeOK'
    BY <1>1, <1>2, <1>3, <1>4 DEF TypeOK
<1>6. (QueueIsTree /\ IndicesAreForesight /\ NetworksAreForesight /\ LevelByLevel)'
    BY <1>2 DEF QueueIsTree, IndicesAreForesight, NetworksAreForesight, LevelByLevel
<1>7. PublishedWellFormed'
    BY <1>1, <1>2 DEF PublishedWellFormed
<1> QED BY <1>3, <1>5, <1>6, <1>7 DEF WriterInv

\* The tree does not change while it is written.
LEMMA TreeUnchanged ==
    ASSUME UNCHANGED treeVars
    PROVE  /\ TreeTypeOK => TreeTypeOK'
           /\ TreeShape => TreeShape'
<1>1. tree' = tree /\ objects' = objects /\ crashed' = crashed
    BY DEF treeVars
<1>2. Held' = Held
    BY <1>1 DEF Held
<1> QED BY <1>1, <1>2 DEF TreeTypeOK, TreeShape, Ancestry

\* A new file, with the root in the queue.
LEMMA StartWritingInv == WriterInv /\ StartWriting => WriterInv'
<1> SUFFICES ASSUME WriterInv, StartWriting PROVE WriterInv'
    OBVIOUS
<1>1. TypeOK /\ TreeTypeOK /\ TreeShape /\ PublishedWellFormed
    BY DEF WriterInv, TypeOK
<1>2. /\ section' = "nodes" /\ nodes' = << <<>> >> /\ index' = 0
      /\ networks' = <<>> /\ network_index' = 0 /\ file' = EmptyDatabase
      /\ published' = published /\ writes' = writes + 1
      /\ UNCHANGED treeVars /\ tree' = tree /\ objects' = objects
    BY DEF StartWriting, treeVars
<1>3. TreeTypeOK' /\ TreeShape'
    BY <1>1, <1>2, TreeUnchanged
<1>4. nodes' \in Seq(Path) /\ Len(nodes') = 1 /\ nodes'[1] = <<>>
    BY <1>2, RootIsPath
<1>5. TypeOK'
    <2>1. networks' \in Seq(1..Len(objects'))
        BY <1>2, EmptySeq
    <2> QED BY <1>1, <1>2, <1>3, <1>4, <2>1, EmptyDatabaseType DEF TypeOK
<1>6. Discovered' = nodes' /\ Len(Discovered') = 1 /\ Discovered'[1] = <<>>
      /\ Len(file'.nodes) = 0 /\ Len(file'.path) = 0 /\ file'.networks = <<>>
    <2>1. <<>> \o nodes' = nodes'
        BY <1>4, ConcatEmptySeq
    <2> QED BY <1>2, <1>4, <2>1 DEF Discovered, EmptyDatabase
<1>7. QueueIsTree'
    <2>1. <<>> \in DOMAIN tree
        BY <1>1 DEF TreeShape
    <2>2. \A k \in 1..Len(Discovered') : k = 1
        BY <1>6
    <2>3. \A k \in 2..Len(Discovered') : FALSE
        BY <1>6
    <2> QED BY <1>2, <1>4, <1>6, <2>1, <2>2, <2>3 DEF QueueIsTree
<1>8. IndicesAreForesight'
    <2>1. \A i \in 1..Len(file'.nodes) : FALSE
        BY <1>6
    <2> QED BY <1>2, <1>4, <1>6, <2>1 DEF IndicesAreForesight
<1>9. NetworksAreForesight'
    <2>1. \A i \in 1..Len(file'.nodes) : FALSE
        BY <1>6
    <2> QED BY <1>2, <1>6, <2>1 DEF NetworksAreForesight
<1>10. LevelByLevel'
    <2>1. /\ \A k, l \in 1..Len(Discovered') : ~(k < l)
          /\ \A i \in 1..Len(file'.nodes) : FALSE
          /\ \A number \in 0..(network_index' - 1) : FALSE
        BY <1>2, <1>6
    <2> QED BY <2>1 DEF LevelByLevel
<1>11. PublishedWellFormed'
    BY <1>1, <1>2 DEF PublishedWellFormed
<1> QED BY <1>3, <1>5, <1>7, <1>8, <1>9, <1>10, <1>11 DEF WriterInv

\* The tree is written: the queue is empty and nothing else changes.
LEMMA StartNetworksInv == WriterInv /\ StartNetworks => WriterInv'
<1> SUFFICES ASSUME WriterInv, StartNetworks PROVE WriterInv'
    OBVIOUS
<1>1. /\ TypeOK /\ TreeTypeOK /\ TreeShape /\ PublishedWellFormed
      /\ QueueIsTree /\ IndicesAreForesight /\ NetworksAreForesight
    BY DEF WriterInv, TypeOK
<1>2. /\ section = "nodes" /\ section' = "networks" /\ nodes = <<>> /\ nodes' = nodes
      /\ index' = index /\ networks' = networks /\ network_index' = network_index
      /\ file' = file /\ published' = published /\ writes' = writes
      /\ UNCHANGED treeVars /\ tree' = tree /\ objects' = objects
    BY DEF StartNetworks, treeVars
<1>3. TreeTypeOK' /\ TreeShape'
    BY <1>1, <1>2, TreeUnchanged
<1>4. TypeOK'
    BY <1>1, <1>2, <1>3 DEF TypeOK
<1>5. Discovered' = Discovered
    BY <1>2 DEF Discovered
<1>6. QueueIsTree'
    BY <1>1, <1>2, <1>5 DEF QueueIsTree
<1>7. IndicesAreForesight'
    BY <1>1, <1>2, <1>5 DEF IndicesAreForesight
<1>8. NetworksAreForesight'
    BY <1>1, <1>2 DEF NetworksAreForesight
<1>9. LevelByLevel'
    BY <1>2, <1>5 DEF WriterInv, LevelByLevel
<1>10. PublishedWellFormed'
    BY <1>1, <1>2 DEF PublishedWellFormed
<1> QED BY <1>3, <1>4, <1>6, <1>7, <1>8, <1>9, <1>10 DEF WriterInv

\* A write that was given up leaves nothing at stake: what was published stays.
LEMMA WriteNodeNoMemoryInv == WriterInv /\ WriteNodeNoMemory => WriterInv'
<1> SUFFICES ASSUME WriterInv, WriteNodeNoMemory PROVE WriterInv'
    OBVIOUS
<1>1. TypeOK /\ TreeTypeOK /\ TreeShape /\ PublishedWellFormed
    BY DEF WriterInv, TypeOK
<1>2. /\ section' = "none" /\ nodes' = nodes /\ index' = index
      /\ networks' = networks /\ network_index' = network_index
      /\ file' = file /\ published' = published /\ writes' = writes
      /\ tree' = tree /\ objects' = objects
    BY DEF WriteNodeNoMemory
<1>3. crashed' \in BOOLEAN
    BY <1>1 DEF WriteNodeNoMemory, TreeTypeOK
<1>4. Held' = Held
    BY <1>2 DEF Held
<1>5. TreeTypeOK' /\ TreeShape'
    BY <1>1, <1>2, <1>3, <1>4 DEF TreeTypeOK, TreeShape, Ancestry
<1>6. TypeOK'
    BY <1>1, <1>2, <1>5 DEF TypeOK
<1>7. QueueIsTree' /\ IndicesAreForesight' /\ NetworksAreForesight' /\ LevelByLevel'
    BY <1>2 DEF QueueIsTree, IndicesAreForesight, NetworksAreForesight, LevelByLevel
<1>8. PublishedWellFormed'
    BY <1>1, <1>2 DEF PublishedWellFormed
<1> QED BY <1>5, <1>6, <1>7, <1>8 DEF WriterInv

\* What the arrays of the file are, and that a discovered node is a written or a
\* queued one.
LEMMA FileType ==
    ASSUME TypeOK
    PROVE  /\ file.nodes \in Seq(Node) /\ Len(file.nodes) \in Nat
           /\ file.path \in Seq(Path) /\ Len(file.path) \in Nat
           /\ file.networks \in Seq(Attributes) /\ Len(file.networks) \in Nat
           /\ nodes \in Seq(Path) /\ Len(nodes) \in Nat
           /\ networks \in Seq(1..Len(objects)) /\ Len(networks) \in Nat
           /\ index \in Nat /\ network_index \in Nat
           /\ Discovered \in Seq(Path)
           /\ Len(Discovered) = Len(file.path) + Len(nodes)
           /\ \A k \in 1..Len(Discovered) :
                 Discovered[k] = IF k <= Len(file.path) THEN file.path[k]
                                 ELSE nodes[k - Len(file.path)]
<1>1. /\ file.nodes \in Seq(Node)
      /\ file.path \in Seq(Path)
      /\ file.networks \in Seq(Attributes)
    BY DEF TypeOK, Database
<1>2. /\ nodes \in Seq(Path) /\ networks \in Seq(1..Len(objects))
      /\ index \in Nat /\ network_index \in Nat
    BY DEF TypeOK
<1>3. /\ Len(file.nodes) \in Nat /\ Len(file.path) \in Nat /\ Len(file.networks) \in Nat
      /\ Len(nodes) \in Nat /\ Len(networks) \in Nat
    BY <1>1, <1>2, LenProperties
<1>4. /\ Discovered \in Seq(Path)
      /\ Len(Discovered) = Len(file.path) + Len(nodes)
      /\ \A k \in 1..Len(file.path) + Len(nodes) :
            Discovered[k] = IF k <= Len(file.path) THEN file.path[k]
                            ELSE nodes[k - Len(file.path)]
    BY <1>1, <1>2, ConcatProperties DEF Discovered
<1> QED BY <1>1, <1>2, <1>3, <1>4

\* What writing a node does to the arrays: the node at the head of the queue is
\* next in the array of nodes, and its children come after all that was
\* discovered before.
LEMMA WriteNodeStep ==
    ASSUME WriterInv, WriteNode, NEW p, p = Head(nodes)
    PROVE  /\ p \in DOMAIN tree /\ p \in Path /\ p \in Seq(Bit)
           /\ file'.path \in Seq(Path) /\ file'.nodes \in Seq(Node)
           /\ file'.networks = file.networks
           /\ Len(file'.path) = Len(file.path) + 1
           /\ Len(file'.nodes) = Len(file.nodes) + 1
           /\ \A i \in 1..Len(file.path) : file'.path[i] = file.path[i]
           /\ \A i \in 1..Len(file.nodes) : file'.nodes[i] = file.nodes[i]
           /\ file'.path[Len(file.path) + 1] = p
           /\ file'.nodes[Len(file.nodes) + 1] =
                 [zero |-> IndexZero(p), one |-> IndexOne(p),
                  network |-> IF tree[p] # NoObject THEN network_index ELSE NoNetwork]
           /\ file' \in Database
           /\ nodes' \in Seq(Path)
           /\ Discovered' = Discovered \o ChildrenOf(p)
           /\ Discovered[Len(file.path) + 1] = p
           /\ Len(file.path) + 1 \in 1..Len(Discovered)
<1>1. /\ TypeOK /\ TreeTypeOK /\ QueueIsTree
      /\ section = "nodes" /\ nodes # <<>> /\ DOMAIN tree \subseteq Path
    BY DEF WriterInv, TypeOK, TreeTypeOK, WriteNode
<1>2. /\ file.nodes \in Seq(Node) /\ Len(file.nodes) \in Nat
      /\ file.path \in Seq(Path) /\ Len(file.path) \in Nat
      /\ nodes \in Seq(Path) /\ Len(nodes) \in Nat /\ index \in Nat /\ network_index \in Nat
      /\ Len(Discovered) = Len(file.path) + Len(nodes)
      /\ \A k \in 1..Len(Discovered) :
            Discovered[k] = IF k <= Len(file.path) THEN file.path[k]
                            ELSE nodes[k - Len(file.path)]
    BY <1>1, FileType
<1>3. Len(nodes) > 0 /\ p = nodes[1] /\ Tail(nodes) \in Seq(Path) /\ p \in Path
    BY <1>1, <1>2, EmptySeq, HeadTailProperties
<1>4. Len(file.path) + 1 \in 1..Len(Discovered) /\ Discovered[Len(file.path) + 1] = p
    BY <1>2, <1>3
<1>5. p \in DOMAIN tree /\ p \in Seq(Bit)
    BY <1>1, <1>3, <1>4, PathType DEF QueueIsTree
<1>6. /\ ChildrenOf(p) \in Seq(Path) /\ Len(ChildrenOf(p)) \in Nat
    BY <1>1, <1>3, ChildrenOfType
<1> DEFINE n == [zero |-> IndexZero(p), one |-> IndexOne(p),
                 network |-> IF tree[p] # NoObject THEN network_index ELSE NoNetwork]
<1>7. n \in Node
    BY <1>2, <1>6 DEF Node, IndexZero, IndexOne
<1>8. /\ nodes' = Tail(nodes) \o ChildrenOf(p)
      /\ file' = [file EXCEPT !.nodes = Append(@, n), !.path = Append(@, p)]
    BY DEF WriteNode
<1> HIDE DEF n
<1>9. /\ file'.nodes = Append(file.nodes, n)
      /\ file'.path = Append(file.path, p)
      /\ file'.networks = file.networks
    BY <1>1, <1>8 DEF TypeOK, Database
<1>10. /\ file'.path \in Seq(Path)
       /\ Len(file'.path) = Len(file.path) + 1
       /\ \A i \in 1..Len(file.path) : file'.path[i] = file.path[i]
       /\ file'.path[Len(file.path) + 1] = p
    BY <1>2, <1>3, <1>9, AppendProperties
<1>11. /\ file'.nodes \in Seq(Node)
       /\ Len(file'.nodes) = Len(file.nodes) + 1
       /\ \A i \in 1..Len(file.nodes) : file'.nodes[i] = file.nodes[i]
       /\ file'.nodes[Len(file.nodes) + 1] = n
    BY <1>2, <1>7, <1>9, AppendProperties
<1>12. file' \in Database
    BY <1>1, <1>8, <1>9, <1>10, <1>11 DEF TypeOK, Database
<1>13. nodes' \in Seq(Path)
    BY <1>3, <1>6, <1>8, ConcatProperties
<1>14. Discovered' = Discovered \o ChildrenOf(p)
    <2>1. Discovered' = Append(file.path, p) \o (Tail(nodes) \o ChildrenOf(p))
        BY <1>8, <1>9 DEF Discovered
    <2>2. Append(file.path, p) \in Seq(Path)
        BY <1>9, <1>10
    <2>3. Append(file.path, p) \o (Tail(nodes) \o ChildrenOf(p))
             = (Append(file.path, p) \o Tail(nodes)) \o ChildrenOf(p)
        <3> DEFINE a == Append(file.path, p)
                   b == Tail(nodes)
                   c == ChildrenOf(p)
        <3>1. a \in Seq(Path) /\ b \in Seq(Path) /\ c \in Seq(Path)
            BY <1>3, <1>6, <2>2
        <3> HIDE DEF a, b, c
        <3>2. a \o (b \o c) = (a \o b) \o c
            BY <3>1, ConcatAssociative, SMTT(40)
        <3> QED BY <3>2 DEF a, b, c
    <2>4. Append(file.path, p) \o Tail(nodes) = Discovered
        BY <1>1, <1>2, QueueStep DEF Discovered
    <2> QED BY <2>1, <2>3, <2>4
<1> QED BY <1>3, <1>4, <1>5, <1>9, <1>10, <1>11, <1>12, <1>13, <1>14 DEF n

\* The children of the node just written were not discovered before: a discovered
\* node is the root or the child of a node written earlier.
LEMMA ChildrenAreNew ==
    ASSUME WriterInv, section = "nodes", NEW p \in Path,
           Discovered[Len(file.path) + 1] = p, Len(file.path) + 1 \in 1..Len(Discovered),
           NEW k \in 1..Len(Discovered), NEW bit \in Bit
    PROVE  Discovered[k] # Append(p, bit)
<1>1. TypeOK /\ QueueIsTree
    BY DEF WriterInv
<1>2. /\ file.path \in Seq(Path) /\ Len(file.path) \in Nat
      /\ Len(Discovered) \in Nat
      /\ Discovered[1] = <<>>
      /\ \A j, l \in 1..Len(Discovered) : Discovered[j] = Discovered[l] => j = l
      /\ \A j \in 1..Len(Discovered) :
            j <= Len(file.path) => Discovered[j] = file.path[j]
    BY <1>1, FileType, LenProperties DEF QueueIsTree
<1>3. SUFFICES ASSUME Discovered[k] = Append(p, bit) PROVE FALSE
    OBVIOUS
<1>4. k # 1
    BY <1>2, <1>3, PathChild
<1>5. k \in 2..Len(Discovered)
    BY <1>2, <1>4
<1>6. PICK i \in 1..Len(file.path), b \in Bit : Discovered[k] = Append(file.path[i], b)
    BY <1>1, <1>5 DEF QueueIsTree
<1>7. file.path[i] \in Path
    BY <1>2, ElementOfSeq
<1>8. file.path[i] = p
    <2>1. p \in Seq(Bit) /\ file.path[i] \in Seq(Bit)
        BY <1>7, PathType
    <2>2. Append(file.path[i], b) = Append(p, bit) /\ b \in Bit
        BY <1>3, <1>6
    <2>3. Append(file.path[i], b) = Append(p, bit) <=> file.path[i] = p /\ b = bit
        BY <2>1, <2>2, AppendInjective, SMTT(40)
    <2> QED BY <2>2, <2>3
<1>9. i \in 1..Len(Discovered) /\ i # Len(file.path) + 1 /\ i <= Len(file.path)
    BY <1>2
<1>10. Discovered[i] = p
    BY <1>2, <1>8, <1>9
<1> QED BY <1>2, <1>9, <1>10

\* The children of the node just written come after every node discovered before,
\* and its network, if it holds one, has the next number.
LEMMA WriteNodeByLevel ==
    ASSUME WriterInv, WriteNode
    PROVE  LevelByLevel'
<1> DEFINE p == Head(nodes)
           c == ChildrenOf(p)
           n == Len(file.path)
           d == Len(Discovered)
<1>1. /\ TypeOK /\ QueueIsTree /\ IndicesAreForesight /\ NetworksAreForesight /\ LevelByLevel
      /\ section = "nodes" /\ section' = section /\ DOMAIN tree \subseteq Path
      /\ network_index' = IF tree[p] # NoObject THEN network_index + 1 ELSE network_index
    BY DEF WriterInv, TypeOK, TreeTypeOK, WriteNode
<1>2. /\ p \in Path
      /\ Len(file'.nodes) = Len(file.nodes) + 1
      /\ \A i \in 1..Len(file.nodes) : file'.nodes[i] = file.nodes[i]
      /\ file'.nodes[Len(file.nodes) + 1] =
            [zero |-> IndexZero(p), one |-> IndexOne(p),
             network |-> IF tree[p] # NoObject THEN network_index ELSE NoNetwork]
      /\ Discovered' = Discovered \o c
      /\ Discovered[n + 1] = p
      /\ n + 1 \in 1..d
    BY WriteNodeStep
<1>3. /\ n \in Nat /\ d \in Nat /\ Len(file.nodes) = n /\ network_index \in Nat
      /\ Discovered \in Seq(Path)
      /\ \A k \in 1..d : Discovered[k] \in Path
      /\ \A k \in 1..n : k \in 1..d /\ Discovered[k] = file.path[k]
    <2>1. /\ n \in Nat /\ d \in Nat /\ network_index \in Nat /\ Discovered \in Seq(Path)
          /\ d = n + Len(nodes) /\ Len(nodes) \in Nat
          /\ \A k \in 1..d : Discovered[k] = IF k <= n THEN file.path[k] ELSE nodes[k - n]
        BY <1>1, FileType, LenProperties
    <2>2. \A k \in 1..n : k \in 1..d /\ k <= n
        BY <2>1
    <2> QED BY <1>1, <2>1, <2>2, ElementOfSeq DEF QueueIsTree
<1>4. /\ c \in Seq(Path) /\ Len(c) \in Nat
      /\ \A k \in 1..Len(c) : \E bit \in Bit : c[k] = Append(p, bit)
      /\ \A k, l \in 1..Len(c) :
            k < l => c[k] = Append(p, 0) /\ c[l] = Append(p, 1)
    BY <1>1, <1>2, ChildrenOfType, ChildrenOfOrder
<1>5. /\ Len(Discovered') = d + Len(c)
      /\ \A j \in 1..d : j \in 1..Len(Discovered') /\ Discovered'[j] = Discovered[j]
      /\ \A k \in 1..Len(c) : d + k \in 1..Len(Discovered') /\ Discovered'[d + k] = c[k]
      /\ \A j \in 1..Len(Discovered') : j \in 1..d \/ \E k \in 1..Len(c) : j = d + k
    <2> HIDE DEF c
    <2>1. Discovered \in Seq(Path) /\ c \in Seq(Path) /\ Discovered' = Discovered \o c
        BY <1>2, <1>3, <1>4
    <2> QED BY <2>1, ConcatParts
<1> HIDE DEF p, c, n, d
<1>6. ASSUME NEW k \in 1..d, NEW bit \in Bit
      PROVE  LevelOrder(Discovered[k], Append(p, bit))
    <2>1. CASE k = 1
        BY <1>1, <1>2, <2>1, LevelOrderChild DEF QueueIsTree
    <2>2. CASE k # 1
        <3>1. k \in 2..Len(Discovered)
            BY <1>3, <2>2 DEF d
        <3>2. PICK i \in 1..Len(file.path), b \in Bit : Discovered[k] = Append(file.path[i], b)
            BY <1>1, <3>1 DEF QueueIsTree
        <3>3. /\ i \in 1..d /\ i < n + 1 /\ n + 1 \in 1..d
              /\ file.path[i] = Discovered[i] /\ Discovered[i] \in Path
            BY <1>2, <1>3, <3>2 DEF n
        <3>4. LevelOrder(Discovered[i], Discovered[n + 1])
            BY <1>1, <3>3 DEF LevelByLevel, d
        <3>5. LevelOrder(file.path[i], p)
            BY <1>2, <3>3, <3>4
        <3> QED BY <1>2, <3>2, <3>3, <3>5, LevelOrderChild
    <2> QED BY <2>1, <2>2
<1>7. ASSUME NEW k \in 1..Len(Discovered'), NEW l \in 1..Len(Discovered'), k < l
      PROVE  LevelOrder(Discovered'[k], Discovered'[l])
    <2>1. CASE k \in 1..d /\ l \in 1..d
        BY <1>1, <1>5, <1>7, <2>1 DEF LevelByLevel, d
    <2>2. CASE k \in 1..d /\ l \notin 1..d
        <3>1. PICK m \in 1..Len(c) : l = d + m
            BY <1>5, <2>2
        <3>2. PICK bit \in Bit : c[m] = Append(p, bit)
            BY <1>4
        <3> QED BY <1>5, <1>6, <2>2, <3>1, <3>2
    <2>3. CASE k \notin 1..d
        <3>1. PICK j \in 1..Len(c) : k = d + j
            BY <1>5, <2>3
        <3>2. l \notin 1..d
            BY <1>3, <1>5, <1>7, <2>3, <3>1
        <3>3. PICK m \in 1..Len(c) : l = d + m
            BY <1>5, <3>2
        <3>4. j < m
            BY <1>3, <1>4, <1>7, <3>1, <3>3
        <3>5. 0 \in Bit
            BY DEF Bit
        <3>6. LevelOrder(Append(p, 0), Append(p, 1))
            BY <1>2, <3>5, LevelOrderChild
        <3>7. c[j] = Append(p, 0) /\ c[m] = Append(p, 1)
            BY <1>4, <3>4
        <3>8. Discovered'[k] = c[j] /\ Discovered'[l] = c[m]
            BY <1>5, <3>1, <3>3
        <3> QED BY <3>6, <3>7, <3>8
    <2> QED BY <2>1, <2>2, <2>3
<1>8. /\ \A i \in 1..n : file'.nodes[i] = file.nodes[i]
      /\ file'.nodes[n + 1].network = IF tree[p] # NoObject THEN network_index ELSE NoNetwork
      /\ \A i \in 1..Len(file'.nodes) : i \in 1..n \/ i = n + 1
      /\ \A i \in 1..n : i \in 1..Len(file'.nodes)
      /\ n + 1 \in 1..Len(file'.nodes)
    BY <1>2, <1>3
<1>9. \A i \in 1..n : IsLeaf(file.nodes[i]) => file.nodes[i].network \in 0..(network_index - 1)
    BY <1>1, <1>3 DEF NetworksAreForesight, IsLeaf
<1>10. ASSUME NEW i \in 1..Len(file'.nodes), NEW j \in 1..Len(file'.nodes), i < j,
              IsLeaf(file'.nodes[i]), IsLeaf(file'.nodes[j])
       PROVE  file'.nodes[i].network < file'.nodes[j].network
    <2>1. i \in 1..n
        BY <1>2, <1>3, <1>10
    <2>2. CASE j \in 1..n
        BY <1>1, <1>3, <1>8, <1>10, <2>1, <2>2 DEF LevelByLevel
    <2>3. CASE j = n + 1
        <3>1. file'.nodes[j].network = network_index
            BY <1>8, <1>10, <2>3 DEF IsLeaf
        <3>2. file'.nodes[i].network \in 0..(network_index - 1)
            BY <1>8, <1>9, <1>10, <2>1
        <3> QED BY <1>3, <3>1, <3>2
    <2> QED BY <1>8, <2>2, <2>3
<1>11. ASSUME NEW number \in 0..(network_index' - 1)
       PROVE  \E i \in 1..Len(file'.nodes) : file'.nodes[i].network = number
    <2>1. CASE number \in 0..(network_index - 1)
        <3>1. PICK i \in 1..n : file.nodes[i].network = number
            BY <1>1, <1>3, <2>1 DEF LevelByLevel
        <3> QED BY <1>8, <3>1
    <2>2. CASE number \notin 0..(network_index - 1)
        <3>1. tree[p] # NoObject /\ number = network_index
            BY <1>1, <1>3, <2>2
        <3> QED BY <1>8, <3>1
    <2> QED BY <2>1, <2>2
<1> QED BY <1>7, <1>10, <1>11 DEF LevelByLevel

\* A node is written: its children join the queue under the indices it stores.
LEMMA WriteNodeInv == WriterInv /\ WriteNode => WriterInv'
<1> SUFFICES ASSUME WriterInv, WriteNode PROVE WriterInv'
    OBVIOUS
<1>1. /\ TypeOK /\ TreeTypeOK /\ TreeShape /\ PublishedWellFormed
      /\ QueueIsTree /\ IndicesAreForesight /\ NetworksAreForesight
    BY DEF WriterInv, TypeOK
<1> DEFINE p == Head(nodes)
           c == ChildrenOf(p)
           n == Len(file.path)
           d == Len(Discovered)
<1>2. /\ section = "nodes" /\ section' = section
      /\ index' = index + Len(c)
      /\ networks' = IF tree[p] # NoObject THEN Append(networks, tree[p]) ELSE networks
      /\ network_index' = IF tree[p] # NoObject THEN network_index + 1 ELSE network_index
      /\ published' = published /\ writes' = writes
      /\ UNCHANGED treeVars /\ tree' = tree /\ objects' = objects
    BY DEF WriteNode, treeVars
<1>3. /\ p \in DOMAIN tree /\ p \in Path
      /\ file'.path \in Seq(Path) /\ file'.nodes \in Seq(Node)
      /\ file'.networks = file.networks
      /\ Len(file'.path) = n + 1
      /\ Len(file'.nodes) = Len(file.nodes) + 1
      /\ \A i \in 1..n : file'.path[i] = file.path[i]
      /\ \A i \in 1..Len(file.nodes) : file'.nodes[i] = file.nodes[i]
      /\ file'.path[n + 1] = p
      /\ file'.nodes[Len(file.nodes) + 1] =
            [zero |-> IndexZero(p), one |-> IndexOne(p),
             network |-> IF tree[p] # NoObject THEN network_index ELSE NoNetwork]
      /\ file' \in Database
      /\ nodes' \in Seq(Path)
      /\ Discovered' = Discovered \o c
      /\ Discovered[n + 1] = p
      /\ n + 1 \in 1..d
    BY WriteNodeStep
<1>4. /\ n \in Nat /\ d \in Nat /\ Len(file.nodes) = n /\ index \in Nat /\ network_index \in Nat
      /\ d = index + 1
      /\ Discovered \in Seq(Path)
      /\ networks \in Seq(1..Len(objects)) /\ Len(networks) \in Nat
      /\ Len(file.networks) \in Nat
    BY <1>1, <1>2, FileType, LenProperties DEF QueueIsTree, IndicesAreForesight
<1>5. /\ c \in Seq(DOMAIN tree) /\ c \in Seq(Path) /\ Len(c) \in Nat
      /\ \A k \in 1..Len(c) : \E bit \in Bit : c[k] = Append(p, bit)
      /\ \A k, l \in 1..Len(c) : c[k] = c[l] => k = l
      /\ Append(p, 0) \in DOMAIN tree => 1 \in 1..Len(c) /\ c[1] = Append(p, 0)
      /\ Append(p, 1) \in DOMAIN tree =>
            Len(c) \in 1..Len(c) /\ c[Len(c)] = Append(p, 1)
    BY <1>1, <1>3, ChildrenOfType DEF TreeTypeOK
<1>6. /\ Len(Discovered') = d + Len(c)
      /\ \A j \in 1..d : j \in 1..Len(Discovered') /\ Discovered'[j] = Discovered[j]
      /\ \A k \in 1..Len(c) : d + k \in 1..Len(Discovered') /\ Discovered'[d + k] = c[k]
      /\ \A j \in 1..Len(Discovered') : j \in 1..d \/ \E k \in 1..Len(c) : j = d + k
    <2> HIDE DEF c
    <2>1. Discovered \in Seq(Path) /\ c \in Seq(Path) /\ Discovered' = Discovered \o c
        BY <1>3, <1>4, <1>5
    <2> QED BY <2>1, ConcatParts
<1>7. \A k \in 1..d : \A bit \in Bit : Discovered[k] # Append(p, bit)
    BY <1>2, <1>3, ChildrenAreNew
<1>8. /\ IndexZero(p) = IF Append(p, 0) \in DOMAIN tree THEN index + 1 ELSE 0
      /\ IndexOne(p) = IF Append(p, 1) \in DOMAIN tree THEN index + Len(c) ELSE 0
    BY DEF IndexZero, IndexOne
<1> HIDE DEF p, c, n, d
<1>9. TreeTypeOK' /\ TreeShape'
    BY <1>1, <1>2, TreeUnchanged
<1>10. /\ networks' \in Seq(1..Len(objects'))
       /\ Len(networks') = Len(networks) + (IF tree[p] # NoObject THEN 1 ELSE 0)
       /\ \A k \in 1..Len(networks) : networks'[k] = networks[k]
       /\ tree[p] # NoObject => networks'[Len(networks) + 1] = tree[p]
    <2>1. CASE tree[p] # NoObject
        <3>1. tree[p] \in 1..Len(objects)
            BY <1>1, <1>3, <2>1, LenProperties DEF TreeTypeOK, NoObject
        <3> QED BY <1>2, <1>4, <2>1, <3>1, AppendProperties
    <2>2. CASE tree[p] = NoObject
        BY <1>2, <1>4, <2>2
    <2> QED BY <2>1, <2>2
<1>11. TypeOK'
    BY <1>1, <1>2, <1>3, <1>4, <1>5, <1>9, <1>10 DEF TypeOK
<1>12. QueueIsTree'
    <2>1. Len(file'.path) = Len(file'.nodes) /\ section' = "nodes"
        BY <1>2, <1>3, <1>4
    <2>2. Len(Discovered') > 0 /\ Discovered'[1] = <<>>
        <3>1. d > 0 /\ 1 \in 1..d /\ Discovered[1] = <<>>
            BY <1>1, <1>2, <1>4 DEF QueueIsTree, d
        <3> QED BY <1>4, <1>5, <1>6, <3>1
    <2>3. ASSUME NEW k \in 1..Len(Discovered') PROVE Discovered'[k] \in DOMAIN tree'
        <3>1. CASE k \in 1..d
            BY <1>1, <1>2, <1>6, <3>1 DEF QueueIsTree, d
        <3>2. ASSUME NEW j \in 1..Len(c), k = d + j PROVE Discovered'[k] \in DOMAIN tree'
            <4>1. c[j] \in DOMAIN tree
                BY <1>5, ElementOfSeq
            <4> QED BY <1>2, <1>6, <3>2, <4>1
        <3> QED BY <1>6, <3>1, <3>2
    <2>4. ASSUME NEW k \in 1..Len(Discovered'), NEW l \in 1..Len(Discovered'),
                 Discovered'[k] = Discovered'[l]
          PROVE  k = l
        <3>1. CASE k \in 1..d /\ l \in 1..d
            BY <1>1, <1>2, <1>6, <2>4, <3>1 DEF QueueIsTree, d
        <3>2. ASSUME NEW j \in 1..d, NEW i \in 1..Len(c)
              PROVE  Discovered'[j] # Discovered'[d + i]
            <4>1. PICK bit \in Bit : c[i] = Append(p, bit)
                BY <1>5
            <4>2. Discovered[j] # c[i]
                BY <1>7, <4>1
            <4> QED BY <1>6, <4>2
        <3>3. ASSUME NEW i \in 1..Len(c), NEW j \in 1..Len(c), k = d + i, l = d + j
              PROVE  k = l
            <4>1. c[i] = c[j]
                BY <1>6, <2>4, <3>3
            <4>2. i = j
                BY <1>5, <4>1
            <4> QED BY <3>3, <4>2
        <3>4. CASE k \in 1..d /\ l \notin 1..d
            BY <1>6, <2>4, <3>2, <3>4
        <3>5. CASE k \notin 1..d /\ l \in 1..d
            BY <1>6, <2>4, <3>2, <3>5
        <3>6. CASE k \notin 1..d /\ l \notin 1..d
            BY <1>6, <3>3, <3>6
        <3> QED BY <3>1, <3>4, <3>5, <3>6
    <2>5. ASSUME NEW k \in 2..Len(Discovered')
          PROVE  \E i \in 1..Len(file'.path), bit \in Bit :
                    Discovered'[k] = Append(file'.path[i], bit)
        <3>1. k \in Nat /\ k \in 1..Len(Discovered') /\ k # 1
            BY <1>4, <1>5, <1>6
        <3>2. CASE k \in 1..d
            <4>1. k \in 2..d /\ Discovered'[k] = Discovered[k]
                BY <1>4, <1>6, <3>1, <3>2
            <4>2. PICK i \in 1..n, bit \in Bit : Discovered[k] = Append(file.path[i], bit)
                BY <1>1, <1>2, <4>1 DEF QueueIsTree, n, d
            <4>3. i \in 1..Len(file'.path) /\ file'.path[i] = file.path[i]
                BY <1>3, <1>4, <4>2
            <4> QED BY <4>1, <4>2, <4>3
        <3>3. ASSUME NEW j \in 1..Len(c), k = d + j
              PROVE  \E i \in 1..Len(file'.path), bit \in Bit :
                        Discovered'[k] = Append(file'.path[i], bit)
            <4>1. PICK bit \in Bit : c[j] = Append(p, bit)
                BY <1>5
            <4>2. n + 1 \in 1..Len(file'.path) /\ file'.path[n + 1] = p
                BY <1>3, <1>4
            <4>3. Discovered'[k] = Append(file'.path[n + 1], bit)
                BY <1>6, <3>3, <4>1, <4>2
            <4> QED BY <4>2, <4>3
        <3> QED BY <1>6, <3>1, <3>2, <3>3
    <2> QED BY <2>1, <2>2, <2>3, <2>4, <2>5 DEF QueueIsTree
<1>13. IndicesAreForesight'
    <2>1. Len(Discovered') = index' + 1
        BY <1>2, <1>4, <1>5, <1>6
    <2>2. ASSUME NEW i \in 1..Len(file'.nodes), NEW bit \in Bit
          PROVE  IF Append(file'.path[i], bit) \in DOMAIN tree'
                 THEN /\ Child(file'.nodes[i], bit) \in 1..index'
                      /\ Discovered'[Child(file'.nodes[i], bit) + 1] = Append(file'.path[i], bit)
                 ELSE Child(file'.nodes[i], bit) = 0
        <3>1. i \in 1..n + 1
            BY <1>3, <1>4
        <3>2. CASE i \in 1..n
            <4>1. file'.nodes[i] = file.nodes[i] /\ file'.path[i] = file.path[i]
                BY <1>3, <1>4, <3>2
            <4> DEFINE child == Child(file.nodes[i], bit)
                       path == Append(file.path[i], bit)
            <4>2. IF path \in DOMAIN tree
                  THEN child \in 1..index /\ Discovered[child + 1] = path
                  ELSE child = 0
                BY <1>1, <1>2, <1>4, <3>2 DEF IndicesAreForesight
            <4> HIDE DEF child, path
            <4>3. child \in 1..index =>
                     child \in 1..index' /\ Discovered'[child + 1] = Discovered[child + 1]
                BY <1>2, <1>4, <1>5, <1>6
            <4>4. IF path \in DOMAIN tree'
                  THEN child \in 1..index' /\ Discovered'[child + 1] = path
                  ELSE child = 0
                BY <1>2, <4>2, <4>3
            <4> QED BY <4>1, <4>4 DEF child, path
        <3>3. CASE i = n + 1
            <4>1. /\ file'.path[i] = p
                  /\ Child(file'.nodes[i], bit) = IF bit = 0 THEN IndexZero(p) ELSE IndexOne(p)
                BY <1>3, <1>4, <3>3 DEF Child
            <4>2. bit = 0 \/ bit = 1
                BY DEF Bit
            <4>3. ASSUME NEW k \in 1..Len(c)
                  PROVE  index + k \in 1..index' /\ Discovered'[(index + k) + 1] = c[k]
                <5>1. index + k \in 1..index' /\ (index + k) + 1 = d + k
                    BY <1>2, <1>4, <1>5
                <5> QED BY <1>6, <5>1
            <4>4. CASE bit = 0
                <5>1. CASE Append(p, 0) \in DOMAIN tree
                    <6>1. Child(file'.nodes[i], bit) = index + 1
                        BY <1>8, <4>1, <4>4, <5>1
                    <6>2. 1 \in 1..Len(c) /\ c[1] = Append(p, 0)
                        BY <1>5, <5>1
                    <6>3. /\ index + 1 \in 1..index'
                          /\ Discovered'[(index + 1) + 1] = Append(p, 0)
                        BY <4>3, <6>2
                    <6> QED BY <1>2, <4>1, <4>4, <5>1, <6>1, <6>3
                <5>2. CASE Append(p, 0) \notin DOMAIN tree
                    BY <1>2, <1>8, <4>1, <4>4, <5>2
                <5> QED BY <5>1, <5>2
            <4>5. CASE bit = 1
                <5>1. CASE Append(p, 1) \in DOMAIN tree
                    <6>1. Child(file'.nodes[i], bit) = index + Len(c)
                        BY <1>8, <4>1, <4>5, <5>1
                    <6>2. Len(c) \in 1..Len(c) /\ c[Len(c)] = Append(p, 1)
                        BY <1>5, <5>1
                    <6>3. /\ index + Len(c) \in 1..index'
                          /\ Discovered'[(index + Len(c)) + 1] = Append(p, 1)
                        BY <4>3, <6>2
                    <6> QED BY <1>2, <4>1, <4>5, <5>1, <6>1, <6>3
                <5>2. CASE Append(p, 1) \notin DOMAIN tree
                    BY <1>2, <1>8, <4>1, <4>5, <5>2
                <5> QED BY <5>1, <5>2
            <4> QED BY <4>2, <4>4, <4>5
        <3> QED BY <1>4, <3>1, <3>2, <3>3
    <2> QED BY <2>1, <2>2 DEF IndicesAreForesight
<1>14. NetworksAreForesight'
    <2> DEFINE leaf == tree[p] # NoObject
               new == file'.nodes[n + 1]
    <2>1. /\ network_index = Len(networks) /\ file.networks = <<>> /\ Len(file.networks) = 0
          /\ file'.networks = <<>> /\ Len(file'.networks) = 0
          /\ network_index' = Len(file'.networks) + Len(networks')
        <3>1. network_index = Len(file.networks) + Len(networks) /\ file.networks = <<>>
            BY <1>1, <1>2 DEF NetworksAreForesight
        <3>2. Len(file.networks) = 0 /\ file'.networks = <<>> /\ Len(file'.networks) = 0
            BY <1>3, <3>1
        <3>3. network_index = Len(networks)
            BY <1>4, <3>1, <3>2
        <3>4. network_index' = Len(networks')
            BY <1>2, <1>10, <3>3
        <3> QED BY <1>10, <3>1, <3>2, <3>3, <3>4, LenProperties
    <2>2. new.network = IF leaf THEN network_index ELSE NoNetwork
        BY <1>3, <1>4
    <2>3. ASSUME NEW i \in 1..n
          PROVE  /\ file'.nodes[i] = file.nodes[i] /\ file'.path[i] = file.path[i]
                 /\ IF tree[file.path[i]] = NoObject
                    THEN file.nodes[i].network = NoNetwork
                    ELSE /\ file.nodes[i].network \in 0..(network_index - 1)
                         /\ networks[file.nodes[i].network + 1] = tree[file.path[i]]
        <3>1. file'.nodes[i] = file.nodes[i] /\ file'.path[i] = file.path[i]
            BY <1>3, <1>4
        <3>2. IF tree[file.path[i]] = NoObject
              THEN file.nodes[i].network = NoNetwork
              ELSE /\ file.nodes[i].network \in 0..(network_index - 1)
                   /\ IF file.nodes[i].network < Len(file.networks)
                      THEN NetworkAt(file, file.nodes[i].network)
                              = objects[tree[file.path[i]]].attributes
                      ELSE networks[file.nodes[i].network - Len(file.networks) + 1]
                              = tree[file.path[i]]
            BY <1>1, <1>2, <1>4 DEF NetworksAreForesight
        <3>3. file.nodes[i].network \in 0..(network_index - 1) =>
                 /\ ~(file.nodes[i].network < Len(file.networks))
                 /\ file.nodes[i].network - Len(file.networks) + 1
                       = file.nodes[i].network + 1
            BY <1>4, <2>1
        <3> QED BY <3>1, <3>2, <3>3
    <2>4. ASSUME NEW i \in 1..n PROVE file'.nodes[i].network # network_index
        <3>1. network_index # NoNetwork /\ network_index \notin 0..(network_index - 1)
            BY <1>4, NoNetworkAssumption
        <3> QED BY <2>3, <3>1
    <2> HIDE DEF new
    <2>5. ASSUME NEW i \in 1..n + 1, NEW j \in 1..n + 1, IsLeaf(file'.nodes[i]),
                 file'.nodes[i].network = file'.nodes[j].network
          PROVE  i = j
        <3>1. CASE i \in 1..n /\ j \in 1..n
            BY <1>1, <1>2, <1>4, <2>3, <2>5, <3>1 DEF NetworksAreForesight
        <3>2. CASE i = n + 1 /\ j \in 1..n
            BY <2>2, <2>4, <2>5, <3>2 DEF IsLeaf, new
        <3>3. CASE i \in 1..n /\ j = n + 1
            BY <2>2, <2>4, <2>5, <3>3 DEF IsLeaf, new
        <3> QED BY <1>4, <3>1, <3>2, <3>3
    <2>6. ASSUME NEW i \in 1..n + 1
          PROVE  IF tree'[file'.path[i]] = NoObject
                 THEN file'.nodes[i].network = NoNetwork
                 ELSE /\ file'.nodes[i].network \in 0..(network_index' - 1)
                      /\ networks'[file'.nodes[i].network + 1] = tree'[file'.path[i]]
        <3>1. network_index <= network_index' /\ network_index' \in Nat
              /\ (leaf => network_index \in 0..(network_index' - 1))
            BY <1>2, <1>4
        <3>2. CASE i \in 1..n
            <4> DEFINE number == file.nodes[i].network
            <4> HIDE DEF number
            <4>1. number \in 0..(network_index - 1) =>
                     /\ number \in 0..(network_index' - 1)
                     /\ number + 1 \in 1..Len(networks)
                BY <1>4, <2>1, <3>1
            <4>2. ASSUME number \in 0..(network_index - 1)
                  PROVE  networks'[number + 1] = networks[number + 1]
                <5>1. \A k \in 1..Len(networks) : networks'[k] = networks[k]
                    BY <1>10
                <5>2. number + 1 \in 1..Len(networks)
                    BY <4>1, <4>2
                <5> QED BY <5>1, <5>2
            <4>3. IF tree[file.path[i]] = NoObject
                  THEN number = NoNetwork
                  ELSE /\ number \in 0..(network_index - 1)
                       /\ networks[number + 1] = tree[file.path[i]]
                BY <2>3, <3>2 DEF number
            <4>4. /\ file'.nodes[i].network = number
                  /\ tree'[file'.path[i]] = tree[file.path[i]]
                BY <1>2, <2>3, <3>2 DEF number
            <4> QED BY <4>1, <4>2, <4>3, <4>4
        <3>3. CASE i = n + 1
            <4>1. file'.path[i] = p /\ file'.nodes[i].network = IF leaf THEN network_index ELSE NoNetwork
                BY <1>3, <2>2, <3>3 DEF new
            <4>2. leaf => networks'[network_index + 1] = tree[p]
                BY <1>10, <2>1
            <4>3. tree'[file'.path[i]] = tree[p]
                BY <1>2, <4>1
            <4>4. CASE leaf
                BY <3>1, <4>1, <4>2, <4>3, <4>4
            <4>5. CASE ~leaf
                BY <4>1, <4>3, <4>5
            <4> QED BY <4>4, <4>5
        <3> QED BY <1>4, <3>2, <3>3
    <2>7. ASSUME NEW i \in 1..n + 1
          PROVE  IF tree'[file'.path[i]] = NoObject
                 THEN file'.nodes[i].network = NoNetwork
                 ELSE /\ file'.nodes[i].network \in 0..(network_index' - 1)
                      /\ IF file'.nodes[i].network < Len(file'.networks)
                         THEN NetworkAt(file', file'.nodes[i].network)
                                 = objects'[tree'[file'.path[i]]].attributes
                         ELSE networks'[file'.nodes[i].network - Len(file'.networks) + 1]
                                 = tree'[file'.path[i]]
        <3>1. network_index' \in Nat
            BY <1>2, <1>4
        <3>2. file'.nodes[i].network \in 0..(network_index' - 1) =>
                 /\ ~(file'.nodes[i].network < Len(file'.networks))
                 /\ file'.nodes[i].network - Len(file'.networks) + 1
                       = file'.nodes[i].network + 1
            BY <2>1, <3>1
        <3> QED BY <2>6, <3>2
    <2>8. Len(file'.nodes) = n + 1
        BY <1>3, <1>4
    <2> QED BY <1>2, <2>1, <2>5, <2>7, <2>8 DEF NetworksAreForesight
<1>15. LevelByLevel'
    BY WriteNodeByLevel
<1>16. PublishedWellFormed'
    BY <1>1, <1>2 DEF PublishedWellFormed
<1> QED BY <1>9, <1>11, <1>12, <1>13, <1>14, <1>15, <1>16 DEF WriterInv

\* A network is written: its place in the array is the one it had in the queue.
LEMMA WriteNetworkInv == WriterInv /\ WriteNetwork => WriterInv'
<1> SUFFICES ASSUME WriterInv, WriteNetwork PROVE WriterInv'
    OBVIOUS
<1>1. /\ TypeOK /\ TreeTypeOK /\ TreeShape /\ PublishedWellFormed
      /\ QueueIsTree /\ IndicesAreForesight /\ NetworksAreForesight
    BY DEF WriterInv, TypeOK
<1> DEFINE o == Head(networks)
           a == objects[o].attributes
           w == Len(file.networks)
<1>2. /\ section = "networks" /\ section' = section /\ networks # <<>>
      /\ networks' = Tail(networks)
      /\ nodes' = nodes /\ index' = index /\ network_index' = network_index
      /\ published' = published /\ writes' = writes
      /\ UNCHANGED treeVars /\ tree' = tree /\ objects' = objects
      /\ file' = [file EXCEPT !.networks = Append(@, a)]
    BY DEF WriteNetwork, treeVars
<1>3. /\ file.networks \in Seq(Attributes) /\ w \in Nat
      /\ networks \in Seq(1..Len(objects)) /\ Len(networks) \in Nat
      /\ network_index \in Nat
      /\ network_index = w + Len(networks)
    BY <1>1, <1>2, FileType DEF NetworksAreForesight
<1>4. /\ Len(networks) > 0
      /\ o \in 1..Len(objects) /\ o = networks[1]
      /\ Tail(networks) \in Seq(1..Len(objects))
      /\ Len(Tail(networks)) = Len(networks) - 1
      /\ \A k \in 1..Len(Tail(networks)) : Tail(networks)[k] = networks[k + 1]
    BY <1>2, <1>3, EmptySeq, HeadTailProperties
<1>5. a \in Attributes
    <2>1. objects[o] \in Object
        BY <1>1, <1>4, ElementOfSeq DEF TreeTypeOK
    <2> QED BY <2>1 DEF Object
<1> HIDE DEF a
<1>6. /\ file'.nodes = file.nodes /\ file'.path = file.path
      /\ file'.networks = Append(file.networks, a)
    BY <1>1, <1>2 DEF TypeOK, Database
<1>7. /\ file'.networks \in Seq(Attributes)
      /\ Len(file'.networks) = w + 1
      /\ \A k \in 1..w : file'.networks[k] = file.networks[k]
      /\ file'.networks[w + 1] = a
    BY <1>3, <1>5, <1>6, AppendProperties
<1>8. file' \in Database
    BY <1>1, <1>2, <1>6, <1>7 DEF TypeOK, Database
<1>9. TreeTypeOK' /\ TreeShape'
    BY <1>1, <1>2, TreeUnchanged
<1>10. TypeOK'
    BY <1>1, <1>2, <1>4, <1>8, <1>9 DEF TypeOK
<1>11. Discovered' = Discovered
    BY <1>2, <1>6 DEF Discovered
<1>12. QueueIsTree'
    BY <1>1, <1>2, <1>6, <1>11 DEF QueueIsTree
<1>13. IndicesAreForesight'
    BY <1>1, <1>2, <1>6, <1>11 DEF IndicesAreForesight
<1>14. NetworksAreForesight'
    <2>1. network_index' = Len(file'.networks) + Len(networks')
        BY <1>2, <1>3, <1>4, <1>7
    <2>2. \A i, j \in 1..Len(file'.nodes) :
              IsLeaf(file'.nodes[i]) /\ file'.nodes[i].network = file'.nodes[j].network => i = j
        BY <1>1, <1>2, <1>6 DEF NetworksAreForesight
    <2>3. ASSUME NEW i \in 1..Len(file'.nodes)
          PROVE  IF tree'[file'.path[i]] = NoObject
                 THEN file'.nodes[i].network = NoNetwork
                 ELSE /\ file'.nodes[i].network \in 0..(network_index' - 1)
                      /\ IF file'.nodes[i].network < Len(file'.networks)
                         THEN NetworkAt(file', file'.nodes[i].network)
                                 = objects'[tree'[file'.path[i]]].attributes
                         ELSE networks'[file'.nodes[i].network - Len(file'.networks) + 1]
                                 = tree'[file'.path[i]]
        <3> DEFINE number == file.nodes[i].network
                   object == tree[file.path[i]]
        <3>1. IF object = NoObject
              THEN number = NoNetwork
              ELSE /\ number \in 0..(network_index - 1)
                   /\ IF number < w
                      THEN NetworkAt(file, number) = objects[object].attributes
                      ELSE networks[number - w + 1] = object
            BY <1>1, <1>2, <1>6 DEF NetworksAreForesight
        <3>2. file'.nodes[i].network = number /\ tree'[file'.path[i]] = object
            BY <1>2, <1>6
        <3> HIDE DEF number, object
        <3>3. CASE object = NoObject
            BY <3>1, <3>2, <3>3
        <3>4. CASE object # NoObject /\ number < w
            <4>1. number + 1 \in 1..w /\ number < w + 1
                BY <1>3, <3>1, <3>4
            <4>2. NetworkAt(file', number) = NetworkAt(file, number)
                BY <1>7, <4>1 DEF NetworkAt
            <4> QED BY <1>2, <1>7, <3>1, <3>2, <3>4, <4>1, <4>2
        <3>5. CASE object # NoObject /\ number = w
            <4>1. /\ number < w + 1 /\ ~(number < w)
                  /\ number - w + 1 = 1
                BY <1>3, <3>5
            <4>2. object = o
                BY <1>4, <3>1, <3>5, <4>1
            <4>3. NetworkAt(file', number) = a
                BY <1>7, <3>5 DEF NetworkAt
            <4> QED BY <1>2, <1>7, <3>1, <3>2, <3>5, <4>1, <4>2, <4>3 DEF a
        <3>6. CASE object # NoObject /\ number > w
            <4>1. /\ ~(number < w + 1) /\ ~(number < w)
                  /\ number - (w + 1) + 1 \in 1..Len(Tail(networks))
                  /\ (number - (w + 1) + 1) + 1 = number - w + 1
                <5> DEFINE rest == Len(Tail(networks))
                <5>1. /\ number \in Nat /\ w \in Nat /\ rest \in Nat
                      /\ w < number /\ number <= w + rest
                    BY <1>3, <1>4, <3>1, <3>6
                <5> HIDE DEF rest, w
                <5>2. /\ ~(number < w + 1) /\ ~(number < w)
                      /\ number - (w + 1) + 1 \in 1..rest
                      /\ (number - (w + 1) + 1) + 1 = number - w + 1
                    BY <5>1
                <5> QED BY <5>2 DEF rest
            <4>2. networks'[number - (w + 1) + 1] = networks[number - w + 1]
                BY <1>2, <1>4, <4>1
            <4> QED BY <1>2, <1>7, <3>1, <3>2, <3>6, <4>1, <4>2
        <3>7. object # NoObject => number < w \/ number = w \/ number > w
            BY <1>3, <3>1
        <3> QED BY <3>3, <3>4, <3>5, <3>6, <3>7
    <2> QED BY <1>2, <2>1, <2>2, <2>3 DEF NetworksAreForesight
<1>15. LevelByLevel'
    BY <1>2, <1>6, <1>11 DEF WriterInv, LevelByLevel
<1>16. PublishedWellFormed'
    BY <1>1, <1>2 DEF PublishedWellFormed
<1> QED BY <1>9, <1>10, <1>12, <1>13, <1>14, <1>15, <1>16 DEF WriterInv

\* When the queue is empty every node of the tree has been written.  If not, take
\* a missing one closest to the root: its parent was written, and the parent
\* stores the index of a place where the child is.
LEMMA EveryNodeWritten ==
    ASSUME WriterInv, section = "networks"
    PROVE  \A q \in DOMAIN tree : \E j \in 1..Len(file.path) : file.path[j] = q
<1>1. /\ TypeOK /\ TreeTypeOK /\ TreeShape /\ QueueIsTree /\ IndicesAreForesight
      /\ nodes = <<>> /\ DOMAIN tree \subseteq Path
    BY DEF WriterInv, TypeOK, TreeTypeOK, QueueIsTree
<1>2. /\ file.path \in Seq(Path) /\ Discovered = file.path
      /\ Len(file.path) \in Nat /\ Len(file.path) = Len(file.nodes)
      /\ Len(file.path) = index + 1 /\ index \in Nat /\ Len(file.path) > 0
      /\ file.path[1] = <<>>
    <2>1. file.path \in Seq(Path) /\ Len(file.path) \in Nat /\ index \in Nat
        BY <1>1, FileType
    <2>2. Discovered = file.path
        BY <1>1, <2>1, ConcatEmptySeq DEF Discovered
    <2> QED BY <1>1, <2>1, <2>2 DEF QueueIsTree, IndicesAreForesight
<1> DEFINE Written(q) == \E j \in 1..Len(file.path) : file.path[j] = q
           Missing == {Len(q) : q \in {r \in DOMAIN tree : ~Written(r)}}
<1>3. SUFFICES ASSUME Missing # {} PROVE FALSE
    OBVIOUS
<1>4. Missing \in SUBSET Nat
    BY <1>1, PathType
<1>5. PICK m \in Missing : \A l \in Missing : m <= l
    <2> HIDE DEF Missing
    <2> QED BY <1>3, <1>4, SmallestMember
<1>6. PICK q \in DOMAIN tree : ~Written(q) /\ Len(q) = m
    BY <1>5
<1>7. q # <<>> /\ q \in Path
    BY <1>1, <1>2, <1>6
<1> DEFINE r == SubSeq(q, 1, Len(q) - 1)
           bit == q[Len(q)]
<1>8. Len(q) - 1 \in 0..Len(q) /\ bit \in Bit /\ q = Append(r, bit)
    BY <1>7, PathParent
<1>9. Len(r) = Len(q) - 1 /\ Len(q) \in Nat
    BY <1>7, <1>8, PathPrefix, PathType
<1>10. r \in DOMAIN tree
    BY <1>1, <1>6, <1>8 DEF TreeShape, Ancestry
<1>11. Written(r)
    <2>1. Len(r) \notin Missing
        BY <1>5, <1>6, <1>9
    <2> QED BY <1>10, <2>1
<1> HIDE DEF r, bit
<1>12. PICK i \in 1..Len(file.nodes) : file.path[i] = r
    BY <1>2, <1>11
<1> DEFINE child == Child(file.nodes[i], bit)
<1>13. child \in 1..index /\ file.path[child + 1] = q
    BY <1>1, <1>2, <1>6, <1>8, <1>12 DEF IndicesAreForesight
<1> HIDE DEF child
<1>14. child + 1 \in 1..Len(file.path)
    BY <1>2, <1>13
<1> QED BY <1>6, <1>13, <1>14

\* The complete file is well-formed.
LEMMA CompleteFileWellFormed ==
    ASSUME WriterInv, section = "networks", networks = <<>>
    PROVE  WellFormed(file)
<1>1. /\ TypeOK /\ TreeTypeOK /\ TreeShape /\ QueueIsTree /\ IndicesAreForesight
      /\ NetworksAreForesight /\ nodes = <<>> /\ DOMAIN tree \subseteq Path
    BY DEF WriterInv, TypeOK, TreeTypeOK, QueueIsTree
<1>2. /\ file.path \in Seq(Path) /\ Discovered = file.path
      /\ Len(file.path) \in Nat /\ Len(file.path) = Len(file.nodes)
      /\ Len(file.path) = index + 1 /\ index \in Nat
    <2>1. file.path \in Seq(Path) /\ Len(file.path) \in Nat /\ index \in Nat
        BY <1>1, FileType
    <2>2. Discovered = file.path
        BY <1>1, <2>1, ConcatEmptySeq DEF Discovered
    <2> QED BY <1>1, <2>1, <2>2 DEF QueueIsTree, IndicesAreForesight
<1>3. \A q \in DOMAIN tree : \E j \in 1..Len(file.path) : file.path[j] = q
    BY EveryNodeWritten
<1>4. \A j \in 1..Len(file.path) : file.path[j] \in DOMAIN tree
    BY <1>1, <1>2 DEF QueueIsTree
<1>5. RootFirst(file)
    BY <1>1, <1>2 DEF QueueIsTree, RootFirst
<1>6. OneNodePerPath(file)
    BY <1>1, <1>2 DEF QueueIsTree, OneNodePerPath
<1>7. ChildrenLinked(file)
    <2>1. ASSUME NEW i \in 1..Len(file.nodes), NEW bit \in Bit
          PROVE  IF \E j \in 1..Len(file.path) : file.path[j] = Append(file.path[i], bit)
                 THEN /\ Child(file.nodes[i], bit) \in 1..(Len(file.nodes) - 1)
                      /\ file.path[Child(file.nodes[i], bit) + 1] = Append(file.path[i], bit)
                 ELSE Child(file.nodes[i], bit) = 0
        <3> DEFINE child == Child(file.nodes[i], bit)
                   path == Append(file.path[i], bit)
        <3>1. IF path \in DOMAIN tree
              THEN child \in 1..index /\ file.path[child + 1] = path
              ELSE child = 0
            BY <1>1, <1>2 DEF IndicesAreForesight
        <3> HIDE DEF child, path
        <3>2. (\E j \in 1..Len(file.path) : file.path[j] = path) <=> path \in DOMAIN tree
            BY <1>3, <1>4
        <3>3. Len(file.nodes) - 1 = index
            BY <1>2
        <3> QED BY <3>1, <3>2, <3>3 DEF child, path
    <2> QED BY <2>1 DEF ChildrenLinked
<1>8. PrefixClosed(file)
    <2>1. ASSUME NEW i \in 1..Len(file.path), NEW n \in 0..Len(file.path[i])
          PROVE  \E j \in 1..Len(file.path) : file.path[j] = SubSeq(file.path[i], 1, n)
        <3>1. SubSeq(file.path[i], 1, n) \in DOMAIN tree
            BY <1>1, <1>4 DEF TreeShape, Ancestry
        <3> QED BY <1>3, <3>1
    <2> QED BY <2>1 DEF PrefixClosed
<1>9. NetworksNumbered(file)
    <2>1. network_index = Len(file.networks)
        <3>1. Len(networks) = 0 /\ Len(file.networks) \in Nat
            BY <1>1, FileType
        <3> QED BY <1>1, <3>1 DEF NetworksAreForesight
    <2>2. \A i \in 1..Len(file.nodes) :
              IsLeaf(file.nodes[i]) => file.nodes[i].network \in 0..(Len(file.networks) - 1)
        BY <1>1, <2>1 DEF NetworksAreForesight, IsLeaf
    <2>3. \A i, j \in 1..Len(file.nodes) :
              IsLeaf(file.nodes[i]) /\ file.nodes[i].network = file.nodes[j].network => i = j
        BY <1>1 DEF NetworksAreForesight
    <2> QED BY <2>2, <2>3 DEF NetworksNumbered
<1> QED BY <1>1, <1>5, <1>6, <1>7, <1>8, <1>9 DEF WellFormed, TypeOK

\* The write is complete and its file becomes the published database.
LEMMA FinishWritingInv == WriterInv /\ FinishWriting => WriterInv'
<1> SUFFICES ASSUME WriterInv, FinishWriting PROVE WriterInv'
    OBVIOUS
<1>1. /\ TypeOK /\ TreeTypeOK /\ TreeShape
    BY DEF WriterInv, TypeOK
<1>2. /\ section = "networks" /\ section' = "none" /\ networks = <<>>
      /\ nodes' = nodes /\ index' = index /\ networks' = networks
      /\ network_index' = network_index /\ file' = file /\ writes' = writes
      /\ published' = file
      /\ UNCHANGED treeVars /\ tree' = tree /\ objects' = objects
    BY DEF FinishWriting, treeVars
<1>3. TreeTypeOK' /\ TreeShape'
    BY <1>1, <1>2, TreeUnchanged
<1>4. TypeOK'
    BY <1>1, <1>2, <1>3 DEF TypeOK
<1>5. (QueueIsTree /\ IndicesAreForesight /\ NetworksAreForesight /\ LevelByLevel)'
    BY <1>2 DEF QueueIsTree, IndicesAreForesight, NetworksAreForesight, LevelByLevel
<1>6. PublishedWellFormed'
    BY <1>2, CompleteFileWellFormed DEF PublishedWellFormed
<1> QED BY <1>3, <1>4, <1>5, <1>6 DEF WriterInv

\* WriterInv holds after every step of the writer and its callers.
LEMMA WriterInvNext == WriterInv /\ [Next]_vars => WriterInv'
<1> SUFFICES ASSUME WriterInv, [Next]_vars PROVE WriterInv'
    OBVIOUS
<1>1. CASE Collect
    BY <1>1, CollectInv
<1>2. CASE StartWriting
    BY <1>2, StartWritingInv
<1>3. CASE WriteNode
    BY <1>3, WriteNodeInv
<1>4. CASE StartNetworks
    BY <1>4, StartNetworksInv
<1>5. CASE WriteNetwork
    BY <1>5, WriteNetworkInv
<1>6. CASE FinishWriting
    BY <1>6, FinishWritingInv
<1>7. CASE UNCHANGED vars
    <2>1. /\ UNCHANGED treeVars /\ tree' = tree /\ objects' = objects
          /\ section' = section /\ nodes' = nodes /\ index' = index
          /\ networks' = networks /\ network_index' = network_index
          /\ file' = file /\ published' = published /\ writes' = writes
        BY <1>7 DEF vars, treeVars, writeVars
    <2>2. Discovered' = Discovered
        BY <2>1 DEF Discovered
    <2>3. TreeTypeOK' /\ TreeShape'
        BY <2>1, TreeUnchanged DEF WriterInv, TypeOK
    <2>4. TypeOK'
        BY <2>1, <2>3 DEF WriterInv, TypeOK
    <2>5. QueueIsTree' /\ IndicesAreForesight'
        BY <2>1, <2>2 DEF WriterInv, QueueIsTree, IndicesAreForesight
    <2>6. NetworksAreForesight' /\ LevelByLevel' /\ PublishedWellFormed'
        BY <2>1, <2>2 DEF WriterInv, NetworksAreForesight, LevelByLevel, PublishedWellFormed
    <2> QED BY <2>3, <2>4, <2>5, <2>6 DEF WriterInv
<1>8. CASE WriteNodeNoMemory
    BY <1>8, WriteNodeNoMemoryInv
<1> QED BY <1>1, <1>2, <1>3, <1>4, <1>5, <1>6, <1>7, <1>8 DEF Next, Write

-----------------------------------------------------------------------------
(* The results *)

\* For every tree, every order of calls and every number of writes: the
\* invariant of the writer, that child and network indices given ahead are the
\* places the nodes and networks are written to.
THEOREM WriterInvariant == Spec => []WriterInv
<1>1. Init => WriterInv
    BY InitInv
<1>2. WriterInv /\ [Next]_vars => WriterInv'
    BY WriterInvNext
<1> QED BY <1>1, <1>2, PTL DEF Spec

\* The writer's state keeps its types.
THEOREM TypeCorrect == Spec => []TypeOK
<1>1. WriterInv => TypeOK
    BY DEF WriterInv
<1> QED BY <1>1, WriterInvariant, PTL

\* Every database the writer completes is well-formed: what a reader's lookup
\* and enumeration rely on and do not check.
THEOREM WritesWellFormed == Spec => []PublishedWellFormed
<1>1. WriterInv => PublishedWellFormed
    BY DEF WriterInv
<1> QED BY <1>1, WriterInvariant, PTL

-----------------------------------------------------------------------------
(* The complete file *)

\* The networks of a complete file are those of the tree, and each has the
\* attributes its object has.
LEMMA CompleteFileContents ==
    ASSUME WriterInv, section = "networks", networks = <<>>
    PROVE  ContentsOf(file) = Contents
<1>1. /\ TypeOK /\ QueueIsTree /\ NetworksAreForesight /\ nodes = <<>>
    BY DEF WriterInv, QueueIsTree
<1>2. /\ file.path \in Seq(Path) /\ Len(file.path) \in Nat /\ Len(file.path) = Len(file.nodes)
      /\ \A j \in 1..Len(file.path) : file.path[j] \in DOMAIN tree
      /\ network_index = Len(file.networks)
    <2>1. /\ file.path \in Seq(Path) /\ Len(file.path) \in Nat /\ Discovered = file.path
          /\ Len(networks) = 0 /\ Len(file.networks) \in Nat
        BY <1>1, FileType, ConcatEmptySeq DEF Discovered
    <2> QED BY <1>1, <2>1 DEF QueueIsTree, NetworksAreForesight
<1>3. ASSUME NEW i \in 1..Len(file.nodes)
      PROVE  /\ IsLeaf(file.nodes[i]) <=> tree[file.path[i]] # NoObject
             /\ IsLeaf(file.nodes[i]) =>
                   NetworkAt(file, file.nodes[i].network)
                      = objects[tree[file.path[i]]].attributes
    <2> DEFINE number == file.nodes[i].network
               object == tree[file.path[i]]
    <2>1. IF object = NoObject
          THEN number = NoNetwork
          ELSE /\ number \in 0..(network_index - 1)
               /\ IF number < Len(file.networks)
                  THEN NetworkAt(file, number) = objects[object].attributes
                  ELSE networks[number - Len(file.networks) + 1] = object
        BY <1>1 DEF NetworksAreForesight
    <2>2. IsLeaf(file.nodes[i]) <=> number # NoNetwork
        BY DEF IsLeaf
    <2> HIDE DEF number, object
    <2>3. number \in 0..(network_index - 1) =>
             /\ number # NoNetwork
             /\ number < Len(file.networks)
        <3>1. Len(file.networks) \in Nat
            BY <1>1, FileType
        <3> QED BY <1>2, <3>1, NoNetworkAssumption
    <2> QED BY <2>1, <2>2, <2>3 DEF number, object
<1>4. NetworksOf(file) = Held
    <2>1. ASSUME NEW p \in NetworksOf(file) PROVE p \in Held
        BY <1>2, <1>3 DEF NetworksOf, Held
    <2>2. ASSUME NEW p \in Held PROVE p \in NetworksOf(file)
        <3>1. p \in DOMAIN tree /\ tree[p] # NoObject
            BY DEF Held
        <3>2. PICK j \in 1..Len(file.path) : file.path[j] = p
            BY <3>1, EveryNodeWritten
        <3> QED BY <1>2, <1>3, <3>1, <3>2 DEF NetworksOf
    <2> QED BY <2>1, <2>2
<1>5. ASSUME NEW p \in NetworksOf(file)
      PROVE  NetworkAt(file, file.nodes[LeafAt(file, p)].network)
                = objects[tree[p]].attributes
    <2>1. \E i \in 1..Len(file.nodes) : IsLeaf(file.nodes[i]) /\ file.path[i] = p
        BY DEF NetworksOf
    <2>2. /\ LeafAt(file, p) \in 1..Len(file.nodes)
          /\ IsLeaf(file.nodes[LeafAt(file, p)])
          /\ file.path[LeafAt(file, p)] = p
        BY <2>1 DEF LeafAt
    <2> QED BY <1>3, <2>2
<1> QED BY <1>4, <1>5 DEF ContentsOf, Contents

\* When the last network of a write is written, the file holds the networks of
\* the tree, all of them and no other, each with the attributes of its object.
THEOREM CompleteFileIsTree == Spec => []CompleteFileHoldsTree
<1>1. WriterInv => CompleteFileHoldsTree
    BY CompleteFileContents DEF CompleteFileHoldsTree
<1> QED BY <1>1, WriterInvariant, PTL

\* The nodes of the tree are the prefixes of its nodes.
LEMMA PrefixesOfTree ==
    ASSUME TreeShape, TreeTypeOK
    PROVE  {<<>>} \cup UNION {{SubSeq(p, 1, n) : n \in 0..Len(p)} : p \in Held \cup DOMAIN tree}
              = DOMAIN tree
<1>1. \A p \in DOMAIN tree : p \in {SubSeq(p, 1, n) : n \in 0..Len(p)}
    <2> TAKE p \in DOMAIN tree
    <2>1. p \in Path
        BY DEF TreeTypeOK
    <2> QED BY <2>1, AncestryType DEF Ancestry
<1>2. \A p \in DOMAIN tree : {SubSeq(p, 1, n) : n \in 0..Len(p)} \subseteq DOMAIN tree
    BY DEF TreeShape, Ancestry
<1>3. Held \cup DOMAIN tree = DOMAIN tree /\ <<>> \in DOMAIN tree
    BY DEF Held, TreeShape
<1> DEFINE prefixes(p) == {SubSeq(p, 1, n) : n \in 0..Len(p)}
<1>4. /\ \A p \in DOMAIN tree : p \in prefixes(p)
      /\ \A p \in DOMAIN tree : prefixes(p) \subseteq DOMAIN tree
    BY <1>1, <1>2
<1> HIDE DEF prefixes
<1>5. {<<>>} \cup UNION {prefixes(p) : p \in DOMAIN tree} = DOMAIN tree
    BY <1>3, <1>4
<1> QED BY <1>3, <1>5 DEF prefixes

\* The paths of the networks of a complete file, in the order of their numbers.
Numbered == [m \in 1..Len(file.networks) |->
                file.path[CHOOSE i \in 1..Len(file.nodes) : file.nodes[i].network = m - 1]]

\* The networks are numbered in the order of their nodes.
LEMMA NumberedInOrder ==
    ASSUME WriterInv, section = "networks", networks = <<>>
    PROVE  /\ Numbered \in Seq(Path) /\ Len(Numbered) = Len(file.networks)
           /\ \A k, l \in 1..Len(Numbered) : k < l => LevelOrder(Numbered[k], Numbered[l])
           /\ \A k \in 1..Len(Numbered) :
                 /\ Numbered[k] \in Held
                 /\ file.networks[k] = objects[tree[Numbered[k]]].attributes
           /\ \A i \in 1..Len(file.nodes) :
                 IF file.path[i] \in Held
                 THEN /\ file.nodes[i].network \in Nat
                      /\ file.nodes[i].network + 1 \in 1..Len(Numbered)
                      /\ Numbered[file.nodes[i].network + 1] = file.path[i]
                 ELSE file.nodes[i].network = NoNetwork
           /\ \A p \in Held : \E k \in 1..Len(Numbered) : Numbered[k] = p
<1> DEFINE w == Len(file.networks)
           n == Len(file.nodes)
           At(m) == CHOOSE i \in 1..n : file.nodes[i].network = m - 1
<1>1. /\ TypeOK /\ QueueIsTree /\ NetworksAreForesight /\ LevelByLevel /\ nodes = <<>>
      /\ section # "none"
    BY DEF WriterInv, QueueIsTree
<1>2. /\ file.path \in Seq(Path) /\ n \in Nat /\ Len(file.path) = n /\ w \in Nat
      /\ Discovered = file.path
      /\ \A j \in 1..n : file.path[j] \in DOMAIN tree /\ file.path[j] \in Path
      /\ network_index = w
    <2>1. /\ file.path \in Seq(Path) /\ Len(file.path) \in Nat /\ Discovered = file.path
          /\ Len(networks) = 0 /\ w \in Nat
        BY <1>1, FileType, ConcatEmptySeq DEF Discovered
    <2> QED BY <1>1, <2>1, ElementOfSeq DEF QueueIsTree, NetworksAreForesight
<1>3. /\ \A k, l \in 1..n : k < l => LevelOrder(file.path[k], file.path[l])
      /\ \A i, j \in 1..n :
            i < j /\ IsLeaf(file.nodes[i]) /\ IsLeaf(file.nodes[j]) =>
               file.nodes[i].network < file.nodes[j].network
      /\ \A number \in 0..(w - 1) : \E i \in 1..n : file.nodes[i].network = number
      /\ \A i, j \in 1..n :
            IsLeaf(file.nodes[i]) /\ file.nodes[i].network = file.nodes[j].network => i = j
    BY <1>1, <1>2 DEF LevelByLevel, NetworksAreForesight
<1>4. ASSUME NEW i \in 1..n
      PROVE  IF tree[file.path[i]] = NoObject
             THEN file.nodes[i].network = NoNetwork
             ELSE /\ file.nodes[i].network \in 0..(w - 1)
                  /\ NetworkAt(file, file.nodes[i].network)
                        = objects[tree[file.path[i]]].attributes
    <2> DEFINE number == file.nodes[i].network
    <2>1. IF tree[file.path[i]] = NoObject
          THEN number = NoNetwork
          ELSE /\ number \in 0..(w - 1)
               /\ IF number < w
                  THEN NetworkAt(file, number) = objects[tree[file.path[i]]].attributes
                  ELSE networks[number - w + 1] = tree[file.path[i]]
        BY <1>1, <1>2 DEF NetworksAreForesight
    <2> HIDE DEF number
    <2>2. number \in 0..(w - 1) => number < w
        BY <1>2
    <2> QED BY <2>1, <2>2 DEF number
<1>5. ASSUME NEW m \in 1..w
      PROVE  /\ At(m) \in 1..n /\ file.nodes[At(m)].network = m - 1
             /\ IsLeaf(file.nodes[At(m)])
             /\ Numbered[m] = file.path[At(m)]
    <2>1. m - 1 \in 0..(w - 1)
        BY <1>2
    <2>2. \E i \in 1..n : file.nodes[i].network = m - 1
        BY <1>3, <2>1
    <2>3. At(m) \in 1..n /\ file.nodes[At(m)].network = m - 1
        BY <2>2
    <2>4. m - 1 # NoNetwork
        BY <2>1, NoNetworkAssumption
    <2> QED BY <2>3, <2>4 DEF Numbered, IsLeaf
<1> HIDE DEF At, w, n
<1>6. Numbered \in Seq(Path) /\ Len(Numbered) = w
    <2>1. Numbered = [m \in 1..w |-> Numbered[m]]
        BY DEF Numbered, w
    <2>2. \A m \in 1..w : Numbered[m] \in Path
        BY <1>2, <1>5
    <2> QED BY <1>2, <2>1, <2>2, IsASeq, LenProperties
<1>7. ASSUME NEW k \in 1..w, NEW l \in 1..w, k < l
      PROVE  LevelOrder(Numbered[k], Numbered[l])
    <2>1. /\ At(k) \in 1..n /\ At(l) \in 1..n
          /\ IsLeaf(file.nodes[At(k)]) /\ IsLeaf(file.nodes[At(l)])
          /\ file.nodes[At(k)].network = k - 1 /\ file.nodes[At(l)].network = l - 1
          /\ Numbered[k] = file.path[At(k)] /\ Numbered[l] = file.path[At(l)]
        BY <1>5
    <2>2. ~(At(l) < At(k)) /\ At(k) # At(l)
        <3>1. k - 1 < l - 1 /\ ~(l - 1 < k - 1) /\ k - 1 # l - 1
            BY <1>7
        <3> QED BY <1>3, <2>1, <3>1
    <2>3. At(k) < At(l)
        BY <1>2, <2>1, <2>2
    <2> QED BY <1>3, <2>1, <2>3
<1>8. ASSUME NEW k \in 1..w
      PROVE  Numbered[k] \in Held /\ file.networks[k] = objects[tree[Numbered[k]]].attributes
    <2>1. At(k) \in 1..n /\ file.nodes[At(k)].network = k - 1 /\ IsLeaf(file.nodes[At(k)])
          /\ Numbered[k] = file.path[At(k)]
        BY <1>5
    <2>2. tree[Numbered[k]] # NoObject
        BY <1>4, <2>1 DEF IsLeaf
    <2>3. NetworkAt(file, k - 1) = objects[tree[Numbered[k]]].attributes
        BY <1>4, <2>1, <2>2
    <2>4. NetworkAt(file, k - 1) = file.networks[k]
        <3>1. (k - 1) + 1 = k
            OBVIOUS
        <3> QED BY <3>1 DEF NetworkAt
    <2> QED BY <1>2, <2>1, <2>2, <2>3, <2>4 DEF Held
<1>9. ASSUME NEW i \in 1..n
      PROVE  IF file.path[i] \in Held
             THEN /\ file.nodes[i].network \in Nat
                  /\ file.nodes[i].network + 1 \in 1..w
                  /\ Numbered[file.nodes[i].network + 1] = file.path[i]
             ELSE file.nodes[i].network = NoNetwork
    <2>1. CASE file.path[i] \in Held
        <3> DEFINE m == file.nodes[i].network + 1
        <3>1. file.nodes[i].network \in 0..(w - 1)
            BY <1>4, <2>1 DEF Held
        <3>2. file.nodes[i].network \in Nat /\ m \in 1..w /\ m - 1 = file.nodes[i].network
            BY <1>2, <3>1
        <3>3. At(m) = i
            <4>1. At(m) \in 1..n /\ file.nodes[At(m)].network = m - 1 /\ IsLeaf(file.nodes[At(m)])
                BY <1>5, <3>2
            <4> QED BY <1>3, <3>2, <4>1
        <3>4. Numbered[m] = file.path[i]
            BY <1>5, <3>2, <3>3
        <3> QED BY <2>1, <3>2, <3>4
    <2>2. CASE file.path[i] \notin Held
        BY <1>2, <1>4, <2>2 DEF Held
    <2> QED BY <2>1, <2>2
<1>10. ASSUME NEW p \in Held PROVE \E k \in 1..w : Numbered[k] = p
    <2>1. p \in DOMAIN tree
        BY DEF Held
    <2>2. PICK i \in 1..n : file.path[i] = p
        BY <1>2, <2>1, EveryNodeWritten
    <2> QED BY <1>9, <2>2
<1> QED BY <1>6, <1>7, <1>8, <1>9, <1>10 DEF w, n

\* The complete file is the reference encoding of the tree, field by field.
LEMMA CompleteFileEncodes ==
    ASSUME WriterInv, section = "networks", networks = <<>>
    PROVE  file = EncodeNodes(Contents, DOMAIN tree)
<1> DEFINE n == Len(file.nodes)
           all == DOMAIN tree
           ChildIndex(p) == IF p \in all THEN Rank(p, all) ELSE 0
           Written(i) == [zero |-> ChildIndex(Append(file.path[i], 0)),
                          one |-> ChildIndex(Append(file.path[i], 1)),
                          network |-> IF file.path[i] \in Held THEN Rank(file.path[i], Held)
                                      ELSE NoNetwork]
<1>1. /\ TypeOK /\ TreeTypeOK /\ TreeShape /\ QueueIsTree /\ IndicesAreForesight
      /\ LevelByLevel /\ nodes = <<>> /\ section # "none"
    BY DEF WriterInv, TypeOK, QueueIsTree
<1>2. /\ file.path \in Seq(Path) /\ n \in Nat /\ Len(file.path) = n /\ index = n - 1
      /\ file.nodes \in Seq(Node) /\ file.networks \in Seq(Attributes)
      /\ Discovered = file.path
      /\ \A j \in 1..n : file.path[j] \in DOMAIN tree
    <2>1. /\ file.path \in Seq(Path) /\ Len(file.path) \in Nat /\ Discovered = file.path
          /\ file.nodes \in Seq(Node) /\ file.networks \in Seq(Attributes) /\ index \in Nat
        BY <1>1, FileType, ConcatEmptySeq DEF Discovered
    <2> QED BY <1>1, <2>1 DEF QueueIsTree, IndicesAreForesight
<1>3. /\ \A k \in 1..n : Rank(file.path[k], all) = k - 1
      /\ InLevelOrder(all) = file.path
    <2>1. \A k, l \in 1..Len(file.path) : k < l => LevelOrder(file.path[k], file.path[l])
        BY <1>1, <1>2 DEF LevelByLevel
    <2>2. \A p \in all : \E k \in 1..Len(file.path) : file.path[k] = p
        BY EveryNodeWritten
    <2>3. file.path \in Seq(Path) /\ \A k \in 1..Len(file.path) : file.path[k] \in all
        BY <1>2
    <2> HIDE DEF all
    <2>4. /\ \A k \in 1..Len(file.path) : Rank(file.path[k], all) = k - 1
          /\ InLevelOrder(all) = file.path
        BY <2>1, <2>2, <2>3, SortedIsRanked
    <2> QED BY <1>2, <2>4
<1>4. /\ \A k \in 1..Len(Numbered) : Rank(Numbered[k], Held) = k - 1
      /\ InLevelOrder(Held) = Numbered
    <2>1. /\ Numbered \in Seq(Path)
          /\ \A k, l \in 1..Len(Numbered) : k < l => LevelOrder(Numbered[k], Numbered[l])
          /\ \A k \in 1..Len(Numbered) : Numbered[k] \in Held
          /\ \A p \in Held : \E k \in 1..Len(Numbered) : Numbered[k] = p
        BY NumberedInOrder
    <2> QED BY <2>1, SortedIsRanked
<1>5. DOMAIN file.path = 1..n /\ DOMAIN Numbered = 1..Len(file.networks)
    BY <1>2, NumberedInOrder, LenProperties
<1>6. EncodeNodes(Contents, DOMAIN tree) =
         [nodes |-> [i \in 1..n |-> Written(i)],
          networks |-> [i \in 1..Len(file.networks) |-> Contents[Numbered[i]]],
          path |-> file.path]
    <2>1. DOMAIN Contents = Held
        BY DEF Contents
    <2>2. {<<>>} \cup UNION {{SubSeq(p, 1, m) : m \in 0..Len(p)} : p \in Held \cup DOMAIN tree}
             = all
        BY <1>1, PrefixesOfTree
    <2> QED BY <1>3, <1>4, <1>5, <2>1, <2>2, Zenon DEF EncodeNodes
<1>7. ASSUME NEW i \in 1..n, NEW bit \in Bit
      PROVE  Child(file.nodes[i], bit) = ChildIndex(Append(file.path[i], bit))
    <2> DEFINE child == Child(file.nodes[i], bit)
               q == Append(file.path[i], bit)
    <2>1. IF q \in all
          THEN child \in 1..index /\ file.path[child + 1] = q
          ELSE child = 0
        BY <1>1, <1>2 DEF IndicesAreForesight
    <2> HIDE DEF child, q
    <2>2. CASE q \in all
        <3>1. child \in Nat /\ child + 1 \in 1..n /\ (child + 1) - 1 = child
            BY <1>2, <2>1, <2>2
        <3>2. Rank(file.path[child + 1], all) = (child + 1) - 1
            BY <1>3, <3>1
        <3> QED BY <2>1, <2>2, <3>1, <3>2 DEF child, q
    <2> QED BY <2>1, <2>2 DEF child, q
<1>8. ASSUME NEW i \in 1..n
      PROVE  file.nodes[i].network = IF file.path[i] \in Held THEN Rank(file.path[i], Held)
                                     ELSE NoNetwork
    <2> DEFINE number == file.nodes[i].network
    <2>1. IF file.path[i] \in Held
          THEN number \in Nat /\ number + 1 \in 1..Len(Numbered)
               /\ Numbered[number + 1] = file.path[i]
          ELSE number = NoNetwork
        BY NumberedInOrder
    <2> HIDE DEF number
    <2>2. CASE file.path[i] \in Held
        <3>1. Rank(Numbered[number + 1], Held) = (number + 1) - 1
            BY <1>4, <2>1, <2>2
        <3>2. (number + 1) - 1 = number
            BY <2>1, <2>2
        <3> QED BY <2>1, <2>2, <3>1, <3>2 DEF number
    <2> QED BY <2>1, <2>2 DEF number
<1>9. ASSUME NEW i \in 1..n PROVE file.nodes[i] = Written(i)
    <2>1. file.nodes[i] \in Node /\ 0 \in Bit /\ 1 \in Bit
        BY <1>2, ElementOfSeq DEF Bit
    <2>2. file.nodes[i].zero = ChildIndex(Append(file.path[i], 0))
        BY <1>7, <2>1 DEF Child
    <2>3. file.nodes[i].one = ChildIndex(Append(file.path[i], 1))
        BY <1>7, <2>1 DEF Child
    <2> HIDE DEF ChildIndex
    <2> QED BY <1>8, <2>1, <2>2, <2>3 DEF Node
<1>10. file.nodes = [i \in 1..n |-> Written(i)]
    <2>1. file.nodes = [i \in 1..n |-> file.nodes[i]]
        BY <1>2, LenProperties
    <2> HIDE DEF Written
    <2> QED BY <1>9, <2>1
<1>11. file.networks = [i \in 1..Len(file.networks) |-> Contents[Numbered[i]]]
    <2>1. file.networks = [i \in 1..Len(file.networks) |-> file.networks[i]]
        BY <1>2, LenProperties
    <2>2. \A i \in 1..Len(file.networks) : file.networks[i] = Contents[Numbered[i]]
        BY NumberedInOrder DEF Contents
    <2> QED BY <2>1, <2>2
<1>12. file = [nodes |-> file.nodes, networks |-> file.networks, path |-> file.path]
    BY <1>1 DEF TypeOK, Database
<1> QED BY <1>6, <1>10, <1>11, <1>12, Zenon

\* For every tree and every order of calls: the complete file is the one the
\* reference encoding gives, its nodes level by level and from left to right, each
\* child index and network number the rank of what it leads to.
THEOREM CompleteFileIsRight == Spec => []CompleteFileIsEncoding
<1>1. WriterInv => CompleteFileIsEncoding
    BY CompleteFileEncodes DEF CompleteFileIsEncoding
<1> QED BY <1>1, WriterInvariant, PTL

-----------------------------------------------------------------------------
(* What the calls on the tree do to its contents *)

\* What the map holds depends on the tree and the objects only.
LEMMA ContentsSame ==
    ASSUME Held' = Held,
           \A p \in Held : objects'[tree'[p]].attributes = objects[tree[p]].attributes
    PROVE  Contents' = Contents
BY DEF Contents

\* A network the tree holds has one of the objects made so far, its own.
LEMMA HeldObject ==
    ASSUME TreeTypeOK, TreeShape
    PROVE  /\ \A p \in Held : tree[p] \in 1..Len(objects) /\ p \in DOMAIN tree /\ p \in Path
           /\ \A p, q \in Held : tree[p] = tree[q] => p = q
<1>1. Len(objects) \in Nat
    BY LenProperties DEF TreeTypeOK
<1>2. \A p \in Held : tree[p] \in 1..Len(objects) /\ p \in DOMAIN tree /\ p \in Path
    BY <1>1 DEF TreeTypeOK, Held, NoObject
<1>3. \A p, q \in Held : tree[p] = tree[q] => p = q
    BY DEF TreeShape
<1> QED BY <1>2, <1>3

\* Making nodes on the way to p adds no network.
LEMMA GrownHeld ==
    ASSUME TreeTypeOK, TreeShape, NEW p \in Path
    PROVE  /\ {q \in DOMAIN Grown(p) : Grown(p)[q] # NoObject} = Held
           /\ \A q \in Held : q \in DOMAIN Grown(p) /\ Grown(p)[q] = tree[q]
<1>1. DOMAIN Grown(p) = DOMAIN tree \cup Ancestry(p)
    BY GrownType
<1>2. \A q \in DOMAIN tree : Grown(p)[q] = tree[q]
    BY DEF Grown
<1>3. \A q \in DOMAIN Grown(p) : Grown(p)[q] # NoObject => q \in DOMAIN tree /\ Grown(p)[q] = tree[q]
    BY GrownType
<1> QED BY <1>1, <1>2, <1>3 DEF Held

\* A network is added to the map, or was there and nothing changes.
LEMMA AddNetworkMaps ==
    ASSUME TreeTypeOK, TreeShape, published' = published, NEW p \in Candidates, AddNetwork(p)
    PROVE  Map!Add(p) \/ UNCHANGED <<Contents, ContentsOf(published)>>
<1>1. /\ p \in Path
      /\ Len(objects) \in Nat
      /\ objects'[Len(objects) + 1].attributes = NoAttributes
      /\ \A o \in 1..Len(objects) : objects'[o] = objects[o]
    BY NewObjectStep, LenProperties DEF AddNetwork, TreeTypeOK
<1>2. tree' = [Grown(p) EXCEPT ![p] = IF @ = NoObject THEN Len(objects) + 1 ELSE @]
    BY DEF AddNetwork
<1>3. p \in DOMAIN Grown(p)
    BY <1>1, AncestryType, GrownType
<1>4. /\ DOMAIN tree' = DOMAIN Grown(p)
      /\ \A q \in DOMAIN tree' :
            tree'[q] = IF q = p /\ Grown(p)[q] = NoObject THEN Len(objects) + 1
                       ELSE Grown(p)[q]
    BY <1>2, <1>3
<1>5. /\ {q \in DOMAIN Grown(p) : Grown(p)[q] # NoObject} = Held
      /\ \A q \in Held : q \in DOMAIN Grown(p) /\ Grown(p)[q] = tree[q]
    BY <1>1, GrownHeld
<1>6. Held' = Held \cup {p}
    <2>1. Len(objects) + 1 # NoObject
        BY <1>1 DEF NoObject
    <2>2. ASSUME NEW q \in DOMAIN tree'
          PROVE  tree'[q] # NoObject <=> q \in Held \cup {p}
        BY <1>4, <1>5, <2>1
    <2>3. Held \cup {p} \subseteq DOMAIN tree'
        BY <1>3, <1>4, <1>5
    <2> QED BY <2>2, <2>3 DEF Held
<1>7. \A q \in Held : tree'[q] = tree[q] /\ objects'[tree'[q]] = objects[tree[q]]
    <2> TAKE q \in Held
    <2>1. tree[q] \in 1..Len(objects) /\ tree[q] # NoObject
        BY <1>1, HeldObject DEF Held
    <2>2. tree'[q] = tree[q]
        BY <1>4, <1>5, <2>1
    <2> QED BY <1>1, <2>1, <2>2
<1>8. CASE p \in Held
    <2>1. Held' = Held
        BY <1>6, <1>8
    <2>2. Contents' = Contents
        BY <1>7, <2>1, ContentsSame
    <2> QED BY <2>2
<1>9. CASE p \notin Held
    <2>1. tree'[p] = Len(objects) + 1
        <3>1. Grown(p)[p] = NoObject
            BY <1>3, <1>5, <1>9
        <3> QED BY <1>3, <1>4, <3>1
    <2>2. DOMAIN Contents = Held /\ \A q \in Held : Contents[q] = objects[tree[q]].attributes
        BY DEF Contents
    <2>3. Contents' = [q \in Held' |-> objects'[tree'[q]].attributes]
        BY DEF Contents
    <2>4. \A q \in Held' : objects'[tree'[q]].attributes =
                              IF q = p THEN NoAttributes ELSE Contents[q]
        BY <1>1, <1>6, <1>7, <2>1, <2>2
    <2>5. Contents' = [q \in DOMAIN Contents \cup {p} |->
                          IF q = p THEN NoAttributes ELSE Contents[q]]
        BY <1>6, <2>2, <2>3, <2>4
    <2>6. Map!Add(p)
        BY <1>9, <2>2, <2>5 DEF Map!Add, Map!NoAttributes, NoAttributes
    <2> QED BY <2>6
<1> QED BY <1>8, <1>9

\* Nodes are made without a network, because memory ran out on the way.
LEMMA NoMemoryMaps ==
    ASSUME TreeTypeOK, TreeShape, published' = published,
           NEW p \in Candidates, NEW n \in 1..Len(p), AddNetworkNoMemory(p, n)
    PROVE  UNCHANGED <<Contents, ContentsOf(published)>>
<1> DEFINE q == SubSeq(p, 1, n - 1)
<1>1. /\ p \in Path
      /\ \A o \in 1..Len(objects) : objects'[o] = objects[o]
    BY NewObjectStep DEF AddNetworkNoMemory
<1>2. q \in Path
    <2>1. Len(p) \in Nat /\ n - 1 \in 0..Len(p)
        BY <1>1, PathType
    <2> QED BY <1>1, <2>1, PathPrefix
<1>3. tree' = Grown(q)
    BY DEF AddNetworkNoMemory
<1> HIDE DEF q
<1>4. Held' = Held /\ \A r \in Held : tree'[r] = tree[r]
    BY <1>2, <1>3, GrownHeld DEF Held
<1>5. \A r \in Held : objects'[tree'[r]].attributes = objects[tree[r]].attributes
    BY <1>1, <1>4, HeldObject
<1>6. Contents' = Contents
    BY <1>4, <1>5, ContentsSame
<1> QED BY <1>6

\* The attributes of an object are set: of a network of the map, or of an object
\* the tree refused, and then nothing changes.
LEMMA SetAttributesMaps ==
    ASSUME TreeTypeOK, TreeShape, published' = published, tree' = tree,
           NEW o \in 1..Len(objects), NEW a \in Attributes,
           objects' = [objects EXCEPT ![o].attributes = a],
           objects[o].attributes.flags \subseteq a.flags
    PROVE  \/ \E p \in DOMAIN Contents, b \in Attributes : Map!Update(p, b)
           \/ UNCHANGED <<Contents, ContentsOf(published)>>
<1>1. objects \in Seq(Object) /\ objects[o] \in Object
    BY ElementOfSeq DEF TreeTypeOK
<1>2. \A k \in 1..Len(objects) : objects'[k].attributes =
                                    IF k = o THEN a ELSE objects[k].attributes
    <2>1. [objects[o] EXCEPT !.attributes = a] \in Object
        BY <1>1 DEF Object
    <2>2. [objects[o] EXCEPT !.attributes = a].attributes = a
        BY <1>1 DEF Object
    <2>3. objects' = [objects EXCEPT ![o] = [objects[o] EXCEPT !.attributes = a]]
        OBVIOUS
    <2> QED BY <1>1, <2>1, <2>2, <2>3, ExceptSeq
<1>3. Held' = Held
    BY DEF Held
<1>4. DOMAIN Contents = Held /\ \A q \in Held : Contents[q] = objects[tree[q]].attributes
    BY DEF Contents
<1>5. ASSUME NEW p \in Held, tree[p] = o
      PROVE  Map!Update(p, a)
    <2>1. \A q \in Held : tree[q] \in 1..Len(objects) /\ (tree[q] = o <=> q = p)
        BY <1>5, HeldObject
    <2>2. Contents' = [q \in Held |-> objects'[tree'[q]].attributes]
        BY <1>3 DEF Contents
    <2>3. \A q \in Held : objects'[tree'[q]].attributes = IF q = p THEN a ELSE Contents[q]
        BY <1>2, <1>4, <2>1
    <2>4. Contents' = [Contents EXCEPT ![p] = a]
        BY <1>4, <2>2, <2>3 DEF Contents
    <2>5. Contents[p].flags \subseteq a.flags
        BY <1>4, <1>5
    <2> QED BY <2>4, <2>5 DEF Map!Update
<1>6. CASE \E p \in Held : tree[p] = o
    BY <1>4, <1>5, <1>6
<1>7. CASE ~\E p \in Held : tree[p] = o
    <2>1. \A q \in Held : objects'[tree'[q]].attributes = objects[tree[q]].attributes
        BY <1>2, <1>7, HeldObject
    <2>2. Contents' = Contents
        BY <1>3, <2>1, ContentsSame
    <2> QED BY <2>2
<1> QED BY <1>6, <1>7

-----------------------------------------------------------------------------
(* The refinement *)

\* A writer that was just made is an empty map, of which nothing is published.
LEMMA InitMaps == Init => Map!Init
<1> SUFFICES ASSUME Init PROVE Map!Init
    OBVIOUS
<1>1. Contents = [p \in {} |-> Map!NoAttributes]
    <2>1. Held = {}
        BY DEF Init, TreeInit, Held
    <2> QED BY <2>1 DEF Contents
<1>2. ContentsOf(published) = [p \in {} |-> Map!NoAttributes]
    <2>1. Len(published.nodes) = 0
        BY DEF Init, EmptyDatabase
    <2>2. NetworksOf(published) = {}
        BY <2>1 DEF NetworksOf
    <2> QED BY <2>2 DEF ContentsOf
<1> QED BY <1>1, <1>2 DEF Map!Init, Map!EmptyMap

\* A call between two writes is one step of the map or none.
LEMMA CollectMaps ==
    ASSUME TreeTypeOK, TreeShape, Collect
    PROVE  Map!Next \/ UNCHANGED <<Contents, ContentsOf(published)>>
<1>1. published' = published /\ TreeNext
    BY DEF Collect
<1>2. Map!Path = Path /\ Map!Attributes = Attributes
    BY DEF Map!Path, Path, Map!Attributes, Attributes, Map!Bit, Bit
<1>3. ASSUME NEW p \in Candidates, AddNetwork(p)
      PROVE  Map!Next \/ UNCHANGED <<Contents, ContentsOf(published)>>
    <2>1. p \in Path
        BY CandidatesAssumption
    <2> QED BY <1>1, <1>2, <1>3, <2>1, AddNetworkMaps DEF Map!Next
<1>4. ASSUME NEW p \in Candidates, NEW n \in 1..Len(p), AddNetworkNoMemory(p, n)
      PROVE  UNCHANGED <<Contents, ContentsOf(published)>>
    BY <1>1, <1>4, NoMemoryMaps
<1>5. ASSUME NEW o \in 1..Len(objects), NEW a \in Attributes, tree' = tree,
             objects' = [objects EXCEPT ![o].attributes = a],
             objects[o].attributes.flags \subseteq a.flags
      PROVE  Map!Next \/ UNCHANGED <<Contents, ContentsOf(published)>>
    BY <1>1, <1>2, <1>5, SetAttributesMaps DEF Map!Next
<1>6. ASSUME NEW o \in 1..Len(objects)
      PROVE  objects[o].attributes \in Attributes
    <2>1. objects[o] \in Object
        BY ElementOfSeq DEF TreeTypeOK
    <2> QED BY <2>1 DEF Object
<1>7. ASSUME NEW o \in 1..Len(objects), NEW country \in Countries, SetCountryCode(o, country)
      PROVE  Map!Next \/ UNCHANGED <<Contents, ContentsOf(published)>>
    <2> DEFINE a == [objects[o].attributes EXCEPT !.country = country]
    <2>1. a \in Attributes /\ objects[o].attributes.flags \subseteq a.flags
        BY <1>6 DEF Attributes
    <2>2. tree' = tree /\ objects' = [objects EXCEPT ![o].attributes = a]
        BY <1>7 DEF SetCountryCode
    <2> HIDE DEF a
    <2> QED BY <1>5, <2>1, <2>2
<1>8. ASSUME NEW o \in 1..Len(objects), NEW asn \in ASNs, SetASN(o, asn)
      PROVE  Map!Next \/ UNCHANGED <<Contents, ContentsOf(published)>>
    <2> DEFINE a == [objects[o].attributes EXCEPT !.asn = asn]
    <2>1. a \in Attributes /\ objects[o].attributes.flags \subseteq a.flags
        BY <1>6 DEF Attributes
    <2>2. tree' = tree /\ objects' = [objects EXCEPT ![o].attributes = a]
        BY <1>8 DEF SetASN
    <2> HIDE DEF a
    <2> QED BY <1>5, <2>1, <2>2
<1>9. ASSUME NEW o \in 1..Len(objects), NEW flag \in Flags, SetFlag(o, flag)
      PROVE  Map!Next \/ UNCHANGED <<Contents, ContentsOf(published)>>
    <2> DEFINE a == [objects[o].attributes EXCEPT !.flags = @ \cup {flag}]
    <2>1. a \in Attributes /\ objects[o].attributes.flags \subseteq a.flags
        BY <1>6 DEF Attributes
    <2>2. tree' = tree /\ objects' = [objects EXCEPT ![o].attributes = a]
        BY <1>9 DEF SetFlag
    <2> HIDE DEF a
    <2> QED BY <1>5, <2>1, <2>2
<1> QED BY <1>1, <1>3, <1>4, <1>7, <1>8, <1>9 DEF TreeNext

\* Every step of the writer and its callers is one step of the map or none.
LEMMA StepMaps ==
    WriterInv /\ [Next]_vars => [Map!Next]_(Map!vars)
<1> SUFFICES ASSUME WriterInv, [Next]_vars
             PROVE  Map!Next \/ UNCHANGED <<Contents, ContentsOf(published)>>
    BY DEF Map!vars
<1>1. CASE Collect
    BY <1>1, CollectMaps DEF WriterInv, TypeOK
<1>2. ASSUME UNCHANGED <<treeVars, published>>
      PROVE  UNCHANGED <<Contents, ContentsOf(published)>>
    <2>1. tree' = tree /\ objects' = objects /\ published' = published
        BY <1>2 DEF treeVars
    <2> QED BY <2>1 DEF Contents, Held
<1>3. CASE StartWriting \/ WriteNode \/ StartNetworks \/ WriteNetwork
    BY <1>2, <1>3 DEF StartWriting, WriteNode, StartNetworks, WriteNetwork
<1>4. CASE FinishWriting
    <2>1. /\ section = "networks" /\ networks = <<>> /\ published' = file
          /\ tree' = tree /\ objects' = objects
        BY <1>4 DEF FinishWriting, treeVars
    <2>2. ContentsOf(file) = Contents
        BY <2>1, CompleteFileContents
    <2>3. ContentsOf(published)' = Contents
        BY <2>1, <2>2
    <2>4. Contents' = Contents
        BY <2>1 DEF Contents, Held
    <2>5. Map!Publish
        BY <2>3, <2>4 DEF Map!Publish
    <2> QED BY <2>5 DEF Map!Next
<1>5. CASE UNCHANGED vars
    BY <1>2, <1>5 DEF vars
<1>6. CASE WriteNodeNoMemory
    BY <1>6 DEF WriteNodeNoMemory, Contents, Held
<1> QED BY <1>1, <1>3, <1>4, <1>5, <1>6 DEF Next, Write

\* The writer implements the map: whatever the callers do and however often they
\* write, a complete database holds exactly the networks added so far, each once
\* and with the attributes set last, and is replaced as a whole.
THEOREM WriterImplementsMap == Spec => ImplementsMap
<1>1. Init => Map!Init
    BY InitMaps
<1>2. WriterInv /\ [Next]_vars => [Map!Next]_(Map!vars)
    BY StepMaps
<1> QED BY <1>1, <1>2, WriterInvariant, PTL DEF Spec, ImplementsMap, Map!Spec

-----------------------------------------------------------------------------
(* Looking up an address: the invariant *)

\* The database is one of those assumed well-formed.
LookupIInv == db \in Databases /\ LookupInv

-----------------------------------------------------------------------------
(* Looking up an address: a call in progress *)

\* No path is an address but for one of no bits, of which there is none.
LEMMA NoAddressIsNone == NoAddress \notin Address
<1> SUFFICES ASSUME NoAddress \in Address PROVE FALSE
    OBVIOUS
<1>1. DOMAIN NoAddress = 1..W /\ 1 \in 1..W
    BY WidthAssumption DEF Address
<1>2. DOMAIN NoAddress = {}
    BY DEF NoAddress
<1> QED BY <1>1, <1>2

\* The node of the innermost call, its index and its path.
LEMMA ThisCall ==
    ASSUME LookupIInv, state # "idle"
    PROVE  /\ WellFormed(db) /\ address \in Address /\ network_address \in Address
           /\ Len(frames) \in Nat /\ Len(frames) = Level + 1 /\ Level \in 0..W
           /\ frames[Len(frames)] + 1 \in 1..Len(db.nodes)
           /\ ThisNode = db.nodes[frames[Len(frames)] + 1]
           /\ db.path[frames[Len(frames)] + 1] = Masked(address, Level)
<1> DEFINE here == frames[Len(frames)]
<1>1. WellFormed(db) /\ LookupTypeOK /\ OnTheWay
    BY DatabasesAssumption DEF LookupIInv, LookupInv
<1>2. address \in Address /\ network_address \in Address
    BY <1>1 DEF OnTheWay, LookupTypeOK
<1>3. /\ frames \in Seq(0..(Len(db.nodes) - 1)) /\ Len(frames) \in Nat
      /\ Len(frames) > 0 /\ Len(db.nodes) \in Nat
    BY <1>1, NodesType, EmptySeq, LenProperties DEF OnTheWay, LookupTypeOK
<1>4. Len(frames) = Level + 1 /\ Level \in Nat /\ Len(frames) \in 1..Len(frames) /\ Len(frames) - 1 = Level
    BY <1>3 DEF Level
<1>5. here \in 0..(Len(db.nodes) - 1)
    BY <1>3, <1>4, ElementOfSeq
<1>6. here + 1 \in 1..Len(db.nodes)
    BY <1>3, <1>5
<1>7. db.path[here + 1] = Masked(address, Level)
    BY <1>1, <1>4 DEF OnTheWay
<1>8. Level \in 0..W
    <2> DEFINE p == db.path[here + 1]
    <2>1. DOMAIN p = 1..Len(p) /\ Len(p) \in Nat /\ Len(p) <= W
        BY <1>1, <1>6, NodesType, PathType
    <2>2. DOMAIN p = 1..Level
        BY <1>7 DEF Masked
    <2>3. 1..Len(p) = 1..Level
        BY <2>1, <2>2
    <2> HIDE DEF p
    <2>4. Len(p) = Level
        BY <2>1, <2>3, <1>4, SameRange
    <2> QED BY <2>1, <2>4, <1>4, WidthAssumption
<1> QED BY <1>1, <1>2, <1>3, <1>4, <1>6, <1>7, <1>8 DEF ThisNode, NodeAt

\* The networks of the path that are not further down: this node's, if it is one.
LEMMA NetworkOfThisNode ==
    ASSUME LookupIInv, state # "idle"
    PROVE  /\ IsLeaf(ThisNode) <=> Masked(address, Level) \in NetworksOf(db)
           /\ \A p \in NetworksOf(db) : OnPath(p, address) /\ Len(p) = Level =>
                 p = Masked(address, Level)
<1>1. IsLeaf(ThisNode) <=> Masked(address, Level) \in NetworksOf(db)
    BY ThisCall, LeafIsNetwork
<1>2. ASSUME NEW p \in NetworksOf(db), OnPath(p, address), Len(p) = Level
      PROVE  p = Masked(address, Level)
    BY <1>2, ThisCall, ContentsType, OnPathMasked
<1> QED BY <1>1, <1>2

\* What __loc_database_lookup_handle_leaf finds at a node: the network that ends
\* there, which contains the address.  It finds none only where there is none, or
\* where the network spans the IPv4 range.
LEMMA LeafHandled ==
    ASSUME LookupIInv, state # "idle"
    PROVE  LET p == Masked(address, Level) IN
           /\ HandleLeaf \in {{}, {[path |-> p, attributes |-> ContentsOf(db)[p]]}}
           /\ HandleLeaf # {} => p \in NetworksOf(db)
           /\ HandleLeaf = {} /\ p \in NetworksOf(db) => SpansV4(p)
<1> DEFINE p == Masked(address, Level)
           here == frames[Len(frames)] + 1
           fetched == FetchNetwork(db, network_address, Level, ThisNode.network)
<1>1. /\ WellFormed(db) /\ address \in Address /\ network_address \in Address
      /\ Level \in 0..W /\ here \in 1..Len(db.nodes)
      /\ ThisNode = db.nodes[here] /\ db.path[here] = p
    BY ThisCall
<1>2. p \in Path /\ Len(p) = Level /\ OnPath(p, address) /\ \A i \in 1..Level : p[i] = address[i]
    BY <1>1, MaskedPath
<1>3. \A i \in 1..Level : network_address[i] = p[i]
    BY <1>2 DEF LookupIInv, LookupInv, OnTheWay
<1>4. MatchesAddress(p, address)
    BY <1>1, <1>2, OnPathMatches
<1>5. CASE ~IsLeaf(ThisNode)
    BY <1>5, NetworkOfThisNode DEF HandleLeaf
<1>6. CASE IsLeaf(ThisNode)
    <2> HIDE DEF p, here
    <2>1. /\ p \in NetworksOf(db)
          /\ fetched \in {{}, {[path |-> p, attributes |-> ContentsOf(db)[p]]}}
          /\ fetched = {} => SpansV4(p)
        <3>1. /\ here \in 1..Len(db.nodes) /\ IsLeaf(db.nodes[here]) /\ WellFormed(db)
              /\ network_address \in Address /\ Level \in 0..W /\ Len(db.path[here]) = Level
              /\ \A k \in 1..Level : network_address[k] = db.path[here][k]
            BY <1>1, <1>2, <1>3, <1>6
        <3>2. fetched = FetchNetwork(db, network_address, Level, db.nodes[here].network)
            BY <1>1
        <3> HIDE DEF fetched
        <3>3. /\ db.path[here] \in NetworksOf(db)
              /\ fetched \in {{}, {[path |-> db.path[here],
                                  attributes |-> ContentsOf(db)[db.path[here]]]}}
              /\ fetched = {} => SpansV4(db.path[here])
            BY <3>1, <3>2, FetchedNetwork
        <3> QED BY <1>1, <3>3
    <2>2. HandleLeaf = {n \in fetched : MatchesAddress(n.path, address)}
        BY <1>6 DEF HandleLeaf
    <2>3. HandleLeaf = fetched
        BY <1>4, <2>1, <2>2
    <2> QED BY <2>1, <2>3 DEF p
<1> QED BY <1>5, <1>6

-----------------------------------------------------------------------------
(* What each step does *)

\* The child that is called for is one bit further down the path of the address;
\* its index is in range, and there is a bit left to follow.
LEMMA ChildFollowed ==
    ASSUME LookupIInv, state # "idle", NEW bit \in NextBits, Child(ThisNode, bit) > 0
    PROVE  /\ Level \in 0..(W - 1) /\ bit = address[Level + 1]
           /\ Child(ThisNode, bit) \in 0..(Len(db.nodes) - 1)
           /\ ~(Child(ThisNode, bit) >= Len(db.nodes))
           /\ db.path[Child(ThisNode, bit) + 1] = Masked(address, Level + 1)
<1> DEFINE child == Child(ThisNode, bit)
           here == frames[Len(frames)] + 1
<1>1. /\ WellFormed(db) /\ address \in Address /\ Level \in 0..W
      /\ here \in 1..Len(db.nodes) /\ ThisNode = db.nodes[here]
      /\ db.path[here] = Masked(address, Level)
    BY ThisCall
<1> HIDE DEF here
<1>2. bit \in Bit
    <2>1. Level < W => Level + 1 \in 1..W
        BY <1>1, WidthAssumption
    <2> QED BY <1>1, <2>1 DEF NextBits, Address
<1>3. child # 0
    OBVIOUS
<1>4. /\ child \in 1..(Len(db.nodes) - 1)
      /\ db.path[child + 1] = Append(db.path[here], bit)
      /\ Len(db.path[here]) < W
    BY <1>1, <1>2, <1>3, ChildOfNode
<1>5. Len(db.path[here]) = Level
    BY <1>1, MaskedPath
<1>6. Level < W /\ Level \in 0..(W - 1)
    BY <1>1, <1>4, <1>5, WidthAssumption
<1>7. bit = address[Level + 1]
    BY <1>6 DEF NextBits
<1>8. Append(Masked(address, Level), address[Level + 1]) = Masked(address, Level + 1)
    BY <1>1, <1>6, MaskedChild
<1>9. child \in 0..(Len(db.nodes) - 1) /\ ~(child >= Len(db.nodes))
    <2>1. Len(db.nodes) \in Nat
        BY <1>1, NodesType
    <2> HIDE DEF child
    <2> QED BY <1>4, <2>1
<1> QED BY <1>1, <1>4, <1>6, <1>7, <1>8, <1>9

\* Following a bit keeps those before it.
LEMMA FollowedBit ==
    ASSUME LookupIInv, state # "idle", NEW bit \in NextBits, Follow(bit)
    PROVE  /\ network_address' \in Address
           /\ \A i \in 1..Level : network_address'[i] = address[i]
           /\ Level < W => network_address'[Level + 1] = address[Level + 1]
<1>1. address \in Address /\ network_address \in Address /\ Level \in 0..W /\ Level \in Nat
    BY ThisCall, WidthAssumption
<1>2. \A i \in 1..Level : i \in 1..W /\ i # Level + 1
    BY <1>1, WidthAssumption
<1>3. \A i \in 1..Level : network_address[i] = address[i]
    BY DEF LookupIInv, LookupInv, OnTheWay
<1>4. CASE Level < W
    <2>1. Level + 1 \in 1..W /\ bit = address[Level + 1] /\ bit \in Bit
        BY <1>1, <1>4, WidthAssumption DEF NextBits, Address
    <2>2. network_address' = [network_address EXCEPT ![Level + 1] = bit]
        BY <1>4 DEF Follow, SetBit
    <2> QED BY <1>1, <1>2, <1>3, <2>1, <2>2 DEF Address
<1>5. CASE ~(Level < W)
    BY <1>1, <1>3, <1>5 DEF Follow
<1> QED BY <1>4, <1>5

\* The way down
LEMMA DescendKeeps ==
    ASSUME LookupIInv, Descend
    PROVE  LookupIInv' /\ state' = "descending"
<1>1. PICK bit \in NextBits :
          LET child == Child(ThisNode, bit) IN
          /\ child > 0
          /\ Follow(bit)
          /\ IF child >= Len(db.nodes)
             THEN /\ frames' = Caller
                  /\ state' = IF Level = 0 THEN "idle" ELSE "returning"
             ELSE /\ frames' = Append(frames, child)
                  /\ UNCHANGED state
    BY DEF Descend
<1> DEFINE child == Child(ThisNode, bit)
<1>2. state = "descending" /\ UNCHANGED <<db, address, network>>
    BY DEF Descend
<1>3. state # "idle"
    BY <1>2
<1>4. /\ Level \in 0..(W - 1) /\ bit = address[Level + 1]
      /\ child \in 0..(Len(db.nodes) - 1) /\ ~(child >= Len(db.nodes))
      /\ db.path[child + 1] = Masked(address, Level + 1)
    BY <1>1, <1>3, ChildFollowed
<1>5. frames' = Append(frames, child) /\ state' = "descending"
    BY <1>1, <1>2, <1>4
<1> HIDE DEF child
<1>6. /\ network_address' \in Address
      /\ \A i \in 1..Level : network_address'[i] = address[i]
      /\ Level < W => network_address'[Level + 1] = address[Level + 1]
    BY <1>1, <1>3, FollowedBit
<1>7. LookupTypeOK /\ OnTheWay /\ db \in Databases
    BY <1>3 DEF LookupIInv, LookupInv
<1>8. frames \in Seq(0..(Len(db.nodes) - 1)) /\ Len(frames) \in Nat /\ Len(frames) = Level + 1
    BY <1>3, <1>7, ThisCall DEF LookupTypeOK
<1>9. /\ frames' \in Seq(0..(Len(db.nodes) - 1)) /\ frames' # <<>>
      /\ Len(frames') = Len(frames) + 1
      /\ \A k \in 1..Len(frames) : frames'[k] = frames[k]
      /\ frames'[Len(frames) + 1] = child
    <2> DEFINE Index == 0..(Len(db.nodes) - 1)
    <2>1. frames \in Seq(Index) /\ child \in Index /\ frames' = Append(frames, child)
        BY <1>4, <1>5, <1>8
    <2> HIDE DEF Index
    <2>2. /\ frames' \in Seq(Index)
          /\ Len(frames') = Len(frames) + 1
          /\ \A k \in 1..Len(frames) : frames'[k] = frames[k]
          /\ frames'[Len(frames) + 1] = child
        BY <2>1, AppendProperties
    <2>3. frames' # <<>>
        BY <1>8, <2>2, EmptySeq
    <2> QED BY <2>2, <2>3 DEF Index
<1>10. Level' = Level + 1
    BY <1>8, <1>9 DEF Level
<1>11. LookupTypeOK'
    BY <1>2, <1>5, <1>6, <1>7, <1>9 DEF LookupTypeOK
<1>12. OnTheWay'
    <2>1. address' \in Address /\ network' = {}
        BY <1>2, <1>7 DEF OnTheWay
    <2>2. ASSUME NEW k \in 1..(Len(frames) + 1)
          PROVE  db.path[frames'[k] + 1] = Masked(address, k - 1)
        <3>1. k \in 1..Len(frames) \/ k = Len(frames) + 1
            BY <1>8
        <3>2. CASE k \in 1..Len(frames)
            BY <1>7, <1>9, <3>2 DEF OnTheWay
        <3>3. CASE k = Len(frames) + 1
            <4>1. k - 1 = Level + 1
                BY <1>8, <3>3
            <4> QED BY <1>4, <1>9, <3>3, <4>1
        <3> QED BY <3>1, <3>2, <3>3
    <2>3. ASSUME NEW i \in 1..(Level + 1)
          PROVE  network_address'[i] = address[i]
        <3>1. i \in 1..Level \/ (i = Level + 1 /\ Level < W)
            BY <1>4, WidthAssumption
        <3> QED BY <1>6, <3>1
    <2> QED BY <1>2, <1>9, <1>10, <2>1, <2>2, <2>3 DEF OnTheWay
<1> QED BY <1>2, <1>5, <1>7, <1>11, <1>12 DEF LookupIInv, LookupInv

\* The end of the tree: nothing further down contains the address.
LEMMA ReachEndKeeps ==
    ASSUME LookupIInv, ReachEnd
    PROVE  LookupIInv'
<1>1. PICK bit \in NextBits : Child(ThisNode, bit) = 0 /\ Follow(bit)
    BY DEF ReachEnd
<1>2. state # "idle" /\ state' = "returning" /\ UNCHANGED <<db, address, frames, network>>
    BY DEF ReachEnd
<1>3. LookupTypeOK /\ OnTheWay /\ db \in Databases
    BY <1>2 DEF LookupIInv, LookupInv
<1>4. /\ network_address' \in Address
      /\ \A i \in 1..Level : network_address'[i] = address[i]
    BY <1>1, <1>2, FollowedBit
<1>5. Level' = Level
    BY <1>2 DEF Level
<1>6. LookupTypeOK'
    BY <1>2, <1>3, <1>4 DEF LookupTypeOK
<1>7. OnTheWay'
    BY <1>2, <1>3, <1>4, <1>5 DEF OnTheWay
<1>8. NothingBelow'
    <2>1. /\ WellFormed(db) /\ address \in Address /\ Level \in 0..W
          /\ frames[Len(frames)] + 1 \in 1..Len(db.nodes)
          /\ ThisNode = db.nodes[frames[Len(frames)] + 1]
          /\ db.path[frames[Len(frames)] + 1] = Masked(address, Level)
        BY <1>2, ThisCall
    <2>2. Level < W => Child(ThisNode, address[Level + 1]) = 0
        BY <1>1 DEF NextBits
    <2>3. \A p \in NetworksOf(db) : OnPath(p, address) => Len(p) <= Level
        BY <2>1, <2>2, TreeEnds
    <2>4. \A p \in NetworksOf(db) : Len(p) \in Nat
        BY <2>1, ContentsType, PathType
    <2>5. ASSUME NEW p \in NetworksOf(db), OnPath(p, address), Len(p) > Level PROVE FALSE
        <3>1. Len(p) <= Level /\ Len(p) \in Nat /\ Level \in Nat
            BY <2>1, <2>3, <2>4, <2>5, WidthAssumption
        <3> QED BY <2>5, <3>1
    <2> QED BY <1>2, <1>5, <2>5 DEF NothingBelow
<1> QED BY <1>2, <1>3, <1>6, <1>7, <1>8 DEF LookupIInv, LookupInv

\* The way back: a node is left once its network does not contain the address,
\* or is one that spans the IPv4 range.
LEMMA ReturnKeeps ==
    ASSUME LookupIInv, Return
    PROVE  LookupIInv'
<1>1. state = "returning" /\ state # "idle" /\ network' = HandleLeaf
      /\ UNCHANGED <<db, address, network_address>>
    BY DEF Return
<1>2. LookupTypeOK /\ OnTheWay /\ NothingBelow /\ db \in Databases
    BY <1>1 DEF LookupIInv, LookupInv
<1>3. /\ WellFormed(db) /\ address \in Address
      /\ Len(frames) \in Nat /\ Len(frames) = Level + 1 /\ Level \in 0..W /\ Level \in Nat
    BY <1>1, ThisCall, WidthAssumption
<1>4. frames \in Seq(0..(Len(db.nodes) - 1))
    BY <1>2 DEF LookupTypeOK
<1>5. network' \in SUBSET Found
    <2>1. Masked(address, Level) \in Path
        BY <1>3, MaskedPath
    <2>2. HandleLeaf # {} => ContentsOf(db)[Masked(address, Level)] \in Attributes
        BY <1>1, <1>3, LeafHandled, ContentsType
    <2> QED BY <1>1, <2>1, <2>2, LeafHandled DEF Found
<1>6. CASE network' # {} \/ Level = 0
    <2>1. state' = "idle" /\ frames' = <<>>
        BY <1>6 DEF Return
    <2>2. LookupTypeOK'
        BY <1>1, <1>2, <1>5, <2>1, EmptySeq DEF LookupTypeOK
    <2> QED BY <1>1, <1>2, <2>1, <2>2 DEF LookupIInv, LookupInv
<1>7. CASE network' = {} /\ Level # 0
    <2>1. frames' = SubSeq(frames, 1, Level) /\ state' = "returning"
        BY <1>1, <1>7 DEF Return, Caller
    <2>2. Level \in 1..Len(frames) /\ Level > 0
        BY <1>3, <1>7
    <2>3. /\ frames' \in Seq(0..(Len(db.nodes) - 1)) /\ Len(frames') = Level
          /\ \A k \in 1..Level : frames'[k] = frames[k]
        <3>1. \A k \in 1..Level : frames[k] \in 0..(Len(db.nodes) - 1)
            BY <1>3, <1>4, ElementOfSeq
        <3> QED BY <1>3, <1>4, <2>1, <2>2, <3>1, SubSeqProperties
    <2>4. Level' = Level - 1 /\ frames' # <<>>
        BY <1>3, <2>2, <2>3, EmptySeq DEF Level
    <2>5. LookupTypeOK'
        BY <1>1, <1>2, <1>5, <2>1, <2>3 DEF LookupTypeOK
    <2>6. OnTheWay'
        <3>1. \A k \in 1..Level : k \in 1..Len(frames)
            BY <1>3
        <3>2. \A i \in 1..(Level - 1) : i \in 1..Level
            BY <1>3
        <3> QED BY <1>1, <1>2, <1>7, <2>3, <2>4, <3>1, <3>2 DEF OnTheWay
    <2>7. NothingBelow'
        <3>1. ASSUME NEW p \in NetworksOf(db), OnPath(p, address), Len(p) > Level - 1
              PROVE  SpansV4(p)
            <4>1. Len(p) \in Nat
                BY <1>3, ContentsType, PathType
            <4>2. CASE Len(p) > Level
                BY <1>2, <3>1, <4>2 DEF NothingBelow
            <4>3. CASE Len(p) = Level
                <5>1. p = Masked(address, Level)
                    BY <1>1, <3>1, <4>3, NetworkOfThisNode
                <5> QED BY <1>1, <1>7, <5>1, LeafHandled
            <4>4. Len(p) > Level \/ Len(p) = Level
                BY <1>3, <3>1, <4>1
            <4> QED BY <4>2, <4>3, <4>4
        <3> QED BY <1>1, <2>4, <3>1 DEF NothingBelow
    <2> QED BY <1>1, <1>2, <2>1, <2>5, <2>6, <2>7 DEF LookupIInv, LookupInv
<1> QED BY <1>6, <1>7

\* A call starts at the root, whose path is the first none of the bits.
LEMMA LookupKeeps ==
    ASSUME LookupIInv, NEW a \in Address, Lookup(a)
    PROVE  LookupIInv'
<1>1. /\ state' = "descending" /\ address' = a /\ frames' = <<0>> /\ db' = db
      /\ network_address' = AllZeroes /\ network' = {}
    BY DEF Lookup
<1>2. LookupTypeOK /\ db \in Databases /\ WellFormed(db)
    BY DatabasesAssumption DEF LookupIInv, LookupInv
<1>3. Len(db.nodes) \in Nat /\ Len(db.nodes) > 0 /\ db.path[1] = <<>>
    BY <1>2, NodesType
<1>4. <<0>> \in Seq(0..(Len(db.nodes) - 1)) /\ Len(<<0>>) = 1 /\ <<0>>[1] = 0 /\ <<0>> # <<>>
    BY <1>3
<1>5. LookupTypeOK'
    BY <1>1, <1>2, <1>4 DEF LookupTypeOK, AllZeroes, Address, Bit
<1>6. Masked(a, 0) = <<>>
    <2>1. Masked(a, 0) \in Seq(Bit) /\ Len(Masked(a, 0)) = 0
        BY MaskedPath, PathType, WidthAssumption
    <2> QED BY <2>1, EmptySeq
<1>7. OnTheWay'
    <2>1. Level' = 0
        BY <1>1, <1>4 DEF Level
    <2>2. \A k \in 1..1 : k = 1 /\ k - 1 = 0
        OBVIOUS
    <2>3. \A k \in 1..1 : db.path[<<0>>[k] + 1] = Masked(a, k - 1)
        BY <1>3, <1>4, <1>6, <2>2
    <2> QED BY <1>1, <1>4, <2>1, <2>3 DEF OnTheWay
<1> QED BY <1>1, <1>2, <1>5, <1>7 DEF LookupIInv, LookupInv

\* The invariant is inductive.
LEMMA LookupInitInv == LookupInit => LookupIInv
<1> SUFFICES ASSUME LookupInit PROVE LookupIInv
    OBVIOUS
<1>1. db \in Databases /\ WellFormed(db)
    BY DatabasesAssumption DEF LookupInit
<1>2. LookupTypeOK
    BY <1>1 DEF LookupInit, LookupTypeOK, WellFormed, AllZeroes, Address, Bit
<1> QED BY <1>1, <1>2 DEF LookupInit, LookupIInv, LookupInv

LEMMA LookupNextKeeps == LookupIInv /\ [LookupNext]_lookupVars => LookupIInv'
<1> SUFFICES ASSUME LookupIInv, [LookupNext]_lookupVars PROVE LookupIInv'
    OBVIOUS
<1>1. ASSUME NEW a \in Address, Lookup(a) PROVE LookupIInv'
    BY <1>1, LookupKeeps
<1>2. CASE Descend
    BY <1>2, DescendKeeps
<1>3. CASE ReachEnd
    BY <1>3, ReachEndKeeps
<1>4. CASE Return
    BY <1>4, ReturnKeeps
<1>5. CASE UNCHANGED lookupVars
    BY <1>5 DEF lookupVars, LookupIInv, LookupInv, LookupTypeOK, OnTheWay, NothingBelow, Level
<1> QED BY <1>1, <1>2, <1>3, <1>4, <1>5 DEF LookupNext, Step

-----------------------------------------------------------------------------
(* Looking up an address: the answer *)

\* The operators of the abstract specification are those of this one.
LEMMA AnswerOperators ==
    /\ \A p : LPM!SpansV4(p) = SpansV4(p)
    /\ \A p, a : LPM!OnPath(p, a) = OnPath(p, a)
    /\ \A S, a : LPM!LongestMatch(S, a) = LongestMatch(S, a)
    /\ LPM!Path = Path /\ LPM!Address = Address /\ LPM!Attributes = Attributes
    /\ LPM!NoAddress = NoAddress
BY DEF LPM!SpansV4, SpansV4, LPM!OnPath, OnPath, LPM!LongestMatch, LongestMatch, LPM!V4Len, V4Len,
       LPM!Path, Path, LPM!Address, Address, LPM!Attributes, Attributes, LPM!Bit, Bit,
       LPM!NoAddress, NoAddress

\* What the last call returns is a reply to the question: the longest match, or,
\* where a network spans the IPv4 range, one that contains the address or none.
LEMMA AnswerIsReply ==
    ASSUME LookupIInv, Return, state' = "idle"
    PROVE  network' \in LPM!Replies
<1> DEFINE p == Masked(address, Level)
           S == NetworksOf(db)
<1>1. state # "idle" /\ state = "returning" /\ network' = HandleLeaf
    BY DEF Return
<1>2. /\ WellFormed(db) /\ address \in Address /\ Level \in 0..W /\ Level \in Nat
      /\ NothingBelow
    BY <1>1, ThisCall, WidthAssumption DEF LookupIInv, LookupInv
<1>3. Len(p) = Level /\ OnPath(p, address)
    BY <1>2, MaskedPath
<1>4. DOMAIN ContentsOf(db) = S /\ \A q \in S : Len(q) \in Nat
    BY <1>2, ContentsType, PathType
<1>5. IF state = "idle" THEN NoAddress ELSE address = address
    BY <1>1
<1>6. LPM!Replies =
         IF \E q \in S : SpansV4(q)
         THEN {LPM!Reply(found) : found \in {{}} \cup {{q} : q \in {r \in S : OnPath(r, address)}}}
         ELSE {LPM!Reply(LongestMatch(S, address))}
    BY <1>1, <1>4, AnswerOperators DEF LPM!Replies
<1>7. LPM!Reply({}) = {} /\ LPM!Reply({p}) = {[path |-> p, attributes |-> ContentsOf(db)[p]]}
    BY DEF LPM!Reply
<1>8. ASSUME NEW q \in S, OnPath(q, address), Len(q) = Level PROVE q = p
    BY <1>1, <1>8, NetworkOfThisNode
<1>9. CASE network' # {}
    <2>1. network' = LPM!Reply({p}) /\ p \in S
        BY <1>1, <1>7, <1>9, LeafHandled
    <2>2. CASE \E q \in S : SpansV4(q)
        BY <1>3, <1>6, <2>1, <2>2
    <2>3. CASE ~(\E q \in S : SpansV4(q))
        <3>1. \A q \in S : OnPath(q, address) => Len(q) <= Level
            BY <1>2, <1>4, <2>3 DEF NothingBelow
        <3>2. p \in LongestMatch(S, address)
            BY <1>3, <2>1, <3>1 DEF LongestMatch
        <3>3. ASSUME NEW q \in LongestMatch(S, address) PROVE q = p
            <4>1. q \in S /\ OnPath(q, address) /\ Len(p) <= Len(q) /\ Len(q) <= Level
                BY <1>3, <2>1, <3>1 DEF LongestMatch
            <4>2. Len(q) = Level
                BY <1>2, <1>3, <1>4, <4>1
            <4> QED BY <1>8, <4>1, <4>2
        <3>4. LongestMatch(S, address) = {p}
            BY <3>2, <3>3
        <3> QED BY <1>6, <2>1, <2>3, <3>4
    <2> QED BY <2>2, <2>3
<1>10. CASE network' = {}
    <2>1. Level = 0
        BY <1>1, <1>10 DEF Return
    <2>2. CASE \E q \in S : SpansV4(q)
        BY <1>6, <1>7, <1>10, <2>2
    <2>3. CASE ~(\E q \in S : SpansV4(q))
        <3>1. ASSUME NEW q \in S, OnPath(q, address) PROVE FALSE
            <4>1. Len(q) <= Level
                BY <1>2, <1>4, <2>3, <3>1 DEF NothingBelow
            <4>2. Len(q) = Level
                BY <1>4, <2>1, <4>1
            <4>3. q = p
                BY <1>8, <3>1, <4>2
            <4> QED BY <1>1, <1>10, <2>3, <4>3, LeafHandled
        <3>2. LongestMatch(S, address) = {}
            BY <3>1 DEF LongestMatch
        <3> QED BY <1>6, <1>7, <1>10, <2>3, <3>2
    <2> QED BY <2>2, <2>3
<1> QED BY <1>9, <1>10

\* A database is a map from networks to attributes, and nothing has been asked.
LEMMA LookupInitIsInit == LookupInit => LPM!Init
<1> SUFFICES ASSUME LookupInit PROVE LPM!Init
    OBVIOUS
<1>1. WellFormed(db) /\ state = "idle" /\ network = {}
    BY DatabasesAssumption DEF LookupInit
<1>2. /\ DOMAIN ContentsOf(db) \subseteq Path
      /\ ContentsOf(db) \in [DOMAIN ContentsOf(db) -> Attributes]
    BY <1>1, ContentsType
<1> QED BY <1>1, <1>2, AnswerOperators DEF LPM!Init

\* A lookup asks, its last return answers, and the steps between them do neither.
LEMMA LookupStepIsStep == LookupIInv /\ [LookupNext]_lookupVars => [LPM!Next]_LPM!vars
<1> SUFFICES ASSUME LookupIInv, [LookupNext]_lookupVars PROVE [LPM!Next]_LPM!vars
    OBVIOUS
<1>1. ASSUME NEW a \in Address, Lookup(a) PROVE LPM!Ask(a)
    BY <1>1, AnswerOperators DEF Lookup, LPM!Ask
<1>2. CASE Descend
    <2>1. state # "idle" /\ state' # "idle" /\ UNCHANGED <<db, address, network>>
        BY <1>2, DescendKeeps DEF Descend
    <2> QED BY <2>1 DEF LPM!vars
<1>3. CASE ReachEnd
    <2>1. state # "idle" /\ state' # "idle" /\ UNCHANGED <<db, address, network>>
        BY <1>3 DEF ReachEnd
    <2> QED BY <2>1 DEF LPM!vars
<1>4. CASE Return
    <2>1. state # "idle" /\ UNCHANGED <<db, address>>
        BY <1>4 DEF Return
    <2>2. address \in Address /\ network = {}
        BY <2>1 DEF LookupIInv, LookupInv, OnTheWay
    <2>3. address # NoAddress
        BY <2>2, NoAddressIsNone
    <2>4. CASE state' = "idle"
        <3>1. network' \in LPM!Replies
            BY <1>4, <2>4, AnswerIsReply
        <3>2. LPM!Answer
            BY <2>1, <2>3, <2>4, <3>1, AnswerOperators DEF LPM!Answer
        <3> QED BY <3>2 DEF LPM!Next
    <2>5. CASE state' # "idle"
        <3>1. network' = {}
            BY <1>4, <2>5 DEF Return
        <3> QED BY <2>1, <2>2, <2>5, <3>1 DEF LPM!vars
    <2> QED BY <2>4, <2>5
<1>5. CASE UNCHANGED lookupVars
    BY <1>5 DEF lookupVars, LPM!vars
<1> QED BY <1>1, <1>2, <1>3, <1>4, <1>5, AnswerOperators DEF LookupNext, Step, LPM!Next

-----------------------------------------------------------------------------
(* Looking up an address: theorems *)

\* In every well-formed database, the calls of a lookup are for the nodes on the
\* path of the address, one for each level from the root, network_address is right
\* as far as that, and on the way back nothing further down has been missed but a
\* network that spans the IPv4 range.
THEOREM LookupInvariant == LookupSpec => []LookupInv
<1>1. LookupInit => LookupIInv
    BY LookupInitInv
<1>2. LookupIInv /\ [LookupNext]_lookupVars => LookupIInv'
    BY LookupNextKeeps
<1>3. LookupIInv => LookupInv
    BY DEF LookupIInv
<1> QED BY <1>1, <1>2, <1>3, PTL DEF LookupSpec

\* What loc_database_lookup returns is the longest network of the database that
\* contains the address, with its attributes, or that there is none; and where a
\* network spans the IPv4 range it is still no network that is not there.
THEOREM LookupImplementsLongestPrefixMatch == LookupSpec => ImplementsLongestPrefixMatch
<1>1. LookupInit => LookupIInv
    BY LookupInitInv
<1>2. LookupIInv /\ [LookupNext]_lookupVars => LookupIInv'
    BY LookupNextKeeps
<1>3. LookupInit => LPM!Init
    BY LookupInitIsInit
<1>4. LookupIInv /\ [LookupNext]_lookupVars => [LPM!Next]_LPM!vars
    BY LookupStepIsStep
<1> QED BY <1>1, <1>2, <1>3, <1>4, PTL DEF LookupSpec, ImplementsLongestPrefixMatch, LPM!Spec
=============================================================================

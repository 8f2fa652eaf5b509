------------------------ MODULE DatabaseFormatProofs ------------------------
(***************************************************************************)
(* Facts about paths, addresses, networks and well-formed databases that   *)
(* the proofs about the components rest on.                                *)
(***************************************************************************)
EXTENDS DatabaseFormat, NetworkOperations, SequenceTheorems, FiniteSetTheorems, TLAPS

-----------------------------------------------------------------------------
(* Paths *)

\* A path is a bit string of at most W bits.
LEMMA PathIsSeq == Path = {p \in Seq(Bit) : Len(p) <= W}
<1>1. ASSUME NEW p \in Path PROVE p \in Seq(Bit) /\ Len(p) <= W
    <2>1. PICK n \in 0..W : p \in [1..n -> Bit]
        BY <1>1 DEF Path
    <2>2. n \in Nat /\ n <= W
        BY <2>1, WidthAssumption
    <2>3. p \in Seq(Bit)
        BY <2>1, <2>2, SeqDef
    <2>4. Len(p) = n
        BY <2>1, <2>2, <2>3, LenProperties
    <2> QED BY <2>2, <2>3, <2>4
<1>2. ASSUME NEW p \in Seq(Bit), Len(p) <= W PROVE p \in Path
    <2>1. Len(p) \in 0..W /\ p \in [1..Len(p) -> Bit]
        BY <1>2, LenProperties, WidthAssumption
    <2> QED BY <2>1 DEF Path
<1> QED BY <1>1, <1>2

\* What a path is made of.
LEMMA PathType ==
    ASSUME NEW p \in Path
    PROVE  /\ p \in Seq(Bit)
           /\ Len(p) \in Nat
           /\ Len(p) <= W
           /\ DOMAIN p = 1..Len(p)
           /\ \A i \in 1..Len(p) : p[i] \in Bit
           /\ p # <<>> => Len(p) > 0
<1>1. p \in Seq(Bit) /\ Len(p) <= W
    BY PathIsSeq
<1>2. Len(p) \in Nat /\ DOMAIN p = 1..Len(p) /\ (p # <<>> => Len(p) > 0)
    BY <1>1, LenProperties, EmptySeq
<1>3. \A i \in 1..Len(p) : p[i] \in Bit
    BY <1>1, ElementOfSeq
<1> QED BY <1>1, <1>2, <1>3

\* The root of the tree is the empty path.
LEMMA RootIsPath == <<>> \in Path
<1>1. <<>> \in Seq(Bit) /\ Len(<<>>) = 0
    BY EmptySeq
<1> QED BY <1>1, PathIsSeq, WidthAssumption

\* A prefix of a path is a path, and agrees with it.
LEMMA PathPrefix ==
    ASSUME NEW p \in Path, NEW n \in 0..Len(p)
    PROVE  /\ SubSeq(p, 1, n) \in Path
           /\ Len(SubSeq(p, 1, n)) = n
           /\ \A i \in 1..n : SubSeq(p, 1, n)[i] = p[i]
<1>1. p \in Seq(Bit) /\ Len(p) \in Nat /\ Len(p) <= W /\ n \in Nat /\ n <= Len(p)
    BY PathType
<1>2. \A i \in 1..n : p[i] \in Bit
    BY <1>1, PathType
<1>3. /\ SubSeq(p, 1, n) \in Seq(Bit)
      /\ Len(SubSeq(p, 1, n)) = n
      /\ \A i \in 1..n : SubSeq(p, 1, n)[i] = p[i]
    BY <1>1, <1>2, SubSeqProperties
<1>4. n <= W
    BY <1>1, WidthAssumption
<1> QED BY <1>3, <1>4, PathIsSeq

\* A path that is not the root is its parent and one more bit.
LEMMA PathParent ==
    ASSUME NEW p \in Path, p # <<>>
    PROVE  /\ Len(p) - 1 \in 0..Len(p)
           /\ p[Len(p)] \in Bit
           /\ p = Append(SubSeq(p, 1, Len(p) - 1), p[Len(p)])
<1> DEFINE n == Len(p) - 1
           q == SubSeq(p, 1, n)
           r == Append(q, p[Len(p)])
<1>1. p \in Seq(Bit) /\ Len(p) \in Nat /\ n \in Nat /\ n \in 0..Len(p) /\ Len(p) = n + 1
    BY PathType
<1>2. p[Len(p)] \in Bit
    BY <1>1, PathType
<1>3. q \in Seq(Bit) /\ Len(q) = n /\ \A i \in 1..n : q[i] = p[i]
    BY <1>1, PathPrefix, PathType
<1>4. /\ r \in Seq(Bit)
      /\ Len(r) = n + 1
      /\ \A i \in 1..n : r[i] = q[i]
      /\ r[n + 1] = p[Len(p)]
    BY <1>2, <1>3, AppendProperties
<1>5. \A i \in 1..Len(p) : p[i] = r[i]
    <2> TAKE i \in 1..Len(p)
    <2>1. CASE i \in 1..n
        BY <2>1, <1>3, <1>4
    <2>2. CASE i = n + 1
        BY <2>2, <1>1, <1>4
    <2>3. i \in 1..n \/ i = n + 1
        <3> HIDE DEF n
        <3> QED BY <1>1
    <2> QED BY <2>1, <2>2, <2>3
<1>6. p = r
    BY <1>1, <1>4, <1>5, SeqEqual
<1> QED BY <1>1, <1>2, <1>6

\* A path with a bit added.
LEMMA PathChild ==
    ASSUME NEW p \in Path, NEW bit \in Bit
    PROVE  /\ Append(p, bit) \in Seq(Bit)
           /\ Append(p, bit) # <<>>
           /\ Len(Append(p, bit)) = Len(p) + 1
           /\ \A i \in 1..Len(p) : Append(p, bit)[i] = p[i]
           /\ Append(p, bit)[Len(p) + 1] = bit
           /\ Len(p) < W => Append(p, bit) \in Path
<1>1. p \in Seq(Bit) /\ Len(p) \in Nat
    BY PathType
<1>2. /\ Append(p, bit) \in Seq(Bit)
      /\ Append(p, bit) # <<>>
      /\ Len(Append(p, bit)) = Len(p) + 1
      /\ \A i \in 1..Len(p) : Append(p, bit)[i] = p[i]
      /\ Append(p, bit)[Len(p) + 1] = bit
    BY <1>1, AppendProperties
<1>3. Len(p) < W => Len(p) + 1 <= W
    BY <1>1, WidthAssumption
<1> QED BY <1>2, <1>3, PathIsSeq

-----------------------------------------------------------------------------
(* Natural numbers *)

\* A set of natural numbers that is not empty has a smallest member.
LEMMA SmallestMember ==
    ASSUME NEW S \in SUBSET Nat, S # {}
    PROVE  \E n \in S : \A m \in S : n <= m
<1>1. \E n \in S : \A m \in S : <<m, n>> \notin OpToRel(<, Nat)
    BY NatLessThanWellFounded, WFMin
<1>2. PICK n \in S : \A m \in S : <<m, n>> \notin OpToRel(<, Nat)
    BY <1>1
<1>3. ASSUME NEW m \in S PROVE n <= m
    <2>1. m \in Nat /\ n \in Nat
        OBVIOUS
    <2>2. <<m, n>> \notin OpToRel(<, Nat)
        BY <1>2
    <2>3. ~(m < n)
        BY <2>1, <2>2, Zenon DEF OpToRel
    <2> QED BY <2>1, <2>3
<1> QED BY <1>3

\* A range from one has one end.
LEMMA SameRange ==
    ASSUME NEW m \in Nat, NEW n \in Nat, 1..m = 1..n
    PROVE  m = n
<1>1. \A k \in Nat : k > 0 => (k <= m <=> k <= n)
    <2>1. \A k \in Nat : k > 0 => (k \in 1..m <=> k <= m) /\ (k \in 1..n <=> k <= n)
        OBVIOUS
    <2> QED BY <2>1
<1>2. m > 0 => m <= n
    BY <1>1
<1>3. n > 0 => n <= m
    BY <1>1
<1> QED BY <1>2, <1>3

-----------------------------------------------------------------------------
(* Paths of an address *)

\* The first bits of an address are a path, on the way to it.
LEMMA MaskedPath ==
    ASSUME NEW a \in Address, NEW n \in 0..W
    PROVE  /\ Masked(a, n) \in Path
           /\ Len(Masked(a, n)) = n
           /\ \A i \in 1..n : Masked(a, n)[i] = a[i]
           /\ OnPath(Masked(a, n), a)
<1>1. n \in Nat /\ n <= W /\ \A i \in 1..n : a[i] \in Bit
    BY WidthAssumption DEF Address
<1>2. Masked(a, n) \in [1..n -> Bit]
    BY <1>1 DEF Masked
<1>3. Masked(a, n) \in Seq(Bit)
    BY <1>1, <1>2, SeqDef
<1>4. Len(Masked(a, n)) = n
    BY <1>1, <1>2, <1>3, LenProperties
<1>5. \A i \in 1..n : Masked(a, n)[i] = a[i]
    BY DEF Masked
<1> QED BY <1>1, <1>3, <1>4, <1>5, PathIsSeq DEF OnPath

\* The only paths on the way to an address are its first bits.
LEMMA OnPathMasked ==
    ASSUME NEW p \in Path, NEW a \in Address, OnPath(p, a)
    PROVE  Len(p) \in 0..W /\ p = Masked(a, Len(p))
<1>1. p \in Seq(Bit) /\ Len(p) \in 0..W
    BY PathType
<1>2. /\ Masked(a, Len(p)) \in Seq(Bit) /\ Len(Masked(a, Len(p))) = Len(p)
      /\ \A i \in 1..Len(p) : Masked(a, Len(p))[i] = a[i]
    BY <1>1, MaskedPath, PathType
<1>3. \A i \in 1..Len(p) : p[i] = a[i]
    BY DEF OnPath
<1> QED BY <1>1, <1>2, <1>3, SeqEqual

\* One bit further down
LEMMA MaskedChild ==
    ASSUME NEW a \in Address, NEW n \in 0..(W - 1)
    PROVE  /\ n \in 0..W /\ n + 1 \in 0..W /\ n + 1 \in 1..W /\ a[n + 1] \in Bit
           /\ Append(Masked(a, n), a[n + 1]) = Masked(a, n + 1)
<1>1. n \in Nat /\ n \in 0..W /\ n + 1 \in 0..W /\ n + 1 \in 1..W
    BY WidthAssumption
<1>2. a[n + 1] \in Bit
    BY <1>1 DEF Address
<1> DEFINE p == Masked(a, n)
           q == Masked(a, n + 1)
           r == Append(p, a[n + 1])
<1>3. p \in Path /\ Len(p) = n /\ \A i \in 1..n : p[i] = a[i]
    BY <1>1, MaskedPath
<1>4. q \in Seq(Bit) /\ Len(q) = n + 1 /\ \A i \in 1..(n + 1) : q[i] = a[i]
    BY <1>1, MaskedPath, PathType
<1>5. /\ r \in Seq(Bit) /\ Len(r) = n + 1
      /\ \A i \in 1..n : r[i] = p[i]
      /\ r[n + 1] = a[n + 1]
    BY <1>2, <1>3, PathChild
<1> HIDE DEF p, q, r
<1>6. \A i \in 1..(n + 1) : r[i] = q[i]
    <2> TAKE i \in 1..(n + 1)
    <2>1. i \in 1..n \/ i = n + 1
        BY <1>1
    <2> QED BY <2>1, <1>3, <1>4, <1>5
<1>7. r = q
    BY <1>1, <1>4, <1>5, <1>6, SeqEqual
<1> QED BY <1>1, <1>2, <1>7 DEF p, q, r

\* A shorter one is a prefix.
LEMMA MaskedPrefix ==
    ASSUME NEW a \in Address, NEW n \in 0..W, NEW m \in 0..n
    PROVE  m \in 0..W /\ SubSeq(Masked(a, n), 1, m) = Masked(a, m)
<1>1. m \in Nat /\ n \in Nat /\ m <= n /\ m \in 0..W
    BY WidthAssumption
<1> DEFINE p == Masked(a, n)
           q == SubSeq(p, 1, m)
           r == Masked(a, m)
<1>2. p \in Path /\ Len(p) = n /\ \A i \in 1..n : p[i] = a[i]
    BY MaskedPath
<1>3. q \in Path /\ Len(q) = m /\ \A i \in 1..m : q[i] = p[i]
    BY <1>2, PathPrefix
<1>4. r \in Path /\ Len(r) = m /\ \A i \in 1..m : r[i] = a[i]
    BY <1>1, MaskedPath
<1> HIDE DEF p, q, r
<1>5. q \in Seq(Bit) /\ r \in Seq(Bit)
    BY <1>3, <1>4, PathType
<1>6. \A i \in 1..m : q[i] = r[i]
    BY <1>1, <1>2, <1>3, <1>4
<1>7. q = r
    BY <1>1, <1>3, <1>4, <1>5, <1>6, SeqEqual
<1> QED BY <1>1, <1>7 DEF p, q, r

\* A network contains the addresses it is on the way to.
LEMMA OnPathMatches ==
    ASSUME NEW p \in Path, NEW a \in Address, OnPath(p, a)
    PROVE  MatchesAddress(p, a)
<1>1. Len(p) \in Nat /\ \A i \in 1..Len(p) : p[i] = a[i]
    BY PathType DEF OnPath
<1>2. \A i \in 1..W : /\ a[i] \in Bit
                      /\ FirstAddress(p)[i] = IF i <= Len(p) THEN a[i] ELSE 0
                      /\ LastAddress(p)[i] = IF i <= Len(p) THEN a[i] ELSE 1
    BY <1>1 DEF Address, FirstAddress, LastAddress
<1>3. \A i \in 1..W : ~(a[i] < FirstAddress(p)[i]) /\ ~(LastAddress(p)[i] < a[i])
    BY <1>2 DEF Bit
<1> QED BY <1>3 DEF MatchesAddress, Less

-----------------------------------------------------------------------------
(* The order of paths *)

\* Leading to is reflexive and transitive.
LEMMA LeadsOn ==
    ASSUME NEW p \in Path, NEW q \in Path, NEW r \in Path, Leads(p, q), Leads(q, r)
    PROVE  Leads(p, r)
<1>1. Len(p) \in Nat /\ Len(q) \in Nat /\ Len(r) \in Nat /\ Len(p) <= Len(q) /\ Len(q) <= Len(r)
    BY PathType DEF Leads
<1>2. \A i \in 1..Len(p) : i \in 1..Len(q)
    BY <1>1
<1>3. \A i \in 1..Len(p) : p[i] = r[i]
    BY <1>2 DEF Leads, OnPath
<1> QED BY <1>1, <1>3 DEF Leads, OnPath

LEMMA LeadsToItself ==
    ASSUME NEW p \in Path
    PROVE  Leads(p, p)
BY PathType DEF Leads, OnPath

\* A path leads to its children, and on to whatever is further down by one of them.
LEMMA LeadsToChild ==
    ASSUME NEW p \in Path, NEW bit \in Bit, Append(p, bit) \in Path
    PROVE  Leads(p, Append(p, bit)) /\ ~Leads(Append(p, bit), p) /\ Append(p, bit) # p
<1>1. /\ Len(p) \in Nat /\ Len(Append(p, bit)) = Len(p) + 1
      /\ \A i \in 1..Len(p) : Append(p, bit)[i] = p[i]
    BY PathType, PathChild
<1>2. Leads(p, Append(p, bit))
    BY <1>1 DEF Leads, OnPath
<1>3. ~(Len(Append(p, bit)) <= Len(p)) /\ Len(Append(p, bit)) # Len(p)
    BY <1>1
<1> QED BY <1>2, <1>3 DEF Leads

LEMMA LeadsByChild ==
    ASSUME NEW p \in Path, NEW q \in Path, Leads(p, q), p # q
    PROVE  /\ Len(p) + 1 \in 0..Len(q) /\ Len(p) + 1 \in 1..Len(q)
           /\ q[Len(p) + 1] \in Bit
           /\ SubSeq(q, 1, Len(p) + 1) = Append(p, q[Len(p) + 1])
           /\ Append(p, q[Len(p) + 1]) \in Path
           /\ Leads(Append(p, q[Len(p) + 1]), q)
<1> DEFINE n == Len(p)
<1>1. p \in Seq(Bit) /\ q \in Seq(Bit) /\ n \in Nat /\ Len(q) \in Nat /\ n <= Len(q)
    BY PathType DEF Leads
<1>2. \A i \in 1..n : p[i] = q[i]
    BY DEF Leads, OnPath
<1>3. n # Len(q)
    BY <1>1, <1>2, SeqEqual
<1> HIDE DEF n
<1>4. n + 1 \in 0..Len(q) /\ n + 1 \in 1..Len(q) /\ n + 1 <= Len(q)
    BY <1>1, <1>3
<1>5. q[n + 1] \in Bit
    BY <1>4, PathType
<1> DEFINE r == Append(p, q[n + 1])
           s == SubSeq(q, 1, n + 1)
<1>6. r \in Seq(Bit) /\ Len(r) = n + 1 /\ (\A i \in 1..n : r[i] = p[i]) /\ r[n + 1] = q[n + 1]
    BY <1>5, PathChild DEF n
<1>7. s \in Path /\ s \in Seq(Bit) /\ Len(s) = n + 1 /\ \A i \in 1..(n + 1) : s[i] = q[i]
    BY <1>4, PathPrefix, PathType
<1> HIDE DEF r, s
<1>8. \A i \in 1..(n + 1) : r[i] = s[i]
    <2> TAKE i \in 1..(n + 1)
    <2>1. i \in 1..n \/ i = n + 1
        BY <1>1
    <2> QED BY <2>1, <1>2, <1>6, <1>7
<1>9. r = s
    BY <1>1, <1>6, <1>7, <1>8, SeqEqual
<1>10. Leads(r, q)
    BY <1>4, <1>7, <1>9 DEF Leads, OnPath
<1> QED BY <1>4, <1>5, <1>7, <1>9, <1>10 DEF n, r, s

\* What one path leads to is left of what the other one leads to, if it is itself.
LEMMA LeftLeads ==
    ASSUME NEW p \in Path, NEW q \in Path, LeftOf(p, q),
           NEW r \in Path, NEW s \in Path, Leads(p, r), Leads(q, s)
    PROVE  LeftOf(r, s)
<1>1. PICK i \in 1..Len(p) : i <= Len(q) /\ p[i] = 0 /\ q[i] = 1 /\ \A j \in 1..(i - 1) : p[j] = q[j]
    BY DEF LeftOf
<1>2. /\ Len(p) \in Nat /\ Len(q) \in Nat /\ Len(r) \in Nat /\ Len(s) \in Nat
      /\ Len(p) <= Len(r) /\ Len(q) <= Len(s) /\ i \in Nat /\ i <= Len(p) /\ i > 0
    BY PathType DEF Leads
<1>3. i \in 1..Len(p) /\ i \in 1..Len(q) /\ i \in 1..Len(r) /\ i <= Len(s)
    BY <1>1, <1>2
<1>4. \A j \in 1..(i - 1) : j \in 1..Len(p) /\ j \in 1..Len(q)
    BY <1>1, <1>2
<1>5. (\A j \in 1..Len(p) : p[j] = r[j]) /\ (\A j \in 1..Len(q) : q[j] = s[j])
    BY DEF Leads, OnPath
<1>6. r[i] = 0 /\ s[i] = 1 /\ \A j \in 1..(i - 1) : r[j] = s[j]
    BY <1>1, <1>3, <1>4, <1>5
<1> QED BY <1>3, <1>6 DEF LeftOf

\* A path that is left of another one does not lead to it, nor the other way round.
LEMMA LeftIsApart ==
    ASSUME NEW p \in Path, NEW q \in Path, LeftOf(p, q)
    PROVE  ~Leads(p, q) /\ ~Leads(q, p) /\ p # q
<1>1. PICK i \in 1..Len(p) : i <= Len(q) /\ p[i] = 0 /\ q[i] = 1
    BY DEF LeftOf
<1>2. i \in 1..Len(q) /\ p[i] # q[i]
    BY <1>1, PathType
<1> QED BY <1>1, <1>2 DEF Leads, OnPath

\* The left child is left of the right one.
LEMMA LeftChild ==
    ASSUME NEW p \in Path, Append(p, 0) \in Path, Append(p, 1) \in Path
    PROVE  LeftOf(Append(p, 0), Append(p, 1))
<1>1. /\ Len(p) \in Nat /\ 0 \in Bit /\ 1 \in Bit
    BY PathType DEF Bit
<1>2. /\ Len(Append(p, 0)) = Len(p) + 1 /\ Len(Append(p, 1)) = Len(p) + 1
      /\ Append(p, 0)[Len(p) + 1] = 0 /\ Append(p, 1)[Len(p) + 1] = 1
      /\ \A j \in 1..Len(p) : Append(p, 0)[j] = p[j] /\ Append(p, 1)[j] = p[j]
    BY <1>1, PathChild
<1> DEFINE i == Len(p) + 1
<1>3. i \in 1..Len(Append(p, 0)) /\ i <= Len(Append(p, 1)) /\ 1..(i - 1) = 1..Len(p)
    BY <1>1, <1>2
<1> QED BY <1>2, <1>3 DEF LeftOf

\* The first and the last address of a path
LEMMA FirstAddressType ==
    ASSUME NEW p \in Path, NEW i \in 1..W
    PROVE  /\ FirstAddress(p)[i] \in Bit
           /\ i \in 1..Len(p) => FirstAddress(p)[i] = p[i]
           /\ i \notin 1..Len(p) => FirstAddress(p)[i] = 0
<1>1. i \in Nat /\ i > 0 /\ Len(p) \in Nat
    BY PathType, WidthAssumption
<1>2. i <= Len(p) <=> i \in 1..Len(p)
    BY <1>1
<1>3. FirstAddress(p)[i] = IF i <= Len(p) THEN p[i] ELSE 0
    BY DEF FirstAddress
<1> QED BY <1>2, <1>3, PathType DEF Bit

\* What is left comes first in the order of loc_network_cmp.
LEMMA LeftIsLess ==
    ASSUME NEW p \in Path, NEW q \in Path, LeftOf(p, q)
    PROVE  NetworkLess(p, q)
<1>1. PICK i \in 1..Len(p) : i <= Len(q) /\ p[i] = 0 /\ q[i] = 1 /\ \A j \in 1..(i - 1) : p[j] = q[j]
    BY DEF LeftOf
<1>2. Len(p) \in Nat /\ Len(q) \in Nat /\ Len(p) <= W /\ Len(q) <= W /\ i \in Nat
    BY PathType
<1>3. i \in 1..W /\ i \in 1..Len(q) /\ \A j \in 1..(i - 1) : j \in 1..W /\ j \in 1..Len(p) /\ j \in 1..Len(q)
    BY <1>1, <1>2, WidthAssumption
<1>4. FirstAddress(p)[i] = 0 /\ FirstAddress(q)[i] = 1
    BY <1>1, <1>3, FirstAddressType
<1>5. \A j \in 1..(i - 1) : FirstAddress(p)[j] = FirstAddress(q)[j]
    BY <1>1, <1>3, FirstAddressType
<1>6. FirstAddress(p)[i] < FirstAddress(q)[i]
    BY <1>4
<1> QED BY <1>3, <1>5, <1>6 DEF NetworkLess, Less

\* And so does what leads to the other.
LEMMA LeadingIsLess ==
    ASSUME NEW p \in Path, NEW q \in Path, Leads(p, q), p # q
    PROVE  NetworkLess(p, q)
<1> DEFINE a == FirstAddress(p)
           b == FirstAddress(q)
           D == {i \in 1..W : a[i] # b[i]}
<1>1. Len(p) \in Nat /\ Len(q) \in Nat /\ Len(p) < Len(q)
    BY LeadsByChild, PathType
<1>2. \A i \in 1..Len(p) : p[i] = q[i] /\ i \in 1..Len(q)
    BY <1>1 DEF Leads, OnPath
<1>3. \A i \in 1..W : a[i] \in Bit /\ b[i] \in Bit
    BY FirstAddressType
<1>4. ASSUME NEW i \in D PROVE a[i] < b[i]
    <2>1. i \notin 1..Len(p)
        BY <1>2, FirstAddressType
    <2>2. a[i] = 0
        BY <2>1, FirstAddressType
    <2> QED BY <1>3, <2>2 DEF Bit
<1>5. CASE D = {}
    <2>1. a = b
        <3>1. \A i \in 1..W : a[i] = b[i]
            BY <1>5
        <3> QED BY <3>1 DEF FirstAddress
    <2> QED BY <1>1, <2>1 DEF NetworkLess
<1>6. CASE D # {}
    <2>1. D \in SUBSET Nat
        BY WidthAssumption
    <2>2. PICK i \in D : \A m \in D : i <= m
        BY <1>6, <2>1, SmallestMember
    <2>3. \A j \in 1..(i - 1) : a[j] = b[j]
        <3> TAKE j \in 1..(i - 1)
        <3>1. j \in 1..W /\ ~(i <= j)
            BY WidthAssumption
        <3> QED BY <2>2, <3>1
    <2> QED BY <1>4, <2>2, <2>3 DEF NetworkLess, Less
<1> QED BY <1>5, <1>6

\* Two paths that lead to each other are the same, and of two different ones each
\* leads to the other or is on its left.
LEMMA LeadsBothWays ==
    ASSUME NEW p \in Path, NEW q \in Path, Leads(p, q), Leads(q, p)
    PROVE  p = q
<1>1. p \in Seq(Bit) /\ q \in Seq(Bit) /\ Len(p) \in Nat /\ Len(q) \in Nat
    BY PathType
<1>2. Len(p) = Len(q) /\ \A i \in 1..Len(p) : p[i] = q[i]
    BY <1>1 DEF Leads, OnPath
<1> QED BY <1>1, <1>2, SeqEqual

LEMMA PathsCompare ==
    ASSUME NEW p \in Path, NEW q \in Path
    PROVE  Leads(p, q) \/ Leads(q, p) \/ LeftOf(p, q) \/ LeftOf(q, p)
<1> DEFINE D == {i \in 1..Len(p) : i <= Len(q) /\ p[i] # q[i]}
<1>1. /\ Len(p) \in Nat /\ Len(q) \in Nat
      /\ (\A i \in 1..Len(p) : p[i] \in Bit) /\ (\A i \in 1..Len(q) : q[i] \in Bit)
    BY PathType
<1>2. CASE D = {}
    <2>1. CASE Len(p) <= Len(q)
        <3>1. \A i \in 1..Len(p) : i <= Len(q)
            BY <1>1, <2>1
        <3>2. \A i \in 1..Len(p) : p[i] = q[i]
            BY <1>2, <3>1
        <3> QED BY <2>1, <3>2 DEF Leads, OnPath
    <2>2. CASE ~(Len(p) <= Len(q))
        <3>1. Len(q) <= Len(p) /\ \A i \in 1..Len(q) : i \in 1..Len(p) /\ i <= Len(q)
            BY <1>1, <2>2
        <3>2. \A i \in 1..Len(q) : q[i] = p[i]
            BY <1>2, <3>1
        <3> QED BY <3>1, <3>2 DEF Leads, OnPath
    <2> QED BY <2>1, <2>2
<1>3. CASE D # {}
    <2>1. D \in SUBSET Nat
        BY <1>1
    <2>2. PICK i \in D : \A m \in D : i <= m
        BY <1>3, <2>1, SmallestMember
    <2>3. i \in 1..Len(p) /\ i \in 1..Len(q) /\ i <= Len(p) /\ i <= Len(q) /\ p[i] # q[i]
        BY <1>1
    <2>4. \A j \in 1..(i - 1) : p[j] = q[j]
        <3> TAKE j \in 1..(i - 1)
        <3>1. j \in 1..Len(p) /\ j <= Len(q) /\ ~(i <= j)
            BY <1>1, <2>3
        <3> QED BY <2>2, <3>1
    <2>5. (p[i] = 0 /\ q[i] = 1) \/ (p[i] = 1 /\ q[i] = 0)
        BY <1>1, <2>3 DEF Bit
    <2> QED BY <2>3, <2>4, <2>5 DEF LeftOf
<1> QED BY <1>2, <1>3

\* Two paths that lead to the same place are in line.
LEMMA LeadsFromBoth ==
    ASSUME NEW p \in Path, NEW q \in Path, NEW r \in Path, Leads(p, r), Leads(q, r)
    PROVE  Leads(p, q) \/ Leads(q, p)
<1>1. ~LeftOf(p, q) /\ ~LeftOf(q, p)
    BY LeftLeads, LeftIsApart
<1> QED BY <1>1, PathsCompare

\* Being left of is a strict order.
LEMMA LeftOn ==
    ASSUME NEW p \in Path, NEW q \in Path, NEW r \in Path, LeftOf(p, q), LeftOf(q, r)
    PROVE  LeftOf(p, r)
<1>1. PICK i \in 1..Len(p) : i <= Len(q) /\ p[i] = 0 /\ q[i] = 1 /\ \A j \in 1..(i - 1) : p[j] = q[j]
    BY DEF LeftOf
<1>2. PICK k \in 1..Len(q) : k <= Len(r) /\ q[k] = 0 /\ r[k] = 1 /\ \A j \in 1..(k - 1) : q[j] = r[j]
    BY DEF LeftOf
<1>3. Len(p) \in Nat /\ Len(q) \in Nat /\ Len(r) \in Nat /\ i \in Nat /\ k \in Nat
    BY PathType
<1>4. CASE i < k
    <2>1. i <= Len(r) /\ i \in 1..(k - 1) /\ \A j \in 1..(i - 1) : j \in 1..(k - 1)
        BY <1>2, <1>3, <1>4
    <2>2. r[i] = 1 /\ \A j \in 1..(i - 1) : p[j] = r[j]
        BY <1>1, <1>2, <2>1
    <2> QED BY <1>1, <2>1, <2>2 DEF LeftOf
<1>5. CASE k < i
    <2>1. k \in 1..Len(p) /\ k \in 1..(i - 1) /\ \A j \in 1..(k - 1) : j \in 1..(i - 1)
        BY <1>1, <1>3, <1>5
    <2>2. p[k] = 0 /\ \A j \in 1..(k - 1) : p[j] = r[j]
        BY <1>1, <1>2, <2>1
    <2> QED BY <1>2, <2>1, <2>2 DEF LeftOf
<1>6. i # k
    BY <1>1, <1>2
<1> QED BY <1>3, <1>4, <1>5, <1>6

LEMMA LeftOneWay ==
    ASSUME NEW p \in Path, NEW q \in Path, LeftOf(p, q)
    PROVE  ~LeftOf(q, p)
BY LeftOn, LeftIsApart

\* An address is a path, and the order of addresses is that of paths.
LEMMA AddressIsPath ==
    ASSUME NEW a \in Address
    PROVE  a \in Path /\ Len(a) = W
<1>1. W \in 0..W /\ W \in Nat /\ a \in [1..W -> Bit]
    BY WidthAssumption DEF Address
<1>2. a \in Seq(Bit)
    BY <1>1, SeqDef
<1>3. Len(a) = W
    BY <1>1, <1>2, LenProperties
<1> QED BY <1>1, <1>3 DEF Path

LEMMA LessIsLeft ==
    ASSUME NEW a \in Address, NEW b \in Address
    PROVE  Less(a, b) <=> LeftOf(a, b)
<1>1. Len(a) = W /\ Len(b) = W /\ W \in Nat
    BY AddressIsPath, WidthAssumption
<1>2. \A i \in 1..W : i <= W /\ a[i] \in Bit /\ b[i] \in Bit
    BY <1>1 DEF Address
<1>3. \A i \in 1..W : a[i] < b[i] <=> a[i] = 0 /\ b[i] = 1
    BY <1>2 DEF Bit
<1> QED BY <1>1, <1>2, <1>3 DEF Less, LeftOf

\* A path leads to its first and its last address.
LEMMA LeadsToEnds ==
    ASSUME NEW p \in Path
    PROVE  /\ FirstAddress(p) \in Address /\ LastAddress(p) \in Address
           /\ Leads(p, FirstAddress(p)) /\ Leads(p, LastAddress(p))
<1>1. Len(p) \in Nat /\ Len(p) <= W /\ W \in Nat /\ \A i \in 1..Len(p) : p[i] \in Bit
    BY PathType, WidthAssumption
<1>2. \A i \in 1..W : i <= Len(p) => i \in 1..Len(p)
    BY <1>1
<1>3. FirstAddress(p) \in Address /\ LastAddress(p) \in Address
    BY <1>1, <1>2 DEF FirstAddress, LastAddress, Address, Bit
<1>4. Len(FirstAddress(p)) = W /\ Len(LastAddress(p)) = W
    BY <1>3, AddressIsPath
<1>5. \A i \in 1..Len(p) : i \in 1..W /\ i <= Len(p)
    BY <1>1
<1>6. \A i \in 1..Len(p) : FirstAddress(p)[i] = p[i] /\ LastAddress(p)[i] = p[i]
    BY <1>5 DEF FirstAddress, LastAddress
<1> QED BY <1>1, <1>3, <1>4, <1>6 DEF Leads, OnPath

\* No path is left of the first address of what it leads to, or on the right of
\* the last one.
LEMMA EndsOfLeads ==
    ASSUME NEW p \in Path, NEW q \in Path, Leads(p, q)
    PROVE  /\ ~LeftOf(FirstAddress(q), FirstAddress(p))
           /\ ~LeftOf(LastAddress(p), LastAddress(q))
<1>1. /\ Len(p) \in Nat /\ Len(q) \in Nat /\ Len(p) <= Len(q) /\ Len(q) <= W
      /\ \A i \in 1..Len(p) : p[i] = q[i]
    BY PathType DEF Leads, OnPath
<1>2. ASSUME NEW i \in 1..W
      PROVE  /\ ~(FirstAddress(q)[i] = 0 /\ FirstAddress(p)[i] = 1)
             /\ ~(LastAddress(p)[i] = 0 /\ LastAddress(q)[i] = 1)
    <2>1. /\ FirstAddress(p)[i] = IF i <= Len(p) THEN p[i] ELSE 0
          /\ LastAddress(p)[i] = IF i <= Len(p) THEN p[i] ELSE 1
          /\ FirstAddress(q)[i] = IF i <= Len(q) THEN q[i] ELSE 0
          /\ LastAddress(q)[i] = IF i <= Len(q) THEN q[i] ELSE 1
        BY DEF FirstAddress, LastAddress
    <2>2. i <= Len(p) => i <= Len(q) /\ p[i] = q[i]
        BY <1>1, WidthAssumption
    <2> QED BY <2>1, <2>2
<1>3. Len(FirstAddress(q)) = W /\ Len(LastAddress(p)) = W
    BY LeadsToEnds, AddressIsPath
<1> QED BY <1>2, <1>3 DEF LeftOf

\* A network has the addresses it leads to.
LEMMA MatchesIsLeads ==
    ASSUME NEW p \in Path, NEW a \in Address
    PROVE  /\ MatchesAddress(p, a) <=> Leads(p, a)
           /\ OnPath(p, a) <=> Leads(p, a)
<1>1. a \in Path /\ Len(a) = W /\ Len(p) <= W
    BY AddressIsPath, PathType
<1>2. OnPath(p, a) <=> Leads(p, a)
    BY <1>1 DEF Leads
<1>3. Leads(p, a) => MatchesAddress(p, a)
    BY <1>2, OnPathMatches
<1>4. ASSUME MatchesAddress(p, a) PROVE Leads(p, a)
    <2>1. ~LeftOf(a, FirstAddress(p)) /\ ~LeftOf(LastAddress(p), a)
        BY <1>4, LeadsToEnds, LessIsLeft DEF MatchesAddress
    <2>2. /\ FirstAddress(p) \in Path /\ LastAddress(p) \in Path /\ Leads(a, a)
          /\ Leads(p, FirstAddress(p)) /\ Leads(p, LastAddress(p))
        BY <1>1, LeadsToEnds, AddressIsPath, LeadsToItself
    <2>3. ~LeftOf(a, p) /\ ~LeftOf(p, a)
        BY <1>1, <2>1, <2>2, LeftLeads
    <2>4. ASSUME Leads(a, p) PROVE Leads(p, a)
        <3>1. Len(p) = Len(a) /\ \A i \in 1..Len(a) : a[i] = p[i]
            BY <1>1, <2>4, PathType, WidthAssumption DEF Leads, OnPath
        <3> QED BY <1>1, <3>1, WidthAssumption DEF Leads, OnPath
    <2> QED BY <1>1, <2>3, <2>4, PathsCompare
<1> QED BY <1>2, <1>3, <1>4

\* The order of loc_network_cmp: what is left comes first, and what leads to the other.
LEMMA LessIsLeftOrLeads ==
    ASSUME NEW p \in Path, NEW q \in Path
    PROVE  NetworkLess(p, q) <=> LeftOf(p, q) \/ (Leads(p, q) /\ p # q)
<1>1. LeftOf(p, q) \/ (Leads(p, q) /\ p # q) => NetworkLess(p, q)
    BY LeftIsLess, LeadingIsLess
<1>2. ASSUME NetworkLess(p, q), NetworkLess(q, p) PROVE FALSE
    <2>1. /\ FirstAddress(p) \in Address /\ FirstAddress(q) \in Address
          /\ FirstAddress(p) \in Path /\ FirstAddress(q) \in Path
        BY LeadsToEnds, AddressIsPath
    <2>2. ~LeftOf(FirstAddress(p), FirstAddress(p))
        BY <2>1, LeftIsApart
    <2>3. ~(LeftOf(FirstAddress(p), FirstAddress(q)) /\ LeftOf(FirstAddress(q), FirstAddress(p)))
        BY <2>1, LeftOneWay
    <2>4. Less(FirstAddress(p), FirstAddress(q)) <=> LeftOf(FirstAddress(p), FirstAddress(q))
        BY <2>1, LessIsLeft
    <2>5. Less(FirstAddress(q), FirstAddress(p)) <=> LeftOf(FirstAddress(q), FirstAddress(p))
        BY <2>1, LessIsLeft
    <2>6. FirstAddress(p) = FirstAddress(q)
        BY <1>2, <2>2, <2>3, <2>4, <2>5 DEF NetworkLess
    <2>7. Len(p) < Len(q) /\ Len(q) < Len(p)
        BY <1>2, <2>2, <2>4, <2>5, <2>6 DEF NetworkLess
    <2> QED BY <2>7, PathType
<1>3. ASSUME NetworkLess(p, q) PROVE p # q
    BY <1>2, <1>3
<1>4. ASSUME NetworkLess(p, q) PROVE LeftOf(p, q) \/ Leads(p, q)
    BY <1>2, <1>3, <1>4, PathsCompare, LeftIsLess, LeadingIsLess
<1> QED BY <1>1, <1>3, <1>4

\* It is a strict order, and one of any two networks is the first.
LEMMA LessIsStrict ==
    /\ \A p, q \in Path : NetworkLess(p, q) => ~NetworkLess(q, p) /\ p # q
    /\ \A p, q, r \in Path : NetworkLess(p, q) /\ NetworkLess(q, r) => NetworkLess(p, r)
    /\ \A p, q \in Path : p = q \/ NetworkLess(p, q) \/ NetworkLess(q, p)
<1>1. ASSUME NEW p \in Path, NEW q \in Path, NetworkLess(p, q)
      PROVE  ~NetworkLess(q, p) /\ p # q
    BY <1>1, LessIsLeftOrLeads, LeftIsApart, LeftOneWay, LeadsBothWays
<1>2. ASSUME NEW p \in Path, NEW q \in Path, NEW r \in Path, NetworkLess(p, q), NetworkLess(q, r)
      PROVE  NetworkLess(p, r)
    <2>1. Leads(p, p) /\ Leads(q, q) /\ Leads(r, r)
        BY LeadsToItself
    <2>2. CASE LeftOf(p, q) /\ LeftOf(q, r)
        BY <2>2, LeftOn, LessIsLeftOrLeads
    <2>3. CASE LeftOf(p, q) /\ Leads(q, r)
        BY <2>1, <2>3, LeftLeads, LessIsLeftOrLeads
    <2>4. CASE Leads(p, q) /\ p # q /\ Leads(q, r)
        BY <2>4, LeadsOn, LeadsBothWays, LessIsLeftOrLeads
    <2>5. CASE Leads(p, q) /\ LeftOf(q, r)
        <3>1. ~Leads(r, p)
            BY <2>5, LeadsOn, LeftIsApart
        <3>2. ~LeftOf(r, p)
            BY <2>1, <2>5, LeftLeads, LeftOneWay
        <3>3. p # r
            BY <2>5, LeftIsApart
        <3> QED BY <3>1, <3>2, <3>3, PathsCompare, LessIsLeftOrLeads
    <2> QED BY <1>2, <2>2, <2>3, <2>4, <2>5, LessIsLeftOrLeads
<1>3. ASSUME NEW p \in Path, NEW q \in Path
      PROVE  p = q \/ NetworkLess(p, q) \/ NetworkLess(q, p)
    BY PathsCompare, LessIsLeftOrLeads
<1> QED BY <1>1, <1>2, <1>3

-----------------------------------------------------------------------------
(* Networks inside each other and with addresses in common *)

\* A network is inside the ones that lead to it.
LEMMA WithinIsLeads ==
    ASSUME NEW p \in Path, NEW q \in Path
    PROVE  <<q, p>> \in Within <=> Leads(p, q)
<1>1. From[p] = FirstAddress(p) /\ From[q] = FirstAddress(q)
    BY DEF From
<1>2. Upto[p] = LastAddress(p) /\ Upto[q] = LastAddress(q)
    BY DEF Upto
<1>3. /\ FirstAddress(p) \in Address /\ FirstAddress(p) \in Path /\ Leads(p, FirstAddress(p))
      /\ FirstAddress(q) \in Address /\ FirstAddress(q) \in Path /\ Leads(q, FirstAddress(q))
    BY LeadsToEnds, AddressIsPath
<1>4. /\ LastAddress(p) \in Address /\ LastAddress(p) \in Path /\ Leads(p, LastAddress(p))
      /\ LastAddress(q) \in Address /\ LastAddress(q) \in Path /\ Leads(q, LastAddress(q))
    BY LeadsToEnds, AddressIsPath
<1>5. <<q, p>> \in Within <=> IsSubnet(p, q)
    BY DEF Within
<1>6. Less(From[q], From[p]) <=> LeftOf(FirstAddress(q), FirstAddress(p))
    BY <1>1, <1>3, LessIsLeft
<1>7. Less(Upto[p], Upto[q]) <=> LeftOf(LastAddress(p), LastAddress(q))
    BY <1>2, <1>4, LessIsLeft
<1>8. ASSUME Leads(p, q) PROVE IsSubnet(p, q)
    BY <1>6, <1>7, <1>8, EndsOfLeads DEF IsSubnet, Leads
<1>9. ASSUME IsSubnet(p, q) PROVE Leads(p, q)
    <2>1. /\ Len(p) <= Len(q)
          /\ ~LeftOf(FirstAddress(q), FirstAddress(p)) /\ ~LeftOf(LastAddress(p), LastAddress(q))
        BY <1>6, <1>7, <1>9 DEF IsSubnet
    <2>2. ~LeftOf(q, p) /\ ~LeftOf(p, q)
        BY <1>3, <1>4, <2>1, LeftLeads
    <2>3. ASSUME Leads(q, p) PROVE Leads(p, q)
        <3>1. Len(p) = Len(q) /\ \A i \in 1..Len(q) : q[i] = p[i]
            BY <2>1, <2>3, PathType DEF Leads, OnPath
        <3> QED BY <2>1, <3>1 DEF Leads, OnPath
    <2> QED BY <2>2, <2>3, PathsCompare
<1> QED BY <1>5, <1>8, <1>9

\* Two networks have an address in common when one is inside the other.
LEMMA MeetingIsLeads ==
    ASSUME NEW p \in Path, NEW q \in Path
    PROVE  <<p, q>> \in Meeting <=> Leads(p, q) \/ Leads(q, p)
<1>1. From[p] = FirstAddress(p) /\ From[q] = FirstAddress(q)
    BY DEF From
<1>2. Upto[p] = LastAddress(p) /\ Upto[q] = LastAddress(q)
    BY DEF Upto
<1>3. /\ From[p] \in Address /\ From[p] \in Path /\ Leads(p, From[p])
      /\ From[q] \in Address /\ From[q] \in Path /\ Leads(q, From[q])
    BY <1>1, LeadsToEnds, AddressIsPath
<1>4. /\ Upto[p] \in Address /\ Upto[p] \in Path /\ Leads(p, Upto[p])
      /\ Upto[q] \in Address /\ Upto[q] \in Path /\ Leads(q, Upto[q])
    BY <1>2, LeadsToEnds, AddressIsPath
<1>5. <<p, q>> \in Meeting <=> Overlaps(p, q)
    BY DEF Meeting
<1>6. MatchesAddress(p, From[q]) <=> Leads(p, From[q])
    BY <1>3, MatchesIsLeads
<1>7. MatchesAddress(q, From[p]) <=> Leads(q, From[p])
    BY <1>3, MatchesIsLeads
<1>8. MatchesAddress(p, Upto[q]) <=> Leads(p, Upto[q])
    BY <1>4, MatchesIsLeads
<1>9. MatchesAddress(q, Upto[p]) <=> Leads(q, Upto[p])
    BY <1>4, MatchesIsLeads
<1>10. Overlaps(p, q) => Leads(p, q) \/ Leads(q, p)
    BY <1>3, <1>4, <1>6, <1>7, <1>8, <1>9, LeadsFromBoth DEF Overlaps
<1>11. Leads(p, q) => Leads(p, From[q])
    BY <1>3, LeadsOn
<1>12. Leads(q, p) => Leads(q, From[p])
    BY <1>3, LeadsOn
<1> QED BY <1>5, <1>6, <1>7, <1>10, <1>11, <1>12 DEF Overlaps

\* Being inside is a partial order.
LEMMA InsideIsOrder ==
    /\ \A p \in Path : <<p, p>> \in Within
    /\ \A p, q \in Path : <<q, p>> \in Within /\ <<p, q>> \in Within => p = q
    /\ \A p, q, r \in Path : <<q, p>> \in Within /\ <<r, q>> \in Within => <<r, p>> \in Within
BY WithinIsLeads, LeadsToItself, LeadsBothWays, LeadsOn

\* Networks have an address in common when one is inside the other.
LEMMA MeetingOrder ==
    /\ \A p, q \in Path : <<p, q>> \in Meeting <=> <<p, q>> \in Within \/ <<q, p>> \in Within
    /\ \A p, q, r \in Path : <<r, p>> \in Within /\ <<r, q>> \in Within => <<p, q>> \in Meeting
    /\ \A p, q, r \in Path : <<r, q>> \in Within /\ <<p, r>> \in Meeting => <<p, q>> \in Meeting
<1>1. ASSUME NEW p \in Path, NEW q \in Path
      PROVE  <<p, q>> \in Meeting <=> <<p, q>> \in Within \/ <<q, p>> \in Within
    BY MeetingIsLeads, WithinIsLeads
<1>2. ASSUME NEW p \in Path, NEW q \in Path, NEW r \in Path,
             <<r, p>> \in Within, <<r, q>> \in Within
      PROVE  <<p, q>> \in Meeting
    BY <1>2, MeetingIsLeads, WithinIsLeads, LeadsFromBoth
<1>3. ASSUME NEW p \in Path, NEW q \in Path, NEW r \in Path,
             <<r, q>> \in Within, <<p, r>> \in Meeting
      PROVE  <<p, q>> \in Meeting
    BY <1>1, <1>2, <1>3, InsideIsOrder
<1> QED BY <1>1, <1>2, <1>3

\* The addresses of a network are those inside it.
LEMMA OnPathIsWithin ==
    ASSUME NEW p \in Path, NEW a \in Address
    PROVE  a \in Path /\ (OnPath(p, a) <=> <<a, p>> \in Within)
BY AddressIsPath, MatchesIsLeads, WithinIsLeads

-----------------------------------------------------------------------------
(* What is left of a network *)

LEMMA RemainingPaths ==
    ASSUME NEW p \in Path, NEW others \in SUBSET Path
    PROVE  /\ \A q \in Remaining(p, others) :
                 /\ q \in Path /\ <<q, p>> \in Within /\ q # p
                 /\ \A other \in others : <<q, other>> \notin Meeting
           /\ \A q, r \in Remaining(p, others) : q # r => <<q, r>> \notin Meeting
<1>1. ASSUME NEW q \in Remaining(p, others)
      PROVE  /\ q \in Path /\ <<q, p>> \in Within /\ q # p
             /\ \A other \in others : <<q, other>> \notin Meeting
    BY DEF Remaining, Meets
<1>2. ASSUME NEW q \in Remaining(p, others), NEW r \in Remaining(p, others), q # r,
             <<r, q>> \in Within
      PROVE  FALSE
    <2>1. q \in Path /\ r \in Path /\ Leads(q, r)
        BY <1>1, <1>2, WithinIsLeads
    <2>2. Len(q) \in Nat /\ Len(r) \in Nat /\ Len(q) < Len(r)
        BY <1>2, <2>1, LeadsByChild, PathType
    <2>3. Front(r) = SubSeq(r, 1, Len(r) - 1)
        BY DEF Front
    <2>4. Len(r) - 1 \in 0..Len(r) /\ Len(q) <= Len(r) - 1
        BY <2>2
    <2>5. /\ Front(r) \in Path /\ Len(Front(r)) = Len(r) - 1
          /\ \A i \in 1..(Len(r) - 1) : Front(r)[i] = r[i]
        BY <2>1, <2>3, <2>4, PathPrefix
    <2>6. \A i \in 1..Len(q) : i \in 1..(Len(r) - 1)
        BY <2>2, <2>4
    <2>7. Leads(q, Front(r))
        BY <2>1, <2>4, <2>5, <2>6 DEF Leads, OnPath
    <2>8. <<Front(r), q>> \in Within
        BY <2>1, <2>5, <2>7, WithinIsLeads
    <2>9. PICK other \in others : <<Front(r), other>> \in Meeting
        BY DEF Remaining, Meets
    <2>10. <<q, other>> \in Meeting
        BY <2>1, <2>5, <2>8, <2>9, MeetingOrder
    <2> QED BY <1>1, <2>10
<1>3. ASSUME NEW q \in Remaining(p, others), NEW r \in Remaining(p, others), q # r
      PROVE  <<q, r>> \notin Meeting
    BY <1>1, <1>2, <1>3, MeetingOrder
<1> QED BY <1>1, <1>3

\* An address of the network that no other one has is on a path that is left.
LEMMA RemainingIsAll ==
    ASSUME NEW p \in Path, NEW others \in SUBSET Path, NEW a \in Address, OnPath(p, a),
           \E other \in others : <<other, p>> \in Within /\ other # p,
           \A other \in others : ~OnPath(other, a)
    PROVE  \E q \in Remaining(p, others) : OnPath(q, a)
<1> DEFINE S == {n \in 0..W : Len(p) < n /\ ~Meets(Masked(a, n), others)}
<1>1. W \in Nat /\ W \in 0..W /\ S \in SUBSET Nat
    BY WidthAssumption
<1>2. PICK inside \in others : <<inside, p>> \in Within /\ inside # p
    OBVIOUS
<1>3. Len(p) \in Nat /\ Len(inside) \in Nat /\ Len(p) < Len(inside) /\ Len(inside) <= W
    BY <1>2, WithinIsLeads, LeadsByChild, PathType
<1>4. Len(p) < W /\ p = Masked(a, Len(p))
    BY <1>1, <1>3, OnPathMasked
<1>5. W \in S
    <2>1. Masked(a, W) = a
        BY AddressIsPath DEF Masked, Address
    <2>2. a \in Path /\ Len(a) = W
        BY AddressIsPath
    <2>3. ASSUME NEW other \in others, <<a, other>> \in Meeting PROVE FALSE
        <3>1. Leads(a, other) \/ Leads(other, a)
            BY <2>2, <2>3, MeetingIsLeads
        <3>2. ~Leads(other, a)
            BY MatchesIsLeads
        <3>3. Len(other) = W /\ \A i \in 1..W : a[i] = other[i]
            BY <1>1, <2>2, <3>1, <3>2, PathType DEF Leads, OnPath
        <3> QED BY <3>3 DEF OnPath
    <2> QED BY <1>1, <1>4, <2>1, <2>3 DEF Meets
<1>6. PICK n \in S : \A m \in S : n <= m
    BY <1>1, <1>5, SmallestMember
<1> DEFINE q == Masked(a, n)
<1>7. n \in 0..W /\ n \in Nat /\ Len(p) < n /\ ~Meets(q, others)
    BY <1>1
<1>8. q \in Path /\ Len(q) = n /\ OnPath(q, a)
    BY <1>7, MaskedPath
<1>9. n - 1 \in 0..n /\ n - 1 \in 0..W /\ Len(p) <= n - 1
    BY <1>1, <1>3, <1>7
<1>10. Front(q) = Masked(a, n - 1)
    BY <1>7, <1>8, <1>9, MaskedPrefix DEF Front
<1>11. Meets(Front(q), others)
    <2>1. CASE n - 1 = Len(p)
        <3>1. <<p, inside>> \in Meeting
            BY <1>2, MeetingOrder
        <3> QED BY <1>4, <1>10, <2>1, <3>1 DEF Meets
    <2>2. CASE n - 1 # Len(p)
        <3>1. Len(p) < n - 1 /\ ~(n <= n - 1)
            BY <1>3, <1>7, <1>9, <2>2
        <3>2. n - 1 \notin S
            BY <1>6, <3>1
        <3> QED BY <1>9, <1>10, <3>1, <3>2
    <2> QED BY <2>1, <2>2
<1>12. <<q, p>> \in Within /\ p # q
    <2>1. Leads(p, a) /\ Leads(q, a) /\ a \in Path
        BY <1>8, MatchesIsLeads, AddressIsPath
    <2>2. ~Leads(q, p)
        BY <1>3, <1>7, <1>8 DEF Leads
    <2>3. Leads(p, q)
        BY <1>8, <2>1, <2>2, LeadsFromBoth
    <2> QED BY <1>3, <1>7, <1>8, <2>3, WithinIsLeads
<1>13. q \in Remaining(p, others)
    BY <1>7, <1>8, <1>11, <1>12 DEF Remaining
<1> QED BY <1>8, <1>13

-----------------------------------------------------------------------------
(* The arithmetic of addresses *)

LEMMA MaxOf ==
    ASSUME NEW S \in SUBSET (1..W), S # {}
    PROVE  Max(S) \in S /\ \A i \in S : i <= Max(S)
<1>1. W \in Nat /\ \A i \in S : i \in Nat /\ W - i \in Nat
    BY WidthAssumption
<1> DEFINE T == {W - i : i \in S}
<1>2. T \in SUBSET Nat /\ T # {}
    BY <1>1
<1>3. PICK n \in T : \A m \in T : n <= m
    BY <1>2, SmallestMember
<1>4. PICK k \in S : n = W - k
    BY <1>3
<1>5. \A i \in S : k >= i
    <2> TAKE i \in S
    <2>1. n <= W - i
        BY <1>3
    <2> QED BY <1>1, <1>4, <2>1
<1>6. Max(S) \in S /\ \A i \in S : Max(S) >= i
    BY <1>5 DEF Max
<1> QED BY <1>1, <1>6

\* loc_address_increment: the last zero becomes a one, the ones behind it zeroes.
LEMMA IncrementIs ==
    ASSUME NEW a \in Address, ~IsAllOnes(a), NEW c \in Zeroes(a), \A i \in Zeroes(a) : i <= c
    PROVE  /\ c \in 1..W
           /\ Increment(a) = [i \in 1..W |-> IF i < c THEN a[i] ELSE IF i = c THEN 1 ELSE 0]
<1>1. W \in Nat /\ V4Len \in Nat
    BY WidthAssumption, V4Assumption DEF V4Len
<1>2. Zeroes(a) \in SUBSET (1..W)
    BY <1>1 DEF Zeroes, Significant
<1>3. c \in 1..W /\ c \in Nat /\ c - 1 \in Nat /\ c <= W
    BY <1>1, <1>2
<1>4. Max(Zeroes(a)) = c
    <2>1. Max(Zeroes(a)) \in Zeroes(a) /\ c <= Max(Zeroes(a))
        BY <1>2, MaxOf
    <2>2. Max(Zeroes(a)) <= c /\ Max(Zeroes(a)) \in Nat
        BY <1>2, <2>1
    <2> QED BY <1>3, <2>1, <2>2
<1> DEFINE first == SubSeq(a, 1, c - 1)
           middle == first \o <<1>>
           last == SubSeq(AllZeroes, c + 1, W)
           all == middle \o last
           b == [i \in 1..W |-> IF i < c THEN a[i] ELSE IF i = c THEN 1 ELSE 0]
<1>5. Increment(a) = all
    BY <1>4 DEF Increment
<1>6. a \in Seq(Bit) /\ Len(a) = W /\ \A i \in 1..W : a[i] \in Bit
    BY AddressIsPath, PathType DEF Address
<1>7. AllZeroes \in Seq(Bit) /\ Len(AllZeroes) = W /\ \A i \in 1..W : AllZeroes[i] = 0
    <2>1. AllZeroes \in Address
        BY DEF AllZeroes, Address, Bit
    <2> QED BY <2>1, AddressIsPath, PathType DEF AllZeroes
<1>8. first \in Seq(Bit) /\ Len(first) = c - 1 /\ \A i \in 1..(c - 1) : first[i] = a[i]
    <2>1. \A i \in 1..(c - 1) : a[i] \in Bit
        BY <1>3, <1>6
    <2>2. /\ first \in Seq(Bit) /\ Len(first) = (IF 1 <= c - 1 THEN c - 1 - 1 + 1 ELSE 0)
          /\ \A i \in 1..(c - 1 - 1 + 1) : first[i] = a[1 + i - 1]
        BY <1>3, <2>1, SubSeqProperties
    <2> HIDE DEF first
    <2>3. c - 1 - 1 + 1 = c - 1 /\ \A i \in 1..(c - 1) : 1 + i - 1 = i
        BY <1>3
    <2> QED BY <1>3, <2>2, <2>3
<1>9. last \in Seq(Bit) /\ Len(last) = W - c /\ \A i \in 1..(W - c) : last[i] = 0
    <2>1. \A i \in (c + 1)..W : i \in 1..W
        BY <1>3
    <2>2. \A i \in (c + 1)..W : AllZeroes[i] \in Bit
        BY <1>7, <2>1 DEF Bit
    <2>3. /\ last \in Seq(Bit) /\ Len(last) = (IF c + 1 <= W THEN W - (c + 1) + 1 ELSE 0)
          /\ \A i \in 1..(W - (c + 1) + 1) : last[i] = AllZeroes[c + 1 + i - 1]
        BY <1>1, <1>3, <2>2, SubSeqProperties
    <2> HIDE DEF last
    <2>4. W - (c + 1) + 1 = W - c /\ \A i \in 1..(W - c) : c + 1 + i - 1 \in 1..W
        BY <1>1, <1>3
    <2> QED BY <1>1, <1>3, <1>7, <2>3, <2>4
<1> HIDE DEF first, last
<1>10. /\ middle \in Seq(Bit) /\ Len(middle) = c
       /\ (\A i \in 1..(c - 1) : middle[i] = a[i]) /\ middle[c] = 1
    <2>1. <<1>> \in Seq(Bit) /\ Len(<<1>>) = 1 /\ <<1>>[1] = 1
        BY DEF Bit
    <2>2. /\ middle \in Seq(Bit) /\ Len(middle) = Len(first) + Len(<<1>>)
          /\ \A i \in 1..(Len(first) + Len(<<1>>)) :
                middle[i] = IF i <= Len(first) THEN first[i] ELSE <<1>>[i - Len(first)]
        BY <1>8, <2>1, ConcatProperties
    <2> HIDE DEF middle
    <2>3. /\ c - 1 + 1 = c /\ c \in 1..c /\ ~(c <= c - 1) /\ c - (c - 1) = 1
          /\ \A i \in 1..(c - 1) : i \in 1..c /\ i <= c - 1
        BY <1>3
    <2>4. middle[c] = <<1>>[c - (c - 1)]
        BY <1>8, <2>1, <2>2, <2>3
    <2> QED BY <1>8, <2>1, <2>2, <2>3, <2>4
<1> HIDE DEF middle
<1>11. /\ all \in Seq(Bit) /\ Len(all) = c + (W - c)
       /\ \A i \in 1..(c + (W - c)) : all[i] = IF i <= c THEN middle[i] ELSE last[i - c]
    <2>1. /\ all \in Seq(Bit) /\ Len(all) = Len(middle) + Len(last)
          /\ \A i \in 1..(Len(middle) + Len(last)) :
                all[i] = IF i <= Len(middle) THEN middle[i] ELSE last[i - Len(middle)]
        BY <1>9, <1>10, ConcatProperties
    <2> HIDE DEF all
    <2> QED BY <1>9, <1>10, <2>1
<1>12. c + (W - c) = W
    BY <1>1, <1>3
<1> HIDE DEF all
<1>13. ASSUME NEW i \in 1..W PROVE all[i] = b[i]
    <2>1. i < c \/ i = c \/ i > c
        BY <1>3
    <2>2. i < c => i \in 1..(c - 1) /\ i <= c
        BY <1>3
    <2>3. i > c => i - c \in 1..(W - c) /\ ~(i <= c) /\ ~(i < c) /\ i # c
        BY <1>1, <1>3
    <2>4. b[i] = IF i < c THEN a[i] ELSE IF i = c THEN 1 ELSE 0
        OBVIOUS
    <2> HIDE DEF b
    <2>5. CASE i < c
        BY <1>10, <1>11, <1>12, <2>2, <2>4, <2>5
    <2>6. CASE i = c
        BY <1>3, <1>10, <1>11, <1>12, <2>4, <2>6
    <2>7. CASE i > c
        BY <1>9, <1>11, <1>12, <2>3, <2>4, <2>7
    <2> QED BY <2>1, <2>5, <2>6, <2>7
<1>14. b \in Seq(Bit) /\ Len(b) = W
    <2>1. b \in Address
        BY <1>6 DEF Address, Bit
    <2> QED BY <2>1, AddressIsPath, PathType
<1> HIDE DEF b
<1>15. all = b
    BY <1>1, <1>11, <1>12, <1>13, <1>14, SeqEqual
<1> QED BY <1>3, <1>5, <1>15 DEF b

\* It is an address, and none that comes before.
LEMMA IncrementType ==
    ASSUME NEW a \in Address
    PROVE  /\ Increment(a) \in Address
           /\ ~Less(Increment(a), a)
<1>1. W \in Nat /\ V4Len \in Nat
    BY WidthAssumption, V4Assumption DEF V4Len
<1>2. \A i \in 1..W : a[i] \in Bit
    BY DEF Address
<1>3. CASE IsAllOnes(a)
    <2>1. Increment(a) = a
        BY <1>3 DEF Increment
    <2>2. \A i \in 1..W : ~(a[i] < a[i])
        BY <1>2 DEF Bit
    <2> QED BY <2>1, <2>2 DEF Less
<1>4. CASE ~IsAllOnes(a)
    <2>1. Zeroes(a) \in SUBSET (1..W) /\ Zeroes(a) # {}
        BY <1>1, <1>4 DEF Zeroes, Significant, IsAllOnes
    <2>2. PICK c \in Zeroes(a) : \A i \in Zeroes(a) : i <= c
        BY <2>1, MaxOf
    <2> DEFINE b == [i \in 1..W |-> IF i < c THEN a[i] ELSE IF i = c THEN 1 ELSE 0]
    <2>3. Increment(a) = b /\ c \in 1..W
        BY <1>4, <2>2, IncrementIs
    <2>4. b \in Address
        BY <1>2 DEF Address, Bit
    <2>5. a[c] = 0 /\ c \in Nat
        BY <1>2, <2>1 DEF Zeroes, Ones, Bit
    <2>6. ASSUME Less(b, a) PROVE FALSE
        <3>1. PICK i \in 1..W : b[i] < a[i] /\ \A j \in 1..(i - 1) : b[j] = a[j]
            BY <2>6 DEF Less
        <3>2. i < c \/ i = c \/ i > c
            BY <2>5
        <3>3. b[i] = IF i < c THEN a[i] ELSE IF i = c THEN 1 ELSE 0
            OBVIOUS
        <3>4. b[c] = 1
            BY <2>3
        <3> HIDE DEF b
        <3>5. CASE i < c
            BY <1>2, <3>1, <3>3, <3>5 DEF Bit
        <3>6. CASE i = c
            BY <2>5, <3>1, <3>4, <3>6
        <3>7. CASE i > c
            <4>1. c \in 1..(i - 1)
                BY <2>3, <2>5, <3>7
            <4> QED BY <2>5, <3>1, <3>4, <4>1
        <3> QED BY <3>2, <3>5, <3>6, <3>7
    <2> QED BY <2>3, <2>4, <2>6
<1> QED BY <1>3, <1>4

-----------------------------------------------------------------------------
(* Making networks of addresses *)

LEMMA NewIsMasked ==
    ASSUME NEW a \in Address, NEW prefix \in Int, ValidPrefix(a, prefix)
    PROVE  LET n == IF V4Mapped(a) THEN prefix + V4Len ELSE prefix
           IN  n \in 0..W /\ New(a, prefix) = Masked(a, n)
<1> DEFINE n == IF V4Mapped(a) THEN prefix + V4Len ELSE prefix
<1>1. W \in Nat /\ V4Len \in Nat
    BY WidthAssumption, V4Assumption DEF V4Len
<1>2. n \in 0..W
    BY <1>1 DEF ValidPrefix, FamilyBits
<1>3. New(a, prefix) = SubSeq(a, 1, n)
    BY DEF New
<1> HIDE DEF n
<1>4. a \in Path /\ Len(a) = W
    BY AddressIsPath
<1>5. /\ SubSeq(a, 1, n) \in Path /\ Len(SubSeq(a, 1, n)) = n
      /\ \A i \in 1..n : SubSeq(a, 1, n)[i] = a[i]
    BY <1>2, <1>4, PathPrefix
<1>6. OnPath(SubSeq(a, 1, n), a)
    BY <1>5 DEF OnPath
<1>7. SubSeq(a, 1, n) = Masked(a, n)
    BY <1>5, <1>6, OnPathMasked
<1> QED BY <1>2, <1>3, <1>7 DEF n

\* A network that is summarised starts at the start of what is left.
LEMMA FittingIsPath ==
    ASSUME NEW first \in Address, NEW last, NEW p \in Fitting(first, last)
    PROVE  p \in Path /\ Leads(p, first)
<1>1. PICK bits \in -1..W : /\ ValidPrefix(first, FamilyBits(first) - bits)
                            /\ p = New(first, FamilyBits(first) - bits)
    BY DEF Fitting
<1>2. W \in Nat /\ V4Len \in Nat
    BY WidthAssumption, V4Assumption DEF V4Len
<1>3. FamilyBits(first) - bits \in Int
    BY <1>1, <1>2 DEF FamilyBits
<1>4. PICK n \in 0..W : p = Masked(first, n)
    BY <1>1, <1>3, NewIsMasked
<1> QED BY <1>4, MaskedPath, MatchesIsLeads

\* Addresses from the last bit of a network's path on
LEMMA EndBits ==
    ASSUME NEW p \in Path, NEW i \in 1..W
    PROVE  /\ i <= Len(p) => FirstAddress(p)[i] = p[i] /\ LastAddress(p)[i] = p[i]
           /\ i > Len(p) => FirstAddress(p)[i] = 0 /\ LastAddress(p)[i] = 1
<1>1. i \in Nat /\ Len(p) \in Nat
    BY PathType, WidthAssumption
<1> QED BY <1>1 DEF FirstAddress, LastAddress

\* An IPv4 network is inside the IPv4 range.
LEMMA V4IsInside ==
    ASSUME NEW p \in Path
    PROVE  IsV4(p) <=> V4Len <= Len(p) /\ \A i \in 1..V4Len : p[i] = V4Prefix[i]
<1>1. W \in Nat /\ V4Len \in Nat /\ V4Len \in 1..W /\ V4Prefix[V4Len] = 1 /\ Len(p) \in Nat
    BY WidthAssumption, V4Assumption, PathType DEF V4Len
<1>2. \A i \in 1..V4Len : i \in 1..W
    BY <1>1
<1>3. V4Len > Len(p) => FirstAddress(p)[V4Len] = 0
    BY <1>1, EndBits
<1>4. V4Len \in 1..V4Len
    BY <1>1
<1>5. IsV4(p) => V4Len <= Len(p)
    BY <1>1, <1>3, <1>4 DEF IsV4, V4Mapped
<1>6. V4Len <= Len(p) => \A i \in 1..V4Len : i <= Len(p) /\ FirstAddress(p)[i] = p[i]
    BY <1>1, <1>2, EndBits
<1> QED BY <1>5, <1>6 DEF IsV4, V4Mapped

\* The number of bits of an address
LEMMA BitLengthType ==
    ASSUME NEW a
    PROVE  BitLength(a) \in 0..W
<1>1. W \in Nat /\ V4Len \in Nat
    BY WidthAssumption, V4Assumption DEF V4Len
<1>2. Ones(a) \subseteq 1..W
    BY <1>1 DEF Ones, Significant
<1>3. ASSUME Ones(a) # {} PROVE Min(Ones(a)) \in 1..W
    <2>1. Ones(a) \in SUBSET Nat
        BY <1>1, <1>2
    <2>2. PICK n \in Ones(a) : \A m \in Ones(a) : n <= m
        BY <1>3, <2>1, SmallestMember
    <2>3. Min(Ones(a)) \in Ones(a)
        BY <2>2 DEF Min
    <2> QED BY <1>2, <2>3
<1> QED BY <1>1, <1>3 DEF BitLength, IsAllZeroes

\* An address is not aligned to more bits than its family has.
LEMMA AlignedType ==
    ASSUME NEW a
    PROVE  AlignedBits(a) \in 0..FamilyBits(a) /\ FamilyBits(a) \in 0..W
<1>1. W \in Nat /\ V4Len \in Nat /\ V4Len < W
    BY WidthAssumption, V4Assumption DEF V4Len
<1>2. FamilyBits(a) \in 0..W
    BY <1>1 DEF FamilyBits
<1>3. ASSUME ~IsAllZeroes(a) PROVE AlignedBits(a) \in 0..FamilyBits(a)
    <2>1. Ones(a) \in SUBSET (1..W) /\ Ones(a) # {} /\ Ones(a) \subseteq Significant(a)
        BY <1>1, <1>3 DEF Ones, Significant, IsAllZeroes
    <2>2. Max(Ones(a)) \in Significant(a)
        BY <2>1, MaxOf
    <2>3. AlignedBits(a) = W - Max(Ones(a))
        BY <1>3 DEF AlignedBits, TrailingZeroes
    <2> QED BY <1>1, <2>2, <2>3 DEF Significant, FamilyBits
<1>4. ASSUME IsAllZeroes(a) PROVE AlignedBits(a) \in 0..FamilyBits(a)
    BY <1>2, <1>4 DEF AlignedBits
<1> QED BY <1>2, <1>3, <1>4

\* A network fits into every range of one family whose addresses were counted.
LEMMA RefusedIsMisled ==
    ASSUME NEW first \in Address, NEW last, OneFamily(first, last), Fitting(first, last) = {}
    PROVE  \E bits \in CountBits(first, last) : bits < 0
<1> DEFINE n == BitLength(Increment(Difference(last, first))) - 1
           m == Min({AlignedBits(first), n})
<1>1. CountBits(first, last) = {n}
    BY DEF CountBits
<1>2. W \in Nat /\ n \in -1..(W - 1) /\ AlignedBits(first) \in 0..FamilyBits(first)
      /\ FamilyBits(first) \in 0..W
    BY WidthAssumption, BitLengthType, AlignedType
<1> HIDE DEF n
<1>3. SUFFICES ASSUME n >= 0 PROVE FALSE
    BY <1>1, <1>2
<1>4. m \in 0..FamilyBits(first)
    <2>1. \A x \in {AlignedBits(first), n} : x \in Nat
        BY <1>2, <1>3
    <2>2. {AlignedBits(first), n} \in SUBSET Nat /\ {AlignedBits(first), n} # {}
        BY <2>1
    <2>3. PICK k \in {AlignedBits(first), n} : \A j \in {AlignedBits(first), n} : k <= j
        BY <2>2, SmallestMember
    <2>4. m \in {AlignedBits(first), n} /\ \A j \in {AlignedBits(first), n} : m <= j
        BY <2>3 DEF Min
    <2>5. m \in Nat /\ m <= AlignedBits(first)
        BY <2>1, <2>4
    <2> QED BY <1>2, <2>5
<1> HIDE DEF m
<1>5. m \in -1..W /\ ValidPrefix(first, FamilyBits(first) - m)
    BY <1>2, <1>4 DEF ValidPrefix
<1>6. m \in {Min({AlignedBits(first), k}) : k \in CountBits(first, last)}
    BY <1>1 DEF m
<1>7. New(first, FamilyBits(first) - m) \in Fitting(first, last)
    BY <1>5, <1>6 DEF Fitting
<1> QED BY <1>7

\* Addresses are ordered, and those of IPv4 are next to each other.
LEMMA NotLess ==
    ASSUME NEW a \in Address, NEW b \in Address, NEW c \in Address, ~Less(a, b), ~Less(b, c)
    PROVE  ~Less(a, c)
<1>1. a \in Path /\ b \in Path /\ c \in Path /\ Len(a) = W /\ Len(b) = W
    BY AddressIsPath
<1>2. LeftOf(b, a) \/ a = b
    <2>1. Leads(a, b) => Leads(b, a)
        BY <1>1 DEF Leads, OnPath
    <2>2. Leads(b, a) => Leads(a, b)
        BY <1>1 DEF Leads, OnPath
    <2> QED BY <1>1, <2>1, <2>2, LessIsLeft, PathsCompare, LeadsBothWays
<1>3. ~LeftOf(b, c)
    BY LessIsLeft
<1>4. ASSUME LeftOf(a, c) PROVE FALSE
    BY <1>1, <1>2, <1>3, <1>4, LeftOn
<1> QED BY <1>4, LessIsLeft

LEMMA V4IsConvex ==
    ASSUME NEW a \in Address, NEW b \in Address, NEW c \in Address,
           V4Mapped(a), V4Mapped(c), ~Less(b, a), ~Less(c, b)
    PROVE  V4Mapped(b)
<1>1. V4Prefix \in Path
    BY PathIsSeq, V4Assumption, WidthAssumption DEF V4Len
<1>2. ASSUME NEW d \in Address PROVE V4Mapped(d) <=> MatchesAddress(V4Prefix, d)
    <2>1. V4Mapped(d) <=> OnPath(V4Prefix, d)
        BY DEF V4Mapped, OnPath, V4Len
    <2> QED BY <1>1, <2>1, MatchesIsLeads
<1>3. FirstAddress(V4Prefix) \in Address /\ LastAddress(V4Prefix) \in Address
    BY <1>1, LeadsToEnds
<1>4. ~Less(a, FirstAddress(V4Prefix)) /\ ~Less(LastAddress(V4Prefix), c)
    BY <1>2 DEF MatchesAddress
<1>5. ~Less(b, FirstAddress(V4Prefix)) /\ ~Less(LastAddress(V4Prefix), b)
    BY <1>3, <1>4, NotLess
<1> QED BY <1>2, <1>5 DEF MatchesAddress

\* Summarising goes forward.
LEMMA BehindIsNotLess ==
    ASSUME NEW a \in Address, NEW p \in Path, Leads(p, a)
    PROVE  Behind[p] \in Address /\ ~Less(Behind[p], a)
<1>1. LastAddress(p) \in Address /\ Behind[p] = Increment(LastAddress(p))
    BY LeadsToEnds DEF Behind, Upto
<1>2. ~Less(LastAddress(p), a)
    BY MatchesIsLeads DEF MatchesAddress
<1>3. Behind[p] \in Address /\ ~Less(Behind[p], LastAddress(p))
    BY <1>1, IncrementType
<1> QED BY <1>1, <1>2, <1>3, NotLess

-----------------------------------------------------------------------------
(* Counting addresses *)

\* What has to be carried or borrowed goes as far as an end of the significant bits,
\* which reach up to the last one.
LEMMA SignificantBits ==
    ASSUME NEW a
    PROVE  /\ W \in Nat /\ V4Len \in Nat /\ 0 < V4Len /\ V4Len < W /\ V4Prefix[V4Len] = 1
           /\ V4Len \in 1..V4Len
           /\ \A i \in 1..V4Len : V4Prefix[i] \in Bit /\ i \in 1..W
           /\ Significant(a) \in SUBSET (1..W)
           /\ ~V4Mapped(a) => Significant(a) = 1..W
           /\ V4Mapped(a) => Significant(a) = (V4Len + 1)..W
           /\ FamilyBits(a) = IF V4Mapped(a) THEN W - V4Len ELSE W
<1>1. W \in Nat /\ V4Len \in Nat /\ 0 < V4Len /\ V4Len < W /\ V4Prefix[V4Len] = 1
    BY WidthAssumption, V4Assumption DEF V4Len
<1>2. \A i \in 1..V4Len : V4Prefix[i] \in Bit
    BY V4Assumption, ElementOfSeq DEF V4Len
<1>3. \A i \in 1..V4Len : i \in 1..W
    BY <1>1
<1> QED BY <1>1, <1>2, <1>3 DEF Significant, FamilyBits

\* Nothing is between an address and the one it is incremented to.
LEMMA IncrementIsNext ==
    ASSUME NEW a \in Address, ~IsAllOnes(a), NEW b \in Address
    PROVE  Less(b, Increment(a)) <=> ~Less(a, b)
<1>1. /\ W \in Nat
      /\ \A i \in 1..W : a[i] \in Bit /\ b[i] \in Bit
    BY WidthAssumption DEF Address
<1>2. Zeroes(a) \in SUBSET (1..W) /\ Zeroes(a) # {}
    BY SignificantBits DEF Zeroes, IsAllOnes
<1>3. PICK c \in Zeroes(a) : \A i \in Zeroes(a) : i <= c
    BY <1>2, MaxOf
<1> DEFINE y == Increment(a)
<1>4. c \in 1..W /\ y = [i \in 1..W |-> IF i < c THEN a[i] ELSE IF i = c THEN 1 ELSE 0]
    BY <1>3, IncrementIs
<1>5. y \in Address
    BY IncrementType
<1> HIDE DEF y
<1>6. /\ c \in Nat /\ c <= W /\ c >= 1 /\ a[c] = 0
      /\ \A i \in 1..W : y[i] = IF i < c THEN a[i] ELSE IF i = c THEN 1 ELSE 0
    <2>1. a[c] # 1
        BY <1>3 DEF Zeroes, Ones
    <2>2. a[c] = 0
        BY <1>1, <1>4, <2>1 DEF Bit
    <2>3. c \in Nat /\ c <= W /\ c >= 1
        BY <1>1, <1>4
    <2> QED BY <1>4, <2>2, <2>3
<1>7. ASSUME NEW i \in 1..W, i > c PROVE a[i] = 1
    <2>1. i \in Nat /\ c \in Significant(a) /\ V4Len \in Nat
        BY <1>1, <1>3, SignificantBits DEF Zeroes
    <2>2. i \in Significant(a)
        BY <1>1, <1>6, <1>7, <2>1 DEF Significant
    <2>3. i \notin Zeroes(a)
        BY <1>3, <1>6, <1>7, <2>1
    <2> QED BY <2>2, <2>3 DEF Zeroes, Ones
<1>8. ASSUME ~Less(a, b) PROVE Less(b, y)
    <2>1. Less(a, y)
        <3>1. \A j \in 1..(c - 1) : j \in 1..W /\ j < c
            BY <1>1, <1>6
        <3>2. \A j \in 1..(c - 1) : a[j] = y[j]
            BY <1>6, <3>1
        <3>3. y[c] = 1
            BY <1>4, <1>6
        <3>4. c \in 1..W /\ a[c] < y[c]
            BY <1>4, <1>6, <3>3
        <3> QED BY <3>2, <3>4, Zenon DEF Less
    <2>2. ~Less(b, y) => ~Less(a, y)
        BY <1>5, <1>8, NotLess
    <2> QED BY <2>1, <2>2
<1>9. ASSUME Less(b, y), Less(a, b) PROVE FALSE
    <2>1. PICK i \in 1..W : b[i] < y[i] /\ \A j \in 1..(i - 1) : b[j] = y[j]
        BY <1>9 DEF Less
    <2>2. PICK k \in 1..W : a[k] < b[k] /\ \A j \in 1..(k - 1) : a[j] = b[j]
        BY <1>9 DEF Less
    <2>3. b[i] = 0 /\ y[i] = 1
        BY <1>1, <1>5, <2>1 DEF Address, Bit
    <2>4. a[k] = 0 /\ b[k] = 1
        BY <1>1, <2>2 DEF Bit
    <2>5. i \in Nat /\ k \in Nat
        BY <1>1
    <2>6. i <= c
        BY <1>6, <2>3, <2>5
    <2>7. k <= c
        BY <1>6, <1>7, <2>4, <2>5
    <2>8. CASE k < i
        <3>1. k \in 1..(i - 1) /\ k < c
            BY <1>6, <2>5, <2>6, <2>8
        <3>2. y[k] = a[k]
            BY <1>6, <3>1
        <3> QED BY <2>1, <2>4, <3>1, <3>2
    <2>9. CASE i < k
        <3>1. i \in 1..(k - 1) /\ i < c
            BY <1>6, <2>5, <2>7, <2>9
        <3>2. y[i] = a[i]
            BY <1>6, <3>1
        <3> QED BY <2>2, <2>3, <3>1, <3>2
    <2> QED BY <2>3, <2>4, <2>5, <2>8, <2>9
<1> QED BY <1>8, <1>9 DEF y

\* The last address of a family is the last one of it.
LEMMA AllOnesIsLast ==
    ASSUME NEW z \in Address, NEW a \in Address, IsAllOnes(z), V4Mapped(z) <=> V4Mapped(a)
    PROVE  ~Less(z, a)
<1>1. SUFFICES ASSUME Less(z, a) PROVE FALSE
    OBVIOUS
<1>2. PICK i \in 1..W : z[i] < a[i] /\ \A j \in 1..(i - 1) : z[j] = a[j]
    BY <1>1 DEF Less
<1>3. z[i] = 0 /\ a[i] = 1
    BY <1>2 DEF Address, Bit
<1>4. i \notin Significant(z)
    BY <1>3 DEF IsAllOnes, Zeroes, Ones
<1>5. V4Mapped(z) /\ V4Mapped(a) /\ i \in 1..V4Len
    BY <1>4, SignificantBits
<1> QED BY <1>3, <1>5 DEF V4Mapped

\* The smallest of some positions
LEMMA MinOf ==
    ASSUME NEW S \in SUBSET (1..W), S # {}
    PROVE  Min(S) \in S /\ \A i \in S : Min(S) <= i
<1>1. S \in SUBSET Nat
    BY WidthAssumption
<1>2. PICK n \in S : \A m \in S : n <= m
    BY <1>1, SmallestMember
<1> QED BY <1>2 DEF Min

\* The number of bits of an address tells where its first one is.
LEMMA BitLengthIs ==
    ASSUME NEW a \in Address, NEW m \in 0..W
    PROVE  BitLength(a) > W - m <=> \E i \in Ones(a) : i <= m
<1>1. W \in Nat /\ m \in Nat /\ m <= W /\ Ones(a) \in SUBSET (1..W)
    BY WidthAssumption, SignificantBits DEF Ones
<1>2. CASE Ones(a) = {}
    BY <1>1, <1>2 DEF BitLength, IsAllZeroes
<1>3. CASE Ones(a) # {}
    <2>1. Min(Ones(a)) \in Ones(a) /\ \A i \in Ones(a) : Min(Ones(a)) <= i
        BY <1>1, <1>3, MinOf
    <2>2. BitLength(a) = W - Min(Ones(a)) + 1
        BY <1>3 DEF BitLength, IsAllZeroes
    <2> DEFINE n == Min(Ones(a))
    <2>3. n \in Nat /\ \A i \in Ones(a) : i \in Nat
        BY <1>1, <2>1
    <2> HIDE DEF n
    <2>4. (\E i \in Ones(a) : i <= m) <=> n <= m
        BY <1>1, <2>1, <2>3 DEF n
    <2> QED BY <1>1, <2>2, <2>3, <2>4 DEF n
<1> QED BY <1>2, <1>3

\* An address is aligned as far as there are zeroes at its end.
LEMMA AlignedStart ==
    ASSUME NEW s \in Address, NEW k \in 0..FamilyBits(s)
    PROVE  /\ k \in 0..W /\ W - k \in 0..W
           /\ k <= AlignedBits(s) <=> \A i \in 1..W : i > W - k => s[i] = 0
           /\ \A i \in 1..W : i > W - k => i \in Significant(s)
<1>1. /\ W \in Nat /\ k \in Nat /\ k <= FamilyBits(s) /\ FamilyBits(s) \in Nat /\ FamilyBits(s) <= W
      /\ Ones(s) \in SUBSET (1..W) /\ V4Len \in Nat
    BY SignificantBits, AlignedType DEF Ones
<1>2. ASSUME NEW i \in 1..W, i > W - k PROVE i \in Significant(s)
    BY <1>1, <1>2, SignificantBits
<1>3. CASE Ones(s) = {}
    <2>1. k <= AlignedBits(s)
        BY <1>1, <1>3 DEF AlignedBits, IsAllZeroes
    <2>2. ASSUME NEW i \in 1..W, i > W - k PROVE s[i] = 0
        <3>1. s[i] # 1
            BY <1>2, <1>3, <2>2 DEF Ones
        <3> QED BY <3>1 DEF Address, Bit
    <2> QED BY <1>1, <1>2, <2>1, <2>2
<1>4. CASE Ones(s) # {}
    <2> DEFINE n == Max(Ones(s))
    <2>1. n \in Ones(s) /\ \A i \in Ones(s) : i <= n
        BY <1>1, <1>4, MaxOf
    <2>2. AlignedBits(s) = W - n
        BY <1>4 DEF AlignedBits, TrailingZeroes, IsAllZeroes
    <2>3. n \in 1..W /\ n \in Nat
        BY <1>1, <2>1
    <2> HIDE DEF n
    <2>4. ASSUME k <= W - n, NEW i \in 1..W, i > W - k PROVE s[i] = 0
        <3>1. ~(i <= n)
            BY <1>1, <2>3, <2>4
        <3>2. s[i] # 1
            BY <1>2, <2>1, <2>4, <3>1 DEF Ones
        <3> QED BY <3>2 DEF Address, Bit
    <2>5. ASSUME \A i \in 1..W : i > W - k => s[i] = 0 PROVE k <= W - n
        <3>1. s[n] = 1
            BY <2>1 DEF Ones
        <3>2. ~(n > W - k)
            BY <2>3, <2>5, <3>1
        <3> QED BY <1>1, <2>3, <3>2
    <2> QED BY <1>1, <1>2, <2>2, <2>4, <2>5
<1> QED BY <1>3, <1>4

\* What a difference is made of, with a one borrowed and without; it is an address,
\* and a v4-mapped one where the addresses are.
LEMMA DifferenceBits ==
    ASSUME NEW e \in Address, NEW s \in Address, OneFamily(s, e), NEW i \in 1..W
    PROVE  /\ Significant(e) = Significant(s)
           /\ i \notin Significant(s) => e[i] = s[i]
           /\ Difference(e, s)[i] \in Bit
           /\ i \notin Significant(s) => Difference(e, s)[i] = V4Prefix[i]
           /\ i \in Significant(s) /\ Borrow(e, s, i) = 0 =>
                 Difference(e, s)[i] = IF e[i] = s[i] THEN 0 ELSE 1
<1>1. Significant(e) = Significant(s)
    BY DEF OneFamily, Significant
<1>2. i \notin Significant(s) => V4Mapped(s) /\ V4Mapped(e) /\ i \in 1..V4Len
    BY SignificantBits DEF OneFamily
<1>3. i \notin Significant(s) => e[i] = s[i]
    BY <1>2 DEF V4Mapped
<1>4. Difference(e, s)[i] = IF i \in Significant(s) THEN (e[i] + s[i] + Borrow(e, s, i)) % 2
                            ELSE V4Prefix[i]
    BY <1>1 DEF Difference
<1>5. i \notin Significant(s) => V4Prefix[i] \in Bit
    BY <1>2, SignificantBits
<1>6. e[i] \in {0, 1} /\ s[i] \in {0, 1} /\ Borrow(e, s, i) \in {0, 1}
    BY DEF Address, Bit, Borrow
<1>7. (e[i] + s[i] + Borrow(e, s, i)) % 2 \in {0, 1}
    <2>1. \A x, y, z \in {0, 1} : (x + y + z) % 2 \in {0, 1}
        OBVIOUS
    <2> QED BY <1>6, <2>1
<1>8. Borrow(e, s, i) = 0 => (e[i] + s[i] + Borrow(e, s, i)) % 2 = IF e[i] = s[i] THEN 0 ELSE 1
    <2>1. \A x, y \in {0, 1} : (x + y + 0) % 2 = IF x = y THEN 0 ELSE 1
        OBVIOUS
    <2> QED BY <1>6, <2>1
<1> QED BY <1>1, <1>3, <1>4, <1>5, <1>7, <1>8 DEF Bit

LEMMA DifferenceType ==
    ASSUME NEW e \in Address, NEW s \in Address, OneFamily(s, e)
    PROVE  /\ Difference(e, s) \in Address
           /\ V4Mapped(s) => V4Mapped(Difference(e, s))
<1>1. Difference(e, s) = [i \in 1..W |-> Difference(e, s)[i]]
    BY DEF Difference
<1>2. \A i \in 1..W : Difference(e, s)[i] \in Bit
    BY DifferenceBits
<1>3. Difference(e, s) \in Address
    <2> DEFINE d == Difference(e, s)
    <2>1. d = [i \in 1..W |-> d[i]] /\ \A i \in 1..W : d[i] \in Bit
        BY <1>1, <1>2
    <2> HIDE DEF d
    <2>2. d \in [1..W -> Bit]
        BY <2>1
    <2> QED BY <2>2 DEF d, Address
<1>4. ASSUME V4Mapped(s), NEW i \in 1..V4Len PROVE Difference(e, s)[i] = V4Prefix[i]
    <2>1. i \in 1..W /\ i \notin (V4Len + 1)..W
        BY SignificantBits
    <2> QED BY <1>4, <2>1, SignificantBits, DifferenceBits
<1> QED BY <1>3, <1>4 DEF V4Mapped

\* Nothing is borrowed where the bits behind are zeroes, or the same.
LEMMA NoBorrow ==
    ASSUME NEW e \in Address, NEW s \in Address, NEW m \in 0..W, NEW i \in 1..W,
           \A j \in 1..W : j > m => s[j] = 0,
           \A j \in 1..W : i < j /\ j <= m => e[j] = s[j]
    PROVE  Borrow(e, s, i) = 0
<1>1. ASSUME NEW j \in (i + 1)..W, e[j] < s[j] PROVE FALSE
    <2>1. j \in 1..W /\ i < j /\ W \in Nat /\ m \in Nat /\ j \in Nat
        BY WidthAssumption
    <2>2. e[j] \in {0, 1} /\ s[j] \in {0, 1}
        BY <2>1 DEF Address, Bit
    <2>3. s[j] = 1 /\ e[j] = 0
        BY <1>1, <2>2
    <2>4. j <= m \/ j > m
        BY <2>1
    <2> QED BY <2>1, <2>3, <2>4
<1> QED BY <1>1 DEF Borrow

\* What is counted has the bits of the last address behind those it shares with
\* the first one, if that one has only zeroes there.
LEMMA SmallDifference ==
    ASSUME NEW e \in Address, NEW s \in Address, OneFamily(s, e), NEW m \in 0..W,
           \A j \in 1..W : j > m => s[j] = 0 /\ j \in Significant(s),
           \A j \in 1..W : j <= m => e[j] = s[j]
    PROVE  \A i \in 1..W : /\ i > m => Difference(e, s)[i] = e[i]
                           /\ i <= m /\ i \in Significant(s) => Difference(e, s)[i] = 0
<1> TAKE i \in 1..W
<1>1. Borrow(e, s, i) = 0
    BY NoBorrow
<1>2. e[i] \in {0, 1}
    BY DEF Address, Bit
<1> QED BY <1>1, <1>2, DifferenceBits

\* What an increment changes: the last zero, and what is behind it.
LEMMA IncrementBits ==
    ASSUME NEW a \in Address, ~IsAllOnes(a)
    PROVE  \E c \in Zeroes(a) :
              /\ c \in 1..W /\ c \in Significant(a) /\ a[c] = 0
              /\ Increment(a)[c] = 1
              /\ \A i \in 1..W : i < c => Increment(a)[i] = a[i]
              /\ \A i \in Zeroes(a) : i <= c
<1>1. Zeroes(a) \in SUBSET (1..W) /\ Zeroes(a) # {}
    BY SignificantBits DEF Zeroes, IsAllOnes
<1>2. PICK c \in Zeroes(a) : \A i \in Zeroes(a) : i <= c
    BY <1>1, MaxOf
<1>3. c \in 1..W /\ Increment(a) = [i \in 1..W |-> IF i < c THEN a[i] ELSE IF i = c THEN 1 ELSE 0]
    BY <1>2, IncrementIs
<1>4. a[c] = 0 /\ c \in Significant(a)
    BY <1>3 DEF Zeroes, Ones, Address, Bit
<1>5. Increment(a)[c] = 1 /\ \A i \in 1..W : i < c => Increment(a)[i] = a[i]
    BY <1>3, WidthAssumption
<1> QED BY <1>2, <1>3, <1>4, <1>5

\* A v4-mapped address stays one.
LEMMA IncrementMapped ==
    ASSUME NEW a \in Address, V4Mapped(a)
    PROVE  V4Mapped(Increment(a))
<1>1. CASE IsAllOnes(a)
    BY <1>1 DEF Increment
<1>2. CASE ~IsAllOnes(a)
    <2>1. PICK c \in Significant(a) : \A i \in 1..W : i < c => Increment(a)[i] = a[i]
        BY <1>2, IncrementBits
    <2>2. \A i \in 1..V4Len : i \in 1..W /\ i < c
        BY <2>1, SignificantBits
    <2> QED BY <2>1, <2>2 DEF V4Mapped
<1> QED BY <1>1, <1>2

\* The range has the addresses that the number of them has bits for.
LEMMA CountedFits ==
    ASSUME NEW s \in Address, NEW e \in Address, OneFamily(s, e), ~Less(e, s),
           NEW k \in 0..FamilyBits(s), \A i \in 1..W : i > W - k => s[i] = 0,
           \E n \in CountBits(s, e) : k <= n
    PROVE  ~Less(e, LastAddress(Masked(s, W - k)))
<1> DEFINE d == Difference(e, s)
           y == Increment(d)
           m == W - k
           l == LastAddress(Masked(s, m))
<1>1. /\ W \in Nat /\ k \in Nat /\ k \in 0..W /\ m \in 0..W /\ m \in Nat
      /\ \A i \in 1..W : i > m => i \in Significant(s)
    BY AlignedStart, WidthAssumption
<1>2. d \in Address /\ (V4Mapped(s) => V4Mapped(d))
    BY DifferenceType
<1>3. y \in Address /\ (V4Mapped(d) => V4Mapped(y))
    BY <1>2, IncrementType, IncrementMapped
<1>4. BitLength(y) > W - m
    <2>1. k <= BitLength(y) - 1 /\ W - m = k
        BY <1>1 DEF CountBits
    <2>2. BitLength(y) \in Nat
        BY BitLengthType, <1>1
    <2> HIDE DEF y, m
    <2> QED BY <1>1, <2>1, <2>2
<1> HIDE DEF y
<1>5. PICK j \in Ones(y) : j <= m
    BY <1>1, <1>3, <1>4, BitLengthIs
<1>6. SUFFICES ASSUME Less(e, l) PROVE FALSE
    OBVIOUS
<1>7. PICK i \in 1..W : e[i] < l[i] /\ \A x \in 1..(i - 1) : e[x] = l[x]
    BY <1>6 DEF Less
<1>8. \A x \in 1..W : /\ x <= m => l[x] = s[x]
                      /\ x > m => l[x] = 1
    <2>1. Masked(s, m) \in Path /\ Len(Masked(s, m)) = m /\ \A x \in 1..m : Masked(s, m)[x] = s[x]
        BY <1>1, MaskedPath
    <2>2. \A x \in 1..W : x <= m => x \in 1..m
        BY <1>1
    <2> QED BY <2>1, <2>2, EndBits
<1> HIDE DEF l, m
<1>9. i > m
    <2>1. SUFFICES ASSUME i <= m PROVE FALSE
        BY <1>1
    <2>2. \A x \in 1..(i - 1) : x \in 1..W /\ x <= m
        BY <1>1, <2>1
    <2>3. e[i] < s[i] /\ \A x \in 1..(i - 1) : e[x] = s[x]
        BY <1>7, <1>8, <2>1, <2>2
    <2> QED BY <2>3 DEF Less
<1>10. e[i] = 0
    BY <1>7, <1>8, <1>9 DEF Address, Bit
<1>11. \A x \in 1..W : x <= m => e[x] = s[x]
    <2> TAKE x \in 1..W
    <2>1. x <= m => x \in 1..(i - 1)
        BY <1>1, <1>9
    <2> QED BY <1>7, <1>8, <2>1
<1>12. \A x \in 1..W : /\ x > m => d[x] = e[x]
                       /\ x <= m /\ x \in Significant(s) => d[x] = 0
    <2>1. \A x \in 1..W : x > m => s[x] = 0 /\ x \in Significant(s)
        BY <1>1 DEF m
    <2> QED BY <1>1, <1>11, <2>1, SmallDifference
<1>13. d[i] = 0
    BY <1>9, <1>10, <1>12
<1> HIDE DEF d
\* A v4-mapped difference of other addresses has its ones from the prefix on.
<1>14. V4Mapped(d) /\ ~V4Mapped(s) => m < V4Len
    <2>1. V4Mapped(d) => d[V4Len] = 1
        BY SignificantBits DEF V4Mapped
    <2>2. ~V4Mapped(s) => V4Len \in 1..W /\ V4Len \in Significant(s) /\ V4Len \in Nat
        BY SignificantBits
    <2> QED BY <1>1, <1>12, <2>1, <2>2
<1>15. j \in Significant(y) /\ y[j] = 1 /\ j \in 1..W
    BY <1>5, SignificantBits DEF Ones
<1>16. j \in Significant(s) /\ (V4Mapped(d) => V4Mapped(s))
    <2>1. V4Mapped(y) => V4Len < j /\ V4Len < m
        BY <1>1, <1>5, <1>15, SignificantBits
    <2>2. V4Mapped(d) => V4Mapped(s)
        BY <1>1, <1>3, <1>14, <2>1, SignificantBits
    <2>3. j \in Significant(s)
        BY <1>2, <1>3, <1>15, SignificantBits
    <2> QED BY <2>2, <2>3
<1>17. d[j] = 0
    BY <1>5, <1>12, <1>15, <1>16
<1>18. CASE IsAllOnes(d)
    BY <1>15, <1>17, <1>18 DEF Increment, y
<1>19. CASE ~IsAllOnes(d)
    <2>1. PICK c \in Zeroes(d) : /\ \A x \in 1..W : x < c => y[x] = d[x]
                                 /\ \A x \in Zeroes(d) : x <= c
                                 /\ c \in 1..W
        BY <1>2, <1>19, IncrementBits DEF y
    <2>2. i \in Significant(d)
        BY <1>1, <1>2, <1>9, <1>16, SignificantBits
    <2>3. i \in Zeroes(d)
        BY <1>13, <2>2 DEF Zeroes, Ones
    <2>4. j < c
        BY <1>1, <1>5, <1>9, <1>15, <2>1, <2>3
    <2> QED BY <1>15, <1>17, <2>1, <2>4
<1> QED BY <1>18, <1>19

\* Of a number that is right, all the bits that count are the same.
LEMMA CountedRight ==
    ASSUME NEW s \in Address, NEW e \in Address, OneFamily(s, e), ~Miscounted(s, e)
    PROVE  /\ ~IsAllOnes(Difference(e, s))
           /\ Significant(Difference(e, s)) = Significant(s)
           /\ Significant(Increment(Difference(e, s))) = Significant(s)
           /\ Increment(Difference(e, s)) \in Address
<1> DEFINE d == Difference(e, s)
           y == Increment(d)
<1>1. ~IsAllOnes(d) /\ (V4Mapped(s) \/ (~V4Mapped(d) /\ ~V4Mapped(y)))
    BY DEF Miscounted
<1>2. d \in Address /\ (V4Mapped(s) => V4Mapped(d))
    BY DifferenceType
<1>3. y \in Address /\ (V4Mapped(d) => V4Mapped(y))
    BY <1>2, IncrementType, IncrementMapped
<1> HIDE DEF y, d
<1>4. Significant(d) = Significant(s) /\ Significant(y) = Significant(s)
    BY <1>1, <1>2, <1>3 DEF Significant
<1> QED BY <1>1, <1>3, <1>4 DEF y, d

\* A number that is right has the bits of every network that fits.
LEMMA CountedIsEnough ==
    ASSUME NEW s \in Address, NEW e \in Address, OneFamily(s, e), ~Miscounted(s, e),
           NEW k \in 0..FamilyBits(s), \A i \in 1..W : i > W - k => s[i] = 0,
           ~Less(e, LastAddress(Masked(s, W - k)))
    PROVE  \A n \in CountBits(s, e) : k <= n
<1> DEFINE d == Difference(e, s)
           y == Increment(d)
           m == W - k
           l == LastAddress(Masked(s, m))
<1>1. /\ W \in Nat /\ k \in Nat /\ k \in 0..W /\ m \in 0..W /\ m \in Nat
      /\ \A i \in 1..W : i > m => i \in Significant(s)
    BY AlignedStart, WidthAssumption
<1>2. /\ d \in Address /\ y \in Address /\ ~IsAllOnes(d)
      /\ Significant(d) = Significant(s) /\ Significant(y) = Significant(s)
    BY DifferenceType, CountedRight
<1>3. SUFFICES \E j \in Ones(y) : j <= m
    <2>1. BitLength(y) > W - m
        BY <1>1, <1>2, <1>3, BitLengthIs
    <2>2. CountBits(s, e) = {BitLength(y) - 1} /\ W - m = k
        BY <1>1 DEF CountBits
    <2>3. BitLength(y) \in Nat
        BY <1>1, BitLengthType
    <2> HIDE DEF y, m
    <2> QED BY <1>1, <2>1, <2>2, <2>3
<1>4. PICK c \in 1..W : /\ c \in Significant(s) /\ d[c] = 0 /\ y[c] = 1
                        /\ \A i \in 1..W : i < c => y[i] = d[i]
    BY <1>2, IncrementBits DEF y
<1>5. c \in Ones(y) /\ c \in Nat
    BY <1>1, <1>2, <1>4 DEF Ones
<1> HIDE DEF d, y, m, l
<1>6. CASE \A i \in 1..W : i <= m => e[i] = s[i]
    <2>1. \A x \in 1..W : /\ x <= m => l[x] = s[x]
                          /\ x > m => l[x] = 1
        <3>1. Masked(s, m) \in Path /\ Len(Masked(s, m)) = m /\ \A x \in 1..m : Masked(s, m)[x] = s[x]
            BY <1>1, MaskedPath
        <3>2. \A x \in 1..W : x <= m => x \in 1..m
            BY <1>1
        <3> QED BY <3>1, <3>2, EndBits DEF l
    <2> DEFINE S == {i \in 1..W : i > m /\ e[i] = 0}
    <2>2. ASSUME S # {} PROVE FALSE
        <3>1. S \in SUBSET Nat
            BY <1>1
        <3>2. PICK i \in S : \A x \in S : i <= x
            BY <2>2, <3>1, SmallestMember
        <3>3. i \in 1..W /\ i > m /\ e[i] = 0 /\ i \in Nat
            BY <1>1, <3>2
        <3>4. ASSUME NEW x \in 1..(i - 1) PROVE e[x] = l[x]
            <4>1. x \in 1..W /\ x \in Nat /\ x < i
                BY <1>1, <3>3
            <4>2. x \notin S
                BY <3>2, <3>3, <4>1
            <4>3. CASE x <= m
                BY <1>6, <2>1, <4>1, <4>3
            <4>4. CASE x > m
                <5>1. e[x] = 1
                    BY <4>1, <4>2, <4>4 DEF Address, Bit
                <5> QED BY <2>1, <4>1, <4>4, <5>1
            <4> QED BY <1>1, <4>1, <4>3, <4>4
        <3>5. e[i] < l[i]
            BY <2>1, <3>3
        <3>6. Less(e, l)
            BY <3>3, <3>4, <3>5, Zenon DEF Less
        <3> QED BY <3>6 DEF l, m
    <2>3. c > m => d[c] = e[c]
        <3>1. \A j \in 1..W : j > m => s[j] = 0 /\ j \in Significant(s)
            BY <1>1 DEF m
        <3> QED BY <1>1, <1>6, <3>1, SmallDifference DEF d
    <2>4. c <= m
        BY <1>1, <1>4, <1>5, <2>2, <2>3
    <2> QED BY <1>5, <2>4
<1>7. CASE ~\A i \in 1..W : i <= m => e[i] = s[i]
    <2> DEFINE S == {i \in 1..W : i <= m /\ e[i] # s[i]}
    <2>1. S \in SUBSET (1..W) /\ S # {}
        BY <1>7
    <2>2. PICK j \in S : \A x \in S : x <= j
        BY <2>1, MaxOf
    <2>3. j \in 1..W /\ j <= m /\ e[j] # s[j] /\ j \in Nat
        BY <1>1, <2>2
    <2>4. \A x \in 1..W : j < x /\ x <= m => e[x] = s[x]
        BY <1>1, <2>2, <2>3
    <2>5. Borrow(e, s, j) = 0
        <3>1. \A x \in 1..W : x > m => s[x] = 0
            BY DEF m
        <3> QED BY <1>1, <2>3, <2>4, <3>1, NoBorrow
    <2>6. j \in Significant(s) /\ d[j] = 1
        BY <2>3, <2>5, DifferenceBits DEF d
    <2>7. CASE j < c
        <3>1. j \in Ones(y)
            BY <1>2, <1>4, <2>3, <2>6, <2>7 DEF Ones
        <3> QED BY <2>3, <3>1
    <2>8. CASE ~(j < c)
        <3>1. c <= m
            BY <1>1, <1>5, <2>3, <2>8
        <3> QED BY <1>5, <3>1
    <2> QED BY <2>7, <2>8
<1> QED BY <1>6, <1>7

\* A network fits into every range of one family whose number of addresses is right.
LEMMA RefusedIsMiscounted ==
    ASSUME NEW s \in Address, NEW e \in Address, OneFamily(s, e), Fitting(s, e) = {}
    PROVE  Miscounted(s, e)
<1>1. SUFFICES ASSUME ~Miscounted(s, e) PROVE FALSE
    OBVIOUS
<1> DEFINE y == Increment(Difference(e, s))
<1>2. BitLength(y) - 1 < 0
    BY RefusedIsMisled DEF CountBits
<1>3. Ones(y) # {}
    <2>1. PICK c \in Significant(Difference(e, s)) : y[c] = 1
        BY <1>1, CountedRight, DifferenceType, IncrementBits
    <2>2. c \in Significant(y)
        BY <1>1, <2>1, CountedRight
    <2> HIDE DEF y
    <2> QED BY <2>1, <2>2 DEF Ones
<1>4. BitLength(y) > W - W
    <2>1. Ones(y) \in SUBSET (1..W) /\ W \in 0..W
        BY SignificantBits DEF Ones
    <2>2. \E i \in Ones(y) : i <= W
        BY <1>3, <2>1
    <2>3. y \in Address
        BY <1>1, CountedRight
    <2> HIDE DEF y
    <2> QED BY <2>1, <2>2, <2>3, BitLengthIs
<1>5. BitLength(y) \in Nat /\ W \in Nat
    BY BitLengthType, WidthAssumption
<1> HIDE DEF y
<1> QED BY <1>2, <1>4, <1>5

\* The next network starts where what is left starts, has as many bits behind as the
\* alignment and the number of addresses allow, and reaches no further than what is left.
LEMMA FittingIs ==
    ASSUME NEW s \in Address, NEW e \in Address, NEW p \in Fitting(s, e)
    PROVE  /\ OneFamily(s, e) /\ p \in Path
           /\ \E bits \in 0..FamilyBits(s) :
                 /\ bits \in 0..W /\ W - bits \in 0..W /\ bits <= AlignedBits(s)
                 /\ p = Masked(s, W - bits) /\ Len(p) = W - bits
                 /\ \E n \in CountBits(s, e) : bits <= n /\ (bits = AlignedBits(s) \/ bits = n)
<1> DEFINE n == BitLength(Increment(Difference(e, s))) - 1
           m == Min({AlignedBits(s), n})
<1>1. CountBits(s, e) = {n}
    BY DEF CountBits
<1>2. /\ OneFamily(s, e) /\ m \in -1..W /\ ValidPrefix(s, FamilyBits(s) - m)
      /\ p = New(s, FamilyBits(s) - m)
    BY <1>1 DEF Fitting
<1>3. /\ W \in Nat /\ V4Len \in Nat /\ n \in -1..W /\ AlignedBits(s) \in 0..FamilyBits(s)
      /\ FamilyBits(s) \in 0..W
    BY SignificantBits, BitLengthType, AlignedType
<1>4. m <= n /\ m <= AlignedBits(s) /\ (m = AlignedBits(s) \/ m = n)
    <2> HIDE DEF n
    <2> DEFINE a == AlignedBits(s)
    <2>1. a \in Int /\ n \in Int
        BY <1>3
    <2> HIDE DEF a
    <2>2. \E x \in {a, n} : \A z \in {a, n} : x <= z
        BY <2>1
    <2>3. Min({a, n}) \in {a, n} /\ \A z \in {a, n} : Min({a, n}) <= z
        BY <2>2 DEF Min
    <2> QED BY <2>3 DEF a
<1> HIDE DEF n, m
<1>5. m \in 0..FamilyBits(s) /\ FamilyBits(s) - m \in Int
    BY <1>2, <1>3 DEF ValidPrefix
<1>6. m \in 0..W /\ W - m \in 0..W
    BY <1>3, <1>5
<1>7. p = Masked(s, W - m)
    <2>1. V4Mapped(s) => FamilyBits(s) - m + V4Len = W - m
        BY <1>3, <1>5 DEF FamilyBits
    <2>2. ~V4Mapped(s) => FamilyBits(s) - m = W - m
        BY <1>3, <1>5 DEF FamilyBits
    <2> QED BY <1>2, <1>5, <2>1, <2>2, NewIsMasked
<1>8. p \in Path /\ Len(p) = W - m
    BY <1>6, <1>7, MaskedPath
<1> QED BY <1>1, <1>2, <1>3, <1>4, <1>5, <1>6, <1>7, <1>8

LEMMA FittingIsNext ==
    ASSUME NEW s \in Address, NEW e \in Address, ~Less(e, s), NEW p \in Fitting(s, e)
    PROVE  /\ p \in Path /\ OneFamily(s, e)
           /\ FirstAddress(p) = s
           /\ LastAddress(p) \in Address /\ ~Less(e, LastAddress(p)) /\ ~Less(LastAddress(p), s)
<1>1. OneFamily(s, e) /\ p \in Path
    BY FittingIs
<1>2. PICK bits \in 0..FamilyBits(s) :
         /\ bits \in 0..W /\ W - bits \in 0..W /\ bits <= AlignedBits(s)
         /\ p = Masked(s, W - bits) /\ Len(p) = W - bits
         /\ \E n \in CountBits(s, e) : bits <= n
    BY FittingIs
<1>3. \A i \in 1..W : i > W - bits => s[i] = 0
    BY <1>2, AlignedStart
<1>4. FirstAddress(p) = s
    <2> DEFINE f == FirstAddress(p)
    <2>1. ASSUME NEW i \in 1..W PROVE f[i] = s[i]
        <3>1. i \in Nat /\ W - bits \in Nat
            BY <1>2, WidthAssumption
        <3>2. i <= W - bits => p[i] = s[i]
            <4>1. i <= W - bits => i \in 1..(W - bits)
                BY <3>1
            <4> QED BY <1>2, <4>1, MaskedPath
        <3>3. i <= W - bits \/ i > W - bits
            BY <3>1
        <3> QED BY <1>1, <1>2, <1>3, <3>2, <3>3, EndBits
    <2>2. f \in Address
        BY <1>1, LeadsToEnds
    <2> HIDE DEF f
    <2>3. f = [i \in 1..W |-> f[i]] /\ s = [i \in 1..W |-> s[i]]
        BY <2>2 DEF Address
    <2>4. f = s
        BY <2>1, <2>3
    <2> QED BY <2>4 DEF f
<1>5. ~Less(e, LastAddress(p))
    BY <1>1, <1>2, <1>3, CountedFits
<1>6. Leads(p, s)
    BY FittingIsPath
<1> QED BY <1>1, <1>4, <1>5, <1>6, LeadsToEnds, MatchesIsLeads DEF MatchesAddress

\* Behind a network are the addresses that come after its last one.
LEMMA NextIsBehind ==
    ASSUME NEW p \in Path, ~IsAllOnes(Upto[p]), NEW a \in Address
    PROVE  Less(a, Behind[p]) <=> ~Less(LastAddress(p), a)
<1>1. LastAddress(p) \in Address
    BY LeadsToEnds
<1>2. Upto[p] = LastAddress(p) /\ Behind[p] = Increment(LastAddress(p))
    BY DEF Upto, Behind
<1> QED BY <1>1, <1>2, IncrementIsNext

-----------------------------------------------------------------------------
(* The order of addresses, and the address before one *)

\* Addresses are ordered, and none is missing.
LEMMA AddressesInOrder ==
    /\ \A a, b \in Address : Less(a, b) => ~Less(b, a)
    /\ \A a, b, c \in Address : Less(a, b) /\ Less(b, c) => Less(a, c)
    /\ \A a, b, c \in Address : Less(a, b) /\ ~Less(c, b) => Less(a, c)
    /\ \A a, b, c \in Address : ~Less(b, a) /\ Less(b, c) => Less(a, c)
    /\ \A a, b \in Address : Less(a, b) \/ Less(b, a) \/ a = b
    /\ \A a \in Address : a # NoAddress
<1>1. \A a, b \in Address : Less(a, b) => ~Less(b, a)
    BY LessIsLeft, AddressIsPath, LeftOneWay
<1>2. \A a, b, c \in Address : Less(a, b) /\ Less(b, c) => Less(a, c)
    BY LessIsLeft, AddressIsPath, LeftOn
<1>3. ASSUME NEW a \in Address, NEW b \in Address PROVE Less(a, b) \/ Less(b, a) \/ a = b
    <2>1. a \in Path /\ b \in Path /\ Len(a) = W /\ Len(b) = W /\ W \in Nat
        BY AddressIsPath, SignificantBits
    <2>2. Leads(a, b) \/ Leads(b, a) \/ LeftOf(a, b) \/ LeftOf(b, a)
        BY <2>1, PathsCompare
    <2>3. Leads(a, b) => a = b
        BY <2>1, LeadsByChild
    <2>4. Leads(b, a) => a = b
        BY <2>1, LeadsByChild
    <2> QED BY <2>2, <2>3, <2>4, LessIsLeft
<1>4. \A a, b, c \in Address : Less(a, b) /\ ~Less(c, b) => Less(a, c)
    BY <1>1, <1>2, <1>3
<1>5. \A a, b, c \in Address : ~Less(b, a) /\ Less(b, c) => Less(a, c)
    BY <1>1, <1>2, <1>3
<1>6. \A a \in Address : a # NoAddress
    BY AddressIsPath, WidthAssumption DEF NoAddress
<1> QED BY <1>1, <1>2, <1>3, <1>4, <1>5, <1>6

\* loc_address_decrement puts a zero where the last one was, and ones behind it.
LEMMA DecrementIs ==
    ASSUME NEW a \in Address, ~IsAllZeroes(a), ~BecomesMapped(a),
           NEW c \in Ones(a), \A i \in Ones(a) : i <= c
    PROVE  /\ c \in 1..W
           /\ Decrement(a) = [i \in 1..W |-> IF i < c THEN a[i] ELSE IF i = c THEN 0 ELSE 1]
<1>1. W \in Nat
    BY WidthAssumption
<1>2. Ones(a) \in SUBSET (1..W)
    BY SignificantBits DEF Ones
<1>3. c \in 1..W /\ c \in Nat /\ c - 1 \in Nat /\ c <= W
    BY <1>1, <1>2
<1>4. Max(Ones(a)) = c
    <2>1. Max(Ones(a)) \in Ones(a) /\ c <= Max(Ones(a))
        BY <1>2, MaxOf
    <2>2. Max(Ones(a)) <= c /\ Max(Ones(a)) \in Nat
        BY <1>2, <2>1
    <2> QED BY <1>3, <2>1, <2>2
<1> DEFINE first == SubSeq(a, 1, c - 1)
           middle == first \o <<0>>
           last == [i \in 1..(W - c) |-> 1]
           all == middle \o last
           b == [i \in 1..W |-> IF i < c THEN a[i] ELSE IF i = c THEN 0 ELSE 1]
<1>5. Decrement(a) = all
    BY <1>4 DEF Decrement
<1>6. a \in Seq(Bit) /\ Len(a) = W /\ \A i \in 1..W : a[i] \in Bit
    BY AddressIsPath, PathType DEF Address
<1>7. first \in Seq(Bit) /\ Len(first) = c - 1 /\ \A i \in 1..(c - 1) : first[i] = a[i]
    <2>1. \A i \in 1..(c - 1) : a[i] \in Bit
        BY <1>3, <1>6
    <2>2. /\ first \in Seq(Bit) /\ Len(first) = (IF 1 <= c - 1 THEN c - 1 - 1 + 1 ELSE 0)
          /\ \A i \in 1..(c - 1 - 1 + 1) : first[i] = a[1 + i - 1]
        BY <1>3, <2>1, SubSeqProperties
    <2> HIDE DEF first
    <2>3. c - 1 - 1 + 1 = c - 1 /\ \A i \in 1..(c - 1) : 1 + i - 1 = i
        BY <1>3
    <2> QED BY <1>3, <2>2, <2>3
<1>8. last \in Seq(Bit) /\ Len(last) = W - c /\ \A i \in 1..(W - c) : last[i] = 1
    <2>1. W - c \in Nat /\ last \in [1..(W - c) -> Bit]
        BY <1>1, <1>3 DEF Bit
    <2> QED BY <2>1, SeqDef, LenProperties
<1> HIDE DEF first, last
<1>9. /\ middle \in Seq(Bit) /\ Len(middle) = c
      /\ (\A i \in 1..(c - 1) : middle[i] = a[i]) /\ middle[c] = 0
    <2>1. <<0>> \in Seq(Bit) /\ Len(<<0>>) = 1 /\ <<0>>[1] = 0
        BY DEF Bit
    <2>2. /\ middle \in Seq(Bit) /\ Len(middle) = Len(first) + Len(<<0>>)
          /\ \A i \in 1..(Len(first) + Len(<<0>>)) :
                middle[i] = IF i <= Len(first) THEN first[i] ELSE <<0>>[i - Len(first)]
        BY <1>7, <2>1, ConcatProperties
    <2> HIDE DEF middle
    <2>3. /\ c - 1 + 1 = c /\ c \in 1..c /\ ~(c <= c - 1) /\ c - (c - 1) = 1
          /\ \A i \in 1..(c - 1) : i \in 1..c /\ i <= c - 1
        BY <1>3
    <2>4. middle[c] = <<0>>[c - (c - 1)]
        BY <1>7, <2>1, <2>2, <2>3
    <2> QED BY <1>7, <2>1, <2>2, <2>3, <2>4
<1> HIDE DEF middle
<1>10. /\ all \in Seq(Bit) /\ Len(all) = W
       /\ \A i \in 1..W : all[i] = IF i <= c THEN middle[i] ELSE last[i - c]
    <2>1. /\ all \in Seq(Bit) /\ Len(all) = Len(middle) + Len(last)
          /\ \A i \in 1..(Len(middle) + Len(last)) :
                all[i] = IF i <= Len(middle) THEN middle[i] ELSE last[i - Len(middle)]
        <3>1. middle \in Seq(Bit) /\ last \in Seq(Bit)
            BY <1>8, <1>9
        <3> QED BY <3>1, ConcatProperties
    <2> HIDE DEF all
    <2>2. c + (W - c) = W
        BY <1>1, <1>3
    <2> QED BY <1>8, <1>9, <2>1, <2>2
<1> HIDE DEF all
<1>11. \A i \in 1..W : all[i] = b[i]
    <2> TAKE i \in 1..W
    <2>1. CASE i < c
        BY <1>1, <1>3, <1>9, <1>10, <2>1
    <2>2. CASE i = c
        BY <1>3, <1>9, <1>10, <2>2
    <2>3. CASE i > c
        <3>1. i - c \in 1..(W - c) /\ ~(i <= c) /\ ~(i < c) /\ i # c
            BY <1>1, <1>3, <2>3
        <3> QED BY <1>8, <1>10, <3>1
    <2> QED BY <1>1, <1>3, <2>1, <2>2, <2>3
<1>12. b \in Seq(Bit) /\ Len(b) = W
    <2>1. b \in [1..W -> Bit]
        BY <1>1, <1>3, <1>6 DEF Bit
    <2> QED BY <1>1, <2>1, SeqDef, LenProperties
<1> HIDE DEF b
<1>13. all = b
    BY <1>10, <1>11, <1>12, SeqEqual
<1> QED BY <1>3, <1>5, <1>13 DEF b

\* What is less than the address before another one, is less than that one.
LEMMA DecrementIsPrevious ==
    ASSUME NEW a \in Address, ~IsAllZeroes(a), ~BecomesMapped(a)
    PROVE  /\ Decrement(a) \in Address
           /\ V4Mapped(a) => V4Mapped(Decrement(a))
           /\ \A b \in Address : Less(Decrement(a), b) <=> ~Less(b, a)
<1>1. W \in Nat /\ \A i \in 1..W : a[i] \in Bit
    BY WidthAssumption DEF Address
<1>2. Ones(a) \in SUBSET (1..W) /\ Ones(a) # {}
    BY SignificantBits DEF Ones, IsAllZeroes
<1>3. PICK c \in Ones(a) : \A i \in Ones(a) : i <= c
    BY <1>2, MaxOf
<1> DEFINE y == Decrement(a)
<1>4. c \in 1..W /\ y = [i \in 1..W |-> IF i < c THEN a[i] ELSE IF i = c THEN 0 ELSE 1]
    BY <1>3, DecrementIs
<1>5. y \in Address
    BY <1>1, <1>4 DEF Address, Bit
<1>6. /\ c \in Nat /\ c <= W /\ c >= 1 /\ a[c] = 1 /\ c \in Significant(a)
      /\ \A i \in 1..W : y[i] = IF i < c THEN a[i] ELSE IF i = c THEN 0 ELSE 1
    BY <1>1, <1>3, <1>4 DEF Ones
<1> HIDE DEF y
<1>7. ASSUME NEW i \in 1..W, i > c PROVE a[i] = 0
    <2>1. i \in Nat /\ V4Len \in Nat
        BY <1>1, SignificantBits
    <2>2. i \in Significant(a)
        BY <1>1, <1>6, <1>7, <2>1 DEF Significant
    <2>3. i \notin Ones(a)
        BY <1>3, <1>6, <1>7, <2>1
    <2> QED BY <1>1, <2>2, <2>3 DEF Ones, Bit
<1>8. ASSUME V4Mapped(a) PROVE V4Mapped(y)
    <2>1. \A i \in 1..V4Len : i \in 1..W /\ i < c
        BY <1>6, <1>8, SignificantBits
    <2> QED BY <1>6, <1>8, <2>1 DEF V4Mapped
<1>9. ASSUME NEW b \in Address, ~Less(b, a) PROVE Less(y, b)
    <2>1. Less(y, a)
        <3>1. \A j \in 1..(c - 1) : j \in 1..W /\ j < c
            BY <1>1, <1>6
        <3>2. \A j \in 1..(c - 1) : y[j] = a[j]
            BY <1>6, <3>1
        <3>3. y[c] = 0
            BY <1>4, <1>6
        <3>4. c \in 1..W /\ y[c] < a[c]
            BY <1>4, <1>6, <3>3
        <3> QED BY <3>2, <3>4, Zenon DEF Less
    <2>2. ~Less(y, b) => ~Less(y, a)
        BY <1>5, <1>9, NotLess
    <2> QED BY <2>1, <2>2
<1>10. ASSUME NEW b \in Address, Less(y, b), Less(b, a) PROVE FALSE
    <2>1. PICK i \in 1..W : y[i] < b[i] /\ \A j \in 1..(i - 1) : y[j] = b[j]
        BY <1>10 DEF Less
    <2>2. PICK k \in 1..W : b[k] < a[k] /\ \A j \in 1..(k - 1) : b[j] = a[j]
        BY <1>10 DEF Less
    <2>3. y[i] = 0 /\ b[i] = 1
        BY <1>5, <2>1 DEF Address, Bit
    <2>4. b[k] = 0 /\ a[k] = 1
        BY <1>1, <2>2 DEF Address, Bit
    <2>5. i \in Nat /\ k \in Nat
        BY <1>1
    <2>6. i <= c
        BY <1>6, <2>3, <2>5
    <2>7. k <= c
        BY <1>6, <1>7, <2>4, <2>5
    <2>8. CASE k < i
        <3>1. k \in 1..(i - 1) /\ k < c
            BY <1>6, <2>5, <2>6, <2>8
        <3>2. y[k] = a[k]
            BY <1>6, <3>1
        <3> QED BY <2>1, <2>4, <3>1, <3>2
    <2>9. CASE i < k
        <3>1. i \in 1..(k - 1) /\ i < c
            BY <1>6, <2>5, <2>7, <2>9
        <3>2. y[i] = a[i]
            BY <1>6, <3>1
        <3> QED BY <2>2, <2>3, <3>1, <3>2
    <2> QED BY <2>3, <2>4, <2>5, <2>8, <2>9
<1> QED BY <1>5, <1>8, <1>9, <1>10 DEF y

\* Nothing is less than an address of zeroes, in its family.
LEMMA AllZeroesIsFirst ==
    ASSUME NEW z \in Address, NEW a \in Address, IsAllZeroes(z), V4Mapped(z) <=> V4Mapped(a)
    PROVE  ~Less(a, z) /\ (IsAllZeroes(a) => a = z)
<1>1. ASSUME Less(a, z) PROVE FALSE
    <2>1. PICK i \in 1..W : a[i] < z[i] /\ \A j \in 1..(i - 1) : a[j] = z[j]
        BY <1>1 DEF Less
    <2>2. a[i] = 0 /\ z[i] = 1
        BY <2>1 DEF Address, Bit
    <2>3. i \notin Significant(z)
        BY <2>2 DEF IsAllZeroes, Ones
    <2>4. V4Mapped(z) /\ V4Mapped(a) /\ i \in 1..V4Len
        BY <2>3, SignificantBits
    <2> QED BY <2>2, <2>4 DEF V4Mapped
<1>2. ASSUME IsAllZeroes(a) PROVE a = z
    <2>1. ASSUME NEW i \in 1..W PROVE a[i] = z[i]
        <3>1. Significant(a) = Significant(z)
            BY DEF Significant
        <3>2. CASE i \in Significant(z)
            BY <1>2, <3>1, <3>2 DEF IsAllZeroes, Ones, Address, Bit
        <3>3. CASE i \notin Significant(z)
            <4>1. V4Mapped(z) /\ V4Mapped(a) /\ i \in 1..V4Len
                BY <3>3, SignificantBits
            <4> QED BY <4>1 DEF V4Mapped
        <3> QED BY <3>2, <3>3
    <2>2. a = [i \in 1..W |-> a[i]] /\ z = [i \in 1..W |-> z[i]]
        BY DEF Address
    <2> QED BY <2>1, <2>2
<1> QED BY <1>1, <1>2

-----------------------------------------------------------------------------
(* Well-formed databases *)

\* The nodes of a database and their paths
LEMMA NodesType ==
    ASSUME NEW d, WellFormed(d)
    PROVE  /\ Len(d.nodes) \in Nat /\ Len(d.nodes) > 0
           /\ Len(d.path) = Len(d.nodes)
           /\ d.path[1] = <<>>
           /\ \A i \in 1..Len(d.nodes) : d.nodes[i] \in Node /\ d.path[i] \in Path
<1>1. d.nodes \in Seq(Node) /\ d.path \in Seq(Path)
    BY DEF WellFormed, Database
<1>2. Len(d.nodes) \in Nat /\ Len(d.path) = Len(d.nodes) /\ Len(d.path) > 0 /\ d.path[1] = <<>>
    BY <1>1, LenProperties DEF WellFormed, OneNodePerPath, RootFirst
<1>3. \A i \in 1..Len(d.nodes) : d.nodes[i] \in Node /\ d.path[i] \in Path
    BY <1>1, <1>2, ElementOfSeq
<1> QED BY <1>2, <1>3

\* A child that there is: the node one bit further down.
LEMMA ChildOfNode ==
    ASSUME NEW d, WellFormed(d), NEW i \in 1..Len(d.nodes), NEW bit \in Bit,
           Child(d.nodes[i], bit) # 0
    PROVE  /\ Child(d.nodes[i], bit) \in 1..(Len(d.nodes) - 1)
           /\ Child(d.nodes[i], bit) + 1 \in 1..Len(d.nodes)
           /\ d.path[Child(d.nodes[i], bit) + 1] = Append(d.path[i], bit)
           /\ Len(d.path[i]) < W
<1> DEFINE child == Child(d.nodes[i], bit)
<1>1. Len(d.nodes) \in Nat /\ d.path[i] \in Path
    BY NodesType
<1>2. child \in 1..(Len(d.nodes) - 1) /\ d.path[child + 1] = Append(d.path[i], bit)
    BY DEF WellFormed, ChildrenLinked
<1> HIDE DEF child
<1>3. child + 1 \in 1..Len(d.nodes)
    BY <1>1, <1>2
<1>4. d.path[child + 1] \in Path
    BY <1>3, NodesType
<1>5. Len(d.path[i]) + 1 <= W /\ Len(d.path[i]) \in Nat
    <2>1. Len(Append(d.path[i], bit)) = Len(d.path[i]) + 1
        BY <1>1, PathChild
    <2>2. Append(d.path[i], bit) \in Path
        BY <1>2, <1>4
    <2>3. Len(Append(d.path[i], bit)) <= W
        BY <2>2, PathType
    <2>4. Len(d.path[i]) \in Nat
        BY <1>1, PathType
    <2> QED BY <2>1, <2>3, <2>4
<1>6. Len(d.path[i]) < W
    BY <1>5, WidthAssumption
<1> QED BY <1>2, <1>3, <1>6 DEF child

\* Where there is no child on the way to an address, no network further down
\* contains the address.
LEMMA TreeEnds ==
    ASSUME NEW d, WellFormed(d), NEW i \in 1..Len(d.nodes),
           NEW a \in Address, NEW n \in 0..W, d.path[i] = Masked(a, n),
           n < W => Child(d.nodes[i], a[n + 1]) = 0
    PROVE  \A p \in NetworksOf(d) : OnPath(p, a) => Len(p) <= n
<1> SUFFICES ASSUME NEW p \in NetworksOf(d), OnPath(p, a), ~(Len(p) <= n)
             PROVE  FALSE
    OBVIOUS
<1>1. PICK j \in 1..Len(d.nodes) : p = d.path[j]
    BY DEF NetworksOf
<1>2. p \in Path /\ Len(p) \in 0..W /\ p = Masked(a, Len(p))
    BY <1>1, NodesType, OnPathMasked
<1>3. n \in 0..(W - 1) /\ n + 1 \in 0..Len(p) /\ n < W
    BY <1>2, WidthAssumption
<1>4. SubSeq(p, 1, n + 1) = Append(d.path[i], a[n + 1])
    BY <1>2, <1>3, MaskedPrefix, MaskedChild
<1>5. \E k \in 1..Len(d.path) : d.path[k] = Append(d.path[i], a[n + 1])
    BY <1>1, <1>3, <1>4, NodesType DEF WellFormed, PrefixClosed
<1>6. Child(d.nodes[i], a[n + 1]) \in 1..(Len(d.nodes) - 1)
    BY <1>3, <1>5, MaskedChild DEF WellFormed, ChildrenLinked
<1> QED BY <1>3, <1>6, NodesType

\* The networks of a database are the paths of its leaves, and the attributes are
\* those that the leaf refers to.
LEMMA LeafIsNetwork ==
    ASSUME NEW d, WellFormed(d), NEW i \in 1..Len(d.nodes)
    PROVE  /\ IsLeaf(d.nodes[i]) <=> d.path[i] \in NetworksOf(d)
           /\ IsLeaf(d.nodes[i]) =>
                 /\ d.nodes[i].network < Len(d.networks)
                 /\ ContentsOf(d)[d.path[i]] = NetworkAt(d, d.nodes[i].network)
<1>1. \A j \in 1..Len(d.nodes) : d.path[j] = d.path[i] => j = i
    BY NodesType DEF WellFormed, OneNodePerPath
<1>2. IsLeaf(d.nodes[i]) <=> d.path[i] \in NetworksOf(d)
    BY <1>1 DEF NetworksOf
<1>3. ASSUME IsLeaf(d.nodes[i])
      PROVE  /\ d.nodes[i].network < Len(d.networks)
             /\ ContentsOf(d)[d.path[i]] = NetworkAt(d, d.nodes[i].network)
    <2>1. Len(d.networks) \in Nat
        BY LenProperties DEF WellFormed, Database
    <2>2. d.nodes[i].network \in 0..(Len(d.networks) - 1)
        BY <1>3 DEF WellFormed, NetworksNumbered
    <2>3. LeafAt(d, d.path[i]) = i
        BY <1>1, <1>3 DEF LeafAt
    <2> QED BY <1>2, <1>3, <2>1, <2>2, <2>3 DEF ContentsOf
<1> QED BY <1>2, <1>3

\* What a database holds is a map from paths to attributes.
LEMMA ContentsType ==
    ASSUME NEW d, WellFormed(d)
    PROVE  /\ DOMAIN ContentsOf(d) = NetworksOf(d) /\ NetworksOf(d) \subseteq Path
           /\ ContentsOf(d) \in [NetworksOf(d) -> Attributes]
<1>1. NetworksOf(d) \subseteq Path
    BY NodesType DEF NetworksOf
<1>2. ASSUME NEW p \in NetworksOf(d)
      PROVE  ContentsOf(d)[p] \in Attributes
    <2>1. PICK i \in 1..Len(d.nodes) : IsLeaf(d.nodes[i]) /\ p = d.path[i]
        BY DEF NetworksOf
    <2>2. ContentsOf(d)[p] = d.networks[d.nodes[i].network + 1]
        BY <2>1, LeafIsNetwork DEF NetworkAt
    <2>3. d.networks \in Seq(Attributes) /\ Len(d.networks) \in Nat
        BY LenProperties DEF WellFormed, Database
    <2>4. d.nodes[i].network \in 0..(Len(d.networks) - 1)
        BY <2>1 DEF WellFormed, NetworksNumbered
    <2>5. d.nodes[i].network + 1 \in 1..Len(d.networks)
        BY <2>3, <2>4
    <2> QED BY <2>2, <2>3, <2>5, ElementOfSeq
<1> QED BY <1>1, <1>2 DEF ContentsOf

\* The network read at a leaf, with an address that has the bits of its path: the
\* database's network of that path, unless that one spans the IPv4 range.
LEMMA FetchedNetwork ==
    ASSUME NEW d, WellFormed(d), NEW i \in 1..Len(d.nodes), IsLeaf(d.nodes[i]),
           NEW a \in Address, NEW n \in 0..W, Len(d.path[i]) = n,
           \A k \in 1..n : a[k] = d.path[i][k]
    PROVE  LET p == d.path[i]
               fetched == FetchNetwork(d, a, n, d.nodes[i].network)
           IN /\ p \in NetworksOf(d)
              /\ fetched \in {{}, {[path |-> p, attributes |-> ContentsOf(d)[p]]}}
              /\ fetched = {} => SpansV4(p)
<1> DEFINE p == d.path[i]
           prefix == IF V4Mapped(a) THEN n - V4Len ELSE n
           index == d.nodes[i].network
<1>1. p \in Path /\ p \in Seq(Bit) /\ Len(p) = n /\ \A k \in 1..n : a[k] = p[k]
    BY NodesType, PathType
<1>2. Masked(a, n) = p
    <2>1. /\ Masked(a, n) \in Seq(Bit) /\ Len(Masked(a, n)) = n
          /\ \A k \in 1..n : Masked(a, n)[k] = a[k]
        BY MaskedPath, PathType
    <2> QED BY <1>1, <2>1, SeqEqual
<1>3. p \in NetworksOf(d) /\ index < Len(d.networks) /\ ContentsOf(d)[p] = NetworkAt(d, index)
    BY LeafIsNetwork
<1>4. CASE ValidPrefix(a, prefix)
    BY <1>2, <1>3, <1>4 DEF FetchNetwork
<1>5. CASE ~ValidPrefix(a, prefix)
    <2>1. FetchNetwork(d, a, n, index) = {}
        BY <1>5 DEF FetchNetwork
    <2>2. V4Len \in Nat /\ V4Len < W /\ W \in Nat /\ n \in Nat
        BY V4Assumption, WidthAssumption, LenProperties DEF V4Len
    <2>3. V4Mapped(a) /\ n < V4Len
        BY <1>5, <2>2 DEF ValidPrefix, FamilyBits
    <2>4. \A k \in 1..n : k \in 1..V4Len
        BY <2>2, <2>3
    <2>5. \A k \in 1..n : p[k] = V4Prefix[k]
        BY <1>1, <2>3, <2>4 DEF V4Mapped
    <2>6. SpansV4(p)
        BY <1>1, <2>3, <2>5 DEF SpansV4, OnPath
    <2> QED BY <1>3, <2>1, <2>6
<1> QED BY <1>4, <1>5
=============================================================================

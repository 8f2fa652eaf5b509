------------------------- MODULE NetworkListsProofs -------------------------
(***************************************************************************)
(* Lists of networks of any length: bisection ends where a network has to  *)
(* go, so that lists stay sorted; a merge is the union of two lists; what  *)
(* is left when networks are excluded is the largest networks around them; *)
(* nothing is refused but where the number of addresses misleads; and what *)
(* makes up a range has its addresses, each once, in as few networks as    *)
(* possible.                                                               *)
(***************************************************************************)
EXTENDS NetworkLists, DatabaseFormatProofs

-----------------------------------------------------------------------------
(* The bisection of loc_network_list_find *)

\* The values its variables may have, and one turn of its loop when the function f
\* knows what the turns after it return
Loops(l) == [lo : 0..Len(l), hi : -1..(Len(l) - 1), index : 0..Len(l)]
Middle(r) == (r.lo + r.hi) \div 2
NextLoop(l, p, r) ==
    IF NetworkLess(l[Middle(r) + 1], p)
    THEN [lo |-> Middle(r) + 1, hi |-> r.hi, index |-> Middle(r) + 1]
    ELSE [lo |-> r.lo, hi |-> Middle(r) - 1, index |-> Middle(r)]
Loop(l, p, f, r) ==
    IF r.lo > r.hi THEN [index |-> r.index, found |-> FALSE]
    ELSE IF p = l[Middle(r) + 1] THEN [index |-> Middle(r), found |-> TRUE]
    ELSE f[NextLoop(l, p, r)]

\* How many networks it has still to look at
Size(r) == IF r.lo > r.hi THEN 0 ELSE r.hi - r.lo + 1

LEMMA LoopsGoOn ==
    ASSUME NEW l, Len(l) \in Nat, NEW p, NEW r \in Loops(l)
    PROVE  /\ Size(r) \in 0..Len(l)
           /\ r.lo <= r.hi =>
                 /\ Middle(r) \in r.lo..r.hi /\ Middle(r) + 1 \in 1..Len(l)
                 /\ NextLoop(l, p, r) \in Loops(l)
                 /\ Size(NextLoop(l, p, r)) < Size(r)
<1>1. r.lo \in 0..Len(l) /\ r.hi \in -1..(Len(l) - 1) /\ r.index \in 0..Len(l)
    BY DEF Loops
<1>2. Size(r) \in 0..Len(l)
    BY <1>1 DEF Size
<1>3. ASSUME r.lo <= r.hi
      PROVE  /\ Middle(r) \in r.lo..r.hi /\ Middle(r) + 1 \in 1..Len(l)
             /\ NextLoop(l, p, r) \in Loops(l)
             /\ Size(NextLoop(l, p, r)) < Size(r)
    <2>1. Middle(r) \in r.lo..r.hi /\ Middle(r) + 1 \in 1..Len(l)
        BY <1>1, <1>3 DEF Middle
    <2>2. NextLoop(l, p, r) \in Loops(l)
        BY <1>1, <1>3, <2>1 DEF NextLoop, Loops
    <2>3. Size(r) = r.hi - r.lo + 1
        BY <1>1, <1>3 DEF Size
    <2>4. \/ NextLoop(l, p, r).lo = Middle(r) + 1 /\ NextLoop(l, p, r).hi = r.hi
          \/ NextLoop(l, p, r).lo = r.lo /\ NextLoop(l, p, r).hi = Middle(r) - 1
        BY DEF NextLoop
    <2> HIDE DEF NextLoop
    <2>5. Size(NextLoop(l, p, r)) < Size(r)
        BY <1>1, <1>3, <2>1, <2>3, <2>4 DEF Size
    <2> QED BY <2>1, <2>2, <2>5
<1> QED BY <1>2, <1>3

\* The bisection is the function that the loop defines: such a function exists,
\* because there are ever fewer networks to look at.
LEMMA BisectionIsLoop ==
    ASSUME NEW l, Len(l) \in Nat, NEW p
    PROVE  Bisection(l, p) = [r \in Loops(l) |-> Loop(l, p, Bisection(l, p), r)]
<1> DEFINE Good(n) == \E f : /\ f = [r \in Loops(l) |-> f[r]]
                             /\ \A r \in Loops(l) : Size(r) <= n => f[r] = Loop(l, p, f, r)
           Bad == {n \in Nat : ~Good(n)}
<1>1. Good(0)
    <2> DEFINE f == [r \in Loops(l) |-> [index |-> r.index, found |-> FALSE]]
    <2>1. f = [r \in Loops(l) |-> f[r]]
        OBVIOUS
    <2>2. ASSUME NEW r \in Loops(l), Size(r) <= 0 PROVE f[r] = Loop(l, p, f, r)
        <3>1. r.lo \in Int /\ r.hi \in Int
            BY DEF Loops
        <3>2. r.lo > r.hi
            BY <2>2, <3>1 DEF Size
        <3> QED BY <3>2 DEF Loop
    <2> HIDE DEF f
    <2> QED BY <2>1, <2>2
<1>2. ASSUME NEW n \in Nat, Good(n) PROVE Good(n + 1)
    <2>1. PICK f : /\ f = [r \in Loops(l) |-> f[r]]
                   /\ \A r \in Loops(l) : Size(r) <= n => f[r] = Loop(l, p, f, r)
        BY <1>2
    <2> DEFINE g == [r \in Loops(l) |-> Loop(l, p, f, r)]
    <2>2. g = [r \in Loops(l) |-> g[r]]
        OBVIOUS
    <2>3. \A r \in Loops(l) : g[r] = Loop(l, p, f, r)
        OBVIOUS
    <2> HIDE DEF g
    <2>4. ASSUME NEW r \in Loops(l), Size(r) <= n + 1 PROVE g[r] = Loop(l, p, g, r)
        <3>1. r.lo \in Int /\ r.hi \in Int /\ Size(r) \in Nat
            BY LoopsGoOn DEF Loops
        <3>2. CASE r.lo > r.hi
            BY <2>3, <3>2 DEF Loop
        <3>3. CASE r.lo <= r.hi
            <4> DEFINE s == NextLoop(l, p, r)
            <4>1. s \in Loops(l) /\ Size(s) < Size(r)
                BY <3>3, LoopsGoOn
            <4>2. Size(s) \in Nat
                BY <4>1, LoopsGoOn
            <4> HIDE DEF s
            <4>3. Size(s) <= n
                BY <2>4, <3>1, <4>1, <4>2
            <4>4. f[s] = g[s]
                BY <2>1, <2>3, <4>1, <4>3
            <4> QED BY <2>3, <4>4 DEF Loop, s
        <3> QED BY <3>1, <3>2, <3>3
    <2> QED BY <2>2, <2>4
<1> HIDE DEF Good
<1>3. Bad = {}
    <2> SUFFICES ASSUME Bad # {} PROVE FALSE
        OBVIOUS
    <2>1. Bad \in SUBSET Nat
        OBVIOUS
    <2>2. PICK n \in Bad : \A m \in Bad : n <= m
        BY <2>1, SmallestMember
    <2>3. n \in Nat /\ ~Good(n) /\ n # 0
        BY <1>1
    <2>4. n - 1 \in Nat /\ n - 1 + 1 = n /\ ~(n <= n - 1)
        BY <2>3
    <2>5. Good(n - 1)
        BY <2>2, <2>4
    <2>6. Good(n - 1 + 1)
        BY <1>2, <2>4, <2>5
    <2> QED BY <2>3, <2>4, <2>6
<1>4. Good(Len(l))
    BY <1>3
<1>5. PICK f : /\ f = [r \in Loops(l) |-> f[r]]
               /\ \A r \in Loops(l) : Size(r) <= Len(l) => f[r] = Loop(l, p, f, r)
    BY <1>4 DEF Good
<1>6. ASSUME NEW r \in Loops(l) PROVE f[r] = Loop(l, p, f, r)
    <2>1. Size(r) <= Len(l)
        BY LoopsGoOn
    <2> QED BY <1>5, <2>1
<1>7. f = [r \in Loops(l) |-> Loop(l, p, f, r)]
    BY <1>5, <1>6
<1>8. Bisection(l, p) = CHOOSE b : b = [r \in Loops(l) |-> Loop(l, p, b, r)]
    BY DEF Bisection, Loops, Loop, NextLoop, Middle
<1> QED BY <1>7, <1>8

\* A list that is sorted is so for any two of its networks.
LEMMA SortedOverall ==
    ASSUME NEW l \in Seq(Path), Sorted(l)
    PROVE  \A i, j \in 1..Len(l) : i < j => NetworkLess(l[i], l[j])
<1>1. Len(l) \in Nat /\ \A i \in 1..Len(l) : l[i] \in Path
    OBVIOUS
<1> SUFFICES ASSUME NEW i \in 1..Len(l)
             PROVE  \A j \in 1..Len(l) : i < j => NetworkLess(l[i], l[j])
    OBVIOUS
<1> DEFINE Bad == {j \in 1..Len(l) : i < j /\ ~NetworkLess(l[i], l[j])}
<1> SUFFICES ASSUME Bad # {} PROVE FALSE
    OBVIOUS
<1>2. Bad \in SUBSET Nat
    OBVIOUS
<1>3. PICK j \in Bad : \A k \in Bad : j <= k
    BY <1>2, SmallestMember
<1>4. j \in 1..Len(l) /\ i < j /\ ~NetworkLess(l[i], l[j])
    OBVIOUS
<1>5. PICK k : k = j - 1
    OBVIOUS
<1>6. k \in 1..(Len(l) - 1) /\ k + 1 = j /\ k \in 1..Len(l) /\ ~(j <= k) /\ (i = k \/ i < k)
    BY <1>1, <1>4, <1>5
<1>7. NetworkLess(l[k], l[j])
    BY <1>6 DEF Sorted
<1>8. i = k \/ NetworkLess(l[i], l[k])
    BY <1>3, <1>6
<1> QED BY <1>1, <1>4, <1>6, <1>7, <1>8, LessIsStrict

\* What find says of a network is right: where it is on the list, or where it goes.
Right(l, p, f) ==
    IF f.found THEN f.index + 1 \in 1..Len(l) /\ l[f.index + 1] = p
    ELSE /\ f.index \in 0..Len(l)
         /\ \A j \in 1..Len(l) : IF j <= f.index THEN NetworkLess(l[j], p) ELSE NetworkLess(p, l[j])

\* The networks in front of lo are in front of the one that is looked for, those
\* behind hi are behind it; when the loop ends, index is between them.
Narrowed(l, p, r) ==
    /\ r.lo <= r.hi + 1
    /\ r.lo > r.hi => r.index = r.lo
    /\ \A j \in 1..Len(l) : /\ j <= r.lo => NetworkLess(l[j], p)
                            /\ j > r.hi + 1 => NetworkLess(p, l[j])

LEMMA TurnNarrows ==
    ASSUME NEW l \in Seq(Path), Sorted(l), NEW p \in Path,
           NEW r \in Loops(l), Narrowed(l, p, r), r.lo <= r.hi, p # l[Middle(r) + 1]
    PROVE  Narrowed(l, p, NextLoop(l, p, r))
<1>1. Len(l) \in Nat /\ \A i \in 1..Len(l) : l[i] \in Path
    OBVIOUS
<1>2. r.lo \in Int /\ r.hi \in Int
    BY DEF Loops
<1>3. PICK m : m = Middle(r)
    OBVIOUS
<1>4. m \in r.lo..r.hi /\ m + 1 \in 1..Len(l)
    BY <1>1, <1>3, LoopsGoOn
<1>5. m \in Int /\ r.lo <= m /\ m <= r.hi
    BY <1>2, <1>4
<1>6. \A i, j \in 1..Len(l) : i < j => NetworkLess(l[i], l[j])
    BY SortedOverall
<1>7. CASE NetworkLess(l[m + 1], p)
    <2>1. NextLoop(l, p, r) = [lo |-> m + 1, hi |-> r.hi, index |-> m + 1]
        BY <1>3, <1>7 DEF NextLoop
    <2>2. ASSUME NEW j \in 1..Len(l), j <= m + 1 PROVE NetworkLess(l[j], p)
        <3>1. j = m + 1 \/ j < m + 1
            BY <1>5, <2>2
        <3>2. j < m + 1 => NetworkLess(l[j], l[m + 1])
            BY <1>4, <1>6
        <3> QED BY <1>1, <1>4, <1>7, <3>1, <3>2, LessIsStrict
    <2> QED BY <1>2, <1>5, <2>1, <2>2 DEF Narrowed
<1>8. CASE ~NetworkLess(l[m + 1], p)
    <2>1. NextLoop(l, p, r) = [lo |-> r.lo, hi |-> m - 1, index |-> m]
        BY <1>3, <1>8 DEF NextLoop
    <2>2. NetworkLess(p, l[m + 1])
        BY <1>1, <1>3, <1>4, <1>8, LessIsStrict
    <2>3. ASSUME NEW j \in 1..Len(l), j > m - 1 + 1 PROVE NetworkLess(p, l[j])
        <3>1. j = m + 1 \/ m + 1 < j
            BY <1>5, <2>3
        <3>2. m + 1 < j => NetworkLess(l[m + 1], l[j])
            BY <1>4, <1>6
        <3> QED BY <1>1, <1>4, <2>2, <3>1, <3>2, LessIsStrict
    <2>4. r.lo <= m - 1 + 1 /\ (r.lo > m - 1 => m = r.lo)
        BY <1>2, <1>5
    <2> QED BY <2>1, <2>3, <2>4 DEF Narrowed
<1> QED BY <1>7, <1>8

LEMMA BisectionFinds ==
    ASSUME NEW l \in Seq(Path), Sorted(l), NEW p \in Path,
           NEW r \in Loops(l), Narrowed(l, p, r)
    PROVE  Right(l, p, Bisection(l, p)[r])
<1> DEFINE f == Bisection(l, p)
           Wrong(s) == s \in Loops(l) /\ Narrowed(l, p, s) /\ ~Right(l, p, f[s])
           Bad == {n \in Nat : \E s : Wrong(s) /\ Size(s) = n}
<1>1. Len(l) \in Nat
    OBVIOUS
<1>2. \A s \in Loops(l) : f[s] = Loop(l, p, f, s)
    BY <1>1, BisectionIsLoop
<1> HIDE DEF f
<1>3. ASSUME NEW s, Wrong(s) PROVE \E t : Wrong(t) /\ Size(t) < Size(s)
    <2>1. s.lo \in Int /\ s.hi \in Int /\ s.index \in 0..Len(l)
        BY <1>3 DEF Loops
    <2>2. CASE s.lo > s.hi
        <3>1. f[s] = [index |-> s.index, found |-> FALSE]
            BY <1>2, <1>3, <2>2 DEF Loop
        <3>2. s.index = s.lo /\ s.lo = s.hi + 1
            BY <1>3, <2>1, <2>2 DEF Narrowed
        <3>3. ASSUME NEW j \in 1..Len(l)
              PROVE  IF j <= s.index THEN NetworkLess(l[j], p) ELSE NetworkLess(p, l[j])
            <4>1. j <= s.index => j <= s.lo
                BY <3>2
            <4>2. ~(j <= s.index) => j > s.hi + 1
                BY <2>1, <3>2
            <4> QED BY <1>3, <4>1, <4>2 DEF Narrowed
        <3>4. Right(l, p, f[s])
            BY <2>1, <3>1, <3>3 DEF Right
        <3> QED BY <1>3, <3>4
    <2>3. CASE s.lo <= s.hi
        <3>1. /\ Middle(s) + 1 \in 1..Len(l) /\ NextLoop(l, p, s) \in Loops(l)
              /\ Size(NextLoop(l, p, s)) < Size(s)
            BY <1>1, <1>3, <2>3, LoopsGoOn
        <3>2. ~(s.lo > s.hi)
            BY <2>1, <2>3
        <3>3. p # l[Middle(s) + 1]
            <4> SUFFICES ASSUME p = l[Middle(s) + 1] PROVE FALSE
                OBVIOUS
            <4>1. f[s] = [index |-> Middle(s), found |-> TRUE]
                BY <1>2, <1>3, <3>2 DEF Loop
            <4> QED BY <1>3, <3>1, <4>1 DEF Right
        <3>4. f[s] = f[NextLoop(l, p, s)]
            BY <1>2, <1>3, <3>2, <3>3 DEF Loop
        <3>5. Narrowed(l, p, NextLoop(l, p, s))
            BY <1>3, <2>3, <3>3, TurnNarrows
        <3> QED BY <1>3, <3>1, <3>4, <3>5
    <2> QED BY <2>1, <2>2, <2>3
<1>4. ASSUME NEW s, Wrong(s) PROVE Size(s) \in Nat
    <2>1. Size(s) \in 0..Len(l)
        BY <1>1, <1>4, LoopsGoOn
    <2> QED BY <1>1, <2>1
<1> HIDE DEF Wrong
<1>5. Bad = {}
    <2> SUFFICES ASSUME Bad # {} PROVE FALSE
        OBVIOUS
    <2>1. Bad \in SUBSET Nat
        OBVIOUS
    <2>2. PICK n \in Bad : \A m \in Bad : n <= m
        BY <2>1, SmallestMember
    <2>3. PICK s : Wrong(s) /\ Size(s) = n
        OBVIOUS
    <2>4. PICK t : Wrong(t) /\ Size(t) < n
        BY <1>3, <2>3
    <2>5. Size(t) \in Bad /\ Size(t) \in Nat /\ n \in Nat
        BY <1>4, <2>4
    <2>6. n <= Size(t)
        BY <2>2, <2>5
    <2> QED BY <2>4, <2>5, <2>6
<1>6. ~Wrong(r)
    BY <1>4, <1>5
<1> QED BY <1>6 DEF Wrong, f

LEMMA FindIsRight ==
    ASSUME NEW l \in Seq(Path), Sorted(l), NEW p \in Path
    PROVE  Right(l, p, Find(l, p))
<1>1. Len(l) \in Nat /\ \A i \in 1..Len(l) : l[i] \in Path
    OBVIOUS
<1>2. CASE l = <<>>
    <2>1. Len(l) = 0 /\ Find(l, p) = [index |-> 0, found |-> FALSE]
        BY <1>2 DEF Find
    <2> QED BY <2>1 DEF Right
<1>3. CASE l # <<>> /\ p = Last(l)
    <2>1. Len(l) > 0
        BY <1>1, <1>3
    <2>2. Find(l, p) = [index |-> Len(l) - 1, found |-> TRUE]
        BY <1>3 DEF Find
    <2>3. Len(l) - 1 + 1 = Len(l) /\ Len(l) \in 1..Len(l)
        BY <1>1, <2>1
    <2> QED BY <1>3, <2>2, <2>3 DEF Right, Last
<1>4. CASE l # <<>> /\ p # Last(l) /\ NetworkLess(Last(l), p)
    <2>1. Len(l) > 0
        BY <1>1, <1>4
    <2>2. Find(l, p) = [index |-> Len(l), found |-> FALSE]
        BY <1>4 DEF Find
    <2>3. ASSUME NEW j \in 1..Len(l) PROVE j <= Len(l) /\ NetworkLess(l[j], p)
        <3>1. j = Len(l) \/ j < Len(l)
            BY <1>1
        <3>2. Len(l) \in 1..Len(l)
            BY <1>1, <2>1
        <3>3. j < Len(l) => NetworkLess(l[j], l[Len(l)])
            BY <3>2, SortedOverall
        <3> QED BY <1>1, <1>4, <3>1, <3>2, <3>3, LessIsStrict DEF Last
    <2> QED BY <1>1, <2>2, <2>3 DEF Right
<1>5. CASE l # <<>> /\ p # Last(l) /\ ~NetworkLess(Last(l), p)
    <2> DEFINE r == [lo |-> 0, hi |-> Len(l) - 1, index |-> 0]
    <2>1. Len(l) > 0
        BY <1>1, <1>5
    <2>2. r \in Loops(l)
        BY <1>1, <2>1 DEF Loops
    <2>3. Narrowed(l, p, r)
        BY <1>1, <2>1 DEF Narrowed
    <2>4. Find(l, p) = Bisection(l, p)[r]
        BY <1>5 DEF Find
    <2> HIDE DEF r
    <2> QED BY <2>2, <2>3, <2>4, BisectionFinds
<1> QED BY <1>2, <1>3, <1>4, <1>5

\* Whether a network is on a list
LEMMA ListedIsMember ==
    ASSUME NEW l \in Seq(Path), Sorted(l), NEW p \in Path
    PROVE  Listed(l, p) <=> \E i \in 1..Len(l) : l[i] = p
<1>1. Right(l, p, Find(l, p))
    BY FindIsRight
<1>2. \A i \in 1..Len(l) : l[i] \in Path
    OBVIOUS
<1> QED BY <1>1, <1>2, LessIsStrict DEF Right, Listed

-----------------------------------------------------------------------------
(* Pushing a network on a list *)

LEMMA InsertAtIs ==
    ASSUME NEW l, NEW n, NEW p
    PROVE  InsertAt(l, n, p) = SubSeq(l, 1, n - 1) \o <<p>> \o SubSeq(l, n, Len(l))
BY DEF InsertAt

LEMMA Inserted ==
    ASSUME NEW l \in Seq(Path), NEW k \in 0..Len(l), NEW p \in Path
    PROVE  /\ InsertAt(l, k + 1, p) \in Seq(Path)
           /\ Len(InsertAt(l, k + 1, p)) = Len(l) + 1
           /\ \A j \in 1..k : InsertAt(l, k + 1, p)[j] = l[j]
           /\ InsertAt(l, k + 1, p)[k + 1] = p
           /\ \A j \in (k + 1)..Len(l) : InsertAt(l, k + 1, p)[j + 1] = l[j]
<1> DEFINE first == SubSeq(l, 1, k)
           middle == first \o <<p>>
           last == SubSeq(l, k + 1, Len(l))
           all == middle \o last
<1>1. Len(l) \in Nat /\ k \in Nat /\ k <= Len(l)
    OBVIOUS
<1>2. InsertAt(l, k + 1, p) = all
    <2>1. PICK n : n = k + 1
        OBVIOUS
    <2>2. n - 1 = k
        BY <1>1, <2>1
    <2>3. InsertAt(l, n, p) = (SubSeq(l, 1, n - 1) \o <<p>>) \o SubSeq(l, n, Len(l))
        BY InsertAtIs, Zenon
    <2> QED BY <2>1, <2>2, <2>3, Zenon
<1>3. first \in Seq(Path) /\ Len(first) = k /\ \A j \in 1..k : first[j] = l[j]
    <2>1. \A j \in 1..k : l[j] \in Path
        BY <1>1
    <2>2. /\ first \in Seq(Path) /\ Len(first) = (IF 1 <= k THEN k - 1 + 1 ELSE 0)
          /\ \A j \in 1..(k - 1 + 1) : first[j] = l[1 + j - 1]
        BY <1>1, <2>1, SubSeqProperties
    <2> HIDE DEF first
    <2>3. k - 1 + 1 = k /\ \A j \in 1..k : 1 + j - 1 = j
        BY <1>1
    <2> QED BY <1>1, <2>2, <2>3
<1>4. /\ last \in Seq(Path) /\ Len(last) = Len(l) - k
      /\ \A j \in 1..(Len(l) - k) : last[j] = l[k + j]
    <2>1. \A j \in (k + 1)..Len(l) : l[j] \in Path
        BY <1>1
    <2>2. /\ last \in Seq(Path)
          /\ Len(last) = (IF k + 1 <= Len(l) THEN Len(l) - (k + 1) + 1 ELSE 0)
          /\ \A j \in 1..(Len(l) - (k + 1) + 1) : last[j] = l[k + 1 + j - 1]
        BY <1>1, <2>1, SubSeqProperties
    <2> HIDE DEF last
    <2>3. /\ Len(l) - (k + 1) + 1 = Len(l) - k
          /\ \A j \in 1..(Len(l) - k) : k + 1 + j - 1 = k + j
        BY <1>1
    <2>4. Len(last) = Len(l) - k
        <3>1. CASE k + 1 <= Len(l)
            BY <2>2, <2>3, <3>1
        <3>2. CASE ~(k + 1 <= Len(l))
            <4>1. Len(l) - k = 0
                BY <1>1, <3>2
            <4> QED BY <2>2, <3>2, <4>1
        <3> QED BY <3>1, <3>2
    <2>5. ASSUME NEW j \in 1..(Len(l) - k) PROVE last[j] = l[k + j]
        <3>1. j \in 1..(Len(l) - (k + 1) + 1) /\ k + 1 + j - 1 = k + j
            BY <2>3
        <3>2. last[j] = l[k + 1 + j - 1]
            BY <2>2, <3>1
        <3> QED BY <3>1, <3>2
    <2> QED BY <2>2, <2>4, <2>5
<1> HIDE DEF first, last
<1>5. /\ middle \in Seq(Path) /\ Len(middle) = k + 1
      /\ (\A j \in 1..k : middle[j] = l[j]) /\ middle[k + 1] = p
    <2>1. <<p>> \in Seq(Path) /\ Len(<<p>>) = 1 /\ <<p>>[1] = p
        OBVIOUS
    <2>2. /\ middle \in Seq(Path) /\ Len(middle) = k + 1
          /\ \A j \in 1..(k + 1) : middle[j] = IF j <= k THEN first[j] ELSE <<p>>[j - k]
        BY <1>3, <2>1, ConcatProperties
    <2>3. k + 1 \in 1..(k + 1) /\ ~(k + 1 <= k) /\ k + 1 - k = 1
          /\ \A j \in 1..k : j \in 1..(k + 1) /\ j <= k
        BY <1>1
    <2> HIDE DEF middle
    <2>4. middle[k + 1] = <<p>>[k + 1 - k]
        BY <2>2, <2>3
    <2>5. \A j \in 1..k : middle[j] = first[j]
        BY <2>2, <2>3
    <2> QED BY <1>3, <2>1, <2>2, <2>3, <2>4, <2>5
<1> HIDE DEF middle
<1>6. /\ all \in Seq(Path) /\ Len(all) = k + 1 + (Len(l) - k)
      /\ \A j \in 1..(k + 1 + (Len(l) - k)) :
            all[j] = IF j <= k + 1 THEN middle[j] ELSE last[j - (k + 1)]
    <2>1. /\ all \in Seq(Path) /\ Len(all) = Len(middle) + Len(last)
          /\ \A j \in 1..(Len(middle) + Len(last)) :
                all[j] = IF j <= Len(middle) THEN middle[j] ELSE last[j - Len(middle)]
        BY <1>4, <1>5, ConcatProperties
    <2> HIDE DEF all
    <2> QED BY <1>4, <1>5, <2>1
<1>7. k + 1 + (Len(l) - k) = Len(l) + 1
    BY <1>1
<1> HIDE DEF all
<1>8. ASSUME NEW j \in 1..k PROVE all[j] = l[j]
    <2>1. j \in 1..(Len(l) + 1) /\ j <= k + 1
        BY <1>1
    <2> QED BY <1>5, <1>6, <1>7, <2>1
<1>9. all[k + 1] = p
    <2>1. k + 1 \in 1..(Len(l) + 1) /\ k + 1 <= k + 1
        BY <1>1
    <2> QED BY <1>5, <1>6, <1>7, <2>1
<1>10. ASSUME NEW j \in (k + 1)..Len(l) PROVE all[j + 1] = l[j]
    <2>1. /\ j + 1 \in 1..(Len(l) + 1) /\ ~(j + 1 <= k + 1) /\ j + 1 - (k + 1) = j - k
          /\ j - k \in 1..(Len(l) - k) /\ k + (j - k) = j
        BY <1>1
    <2>2. all[j + 1] = last[j - k]
        BY <1>6, <1>7, <2>1, SMTT(30)
    <2> QED BY <1>4, <2>1, <2>2
<1> QED BY <1>2, <1>6, <1>7, <1>8, <1>9, <1>10

\* A list stays sorted, and has one network more unless it is there already.
LEMMA PushIsRight ==
    ASSUME NEW l \in Seq(Path), Sorted(l), NEW p \in Path
    PROVE  /\ Push(l, p) \in Seq(Path) /\ Sorted(Push(l, p))
           /\ Range(Push(l, p)) = Range(l) \cup {p}
<1>1. Len(l) \in Nat /\ DOMAIN l = 1..Len(l) /\ \A i \in 1..Len(l) : l[i] \in Path
    OBVIOUS
<1>2. Right(l, p, Find(l, p))
    BY FindIsRight
<1>3. CASE Listed(l, p)
    <2>1. Push(l, p) = l
        BY <1>3 DEF Push
    <2>2. p \in Range(l)
        BY <1>1, <1>3, ListedIsMember DEF Range
    <2> QED BY <2>1, <2>2
<1>4. CASE ~Listed(l, p)
    <2>1. PICK k : k = Find(l, p).index
        OBVIOUS
    <2>2. /\ k \in 0..Len(l)
          /\ \A j \in 1..Len(l) : IF j <= k THEN NetworkLess(l[j], p) ELSE NetworkLess(p, l[j])
        BY <1>2, <1>4, <2>1 DEF Right, Listed
    <2>3. PICK m : m = InsertAt(l, k + 1, p)
        OBVIOUS
    <2>4. Push(l, p) = m
        BY <1>4, <2>1, <2>3 DEF Push
    <2>5. /\ m \in Seq(Path) /\ Len(m) = Len(l) + 1
          /\ \A j \in 1..k : m[j] = l[j]
          /\ m[k + 1] = p
          /\ \A j \in (k + 1)..Len(l) : m[j + 1] = l[j]
        BY <2>2, <2>3, Inserted
    <2>6. ASSUME NEW j \in 1..(Len(m) - 1) PROVE NetworkLess(m[j], m[j + 1])
        <3>1. j \in 1..Len(l) /\ k \in Nat /\ k <= Len(l)
            BY <1>1, <2>2, <2>5
        <3>2. CASE j < k
            <4>1. j \in 1..k /\ j + 1 \in 1..k /\ j \in 1..(Len(l) - 1)
                BY <1>1, <3>1, <3>2
            <4> QED BY <2>5, <4>1 DEF Sorted
        <3>3. CASE j = k
            <4>1. j \in 1..k /\ j <= k
                BY <3>1, <3>3
            <4> QED BY <2>2, <2>5, <3>1, <3>3, <4>1
        <3>4. CASE j = k + 1
            <4>1. j \in (k + 1)..Len(l) /\ ~(j <= k)
                BY <1>1, <3>1, <3>4
            <4> QED BY <2>2, <2>5, <3>1, <3>4, <4>1
        <3>5. CASE j > k + 1
            <4>1. PICK i : i = j - 1
                OBVIOUS
            <4>2. /\ i + 1 = j /\ i \in (k + 1)..Len(l) /\ j \in (k + 1)..Len(l)
                  /\ i \in 1..(Len(l) - 1)
                BY <1>1, <3>1, <3>5, <4>1
            <4>3. NetworkLess(l[i], l[j])
                BY <4>2 DEF Sorted
            <4> QED BY <2>5, <4>2, <4>3
        <3> QED BY <3>1, <3>2, <3>3, <3>4, <3>5
    <2>7. ASSUME NEW q PROVE q \in Range(m) <=> q \in Range(l) \cup {p}
        <3>1. DOMAIN m = 1..(Len(l) + 1)
            BY <2>5
        <3>2. ASSUME NEW j \in 1..(Len(l) + 1) PROVE m[j] \in Range(l) \cup {p}
            <4>1. j \in 1..k \/ j = k + 1 \/ (\E i \in (k + 1)..Len(l) : j = i + 1)
                <5>1. j \in 1..k \/ j = k + 1 \/ (j - 1 \in (k + 1)..Len(l) /\ j = j - 1 + 1)
                    BY <1>1, <2>2
                <5> QED BY <5>1
            <4>2. j \in 1..k => j \in 1..Len(l)
                BY <1>1, <2>2
            <4>3. \A i \in (k + 1)..Len(l) : i \in 1..Len(l)
                BY <1>1, <2>2
            <4> QED BY <1>1, <2>5, <4>1, <4>2, <4>3 DEF Range
        <3>3. ASSUME NEW j \in 1..Len(l) PROVE l[j] \in Range(m)
            <4>1. \/ j \in 1..k /\ j \in 1..(Len(l) + 1)
                  \/ j \in (k + 1)..Len(l) /\ j + 1 \in 1..(Len(l) + 1)
                BY <1>1, <2>2
            <4> QED BY <2>5, <3>1, <4>1 DEF Range
        <3>4. p \in Range(m)
            <4>1. k + 1 \in 1..(Len(l) + 1)
                BY <1>1, <2>2
            <4> QED BY <2>5, <3>1, <4>1 DEF Range
        <3> QED BY <1>1, <3>1, <3>2, <3>3, <3>4 DEF Range
    <2> QED BY <2>4, <2>5, <2>6, <2>7 DEF Sorted
<1> QED BY <1>3, <1>4

\* What is taken from either end leaves a list sorted.
LEMMA EndsAreSorted ==
    ASSUME NEW l \in Seq(Path), Sorted(l), l # <<>>
    PROVE  /\ Front(l) \in Seq(Path) /\ Sorted(Front(l))
           /\ Tail(l) \in Seq(Path) /\ Sorted(Tail(l))
<1>1. Len(l) \in Nat /\ Len(l) > 0 /\ \A i \in 1..Len(l) : l[i] \in Path
    OBVIOUS
<1>2. Front(l) \in Seq(Path) /\ Sorted(Front(l))
    <2>1. PICK n : n = Len(l) - 1
        OBVIOUS
    <2>2. n \in 0..Len(l) /\ n \in Int
        BY <1>1, <2>1
    <2>3. \A i \in 1..n : i \in 1..Len(l) /\ i - 1 + 1 = i /\ 1 + i - 1 = i
        BY <1>1, <2>2
    <2>4. n - 1 + 1 = n
        BY <2>2
    <2>5. /\ Front(l) \in Seq(Path) /\ Len(Front(l)) = (IF 1 <= n THEN n - 1 + 1 ELSE 0)
          /\ \A i \in 1..(n - 1 + 1) : Front(l)[i] = l[1 + i - 1]
        BY <1>1, <2>1, <2>2, <2>3, SubSeqProperties DEF Front
    <2>6. Len(Front(l)) = n /\ \A i \in 1..n : Front(l)[i] = l[i]
        BY <2>2, <2>3, <2>4, <2>5
    <2>7. \A i \in 1..(n - 1) : i \in 1..n /\ i + 1 \in 1..n /\ i \in 1..(Len(l) - 1)
        BY <1>1, <2>1, <2>2
    <2> QED BY <2>5, <2>6, <2>7 DEF Sorted
<1>3. Tail(l) \in Seq(Path) /\ Sorted(Tail(l))
    <2>1. /\ Tail(l) \in Seq(Path) /\ Len(Tail(l)) = Len(l) - 1
          /\ \A i \in 1..Len(Tail(l)) : Tail(l)[i] = l[i + 1]
        BY HeadTailProperties
    <2>2. \A i \in 1..(Len(l) - 1 - 1) : /\ i \in 1..(Len(l) - 1) /\ i + 1 \in 1..(Len(l) - 1)
        BY <1>1
    <2> QED BY <2>1, <2>2 DEF Sorted
<1> QED BY <1>2, <1>3

-----------------------------------------------------------------------------
(* Halving networks *)

\* The address behind the first half of a network is the first one of the second
\* half, unless the first half ends where the IPv4 range does and started before it.
LEMMA BehindFirstHalf ==
    ASSUME NEW p \in Path, Len(p) < W
    PROVE  LET f == Append(p, 0)
               z == LastAddress(f)
           IN  /\ f \in Path /\ z \in Address /\ Behind[f] = Increment(z)
               /\ Len(p) < V4Len /\ V4Mapped(z) => Behind[f] = z
               /\ ~(Len(p) < V4Len /\ V4Mapped(z)) => Behind[f] = FirstAddress(Append(p, 1))
<1> DEFINE f == Append(p, 0)
           s == Append(p, 1)
           z == LastAddress(f)
           c == Len(p) + 1
<1>1. /\ f \in Path /\ Len(f) = Len(p) + 1 /\ f[Len(p) + 1] = 0
      /\ \A i \in 1..Len(p) : f[i] = p[i]
    BY PathChild DEF Bit
<1>2. /\ s \in Path /\ Len(s) = Len(p) + 1 /\ s[Len(p) + 1] = 1
      /\ \A i \in 1..Len(p) : s[i] = p[i]
    BY PathChild DEF Bit
<1>3. Len(p) \in Nat /\ W \in Nat /\ V4Len \in Nat /\ V4Len < W
    BY WidthAssumption, V4Assumption, PathType DEF V4Len
<1>4. c \in Nat /\ c \in 1..W /\ Len(p) + 1 = c
    BY <1>3
<1> HIDE DEF f, s, c
<1>5. z \in Address /\ Behind[f] = Increment(z)
    BY <1>1, LeadsToEnds DEF Behind, Upto
<1>6. ASSUME NEW i \in 1..W
      PROVE  z[i] = IF i < c THEN p[i] ELSE IF i = c THEN 0 ELSE 1
    <2>1. i < c => i \in 1..Len(p) /\ i <= Len(f)
        BY <1>1, <1>3, <1>4
    <2>2. i = c => i <= Len(f)
        BY <1>1, <1>4
    <2>3. i > c => i > Len(f) /\ ~(i < c) /\ i # c
        BY <1>1, <1>3, <1>4
    <2>4. i < c \/ i = c \/ i > c
        BY <1>4
    <2>5. z[i] = IF i <= Len(f) THEN f[i] ELSE 1
        BY <1>1, <1>4, <2>1, <2>2, <2>3, <2>4, EndBits
    <2> HIDE DEF z
    <2>6. CASE i < c
        BY <1>1, <2>1, <2>5, <2>6
    <2>7. CASE i = c
        BY <1>1, <1>4, <2>2, <2>5, <2>7
    <2>8. CASE i > c
        BY <1>1, <1>4, <2>3, <2>5, <2>8
    <2> QED BY <2>4, <2>6, <2>7, <2>8
<1>7. ASSUME NEW i \in 1..W
      PROVE  FirstAddress(s)[i] = IF i < c THEN p[i] ELSE IF i = c THEN 1 ELSE 0
    <2>1. i < c => i \in 1..Len(p) /\ i <= Len(s)
        BY <1>2, <1>3, <1>4
    <2>2. i = c => i <= Len(s)
        BY <1>2, <1>4
    <2>3. i > c => i > Len(s) /\ ~(i < c) /\ i # c
        BY <1>2, <1>3, <1>4
    <2>4. i < c \/ i = c \/ i > c
        BY <1>4
    <2>5. FirstAddress(s)[i] = IF i <= Len(s) THEN s[i] ELSE 0
        BY <1>2, <1>4, <2>1, <2>2, <2>3, <2>4, EndBits
    <2>6. CASE i < c
        BY <1>2, <2>1, <2>5, <2>6
    <2>7. CASE i = c
        BY <1>2, <1>4, <2>2, <2>5, <2>7
    <2>8. CASE i > c
        BY <1>2, <1>4, <2>3, <2>5, <2>8
    <2> QED BY <2>4, <2>6, <2>7, <2>8
<1> HIDE DEF z
<1>8. ASSUME Len(p) < V4Len, V4Mapped(z) PROVE Behind[f] = z
    <2>1. Significant(z) = (V4Len + 1)..W
        BY <1>8 DEF Significant
    <2>2. \A i \in (V4Len + 1)..W : i \in 1..W /\ ~(i < c) /\ i # c
        BY <1>3, <1>4, <1>8
    <2>3. \A i \in (V4Len + 1)..W : z[i] = 1
        BY <1>6, <2>2
    <2>4. IsAllOnes(z)
        BY <2>1, <2>3 DEF IsAllOnes, Zeroes, Ones
    <2> QED BY <1>5, <2>4 DEF Increment
<1>9. ASSUME ~(Len(p) < V4Len /\ V4Mapped(z)) PROVE Behind[f] = FirstAddress(s)
    <2>1. c \in Significant(z) /\ Significant(z) \subseteq 1..W
        BY <1>3, <1>4, <1>9 DEF Significant
    <2>2. z[c] = 0
        BY <1>4, <1>6
    <2>3. c \in Zeroes(z)
        BY <2>1, <2>2 DEF Zeroes, Ones
    <2>4. ASSUME NEW i \in Zeroes(z) PROVE i <= c
        <3>1. i \in 1..W /\ z[i] # 1
            BY <2>1 DEF Zeroes, Ones
        <3>2. ~(i <= c) => ~(i < c) /\ i # c
            BY <1>4, <3>1
        <3> QED BY <1>6, <3>1, <3>2
    <2> DEFINE b == [i \in 1..W |-> IF i < c THEN z[i] ELSE IF i = c THEN 1 ELSE 0]
    <2>5. ~IsAllOnes(z)
        BY <2>3 DEF IsAllOnes
    <2>6. Increment(z) = b
        BY <1>5, <2>3, <2>4, <2>5, IncrementIs
    <2>7. FirstAddress(s) = [i \in 1..W |-> FirstAddress(s)[i]]
        BY DEF FirstAddress
    <2>8. \A i \in 1..W : b[i] = FirstAddress(s)[i]
        BY <1>4, <1>6, <1>7
    <2>9. b = [i \in 1..W |-> b[i]]
        OBVIOUS
    <2> HIDE DEF b
    <2>10. b = FirstAddress(s)
        BY <2>7, <2>8, <2>9
    <2> QED BY <1>5, <2>6, <2>10
<1> QED BY <1>1, <1>5, <1>8, <1>9 DEF f, s, z

\* Any network but a host has a first half.
LEMMA FirstHalfIsChild ==
    ASSUME NEW p \in Path
    PROVE  /\ HalfPrefix(p) \in Int
           /\ ValidPrefix(From[p], HalfPrefix(p)) <=> Len(p) < W
           /\ Len(p) < W => FirstHalf(p) = Append(p, 0)
<1> DEFINE a == FirstAddress(p)
<1>1. W \in Nat /\ V4Len \in Nat /\ V4Len < W /\ Len(p) \in Nat
    BY WidthAssumption, V4Assumption, PathType DEF V4Len
<1>2. From[p] = a /\ a \in Address /\ OnPath(p, a)
    BY LeadsToEnds DEF From, Leads
<1>3. V4Mapped(a) <=> IsV4(p)
    BY DEF IsV4
<1>4. IsV4(p) => V4Len <= Len(p)
    BY V4IsInside
<1>5. /\ IsV4(p) => HalfPrefix(p) = Len(p) - V4Len + 1
      /\ ~IsV4(p) => HalfPrefix(p) = Len(p) + 1
    BY DEF HalfPrefix
<1>6. HalfPrefix(p) \in Int
    BY <1>1, <1>5
<1> HIDE DEF a
<1>7. ValidPrefix(a, HalfPrefix(p)) <=> Len(p) < W
    <2>1. CASE IsV4(p)
        BY <1>1, <1>3, <1>4, <1>5, <2>1 DEF ValidPrefix, FamilyBits
    <2>2. CASE ~IsV4(p)
        BY <1>1, <1>3, <1>5, <2>2 DEF ValidPrefix, FamilyBits
    <2> QED BY <2>1, <2>2
<1>8. ASSUME Len(p) < W PROVE FirstHalf(p) = Append(p, 0)
    <2>1. (IF V4Mapped(a) THEN HalfPrefix(p) + V4Len ELSE HalfPrefix(p)) = Len(p) + 1
        BY <1>1, <1>3, <1>5
    <2>2. New(a, HalfPrefix(p)) = Masked(a, Len(p) + 1)
        BY <1>2, <1>6, <1>7, <1>8, <2>1, NewIsMasked
    <2>3. p = Masked(a, Len(p))
        BY <1>2, OnPathMasked
    <2>4. Len(p) \in 0..(W - 1)
        BY <1>1, <1>8
    <2>5. Append(Masked(a, Len(p)), a[Len(p) + 1]) = Masked(a, Len(p) + 1)
        BY <1>2, <2>4, MaskedChild
    <2>6. Len(p) + 1 \in 1..W /\ Len(p) + 1 > Len(p)
        BY <1>1, <1>8
    <2>7. a[Len(p) + 1] = 0
        BY <2>6, EndBits DEF a
    <2> QED BY <1>2, <2>2, <2>3, <2>5, <2>7 DEF FirstHalf
<1> QED BY <1>2, <1>6, <1>7, <1>8

\* The prefix of the second half only fits where that is the half with a one; and
\* it does not fit only where a network has the IPv4 range inside.
LEMMA SecondHalfIsChild ==
    ASSUME NEW p \in Path, Len(p) < W
    PROVE  /\ ValidPrefix(Behind[FirstHalf(p)], HalfPrefix(p)) => SecondHalf(p) = Append(p, 1)
           /\ ~SpansV4(p) => ValidPrefix(Behind[FirstHalf(p)], HalfPrefix(p))
<1> DEFINE f == Append(p, 0)
           s == Append(p, 1)
           z == LastAddress(f)
           b == FirstAddress(s)
<1>1. W \in Nat /\ V4Len \in Nat /\ V4Len < W /\ V4Len > 0 /\ Len(p) \in Nat
    BY WidthAssumption, V4Assumption, PathType DEF V4Len
<1>2. FirstHalf(p) = f
    BY FirstHalfIsChild
<1>3. /\ f \in Path /\ z \in Address
      /\ Len(p) < V4Len /\ V4Mapped(z) => Behind[f] = z
      /\ ~(Len(p) < V4Len /\ V4Mapped(z)) => Behind[f] = b
    BY BehindFirstHalf
<1>4. Len(f) = Len(p) + 1 /\ \A i \in 1..Len(p) : f[i] = p[i]
    BY PathChild DEF Bit
<1>5. /\ s \in Path /\ Len(s) = Len(p) + 1
      /\ \A i \in 1..Len(p) : s[i] = p[i]
    BY PathChild DEF Bit
<1> HIDE DEF f, s
<1>6. /\ IsV4(p) => V4Len <= Len(p) /\ HalfPrefix(p) = Len(p) - V4Len + 1
      /\ ~IsV4(p) => HalfPrefix(p) = Len(p) + 1
    BY V4IsInside DEF HalfPrefix
<1>7. PICK k \in Int : W - V4Len + 1 <= k /\ k <= V4Len /\ k \in 1..V4Len /\ k \in 1..W /\ V4Prefix[k] = 0
    <2>1. PICK k \in (W - V4Len + 1)..V4Len : V4Prefix[k] = 0
        BY HalvingAssumption
    <2> QED BY <1>1, <2>1
<1>8. CASE Len(p) < V4Len /\ V4Mapped(z)
    <2>1. \A i \in 1..Len(p) : i \in 1..W /\ i <= Len(f) /\ i \in 1..V4Len
        BY <1>1, <1>4, <1>8
    <2>2. \A i \in 1..Len(p) : z[i] = f[i] /\ z[i] = V4Prefix[i]
        BY <1>3, <1>8, <2>1, EndBits DEF V4Mapped
    <2>3. SpansV4(p)
        BY <1>4, <1>8, <2>2 DEF SpansV4, OnPath
    <2>4. HalfPrefix(p) = Len(p) + 1
        BY <1>1, <1>6, <1>8
    <2>5. ASSUME ValidPrefix(z, HalfPrefix(p)) PROVE FALSE
        <3>1. Len(p) + 1 <= W - V4Len
            BY <1>8, <2>4, <2>5 DEF ValidPrefix, FamilyBits
        <3>2. k > Len(f)
            BY <1>1, <1>4, <1>7, <3>1
        <3>3. z[k] = 1
            BY <1>3, <1>7, <3>2, EndBits
        <3> QED BY <1>7, <1>8, <3>3 DEF V4Mapped
    <2> QED BY <1>2, <1>3, <1>8, <2>3, <2>5
<1>9. CASE ~(Len(p) < V4Len /\ V4Mapped(z))
    <2>1. Behind[FirstHalf(p)] = b
        BY <1>2, <1>3, <1>9
    <2>2. b \in Address /\ OnPath(s, b)
        BY <1>5, LeadsToEnds DEF Leads
    <2>3. V4Mapped(b) <=> IsV4(s)
        BY DEF IsV4
    <2>4. IsV4(p) => IsV4(s)
        <3>1. V4Len <= Len(p) => \A i \in 1..V4Len : i \in 1..Len(p)
            BY <1>1
        <3> QED BY <1>1, <1>5, <3>1, V4IsInside
    <2> HIDE DEF b
    <2>5. CASE IsV4(p) <=> V4Mapped(b)
        <3>1. ValidPrefix(b, HalfPrefix(p))
            BY <1>1, <1>6, <2>5 DEF ValidPrefix, FamilyBits
        <3>2. (IF V4Mapped(b) THEN HalfPrefix(p) + V4Len ELSE HalfPrefix(p)) = Len(s)
            BY <1>1, <1>5, <1>6, <2>5
        <3>3. New(b, HalfPrefix(p)) = Masked(b, Len(s))
            BY <2>2, <3>1, <3>2, FirstHalfIsChild, NewIsMasked
        <3>4. s = Masked(b, Len(s))
            BY <1>5, <2>2, OnPathMasked
        <3> QED BY <2>1, <3>1, <3>3, <3>4 DEF SecondHalf, s
    <2>6. CASE ~IsV4(p) /\ V4Mapped(b)
        <3>1. V4Len <= Len(p) + 1 /\ \A i \in 1..V4Len : s[i] = V4Prefix[i]
            BY <1>5, <2>3, <2>6, V4IsInside
        <3>2. ~(V4Len <= Len(p))
            <4>1. V4Len <= Len(p) => \A i \in 1..V4Len : i \in 1..Len(p)
                BY <1>1
            <4> QED BY <1>5, <2>6, <3>1, <4>1, V4IsInside
        <3>3. V4Len = Len(p) + 1
            BY <1>1, <3>1, <3>2
        <3>4. \A i \in 1..Len(p) : i \in 1..V4Len
            BY <1>1, <3>3
        <3>5. SpansV4(p)
            BY <1>1, <1>5, <3>1, <3>3, <3>4 DEF SpansV4, OnPath
        <3>6. ~(V4Len <= W - V4Len)
            BY <1>1, <1>7
        <3>7. ~ValidPrefix(b, HalfPrefix(p))
            BY <1>6, <2>6, <3>3, <3>6 DEF ValidPrefix, FamilyBits
        <3> QED BY <2>1, <3>5, <3>7
    <2> QED BY <2>3, <2>4, <2>5, <2>6
<1> QED BY <1>8, <1>9

\* A network is halved into the two that have one bit more, or it has the IPv4
\* range inside, or it is a host.
LEMMA HalvesAreChildren ==
    ASSUME NEW p \in Path
    PROVE  /\ CanHalve(p) => /\ Len(p) < W
                             /\ FirstHalf(p) = Append(p, 0) /\ SecondHalf(p) = Append(p, 1)
                             /\ FirstHalf(p) \in Path /\ SecondHalf(p) \in Path
           /\ ~CanHalve(p) /\ Len(p) < W => SpansV4(p)
<1>1. Len(p) < W => Append(p, 0) \in Path /\ Append(p, 1) \in Path
    BY PathChild DEF Bit
<1> QED BY <1>1, FirstHalfIsChild, SecondHalfIsChild DEF CanHalve

-----------------------------------------------------------------------------
(* The inductive invariant *)

Excluding == {"excluding", "collecting", "checking"}

\* What the variables hold, and in which loops they are used
TypesInv ==
    /\ list \in Seq(Path) /\ result \in Seq(Path) /\ todo \in Seq(Path)
    /\ start \in Address /\ at \in Nat
    /\ halving \subseteq [network : Path, other : Path]
    /\ state \in {"idle", "summarizing", "merging"} \cup Excluding
    /\ state \in Excluding => call.op = "exclude"
    /\ state = "summarizing" => call.op = "summarize"
    /\ state = "merging" => call.op = "merge"
    /\ call.op = "exclude" => call.network \in Path /\ call.others \subseteq Path
    /\ call.op \notin {"exclude", "merge"} => result = <<>>
    /\ state \notin Excluding => halving = {} /\ todo = <<>>
    /\ state = "excluding" => todo = <<>>

\* What is behind at is still to be merged.
MergeInv ==
    /\ MergeIsUnion
    /\ state = "merging" =>
          /\ at <= Len(result) /\ outcome = "none"
          /\ Range(result) \subseteq call.union
          /\ call.union \subseteq Range(list) \cup {result[i] : i \in (at + 1)..Len(result)}

ListsInv == TypesInv /\ ListsSorted /\ MergeInv

LEMMA ListsInit == Init => ListsInv
<1> SUFFICES ASSUME Init PROVE ListsInv
    OBVIOUS
<1>1. list = <<>> /\ result = <<>> /\ todo = <<>> /\ call = NoCall /\ state = "idle"
    BY DEF Init
<1>2. call.op = "none"
    BY <1>1 DEF NoCall
<1>3. AllZeroes \in Address
    BY DEF AllZeroes, Address, Bit
<1>4. <<>> \in Seq(Path) /\ Sorted(<<>>)
    BY DEF Sorted
<1> QED BY <1>1, <1>2, <1>3, <1>4 DEF Init, ListsInv, TypesInv, ListsSorted, MergeInv, MergeIsUnion, Excluding

LEMMA NotMerging ==
    ASSUME call'.op # "merge", state' # "merging"
    PROVE  MergeInv'
BY DEF MergeInv, MergeIsUnion

LEMMA HalvingType ==
    ASSUME NEW p \in Path, NEW q \in Path
    PROVE  Halving(p, q) \subseteq [network : Path, other : Path]
BY DEF Halving

LEMMA EmptyIsSorted == <<>> \in Seq(Path) /\ Sorted(<<>>)
BY DEF Sorted

LEMMA ZeroesType == AllZeroes \in Address
BY DEF AllZeroes, Address, Bit

\* The short operations
LEMMA ChangeKeepsLists ==
    ASSUME ListsInv, NEW changed, Change(changed), changed \in Seq(Path), Sorted(changed)
    PROVE  ListsInv'
<1>1. /\ list' = changed /\ call = NoCall /\ call' = call /\ state = "idle" /\ state' = state
      /\ UNCHANGED <<result, outcome, start, at, halving, todo>>
    BY DEF Change, Free, Idle
<1>2. call'.op = "none"
    BY <1>1 DEF NoCall
<1>3. TypesInv'
    BY <1>1 DEF ListsInv, TypesInv
<1>4. ListsSorted'
    BY <1>1 DEF ListsInv, ListsSorted
<1>5. MergeInv'
    BY <1>1, <1>2, NotMerging
<1> QED BY <1>3, <1>4, <1>5 DEF ListsInv

LEMMA ShortKeepsLists ==
    ASSUME ListsInv, (\E p \in Networks : PushNetwork(p)) \/ Pop \/ PopFirst \/ Release
    PROVE  ListsInv'
<1>1. list \in Seq(Path) /\ Sorted(list) /\ Networks \subseteq Path
    BY ListsAssumption DEF ListsInv, TypesInv, ListsSorted
<1>2. ASSUME NEW p \in Networks, PushNetwork(p) PROVE ListsInv'
    <2>1. Push(list, p) \in Seq(Path) /\ Sorted(Push(list, p))
        BY <1>1, PushIsRight
    <2>2. Change(Push(list, p))
        BY <1>2 DEF PushNetwork
    <2> QED BY <2>1, <2>2, ChangeKeepsLists
<1>3. CASE Pop
    <2>1. Change(Front(list)) /\ list # <<>>
        BY <1>3 DEF Pop
    <2>2. Front(list) \in Seq(Path) /\ Sorted(Front(list))
        BY <1>1, <2>1, EndsAreSorted
    <2> QED BY <2>1, <2>2, ChangeKeepsLists
<1>4. CASE PopFirst
    <2>1. Change(Tail(list)) /\ list # <<>>
        BY <1>4 DEF PopFirst
    <2>2. Tail(list) \in Seq(Path) /\ Sorted(Tail(list))
        BY <1>1, <2>1, EndsAreSorted
    <2> QED BY <2>1, <2>2, ChangeKeepsLists
<1>5. CASE Release
    <2>1. /\ state = "idle" /\ call' = NoCall /\ state' = "idle" /\ at' = 0 /\ result' = <<>>
          /\ UNCHANGED <<list, start, halving, todo>>
        BY <1>5 DEF Release, Begin, Idle
    <2>2. call'.op = "none"
        BY <2>1 DEF NoCall
    <2>3. TypesInv'
        BY <2>1, <2>2, EmptyIsSorted DEF ListsInv, TypesInv, Excluding
    <2>4. ListsSorted'
        BY <2>1, EmptyIsSorted DEF ListsInv, ListsSorted
    <2>5. MergeInv'
        BY <2>1, <2>2, NotMerging
    <2> QED BY <2>3, <2>4, <2>5 DEF ListsInv
<1> QED BY <1>2, <1>3, <1>4, <1>5

\* A call that returns
LEMMA ReturnKeepsTypes ==
    ASSUME ListsInv, NEW what, Return(what), UNCHANGED <<list, result, call>>
    PROVE  TypesInv' /\ ListsSorted'
<1>1. state' = "idle" /\ start' = AllZeroes /\ at' = 0 /\ halving' = {} /\ todo' = <<>>
    BY DEF Return
<1>2. TypesInv'
    BY <1>1, ZeroesType, EmptyIsSorted DEF ListsInv, TypesInv, Excluding
<1>3. ListsSorted'
    BY <1>1, EmptyIsSorted DEF ListsInv, ListsSorted
<1> QED BY <1>2, <1>3

\* loc_network_list_summarize
LEMMA SummarizeKeepsLists ==
    ASSUME ListsInv,
           \/ \E first, last \in Ends : Summarize(first, last)
           \/ SummarizeTurn \/ SummarizeEnds \/ SummarizeRefused \/ SummarizeNoMemory
    PROVE  ListsInv'
<1>1. ASSUME NEW first \in Ends, NEW last \in Ends, Summarize(first, last) PROVE ListsInv'
    <2>1. /\ state = "idle" /\ call = NoCall /\ at' = 0 /\ call'.op = "summarize"
          /\ state' \in {"idle", "summarizing"} /\ start' \in {first, AllZeroes}
          /\ UNCHANGED <<list, result, halving, todo>>
        BY <1>1 DEF Summarize, Begin, Idle, Free
    <2>2. call.op = "none" /\ first \in Address
        BY <2>1, ListsAssumption DEF NoCall
    <2>3. TypesInv'
        BY <2>1, <2>2, ZeroesType DEF ListsInv, TypesInv, Excluding
    <2>4. ListsSorted'
        BY <2>1 DEF ListsInv, ListsSorted
    <2>5. MergeInv'
        BY <2>1, NotMerging
    <2> QED BY <2>3, <2>4, <2>5 DEF ListsInv
<1>2. CASE SummarizeTurn
    <2>1. PICK p \in Fitting(start, call.last) :
              /\ list' = Push(list, p)
              /\ \/ Return("ok")
                 \/ start' = Behind[p] /\ UNCHANGED <<state, outcome, at, halving, todo>>
        BY <1>2 DEF SummarizeTurn
    <2>2. state = "summarizing" /\ UNCHANGED <<result, call>>
        BY <1>2 DEF SummarizeTurn
    <2>3. call.op = "summarize"
        BY <2>2 DEF ListsInv, TypesInv
    <2>4. p \in Path
        BY FittingIsPath DEF ListsInv, TypesInv
    <2>5. list' \in Seq(Path) /\ Sorted(list')
        BY <2>1, <2>4, PushIsRight DEF ListsInv, TypesInv, ListsSorted
    <2>6. Behind[p] \in Address
        BY <2>4, LeadsToEnds, IncrementType DEF Behind, Upto
    <2>7. MergeInv'
        <3>1. state' # "merging" /\ call'.op # "merge"
            BY <2>1, <2>2, <2>3 DEF Return
        <3> QED BY <3>1, NotMerging
    <2>8. CASE Return("ok")
        <3>1. state' = "idle" /\ start' = AllZeroes /\ at' = 0 /\ halving' = {} /\ todo' = <<>>
            BY <2>8 DEF Return
        <3>2. TypesInv'
            BY <2>2, <2>3, <2>5, <3>1, ZeroesType, EmptyIsSorted DEF ListsInv, TypesInv, Excluding
        <3>3. ListsSorted'
            BY <2>2, <2>5, <3>1, EmptyIsSorted DEF ListsInv, ListsSorted
        <3> QED BY <2>7, <3>2, <3>3 DEF ListsInv
    <2>9. CASE start' = Behind[p] /\ UNCHANGED <<state, outcome, at, halving, todo>>
        <3>1. TypesInv'
            BY <2>2, <2>3, <2>5, <2>6, <2>9 DEF ListsInv, TypesInv
        <3>2. ListsSorted'
            BY <2>2, <2>5, <2>9 DEF ListsInv, ListsSorted
        <3> QED BY <2>7, <3>1, <3>2 DEF ListsInv
    <2> QED BY <2>1, <2>8, <2>9
<1>3. CASE SummarizeEnds \/ SummarizeRefused \/ SummarizeNoMemory
    <2>1. /\ state = "summarizing" /\ (Return("ok") \/ Return("failed"))
          /\ UNCHANGED <<list, result, call>>
        BY <1>3 DEF SummarizeEnds, SummarizeRefused, SummarizeNoMemory
    <2>2. call'.op = "summarize" /\ state' = "idle"
        BY <2>1 DEF ListsInv, TypesInv, Return
    <2> QED BY <2>1, <2>2, ReturnKeepsTypes, NotMerging DEF ListsInv
<1> QED BY <1>1, <1>2, <1>3

\* loc_network_list_merge
LEMMA MergeKeepsLists ==
    ASSUME ListsInv, Merge \/ MergeTurn \/ MergeNoMemory \/ MergeEnds
    PROVE  ListsInv'
<1>1. /\ list \in Seq(Path) /\ result \in Seq(Path) /\ Sorted(list) /\ at \in Nat
      /\ Len(result) \in Nat /\ DOMAIN result = 1..Len(result)
    BY DEF ListsInv, TypesInv, ListsSorted
<1>2. CASE Merge
    <2>1. /\ state = "idle" /\ state' = "merging" /\ outcome' = "none" /\ at' = 0
          /\ call' = [op |-> "merge", union |-> Range(list) \cup Range(result)]
          /\ UNCHANGED <<list, result, start, halving, todo>>
        BY <1>2 DEF Merge, Begin, Idle
    <2>2. call'.op = "merge" /\ call'.union = Range(list) \cup Range(result)
        BY <2>1
    <2>3. TypesInv'
        BY <2>1, <2>2 DEF ListsInv, TypesInv, Excluding
    <2>4. ListsSorted'
        BY <2>1 DEF ListsInv, ListsSorted
    <2>5. Range(result) \subseteq {result[i] : i \in (0 + 1)..Len(result)}
        BY <1>1 DEF Range
    <2>6. MergeInv'
        BY <1>1, <2>1, <2>2, <2>5 DEF MergeInv, MergeIsUnion
    <2> QED BY <2>3, <2>4, <2>6 DEF ListsInv
<1>3. CASE MergeTurn
    <2>1. /\ state = "merging" /\ at < Len(result)
          /\ list' = Push(list, result[at + 1]) /\ at' = at + 1
          /\ UNCHANGED <<result, call, state, outcome, start, halving, todo>>
        BY <1>3 DEF MergeTurn
    <2>2. at + 1 \in 1..Len(result) /\ at + 1 <= Len(result) /\ at + 1 \in Nat
        BY <1>1, <2>1
    <2>3. result[at + 1] \in Path
        BY <1>1, <2>2
    <2>4. /\ list' \in Seq(Path) /\ Sorted(list')
          /\ Range(list') = Range(list) \cup {result[at + 1]}
        BY <1>1, <2>1, <2>3, PushIsRight
    <2>5. TypesInv'
        BY <2>1, <2>2, <2>4 DEF ListsInv, TypesInv
    <2>6. ListsSorted'
        BY <2>1, <2>4 DEF ListsInv, ListsSorted
    <2>7. /\ outcome = "none" /\ Range(result) \subseteq call.union /\ Range(list) \subseteq call.union
          /\ call.union \subseteq Range(list) \cup {result[i] : i \in (at + 1)..Len(result)}
        BY <2>1 DEF ListsInv, TypesInv, MergeInv, MergeIsUnion
    <2>8. result[at + 1] \in call.union
        BY <1>1, <2>2, <2>7 DEF Range
    <2>9. \A i \in (at + 1)..Len(result) : i = at + 1 \/ i \in (at + 1 + 1)..Len(result)
        BY <1>1, <2>2
    <2>10. {result[i] : i \in (at + 1)..Len(result)}
               \subseteq {result[at + 1]} \cup {result[i] : i \in (at + 1 + 1)..Len(result)}
        BY <2>9
    <2>11. MergeIsUnion'
        BY <2>1, <2>4, <2>7, <2>8 DEF MergeIsUnion
    <2>12. call.union \subseteq Range(list') \cup {result[i] : i \in (at + 1 + 1)..Len(result)}
        BY <2>4, <2>7, <2>10
    <2>13. MergeInv'
        BY <2>1, <2>2, <2>7, <2>11, <2>12 DEF MergeInv
    <2> QED BY <2>5, <2>6, <2>13 DEF ListsInv
<1>4. CASE MergeNoMemory
    <2>1. state = "merging" /\ Return("failed") /\ UNCHANGED <<list, result, call>>
        BY <1>4 DEF MergeNoMemory
    <2>2. TypesInv' /\ ListsSorted'
        BY <2>1, ReturnKeepsTypes
    <2>3. state' = "idle" /\ outcome' = "failed"
        BY <2>1 DEF Return
    <2>4. MergeInv'
        BY <2>1, <2>3 DEF ListsInv, TypesInv, MergeInv, MergeIsUnion
    <2> QED BY <2>2, <2>4 DEF ListsInv
<1>5. CASE MergeEnds
    <2>1. /\ state = "merging" /\ at = Len(result) /\ Return("ok")
          /\ UNCHANGED <<list, result, call>>
        BY <1>5 DEF MergeEnds
    <2>2. TypesInv' /\ ListsSorted'
        BY <2>1, ReturnKeepsTypes
    <2>3. state' = "idle"
        BY <2>1 DEF Return
    <2>4. \A i \in (at + 1)..Len(result) : FALSE
        BY <1>1, <2>1
    <2>5. call.union \subseteq Range(list) /\ Range(list) \subseteq call.union
        BY <2>1, <2>4 DEF ListsInv, TypesInv, MergeInv, MergeIsUnion
    <2>6. MergeInv'
        BY <2>1, <2>3, <2>5 DEF MergeInv, MergeIsUnion
    <2> QED BY <2>2, <2>6 DEF ListsInv
<1> QED BY <1>2, <1>3, <1>4, <1>5

\* loc_network_exclude and loc_network_exclude_list
LEMMA BeginExcludeKeepsLists ==
    ASSUME ListsInv, NEW p \in Networks, Exclude(p) \/ ExcludeList(p)
    PROVE  ListsInv'
<1>1. /\ state = "idle" /\ call = NoCall /\ at' = 0
      /\ state' \in Excluding /\ call'.op = "exclude" /\ call'.network = p
      /\ UNCHANGED <<list, result, start, todo>>
    BY DEF Exclude, ExcludeList, Begin, Idle, Free, Excluding
<1>2. p \in Path /\ list \in Seq(Path) /\ call.op = "none"
    BY <1>1, ListsAssumption DEF ListsInv, TypesInv, NoCall
<1>3. call'.others \subseteq Path /\ halving' \subseteq [network : Path, other : Path]
    <2>1. CASE Exclude(p)
        <3>1. list # <<>> /\ call'.others = {Head(list)} /\ halving' = Halving(p, Head(list))
            BY <2>1 DEF Exclude, Begin
        <3>2. Head(list) \in Path
            BY <1>2, <3>1
        <3> QED BY <1>2, <3>1, <3>2, HalvingType
    <2>2. CASE ExcludeList(p)
        <3>1. call'.others = Range(list) /\ halving' = halving
            BY <2>2 DEF ExcludeList, Begin
        <3>2. Range(list) \subseteq Path
            BY <1>2 DEF Range
        <3> QED BY <3>1, <3>2 DEF ListsInv, TypesInv
    <2> QED BY <2>1, <2>2
<1>4. result = <<>> /\ todo = <<>>
    BY <1>1, <1>2 DEF ListsInv, TypesInv, Excluding
<1>5. TypesInv'
    BY <1>1, <1>2, <1>3, <1>4 DEF ListsInv, TypesInv, Excluding
<1>6. ListsSorted'
    BY <1>1 DEF ListsInv, ListsSorted
<1>7. MergeInv'
    BY <1>1, NotMerging DEF Excluding
<1> QED BY <1>5, <1>6, <1>7 DEF ListsInv

\* One turn: what is kept, and around what is halved next
LEMMA HalveTurnEffect ==
    ASSUME TypesInv, HalveTurn
    PROVE  \E h \in halving : \E way \in Ways(h.network, h.other) :
              /\ CanHalve(h.network) /\ Keep(way[2])
              /\ halving' = IF way[1] = h.other THEN {}
                            ELSE {[network |-> way[1], other |-> h.other]}
              /\ UNCHANGED <<list, call, state, outcome, start, at, trouble>>
              /\ h.network \in Path /\ h.other \in Path
              /\ way[1] \in Path /\ way[2] \in Path /\ Leads(way[1], h.other)
              /\ Len(h.network) < W
              /\ \E bit \in Bit : /\ way[1] = Append(h.network, bit)
                                  /\ way[2] = Append(h.network, 1 - bit)
              /\ state \in Excluding /\ call.op = "exclude"
<1>a. PICK h \in halving : \E way \in Ways(h.network, h.other) :
          /\ CanHalve(h.network) /\ Keep(way[2])
          /\ halving' = IF way[1] = h.other THEN {}
                        ELSE {[network |-> way[1], other |-> h.other]}
          /\ UNCHANGED <<list, call, state, outcome, start, at, trouble>>
    BY DEF HalveTurn
<1>1. PICK way \in Ways(h.network, h.other) :
          /\ CanHalve(h.network) /\ Keep(way[2])
          /\ halving' = IF way[1] = h.other THEN {}
                        ELSE {[network |-> way[1], other |-> h.other]}
          /\ UNCHANGED <<list, call, state, outcome, start, at, trouble>>
    BY <1>a
<1>2. h.network \in Path /\ h.other \in Path /\ state \in Excluding
    BY <1>1 DEF TypesInv
<1>3. /\ FirstHalf(h.network) = Append(h.network, 0) /\ SecondHalf(h.network) = Append(h.network, 1)
      /\ FirstHalf(h.network) \in Path /\ SecondHalf(h.network) \in Path
      /\ Len(h.network) < W
    BY <1>1, <1>2, HalvesAreChildren
<1>4. /\ \/ way[1] = FirstHalf(h.network) /\ way[2] = SecondHalf(h.network)
         \/ way[1] = SecondHalf(h.network) /\ way[2] = FirstHalf(h.network)
      /\ IsSubnet(way[1], h.other)
    BY DEF Ways
<1>5. way[1] \in Path /\ way[2] \in Path
    BY <1>3, <1>4
<1>6. Leads(way[1], h.other)
    BY <1>2, <1>4, <1>5, WithinIsLeads DEF Within
<1>7. \E bit \in Bit : way[1] = Append(h.network, bit) /\ way[2] = Append(h.network, 1 - bit)
    <2>1. 0 \in Bit /\ 1 \in Bit /\ 1 - 0 = 1 /\ 1 - 1 = 0
        BY DEF Bit
    <2>2. CASE way[1] = FirstHalf(h.network) /\ way[2] = SecondHalf(h.network)
        BY <1>3, <2>1, <2>2
    <2>3. CASE way[1] = SecondHalf(h.network) /\ way[2] = FirstHalf(h.network)
        BY <1>3, <2>1, <2>3
    <2> QED BY <1>4, <2>2, <2>3
<1>8. call.op = "exclude"
    BY <1>2 DEF TypesInv
<1> QED BY <1>1, <1>2, <1>3, <1>5, <1>6, <1>7, <1>8

\* A push on the result or on to_check
LEMMA KeepKeepsLists ==
    ASSUME TypesInv, ListsSorted, NEW p \in Path, Keep(p), state \in Excluding
    PROVE  /\ result' \in Seq(Path) /\ Sorted(result')
           /\ todo' \in Seq(Path) /\ Sorted(todo')
           /\ state = "excluding" => todo' = todo /\ Range(result') = Range(result) \cup {p}
           /\ state # "excluding" => result' = result /\ Range(todo') = Range(todo) \cup {p}
<1>1. result \in Seq(Path) /\ Sorted(result) /\ todo \in Seq(Path) /\ Sorted(todo)
    BY DEF TypesInv, ListsSorted
<1>2. CASE state = "excluding"
    BY <1>1, <1>2, PushIsRight DEF Keep
<1>3. CASE state # "excluding"
    BY <1>1, <1>3, PushIsRight DEF Keep
<1> QED BY <1>2, <1>3

LEMMA HalveKeepsLists ==
    ASSUME ListsInv, HalveTurn \/ HalveNoMemory \/ HalveRefused
    PROVE  ListsInv'
<1>1. TypesInv /\ ListsSorted
    BY DEF ListsInv
<1>2. CASE HalveTurn
    <2>a. PICK h \in halving : \E way \in Ways(h.network, h.other) :
              /\ Keep(way[2])
              /\ halving' = IF way[1] = h.other THEN {}
                            ELSE {[network |-> way[1], other |-> h.other]}
              /\ UNCHANGED <<list, call, state, outcome, start, at, trouble>>
              /\ h.other \in Path /\ way[1] \in Path /\ way[2] \in Path
              /\ state \in Excluding /\ call.op = "exclude"
        BY <1>1, <1>2, HalveTurnEffect
    <2>1. PICK way \in Ways(h.network, h.other) :
              /\ Keep(way[2])
              /\ halving' = IF way[1] = h.other THEN {}
                            ELSE {[network |-> way[1], other |-> h.other]}
              /\ UNCHANGED <<list, call, state, outcome, start, at, trouble>>
              /\ h.other \in Path /\ way[1] \in Path /\ way[2] \in Path
              /\ state \in Excluding /\ call.op = "exclude"
        BY <2>a
    <2>2. /\ result' \in Seq(Path) /\ Sorted(result')
          /\ todo' \in Seq(Path) /\ Sorted(todo')
          /\ state = "excluding" => todo' = todo
        BY <1>1, <2>1, KeepKeepsLists
    <2>3. halving' \subseteq [network : Path, other : Path]
        BY <2>1
    <2>4. TypesInv'
        BY <1>1, <2>1, <2>2, <2>3 DEF TypesInv
    <2>5. ListsSorted'
        BY <1>1, <2>1, <2>2 DEF ListsSorted
    <2>6. MergeInv'
        BY <2>1, NotMerging DEF Excluding
    <2> QED BY <2>4, <2>5, <2>6 DEF ListsInv
<1>3. CASE HalveNoMemory \/ HalveRefused
    <2>1. PICK why : GiveUp(why) /\ halving # {}
        BY <1>3 DEF HalveNoMemory, HalveRefused
    <2>2. state \in Excluding /\ call.op = "exclude" /\ UNCHANGED <<list, call>>
        BY <1>1, <2>1 DEF TypesInv, GiveUp
    <2>3. \/ /\ halving' = {} /\ state' = state
             /\ UNCHANGED <<result, start, at, todo>>
          \/ /\ result' = <<>> /\ state' = "idle" /\ start' = AllZeroes /\ at' = 0
             /\ halving' = {} /\ todo' = <<>>
        BY <2>1 DEF GiveUp, Return
    <2>4. TypesInv'
        <3>1. CASE halving' = {} /\ state' = state /\ UNCHANGED <<result, start, at, todo>>
            BY <1>1, <2>2, <3>1 DEF TypesInv, Excluding
        <3>2. CASE /\ result' = <<>> /\ state' = "idle" /\ start' = AllZeroes /\ at' = 0
                   /\ halving' = {} /\ todo' = <<>>
            BY <1>1, <2>2, <3>2, ZeroesType, EmptyIsSorted DEF TypesInv, Excluding
        <3> QED BY <2>3, <3>1, <3>2
    <2>5. ListsSorted'
        BY <1>1, <2>2, <2>3, EmptyIsSorted DEF ListsSorted
    <2>6. MergeInv'
        BY <2>2, <2>3, NotMerging DEF Excluding
    <2> QED BY <2>4, <2>5, <2>6 DEF ListsInv
<1> QED BY <1>2, <1>3

\* The next network to check
LEMMA CandidateType ==
    ASSUME TypesInv, ListsSorted, Checking
    PROVE  /\ Candidate \in Path /\ Candidate \in Range(todo)
           /\ Tail(todo) \in Seq(Path) /\ Sorted(Tail(todo))
           /\ Range(todo) = {Candidate} \cup Range(Tail(todo))
           /\ \A q \in Range(Tail(todo)) : NetworkLess(Candidate, q)
           /\ state = "checking" /\ call.op = "exclude"
           /\ \A i \in SearchEnds : i \in Nat /\ at <= i /\ i <= Len(list) /\ Searched(i) \in Nat
<1>1. /\ todo \in Seq(Path) /\ Sorted(todo) /\ todo # <<>> /\ at \in Nat /\ list \in Seq(Path)
      /\ state = "checking" /\ call.op = "exclude"
    BY DEF Checking, TypesInv, ListsSorted, Excluding
<1>2. Len(todo) \in Nat /\ Len(todo) > 0 /\ DOMAIN todo = 1..Len(todo) /\ Len(list) \in Nat
    BY <1>1
<1>3. Candidate = todo[1] /\ Candidate \in Path
    BY <1>1 DEF Candidate
<1>4. Tail(todo) \in Seq(Path) /\ Sorted(Tail(todo))
    BY <1>1, EndsAreSorted
<1>5. /\ Len(Tail(todo)) = Len(todo) - 1 /\ DOMAIN Tail(todo) = 1..(Len(todo) - 1)
      /\ \A i \in 1..(Len(todo) - 1) : Tail(todo)[i] = todo[i + 1]
    BY <1>1, <1>4, HeadTailProperties
<1>6. \A i \in 1..Len(todo) : i = 1 \/ (i - 1 \in 1..(Len(todo) - 1) /\ i - 1 + 1 = i)
    BY <1>2
<1>7. \A i \in 1..(Len(todo) - 1) : i + 1 \in 1..Len(todo) /\ 1 < i + 1
    BY <1>2
<1>8. 1 \in 1..Len(todo)
    BY <1>2
<1>9. Range(todo) \subseteq {Candidate} \cup Range(Tail(todo))
    <2>1. ASSUME NEW i \in 1..Len(todo) PROVE todo[i] \in {Candidate} \cup Range(Tail(todo))
        <3>1. CASE i = 1
            BY <1>3, <3>1
        <3>2. CASE i # 1
            <4>1. PICK k \in 1..(Len(todo) - 1) : k + 1 = i
                BY <1>6, <3>2
            <4>2. Tail(todo)[k] = todo[i]
                BY <1>5, <4>1
            <4> QED BY <1>5, <4>2 DEF Range
        <3> QED BY <3>1, <3>2
    <2> QED BY <1>2, <2>1 DEF Range
<1>10. {Candidate} \cup Range(Tail(todo)) \subseteq Range(todo)
    BY <1>2, <1>3, <1>5, <1>7, <1>8 DEF Range
<1>11. \A i, j \in 1..Len(todo) : i < j => NetworkLess(todo[i], todo[j])
    BY <1>1, SortedOverall
<1>12. ASSUME NEW i \in 1..(Len(todo) - 1) PROVE NetworkLess(Candidate, Tail(todo)[i])
    BY <1>3, <1>5, <1>7, <1>8, <1>11
<1>13. ASSUME NEW i \in SearchEnds
       PROVE  i \in Nat /\ at <= i /\ i <= Len(list) /\ Searched(i) \in Nat
    <2>1. i \in at..Len(list)
        BY DEF SearchEnds
    <2> QED BY <1>1, <1>2, <2>1 DEF Searched
<1> QED BY <1>1, <1>3, <1>4, <1>5, <1>9, <1>10, <1>12, <1>13 DEF Range

LEMMA CheckKeepsLists ==
    ASSUME ListsInv, CheckListed \/ CheckContained \/ CheckBroken \/ CheckPassed
    PROVE  ListsInv'
<1>1. TypesInv /\ ListsSorted /\ Checking
    BY DEF ListsInv, CheckListed, CheckContained, CheckBroken, CheckPassed
<1>2. /\ Candidate \in Path /\ Tail(todo) \in Seq(Path) /\ Sorted(Tail(todo))
      /\ state = "checking" /\ call.op = "exclude"
      /\ \A i \in SearchEnds : Searched(i) \in Nat /\ i \in Nat
    BY <1>1, CandidateType
<1>3. todo' = Tail(todo) /\ UNCHANGED <<list, call, state, outcome, start>>
    BY DEF CheckListed, CheckContained, CheckBroken, CheckPassed
<1>4. at' \in Nat
    BY <1>1, <1>2 DEF CheckListed, CheckContained, CheckBroken, CheckPassed, TypesInv
<1>5. halving' \subseteq [network : Path, other : Path]
    <2>1. CASE CheckBroken
        <3>1. PICK i \in SearchEnds : i < Len(list) /\ halving' = Halving(Candidate, list[i + 1])
            BY <2>1 DEF CheckBroken, Broken
        <3>2. list \in Seq(Path) /\ i + 1 \in 1..Len(list)
            BY <1>1, <1>2, <3>1 DEF TypesInv
        <3>3. list[i + 1] \in Path
            BY <3>2
        <3> QED BY <1>2, <3>1, <3>3, HalvingType
    <2>2. CASE ~CheckBroken
        BY <1>1, <2>2 DEF CheckListed, CheckContained, CheckPassed, TypesInv
    <2> QED BY <2>1, <2>2
<1>6. result' \in Seq(Path) /\ Sorted(result')
    <2>1. result' = result \/ result' = Push(result, Candidate)
        BY DEF CheckListed, CheckContained, CheckBroken, CheckPassed
    <2>2. result \in Seq(Path) /\ Sorted(result)
        BY <1>1 DEF TypesInv, ListsSorted
    <2>3. Push(result, Candidate) \in Seq(Path) /\ Sorted(Push(result, Candidate))
        BY <1>2, <2>2, PushIsRight
    <2>4. CASE result' = result
        BY <2>2, <2>4
    <2>5. CASE result' = Push(result, Candidate)
        BY <2>3, <2>5
    <2> QED BY <2>1, <2>4, <2>5
<1>7. TypesInv'
    BY <1>1, <1>2, <1>3, <1>4, <1>5, <1>6 DEF TypesInv, Excluding
<1>8. ListsSorted'
    BY <1>1, <1>2, <1>3, <1>6 DEF ListsSorted
<1>9. MergeInv'
    BY <1>2, <1>3, NotMerging
<1> QED BY <1>7, <1>8, <1>9 DEF ListsInv

LEMMA CollectKeepsLists ==
    ASSUME ListsInv, CollectTurn \/ CollectEnds \/ ExcludeEnds \/ CheckEnds
    PROVE  ListsInv'
<1>1. TypesInv /\ ListsSorted
    BY DEF ListsInv
<1>2. CASE CollectTurn
    <2>1. /\ state = "collecting" /\ halving = {} /\ at < Len(list) /\ at' = at + 1
          /\ halving' = {} \/ halving' = Halving(call.network, list[at + 1])
          /\ UNCHANGED <<list, result, call, state, outcome, start, todo, trouble>>
        BY <1>2 DEF CollectTurn
    <2>2. at + 1 \in Nat /\ at + 1 \in 1..Len(list) /\ call.op = "exclude" /\ call.network \in Path
        BY <1>1, <2>1 DEF TypesInv, Excluding
    <2>3. list[at + 1] \in Path
        BY <1>1, <2>2 DEF TypesInv
    <2>4. halving' \subseteq [network : Path, other : Path]
        BY <2>1, <2>2, <2>3, HalvingType
    <2>5. TypesInv'
        BY <1>1, <2>1, <2>2, <2>4 DEF TypesInv, Excluding
    <2>6. ListsSorted'
        BY <1>1, <2>1 DEF ListsSorted
    <2>7. MergeInv'
        BY <2>1, <2>2, NotMerging
    <2> QED BY <2>5, <2>6, <2>7 DEF ListsInv
<1>3. CASE CollectEnds
    <2>1. /\ state = "collecting" /\ state' = "checking" /\ at' = 0
          /\ UNCHANGED <<list, result, call, outcome, start, halving, todo, trouble>>
        BY <1>3 DEF CollectEnds
    <2>2. call.op = "exclude"
        BY <1>1, <2>1 DEF TypesInv, Excluding
    <2>3. TypesInv'
        BY <1>1, <2>1, <2>2 DEF TypesInv, Excluding
    <2>4. ListsSorted'
        BY <1>1, <2>1 DEF ListsSorted
    <2>5. MergeInv'
        BY <2>1, <2>2, NotMerging
    <2> QED BY <2>3, <2>4, <2>5 DEF ListsInv
<1>4. CASE ExcludeEnds \/ CheckEnds
    <2>1. /\ state \in Excluding /\ Return("ok") /\ UNCHANGED <<list, result, call>>
        BY <1>4 DEF ExcludeEnds, CheckEnds, Excluding
    <2>2. call'.op = "exclude" /\ state' = "idle"
        BY <1>1, <2>1 DEF TypesInv, Return
    <2> QED BY <2>1, <2>2, ReturnKeepsTypes, NotMerging DEF ListsInv
<1> QED BY <1>2, <1>3, <1>4

LEMMA NextKeepsLists == ListsInv /\ [Next]_vars => ListsInv'
<1> SUFFICES ASSUME ListsInv, [Next]_vars PROVE ListsInv'
    OBVIOUS
<1>1. CASE (\E p \in Networks : PushNetwork(p)) \/ Pop \/ PopFirst \/ Release
    BY <1>1, ShortKeepsLists
<1>2. CASE \E p \in Networks : Exclude(p) \/ ExcludeList(p)
    BY <1>2, BeginExcludeKeepsLists
<1>3. CASE \/ \E first, last \in Ends : Summarize(first, last)
           \/ SummarizeTurn \/ SummarizeEnds \/ SummarizeRefused \/ SummarizeNoMemory
    BY <1>3, SummarizeKeepsLists
<1>4. CASE Merge \/ MergeTurn \/ MergeNoMemory \/ MergeEnds
    BY <1>4, MergeKeepsLists
<1>5. CASE HalveTurn \/ HalveNoMemory \/ HalveRefused
    BY <1>5, HalveKeepsLists
<1>6. CASE CollectTurn \/ CollectEnds \/ ExcludeEnds \/ CheckEnds
    BY <1>6, CollectKeepsLists
<1>7. CASE CheckListed \/ CheckContained \/ CheckBroken \/ CheckPassed
    BY <1>7, CheckKeepsLists
<1>8. CASE UNCHANGED vars
    BY <1>8 DEF vars, ListsInv, TypesInv, ListsSorted, MergeInv, MergeIsUnion
<1> QED BY <1>1, <1>2, <1>3, <1>4, <1>5, <1>6, <1>7, <1>8 DEF Next, Turn, NoMemory

\* Every list of libloc stays sorted and free of duplicates, and a merge yields the
\* union of two lists: the inductive invariant, for lists of any length.
THEOREM ListsInvariant == Spec => []ListsInv
BY ListsInit, NextKeepsLists, PTL DEF Spec

\* Whatever is pushed on a list in which order, bisection finds its place.
THEOREM ListsStaySorted == Spec => []ListsSorted
<1>1. ListsInv => ListsSorted
    BY DEF ListsInv
<1> QED BY <1>1, ListsInvariant, PTL

\* A merge that succeeds yields the networks of both lists; one that fails has lost
\* none and made up none.
THEOREM MergesAreUnions == Spec => []MergeIsUnion
<1>1. ListsInv => MergeIsUnion
    BY DEF ListsInv, MergeInv
<1> QED BY <1>1, ListsInvariant, PTL

-----------------------------------------------------------------------------
(* What excluding networks keeps true *)

\* One network is halved at a time; it is inside the one of the call and around
\* another one.
HalvedInv ==
    /\ \A g, h \in halving : g = h
    /\ \A h \in halving : /\ Leads(call.network, h.network)
                          /\ Leads(h.network, h.other) /\ h.network # h.other
                          /\ h.other \in call.others

\* A half that is kept is one of a network that meets another one; what is returned
\* is not.
Remains == Remaining(call.network, call.others)
Kept == {q \in Path : /\ Leads(call.network, q) /\ q # call.network
                      /\ Meets(Front(q), call.others)}
KeptInv ==
    /\ Range(todo) \subseteq Kept
    /\ Range(result) \subseteq Remains
    /\ todo # <<>> \/ result # <<>> \/ halving # {} => Starts

\* The networks in front of at: while they are collected, those that were halved
\* around; when the halves are checked, those on the left of every half that is left.
CollectInv ==
    /\ call.others = Range(list) /\ at <= Len(list) /\ result = <<>>
    /\ \A h \in halving : \E i \in 1..at : h.other = list[i]
    /\ \A c \in Range(todo) : \E i \in 1..at : Leads(Front(c), list[i])
CheckInv ==
    /\ call.others = Range(list) /\ at <= Len(list)
    /\ \A i \in 1..at : /\ \A c \in Range(todo) : LeftOf(list[i], c)
                        /\ \A h \in halving : LeftOf(list[i], h.network)

\* What remains is on the result, or inside a network that is still to be checked or
\* halved: of any network, once all others have been halved around.
Reached(q) ==
    \/ q \in Range(result)
    \/ \E c \in Range(todo) : Leads(c, q)
    \/ \E h \in halving : Leads(h.network, q)
ReachedInv ==
    /\ state = "collecting" =>
          \A q \in Remains : \A i \in 1..at : Leads(Front(q), list[i]) => Reached(q)
    /\ state # "collecting" /\ outcome # "failed" /\ trouble = {} =>
          \A q \in Remains : Reached(q)

ExcludeInv ==
    call.op = "exclude" =>
        /\ state # "idle" => outcome = "none"
        /\ state = "excluding" => \A q, r \in call.others : q = r
        /\ HalvedInv /\ KeptInv /\ ReachedInv
        /\ state = "collecting" => CollectInv
        /\ state = "checking" => CheckInv

\* Every network of a summary that ends in a zero is the largest one that starts
\* where it does and ends in the range.
LargestInv ==
    call.op = "summarize" /\ "misled" \notin trouble =>
        \A p \in Range(list) :
            p # <<>> /\ p[Len(p)] = 0 => Less(call.last, LastAddress(Front(p)))

SummaryInv ==
    /\ SummaryIsExact
    /\ state = "summarizing" => outcome = "none"
    /\ LargestInv

\* What is left of a range is inside it.
RefusalsInv ==
    /\ RefusalsAreKnown
    /\ state = "summarizing" =>
          /\ call.first \in Address /\ call.last \in Address
          /\ OneFamily(call.first, call.last) /\ ~Less(start, call.first)

-----------------------------------------------------------------------------
(* Networks, their halves and what remains of them *)

LEMMA FrontLeads ==
    ASSUME NEW p \in Path, NEW q \in Path, Leads(p, q), p # q
    PROVE  Front(q) \in Path /\ Leads(p, Front(q)) /\ Leads(Front(q), q) /\ q # Front(q)
<1>1. Len(p) \in Nat /\ Len(q) \in Nat /\ Len(p) < Len(q)
    BY LeadsByChild, PathType
<1>2. Len(q) - 1 \in 0..Len(q) /\ Len(p) <= Len(q) - 1 /\ Len(q) - 1 < Len(q)
    BY <1>1
<1>3. /\ Front(q) \in Path /\ Len(Front(q)) = Len(q) - 1
      /\ \A i \in 1..(Len(q) - 1) : Front(q)[i] = q[i]
    BY <1>2, PathPrefix DEF Front
<1>4. \A i \in 1..Len(p) : i \in 1..(Len(q) - 1)
    BY <1>1, <1>2
<1>5. Leads(p, Front(q))
    BY <1>2, <1>3, <1>4 DEF Leads, OnPath
<1>6. Leads(Front(q), q)
    BY <1>2, <1>3 DEF Leads, OnPath
<1> QED BY <1>2, <1>3, <1>5, <1>6

LEMMA FrontOfChild ==
    ASSUME NEW p \in Path, NEW bit \in Bit
    PROVE  Front(Append(p, bit)) = p
<1>1. /\ Append(p, bit) \in Seq(Bit) /\ Len(Append(p, bit)) = Len(p) + 1
      /\ \A i \in 1..Len(p) : Append(p, bit)[i] = p[i]
    BY PathChild
<1>2. p \in Seq(Bit) /\ Len(p) \in Nat
    BY PathType
<1>3. Len(p) + 1 - 1 = Len(p) /\ \A i \in 1..Len(p) : i \in 1..(Len(p) + 1)
    BY <1>2
<1>4. Front(Append(p, bit)) = SubSeq(Append(p, bit), 1, Len(p))
    BY <1>1, <1>3 DEF Front
<1>5. /\ SubSeq(Append(p, bit), 1, Len(p)) \in Seq(Bit)
      /\ Len(SubSeq(Append(p, bit), 1, Len(p))) = Len(p)
      /\ \A i \in 1..Len(p) : SubSeq(Append(p, bit), 1, Len(p))[i] = Append(p, bit)[i]
    <2>1. 1 \in 1..(Len(Append(p, bit)) + 1) /\ Len(p) \in 0..Len(Append(p, bit))
        BY <1>1, <1>2
    <2> QED BY <1>1, <1>2, <2>1, SubSeqProperties
<1> QED BY <1>1, <1>2, <1>4, <1>5, SeqEqual

\* What remains meets no other network, but the network it is a half of does, being
\* around another one.
LEMMA RemainsAround ==
    ASSUME NEW p \in Path, NEW others \in SUBSET Path, NEW q \in Remaining(p, others)
    PROVE  /\ q \in Path /\ Leads(p, q) /\ p # q
           /\ Front(q) \in Path /\ Leads(p, Front(q)) /\ Leads(Front(q), q)
           /\ \A o \in others : ~Leads(q, o) /\ ~Leads(o, q) /\ Front(q) # o
           /\ \E o \in others : Leads(Front(q), o)
<1>1. q \in Path /\ <<q, p>> \in Within /\ p # q /\ \A o \in others : <<q, o>> \notin Meeting
    BY DEF Remaining, Meets
<1>2. Leads(p, q)
    BY <1>1, WithinIsLeads
<1>3. Front(q) \in Path /\ Leads(p, Front(q)) /\ Leads(Front(q), q)
    BY <1>1, <1>2, FrontLeads
<1>4. \A o \in others : ~Leads(q, o) /\ ~Leads(o, q) /\ Front(q) # o
    BY <1>1, <1>3, MeetingIsLeads
<1>5. PICK o \in others : <<Front(q), o>> \in Meeting
    BY DEF Remaining, Meets
<1>6. Leads(Front(q), o) \/ Leads(o, Front(q))
    BY <1>3, <1>5, MeetingIsLeads
<1>7. Leads(Front(q), o)
    BY <1>1, <1>3, <1>4, <1>6, LeadsOn
<1> QED BY <1>1, <1>2, <1>3, <1>4, <1>7

\* Two networks that remain are apart.
LEMMA RemainsApart ==
    ASSUME NEW p \in Path, NEW others \in SUBSET Path,
           NEW q \in Remaining(p, others), NEW r \in Remaining(p, others), Leads(q, r)
    PROVE  q = r
<1>1. q \in Path /\ r \in Path
    BY RemainsAround
<1> QED BY <1>1, RemainingPaths, MeetingIsLeads

\* Halving starts at a network around another one.
LEMMA HalvingStarts ==
    ASSUME NEW p \in Path, NEW o \in Path
    PROVE  Halving(p, o) = IF Leads(p, o) /\ p # o THEN {[network |-> p, other |-> o]} ELSE {}
<1>1. IsSubnet(p, o) <=> Leads(p, o)
    BY WithinIsLeads DEF Within
<1> QED BY <1>1 DEF Halving

-----------------------------------------------------------------------------
(* The steps of exclude *)

LEMMA NotExcluding ==
    ASSUME call'.op # "exclude"
    PROVE  ExcludeInv'
BY DEF ExcludeInv

LEMMA SameCall ==
    ASSUME UNCHANGED call
    PROVE  Remains' = Remains /\ Kept' = Kept /\ (Starts' <=> Starts)
BY DEF Remains, Kept, Starts

LEMMA OtherCallsKeepExclude ==
    ASSUME ListsInv,
           \/ (\E p \in Networks : PushNetwork(p)) \/ Pop \/ PopFirst \/ Release
           \/ \E first, last \in Ends : Summarize(first, last)
           \/ SummarizeTurn \/ SummarizeEnds \/ SummarizeRefused \/ SummarizeNoMemory
           \/ Merge \/ MergeTurn \/ MergeNoMemory \/ MergeEnds
    PROVE  ExcludeInv'
<1>1. NoCall.op = "none"
    BY DEF NoCall
<1>2. CASE (\E p \in Networks : PushNetwork(p)) \/ Pop \/ PopFirst
    <2>1. call = NoCall /\ call' = call
        BY <1>2 DEF PushNetwork, Pop, PopFirst, Change, Free
    <2> QED BY <1>1, <2>1, NotExcluding
<1>3. CASE Release
    BY <1>1, <1>3, NotExcluding DEF Release, Begin
<1>4. CASE \E first, last \in Ends : Summarize(first, last)
    BY <1>4, NotExcluding DEF Summarize, Begin
<1>5. CASE SummarizeTurn \/ SummarizeEnds \/ SummarizeRefused \/ SummarizeNoMemory
    <2>1. state = "summarizing" /\ call' = call
        BY <1>5 DEF SummarizeTurn, SummarizeEnds, SummarizeRefused, SummarizeNoMemory
    <2> QED BY <2>1, NotExcluding DEF ListsInv, TypesInv
<1>6. CASE Merge
    BY <1>6, NotExcluding DEF Merge, Begin
<1>7. CASE MergeTurn \/ MergeNoMemory \/ MergeEnds
    <2>1. state = "merging" /\ call' = call
        BY <1>7 DEF MergeTurn, MergeNoMemory, MergeEnds
    <2> QED BY <2>1, NotExcluding DEF ListsInv, TypesInv
<1> QED BY <1>2, <1>3, <1>4, <1>5, <1>6, <1>7

LEMMA EmptyRange == Range(<<>>) = {}
BY DEF Range

LEMMA BeginKeepsExclude ==
    ASSUME ListsInv, NEW p \in Networks, Exclude(p) \/ ExcludeList(p)
    PROVE  ExcludeInv'
<1>1. /\ state = "idle" /\ call = NoCall /\ at' = 0 /\ outcome' = "none"
      /\ UNCHANGED <<list, result, start, todo>>
    BY DEF Exclude, ExcludeList, Begin, Idle, Free
<1>2. p \in Path /\ list \in Seq(Path) /\ call.op = "none"
    BY <1>1, ListsAssumption DEF ListsInv, TypesInv, NoCall
<1>3. result' = <<>> /\ todo' = <<>> /\ halving = {}
    BY <1>1, <1>2 DEF ListsInv, TypesInv, Excluding
<1>4. CASE Exclude(p)
    <2> DEFINE o == Head(list)
    <2>1. /\ list # <<>> /\ state' = "excluding" /\ halving' = Halving(p, o)
          /\ call' = [op |-> "exclude", network |-> p, others |-> {o}]
        BY <1>4 DEF Exclude, Begin
    <2>2. o \in Path
        BY <1>2, <2>1
    <2> HIDE DEF o
    <2>3. call'.op = "exclude" /\ call'.network = p /\ call'.others = {o}
        BY <2>1
    <2>4. halving' = IF Leads(p, o) /\ p # o THEN {[network |-> p, other |-> o]} ELSE {}
        BY <1>2, <2>1, <2>2, HalvingStarts
    <2>5. HalvedInv'
        BY <1>2, <2>3, <2>4, LeadsToItself DEF HalvedInv
    <2>6. KeptInv'
        <3>1. halving' # {} => Starts'
            BY <2>1, <2>3 DEF Starts
        <3> QED BY <1>3, <3>1, EmptyRange DEF KeptInv
    <2>7. ASSUME NEW q \in Remains' PROVE Reached(q)'
        <3>1. {o} \in SUBSET Path /\ q \in Remaining(p, {o})
            BY <2>2, <2>3, <2>7 DEF Remains
        <3>2. /\ q \in Path /\ Leads(p, q) /\ Front(q) \in Path /\ Leads(p, Front(q))
              /\ ~Leads(o, q) /\ Leads(Front(q), o)
            BY <1>2, <3>1, RemainsAround
        <3>3. Leads(p, o) /\ p # o
            BY <1>2, <2>2, <3>2, LeadsOn
        <3>4. halving' = {[network |-> p, other |-> o]}
            BY <2>4, <3>3
        <3> QED BY <3>2, <3>4 DEF Reached
    <2>8. ReachedInv'
        BY <2>1, <2>7 DEF ReachedInv
    <2> QED BY <1>1, <2>1, <2>3, <2>5, <2>6, <2>8 DEF ExcludeInv
<1>5. CASE ExcludeList(p)
    <2>1. /\ state' = "collecting" /\ halving' = {}
          /\ call' = [op |-> "exclude", network |-> p, others |-> Range(list)]
        BY <1>3, <1>5 DEF ExcludeList, Begin
    <2>2. call'.op = "exclude" /\ call'.others = Range(list)
        BY <2>1
    <2>3. HalvedInv'
        BY <2>1 DEF HalvedInv
    <2>4. KeptInv'
        BY <1>3, <2>1, EmptyRange DEF KeptInv
    <2>5. \A i \in 1..0 : FALSE
        OBVIOUS
    <2>6. ReachedInv'
        BY <1>1, <2>1, <2>5 DEF ReachedInv
    <2>7. CollectInv'
        <3>1. 0 <= Len(list)
            BY <1>2
        <3> QED BY <1>1, <1>3, <2>1, <2>2, <3>1, EmptyRange DEF CollectInv
    <2> QED BY <1>1, <2>1, <2>2, <2>3, <2>4, <2>6, <2>7 DEF ExcludeInv
<1> QED BY <1>4, <1>5

\* The two halves of a network have nothing in common.
LEMMA HalvesApart ==
    ASSUME NEW p \in Path, NEW bit \in Bit, Append(p, bit) \in Path, Append(p, 1 - bit) \in Path
    PROVE  /\ ~Leads(Append(p, bit), Append(p, 1 - bit))
           /\ ~Leads(Append(p, 1 - bit), Append(p, bit))
<1>1. CASE bit = 0
    <2>1. 1 - bit = 1
        BY <1>1
    <2> QED BY <1>1, <2>1, LeftChild, LeftIsApart
<1>2. CASE bit = 1
    <2>1. 1 - bit = 0
        BY <1>2
    <2> QED BY <1>2, <2>1, LeftChild, LeftIsApart
<1> QED BY <1>1, <1>2 DEF Bit

\* The parts of the invariant, as the steps use them
LEMMA InvParts ==
    ASSUME ListsInv, ExcludeInv, call.op = "exclude"
    PROVE  /\ call.network \in Path /\ call.others \in SUBSET Path
           /\ list \in Seq(Path) /\ result \in Seq(Path) /\ todo \in Seq(Path) /\ at \in Nat
           /\ \A h \in halving : /\ h.network \in Path /\ h.other \in Path
                                 /\ Leads(call.network, h.network)
                                 /\ Leads(h.network, h.other) /\ h.network # h.other
                                 /\ h.other \in call.others
           /\ \A g, h \in halving : g = h
           /\ Range(todo) \subseteq Kept /\ Range(result) \subseteq Remains
           /\ todo # <<>> \/ result # <<>> \/ halving # {} => Starts
           /\ state # "idle" => outcome = "none"
           /\ ReachedInv
           /\ state = "collecting" => CollectInv
           /\ state = "checking" => CheckInv
<1>1. TypesInv
    BY DEF ListsInv
<1>2. HalvedInv /\ KeptInv
    BY DEF ExcludeInv
<1>3. \A h \in halving : /\ h.network \in Path /\ h.other \in Path
                         /\ Leads(call.network, h.network)
                         /\ Leads(h.network, h.other) /\ h.network # h.other
                         /\ h.other \in call.others
    BY <1>1, <1>2 DEF TypesInv, HalvedInv
<1>4. \A g, h \in halving : g = h
    BY <1>2 DEF HalvedInv
<1>5. /\ state # "idle" => outcome = "none"
      /\ ReachedInv
      /\ state = "collecting" => CollectInv
      /\ state = "checking" => CheckInv
    BY DEF ExcludeInv
<1>6. /\ call.network \in Path /\ call.others \in SUBSET Path
      /\ list \in Seq(Path) /\ result \in Seq(Path) /\ todo \in Seq(Path) /\ at \in Nat
    BY <1>1 DEF TypesInv
<1>7. /\ Range(todo) \subseteq Kept /\ Range(result) \subseteq Remains
      /\ todo # <<>> \/ result # <<>> \/ halving # {} => Starts
    BY <1>2 DEF KeptInv
<1> QED BY <1>3, <1>4, <1>5, <1>6, <1>7

LEMMA HalveTurnKeepsExclude ==
    ASSUME ListsInv, ExcludeInv, HalveTurn
    PROVE  ExcludeInv'
<1> DEFINE p == call.network
           others == call.others
<1>a. TypesInv /\ ListsSorted
    BY DEF ListsInv
<1>b. PICK h \in halving : \E way \in Ways(h.network, h.other) :
          /\ Keep(way[2])
          /\ halving' = IF way[1] = h.other THEN {}
                        ELSE {[network |-> way[1], other |-> h.other]}
          /\ UNCHANGED <<list, call, state, outcome, start, at, trouble>>
          /\ way[1] \in Path /\ way[2] \in Path /\ Leads(way[1], h.other)
          /\ \E bit \in Bit : /\ way[1] = Append(h.network, bit)
                              /\ way[2] = Append(h.network, 1 - bit)
          /\ state \in Excluding /\ call.op = "exclude"
    BY <1>a, HalveTurnEffect
<1>1. PICK on \in Path, kept \in Path, bit \in Bit :
          /\ Keep(kept)
          /\ halving' = IF on = h.other THEN {} ELSE {[network |-> on, other |-> h.other]}
          /\ UNCHANGED <<list, call, state, outcome, start, at, trouble>>
          /\ Leads(on, h.other)
          /\ on = Append(h.network, bit) /\ kept = Append(h.network, 1 - bit)
          /\ state \in Excluding /\ call.op = "exclude"
    BY <1>b
<1>2. /\ p \in Path /\ others \in SUBSET Path
      /\ h.network \in Path /\ h.other \in Path /\ h.other \in others
      /\ Leads(p, h.network) /\ Leads(h.network, h.other) /\ h.network # h.other
    BY <1>1, InvParts
<1>3. 1 - bit \in Bit
    BY DEF Bit
<1>4. /\ Leads(h.network, on) /\ ~Leads(on, h.network)
      /\ Leads(h.network, kept) /\ ~Leads(kept, h.network) /\ Front(kept) = h.network
    BY <1>1, <1>2, <1>3, LeadsToChild, FrontOfChild
<1>5. ~Leads(on, kept) /\ ~Leads(kept, on)
    BY <1>1, <1>2, HalvesApart
<1>6. kept \in Kept
    <2>1. Leads(p, kept) /\ kept # p
        BY <1>2, <1>4, LeadsOn
    <2>2. <<h.network, h.other>> \in Meeting
        BY <1>2, MeetingIsLeads
    <2> QED BY <1>2, <1>4, <2>1, <2>2 DEF Kept, Meets
<1>7. ~Leads(kept, h.other) /\ ~Leads(h.other, kept)
    BY <1>1, <1>2, <1>5, LeadsOn, LeadsFromBoth
<1>8. ASSUME state = "excluding" PROVE kept \in Remains
    <2>1. \A o \in others : o = h.other
        BY <1>1, <1>2, <1>8 DEF ExcludeInv
    <2>2. ~Meets(kept, others)
        BY <1>2, <1>7, <2>1, MeetingIsLeads DEF Meets
    <2>3. <<kept, p>> \in Within
        BY <1>2, <1>6, WithinIsLeads DEF Kept
    <2> QED BY <1>6, <2>2, <2>3 DEF Remains, Remaining, Kept
<1>9. /\ state = "excluding" => todo' = todo /\ Range(result') = Range(result) \cup {kept}
      /\ state # "excluding" => result' = result /\ Range(todo') = Range(todo) \cup {kept}
    BY <1>a, <1>1, KeepKeepsLists
<1>10. \A g \in halving' : g.network = on /\ g.other = h.other /\ on # h.other
    BY <1>1
<1>11. HalvedInv'
    <2>1. Leads(p, on)
        BY <1>2, <1>4, LeadsOn
    <2>2. call' = call /\ Leads(on, h.other)
        BY <1>1
    <2>3. \A g, k \in halving' : g = k
        BY <1>1
    <2>4. \A g \in halving' : /\ Leads(p, g.network) /\ Leads(g.network, g.other)
                               /\ g.network # g.other /\ g.other \in others
        BY <1>2, <1>10, <2>1, <2>2
    <2> QED BY <2>2, <2>3, <2>4 DEF HalvedInv
<1>12. KeptInv'
    <2>1. /\ Range(todo) \subseteq Kept /\ Range(result) \subseteq Remains /\ Starts
        BY <1>1, <1>b, InvParts
    <2> QED BY <1>1, <1>6, <1>8, <1>9, <2>1, SameCall DEF KeptInv
<1>13. ASSUME NEW q \in Remains, Reached(q) PROVE Reached(q)'
    <2>1. /\ q \in Path /\ Leads(p, q) /\ \A o \in others : ~Leads(q, o) /\ ~Leads(o, q)
          /\ Front(q) \in Path
        BY <1>2, <1>13, RemainsAround DEF Remains
    <2>2. CASE q \in Range(result)
        BY <1>9, <2>2 DEF Reached
    <2>3. CASE \E c \in Range(todo) : Leads(c, q)
        BY <1>9, <2>3 DEF Reached
    <2>4. ASSUME Leads(h.network, q) PROVE Reached(q)'
        <3>1. h.network # q
            BY <1>2, <2>1
        <3>2. Leads(on, q) \/ Leads(kept, q)
            <4> DEFINE b == q[Len(h.network) + 1]
            <4>1. b \in Bit /\ Leads(Append(h.network, b), q)
                BY <1>2, <2>1, <2>4, <3>1, LeadsByChild
            <4>2. b = bit \/ b = 1 - bit
                BY <4>1 DEF Bit
            <4> QED BY <1>1, <4>1, <4>2
        <3>3. CASE Leads(on, q)
            <4>1. on # h.other
                BY <1>2, <2>1, <3>3
            <4>2. halving' = {[network |-> on, other |-> h.other]}
                BY <1>1, <4>1
            <4> QED BY <3>3, <4>2 DEF Reached
        <3>4. CASE Leads(kept, q) /\ state # "excluding"
            BY <1>9, <3>4 DEF Reached
        <3>5. CASE Leads(kept, q) /\ state = "excluding"
            <4>1. kept \in Remains
                BY <1>8, <3>5
            <4>2. kept = q
                BY <1>2, <3>5, <4>1, <1>13, RemainsApart DEF Remains
            <4> QED BY <1>9, <3>5, <4>2 DEF Reached
        <3> QED BY <3>2, <3>3, <3>4, <3>5
    <2>5. \A g \in halving : g = h
        BY <1>1, InvParts
    <2> QED BY <1>13, <2>2, <2>3, <2>4, <2>5 DEF Reached
<1>14. ReachedInv'
    BY <1>1, <1>13, SameCall, InvParts DEF ReachedInv
<1>15. ASSUME state = "collecting" PROVE CollectInv'
    <2>1. CollectInv
        BY <1>1, <1>15, InvParts
    <2>2. result' = result
        BY <1>9, <1>15
    <2>3. ASSUME NEW g \in halving' PROVE \E i \in 1..at : g.other = list[i]
        BY <1>10, <2>1, <2>3 DEF CollectInv
    <2>4. ASSUME NEW c \in Range(todo') PROVE \E i \in 1..at : Leads(Front(c), list[i])
        <3>1. CASE c \in Range(todo)
            BY <2>1, <3>1 DEF CollectInv
        <3>2. CASE c = kept
            <4>1. PICK i \in 1..at : h.other = list[i]
                BY <2>1 DEF CollectInv
            <4> QED BY <1>2, <1>4, <3>2, <4>1
        <3> QED BY <1>9, <1>15, <3>1, <3>2
    <2> QED BY <1>1, <2>1, <2>2, <2>3, <2>4 DEF CollectInv
<1>16. ASSUME state = "checking" PROVE CheckInv'
    <2>1. CheckInv
        BY <1>1, <1>16, InvParts
    <2>2. ASSUME NEW i \in 1..at
          PROVE  /\ \A c \in Range(todo') : LeftOf(list[i], c)
                 /\ \A g \in halving' : LeftOf(list[i], g.network)
        <3>1. /\ \A c \in Range(todo) : LeftOf(list[i], c)
              /\ LeftOf(list[i], h.network)
            BY <2>1, <2>2 DEF CheckInv
        <3>2. list[i] \in Path
            <4>1. at <= Len(list) /\ at \in Nat /\ list \in Seq(Path)
                BY <1>1, <2>1, InvParts DEF CheckInv
            <4>2. i \in 1..Len(list)
                BY <4>1
            <4> QED BY <4>1, <4>2
        <3>3. LeftOf(list[i], on) /\ LeftOf(list[i], kept)
            BY <1>2, <1>4, <3>1, <3>2, LeadsToItself, LeftLeads
        <3> QED BY <1>9, <1>10, <1>16, <3>1, <3>3
    <2> QED BY <1>1, <2>1, <2>2 DEF CheckInv
<1>17. /\ state' # "idle" => outcome' = "none"
       /\ state' = "excluding" => \A q, r \in call'.others : q = r
    BY <1>1 DEF ExcludeInv
<1> QED BY <1>1, <1>11, <1>12, <1>14, <1>15, <1>16, <1>17 DEF ExcludeInv

\* A network that cannot be halved, or for which there is no memory
LEMMA GiveUpKeepsExclude ==
    ASSUME ListsInv, ExcludeInv, HalveNoMemory \/ HalveRefused
    PROVE  ExcludeInv'
<1>1. PICK why : GiveUp(why) /\ halving # {}
    BY DEF HalveNoMemory, HalveRefused
<1>2. state \in Excluding /\ call.op = "exclude" /\ UNCHANGED <<list, call>> /\ trouble' # {}
    BY <1>1 DEF ListsInv, TypesInv, GiveUp
<1>3. CASE state = "checking" /\ halving' = {} /\ UNCHANGED <<result, state, outcome, start, at, todo>>
    <2>1. HalvedInv'
        BY <1>3 DEF HalvedInv
    <2>2. KeptInv'
        <3>1. /\ Range(todo) \subseteq Kept /\ Range(result) \subseteq Remains
              /\ todo # <<>> \/ result # <<>> \/ halving # {} => Starts
            BY <1>2, InvParts
        <3> QED BY <1>2, <1>3, <3>1, SameCall DEF KeptInv
    <2>3. ReachedInv'
        BY <1>2, <1>3 DEF ReachedInv
    <2>4. CheckInv'
        <3>1. CheckInv
            BY <1>2, <1>3, InvParts
        <3> QED BY <1>2, <1>3, <3>1 DEF CheckInv
    <2> QED BY <1>2, <1>3, <2>1, <2>2, <2>3, <2>4 DEF ExcludeInv
<1>4. CASE result' = <<>> /\ Return("failed")
    <2>1. /\ halving' = {} /\ todo' = <<>> /\ state' = "idle" /\ outcome' = "failed"
        BY <1>4 DEF Return
    <2>2. HalvedInv'
        BY <2>1 DEF HalvedInv
    <2>3. KeptInv'
        BY <1>4, <2>1, EmptyRange DEF KeptInv
    <2>4. ReachedInv'
        BY <2>1 DEF ReachedInv
    <2> QED BY <2>1, <2>2, <2>3, <2>4 DEF ExcludeInv
<1> QED BY <1>1, <1>3, <1>4 DEF GiveUp

LEMMA EndsKeepExclude ==
    ASSUME ListsInv, ExcludeInv, ExcludeEnds \/ CheckEnds
    PROVE  ExcludeInv'
<1>1. /\ state \in {"excluding", "checking"} /\ Return("ok")
      /\ UNCHANGED <<list, result, call, trouble>> /\ halving = {}
    BY DEF ExcludeEnds, CheckEnds
<1>2. call.op = "exclude" /\ todo = <<>>
    BY <1>1 DEF ListsInv, TypesInv, Excluding, ExcludeEnds, CheckEnds
<1>3. /\ halving' = halving /\ todo' = todo /\ state' = "idle" /\ outcome' = "ok" /\ outcome = "none"
    BY <1>1, <1>2, InvParts DEF Return
<1>4. HalvedInv'
    BY <1>1, <1>3 DEF HalvedInv
<1>5. KeptInv'
    <2>1. /\ Range(todo) \subseteq Kept /\ Range(result) \subseteq Remains
          /\ todo # <<>> \/ result # <<>> \/ halving # {} => Starts
        BY <1>2, InvParts
    <2> QED BY <1>1, <1>3, <2>1, SameCall DEF KeptInv
<1>6. ReachedInv'
    <2>1. ReachedInv
        BY <1>2, InvParts
    <2>2. ASSUME NEW q, Reached(q) PROVE Reached(q)'
        BY <1>1, <1>3, <2>2 DEF Reached
    <2> QED BY <1>1, <1>3, <2>1, <2>2, SameCall DEF ReachedInv
<1> QED BY <1>3, <1>4, <1>5, <1>6 DEF ExcludeInv

\* The networks are collected.  One that is on to_check is a half that was made on
\* the way to another one, so that everything around it has been reached.
LEMMA CollectTurnKeepsExclude ==
    ASSUME ListsInv, ExcludeInv, CollectTurn
    PROVE  ExcludeInv'
<1> DEFINE p == call.network
           others == call.others
           o == list[at + 1]
<1>1. /\ state = "collecting" /\ halving = {} /\ at < Len(list) /\ at' = at + 1
      /\ halving' = IF Listed(todo, o) THEN {} ELSE Halving(p, o)
      /\ UNCHANGED <<list, result, call, state, outcome, start, todo, trouble>>
    BY DEF CollectTurn
<1>2. call.op = "exclude"
    BY <1>1 DEF ListsInv, TypesInv, Excluding
<1>3. /\ p \in Path /\ others \in SUBSET Path /\ list \in Seq(Path) /\ todo \in Seq(Path)
      /\ at \in Nat /\ CollectInv /\ ReachedInv /\ outcome = "none"
      /\ Range(todo) \subseteq Kept /\ Range(result) \subseteq Remains
      /\ todo # <<>> \/ result # <<>> \/ halving # {} => Starts
    BY <1>1, <1>2, InvParts
<1>4. at + 1 \in 1..Len(list) /\ at + 1 <= Len(list) /\ at + 1 \in 1..(at + 1)
    BY <1>1, <1>3
<1>5. o \in Path /\ o \in others
    BY <1>3, <1>4 DEF CollectInv, Range
<1>6. \A i \in 1..(at + 1) : i = at + 1 \/ i \in 1..at
    BY <1>3
<1>7. \A i \in 1..at : i \in 1..(at + 1)
    BY <1>3
<1> HIDE DEF o
<1>8. \A h \in halving' : h.network = p /\ h.other = o /\ Leads(p, o) /\ p # o
    BY <1>1, <1>3, <1>5, HalvingStarts
<1>9. HalvedInv'
    <2>1. \A g, h \in halving' : g = h
        BY <1>1, <1>3, <1>5, HalvingStarts
    <2>2. \A h \in halving' : /\ Leads(p, h.network)
                              /\ Leads(h.network, h.other) /\ h.network # h.other
                              /\ h.other \in others
        BY <1>3, <1>5, <1>8, LeadsToItself
    <2> QED BY <1>1, <2>1, <2>2 DEF HalvedInv
<1>10. KeptInv'
    <2>1. halving' # {} => Halving(p, o) # {}
        BY <1>1
    <2>2. halving' # {} => Starts
        BY <1>5, <2>1 DEF Starts
    <2> QED BY <1>1, <1>3, <2>2, SameCall DEF KeptInv
<1>11. ASSUME NEW q \in Remains, NEW i \in 1..(at + 1), Leads(Front(q), list[i])
       PROVE  Reached(q)'
    <2>1. /\ q \in Path /\ Leads(p, q) /\ Front(q) \in Path /\ Leads(p, Front(q))
          /\ \A x \in others : ~Leads(q, x) /\ ~Leads(x, q) /\ Front(q) # x
        BY <1>3, <1>11, RemainsAround DEF Remains
    <2>2. ASSUME NEW k \in 1..at, Leads(Front(q), list[k]) PROVE Reached(q)'
        <3>1. Reached(q)
            BY <1>1, <1>3, <1>11, <2>2 DEF ReachedInv
        <3> QED BY <1>1, <3>1 DEF Reached
    <2>3. CASE i \in 1..at
        BY <1>11, <2>2, <2>3
    <2>4. CASE Leads(Front(q), o) /\ Listed(todo, o)
        <3>1. Sorted(todo)
            BY DEF ListsInv, ListsSorted
        <3>2. o \in Range(todo)
            BY <1>3, <1>5, <2>4, <3>1, ListedIsMember DEF Range
        <3>3. PICK k \in 1..at : Leads(Front(o), list[k])
            BY <1>3, <3>2 DEF CollectInv
        <3>4. Front(o) \in Path /\ Leads(Front(q), Front(o))
            BY <1>5, <2>1, <2>4, FrontLeads
        <3>5. list[k] \in Path
            <4>1. k \in 1..Len(list)
                BY <1>1, <1>3
            <4> QED BY <1>3, <4>1
        <3>6. Leads(Front(q), list[k])
            BY <2>1, <3>3, <3>4, <3>5, LeadsOn
        <3> QED BY <2>2, <3>6
    <2>5. CASE Leads(Front(q), o) /\ ~Listed(todo, o)
        <3>1. Leads(p, o) /\ p # o
            BY <1>3, <1>5, <2>1, <2>5, LeadsOn
        <3>2. halving' = {[network |-> p, other |-> o]}
            BY <1>1, <1>3, <1>5, <2>5, <3>1, HalvingStarts
        <3> QED BY <2>1, <3>2 DEF Reached
    <2> QED BY <1>6, <1>11, <2>3, <2>4, <2>5 DEF o
<1>12. ReachedInv'
    BY <1>1, <1>11, SameCall DEF ReachedInv
<1>13. CollectInv'
    <2>1. ASSUME NEW h \in halving' PROVE \E i \in 1..(at + 1) : h.other = list[i]
        BY <1>4, <1>8 DEF o
    <2>2. ASSUME NEW c \in Range(todo) PROVE \E i \in 1..(at + 1) : Leads(Front(c), list[i])
        BY <1>3, <1>7 DEF CollectInv
    <2> QED BY <1>1, <1>3, <1>4, <2>1, <2>2 DEF CollectInv
<1> QED BY <1>1, <1>3, <1>9, <1>10, <1>12, <1>13 DEF ExcludeInv

\* All networks have been collected: everything that remains has been reached.
LEMMA CollectEndsKeepsExclude ==
    ASSUME ListsInv, ExcludeInv, CollectEnds
    PROVE  ExcludeInv'
<1>1. /\ state = "collecting" /\ halving = {} /\ at = Len(list) /\ state' = "checking" /\ at' = 0
      /\ UNCHANGED <<list, result, call, outcome, start, halving, todo, trouble>>
    BY DEF CollectEnds
<1>2. call.op = "exclude"
    BY <1>1 DEF ListsInv, TypesInv, Excluding
<1>3. /\ call.network \in Path /\ call.others \in SUBSET Path /\ list \in Seq(Path)
      /\ CollectInv /\ ReachedInv /\ outcome = "none"
      /\ Range(todo) \subseteq Kept /\ Range(result) \subseteq Remains
      /\ todo # <<>> \/ result # <<>> \/ halving # {} => Starts
    BY <1>1, <1>2, InvParts
<1>4. HalvedInv'
    BY <1>1 DEF HalvedInv
<1>5. KeptInv'
    BY <1>1, <1>3, SameCall DEF KeptInv
<1>6. ASSUME NEW q \in Remains PROVE Reached(q)'
    <2>1. PICK o \in call.others : Leads(Front(q), o)
        BY <1>3, <1>6, RemainsAround DEF Remains
    <2>2. PICK i \in 1..at : o = list[i]
        BY <1>1, <1>3 DEF CollectInv, Range
    <2>3. Reached(q)
        BY <1>1, <1>3, <2>1, <2>2 DEF ReachedInv
    <2> QED BY <1>1, <2>3 DEF Reached
<1>7. ReachedInv'
    BY <1>1, <1>6, SameCall DEF ReachedInv
<1>8. CheckInv'
    <2>1. \A i \in 1..0 : FALSE
        OBVIOUS
    <2>2. 0 <= Len(list)
        BY <1>3
    <2> QED BY <1>1, <1>3, <2>1, <2>2 DEF CheckInv, CollectInv
<1> QED BY <1>1, <1>3, <1>4, <1>5, <1>7, <1>8 DEF ExcludeInv

\* The networks the search goes past are on the left of the candidate.
LEMMA SearchGoesPast ==
    ASSUME ListsInv, ExcludeInv, Checking, NEW i \in SearchEnds
    PROVE  /\ i \in Nat /\ i <= Len(list) /\ Searched(i) \in Nat /\ Searched(i) <= i
           /\ \A k \in 1..i : LeftOf(list[k], Candidate)
<1>1. /\ state = "checking" /\ call.op = "exclude" /\ Candidate \in Path /\ Candidate \in Range(todo)
      /\ i \in Nat /\ at <= i /\ i <= Len(list) /\ Searched(i) \in Nat
    BY CandidateType DEF ListsInv
<1>2. list \in Seq(Path) /\ at \in Nat /\ CheckInv
    BY <1>1, InvParts
<1>3. Searched(i) <= i
    BY <1>1, <1>2 DEF Searched
<1>4. ASSUME NEW k \in 1..i PROVE LeftOf(list[k], Candidate)
    <2>1. k \in 1..Len(list) /\ list[k] \in Path
        BY <1>1, <1>2
    <2>2. CASE k \in 1..at
        BY <1>1, <1>2, <2>2 DEF CheckInv
    <2>3. CASE k \notin 1..at
        <3>1. PICK j \in at..(i - 1) : j + 1 = k
            <4>1. k - 1 \in at..(i - 1) /\ k - 1 + 1 = k
                BY <1>1, <1>2, <2>3
            <4> QED BY <4>1
        <3>2. ~EndsSearch(j)
            BY DEF SearchEnds
        <3>3. ~Overlaps(list[k], Candidate) /\ ~NetworkLess(Candidate, list[k])
            BY <3>1, <3>2 DEF EndsSearch
        <3>4. ~Leads(list[k], Candidate) /\ ~Leads(Candidate, list[k])
            BY <1>1, <2>1, <3>3, MeetingIsLeads DEF Meeting
        <3>5. ~LeftOf(Candidate, list[k])
            BY <1>1, <2>1, <3>3, LeftIsLess
        <3> QED BY <1>1, <2>1, <3>4, <3>5, PathsCompare
    <2> QED BY <2>2, <2>3
<1> QED BY <1>1, <1>3, <1>4

\* Those in front of the next candidate are then on the left of all that is to check.
LEMMA SearchKeepsLeft ==
    ASSUME ListsInv, ExcludeInv, Checking, NEW i \in SearchEnds, NEW k \in 1..Searched(i)
    PROVE  LeftOf(list[k], Candidate) /\ \A c \in Range(Tail(todo)) : LeftOf(list[k], c)
<1>1. /\ state = "checking" /\ call.op = "exclude" /\ Candidate \in Path
      /\ Tail(todo) \in Seq(Path) /\ \A c \in Range(Tail(todo)) : NetworkLess(Candidate, c)
    BY CandidateType DEF ListsInv
<1>2. i \in Nat /\ i <= Len(list) /\ Searched(i) \in Nat /\ Searched(i) <= i
    BY SearchGoesPast
<1>3. list \in Seq(Path) /\ Len(list) \in Nat
    BY <1>1, InvParts
<1>4. k \in 1..i /\ k \in 1..Len(list)
    BY <1>2, <1>3
<1>5. LeftOf(list[k], Candidate) /\ list[k] \in Path
    BY <1>3, <1>4, SearchGoesPast
<1>6. ASSUME NEW c \in Range(Tail(todo)) PROVE LeftOf(list[k], c)
    <2>1. c \in Path
        BY <1>1, <1>6 DEF Range
    <2>2. LeftOf(Candidate, c) \/ Leads(Candidate, c)
        BY <1>1, <1>6, <2>1, LessIsLeftOrLeads
    <2> QED BY <1>1, <1>5, <2>1, <2>2, LeftOn, LeftLeads, LeadsToItself
<1> QED BY <1>5, <1>6

\* The search has ended without an overlap: the candidate remains.
LEMMA CandidateRemains ==
    ASSUME ListsInv, ExcludeInv, Checking, NEW i \in SearchEnds, ~Contained(i), ~Broken(i)
    PROVE  Candidate \in Remains
<1>1. /\ state = "checking" /\ call.op = "exclude" /\ Candidate \in Path /\ Candidate \in Range(todo)
    BY CandidateType DEF ListsInv
<1>2. /\ list \in Seq(Path) /\ Len(list) \in Nat /\ CheckInv /\ Range(todo) \subseteq Kept
      /\ call.network \in Path /\ call.others = Range(list)
    BY <1>1, InvParts DEF CheckInv
<1>3. i \in Nat /\ i <= Len(list) /\ \A k \in 1..i : LeftOf(list[k], Candidate)
    BY SearchGoesPast
<1>4. ASSUME NEW k \in 1..Len(list) PROVE ~Leads(list[k], Candidate) /\ ~Leads(Candidate, list[k])
    <2>1. list[k] \in Path
        BY <1>2
    <2>2. CASE k \in 1..i
        BY <1>1, <1>3, <2>1, <2>2, LeftIsApart
    <2>3. CASE k \notin 1..i
        <3>1. PICK m \in 1..Len(list) : m = i + 1
            BY <1>2, <1>3, <2>3
        <3>2. i < Len(list) /\ (k = m \/ m < k)
            BY <1>2, <1>3, <2>3, <3>1
        <3>3. list[m] \in Path
            BY <1>2
        <3>4. ~IsSubnet(list[m], Candidate) /\ ~Overlaps(list[m], Candidate)
            BY <3>1, <3>2 DEF Contained, Broken
        <3>5. EndsSearch(i)
            BY <3>2 DEF SearchEnds
        <3>6. NetworkLess(Candidate, list[m])
            BY <3>1, <3>4, <3>5 DEF EndsSearch
        <3>7. ~Leads(list[m], Candidate) /\ ~Leads(Candidate, list[m])
            BY <1>1, <3>3, <3>4, MeetingIsLeads DEF Meeting
        <3>8. LeftOf(Candidate, list[m])
            BY <1>1, <3>3, <3>6, <3>7, LessIsLeftOrLeads
        <3>9. LeftOf(Candidate, list[k])
            <4>1. CASE k = m
                BY <3>8, <4>1
            <4>2. CASE m < k
                <5>1. Sorted(list)
                    BY DEF ListsInv, ListsSorted
                <5>2. NetworkLess(list[m], list[k])
                    BY <1>2, <4>2, <5>1, SortedOverall
                <5>3. LeftOf(list[m], list[k]) \/ Leads(list[m], list[k])
                    BY <2>1, <3>3, <5>2, LessIsLeftOrLeads
                <5> QED BY <1>1, <2>1, <3>3, <3>8, <5>3, LeftOn, LeftLeads, LeadsToItself
            <4> QED BY <3>2, <4>1, <4>2
        <3> QED BY <1>1, <2>1, <3>9, LeftIsApart
    <2> QED BY <2>2, <2>3
<1>5. ASSUME NEW o \in call.others PROVE <<Candidate, o>> \notin Meeting
    <2>1. PICK k \in 1..Len(list) : o = list[k]
        BY <1>2, <1>5 DEF Range
    <2> QED BY <1>1, <1>2, <1>4, <2>1, MeetingIsLeads
<1>6. Candidate \in Kept
    BY <1>1, <1>2
<1>7. /\ <<Candidate, call.network>> \in Within /\ Candidate # call.network
      /\ Meets(Front(Candidate), call.others)
    BY <1>1, <1>2, <1>6, WithinIsLeads DEF Kept
<1> QED BY <1>1, <1>5, <1>7 DEF Remains, Remaining, Meets

\* What each outcome of the search does with the candidate
LEMMA CheckEffect ==
    ASSUME ListsInv, ExcludeInv, CheckListed \/ CheckContained \/ CheckBroken \/ CheckPassed
    PROVE  /\ Checking /\ todo' = Tail(todo) /\ UNCHANGED <<list, call, state, outcome>>
           /\ at' \in Nat /\ at' <= Len(list)
           /\ \A k \in 1..at' : /\ \A c \in Range(Tail(todo)) : LeftOf(list[k], c)
                                /\ \A h \in halving' : LeftOf(list[k], h.network)
           /\ \A h \in halving' : /\ h.network = Candidate /\ h.other \in call.others
                                  /\ Leads(Candidate, h.other) /\ Candidate # h.other
           /\ \A g, h \in halving' : g = h
           /\ Range(result') \subseteq Range(result) \cup {Candidate}
           /\ Range(result) \subseteq Range(result')
           /\ Candidate \in Range(result') => Candidate \in Remains
           /\ trouble \subseteq trouble'
           /\ \A q \in Remains : Leads(Candidate, q) /\ trouble' = {} => Reached(q)'
<1>1. Checking /\ todo' = Tail(todo) /\ UNCHANGED <<list, call, state, outcome>>
    BY DEF CheckListed, CheckContained, CheckBroken, CheckPassed
<1>2. /\ state = "checking" /\ call.op = "exclude" /\ Candidate \in Path /\ Candidate \in Range(todo)
      /\ Range(todo) = {Candidate} \cup Range(Tail(todo))
    BY <1>1, CandidateType DEF ListsInv
<1>3. /\ call.network \in Path /\ call.others \in SUBSET Path /\ call.others = Range(list)
      /\ list \in Seq(Path) /\ Len(list) \in Nat /\ result \in Seq(Path) /\ at \in Nat /\ CheckInv
      /\ Range(todo) \subseteq Kept /\ Range(result) \subseteq Remains
    BY <1>2, InvParts DEF CheckInv
<1>4. halving = {} /\ Sorted(list) /\ Sorted(result)
    BY <1>1 DEF Checking, ListsInv, ListsSorted
<1>5. \A q \in Remains : q \in Path /\ \A o \in call.others : ~Leads(q, o) /\ ~Leads(o, q)
    BY <1>3, RemainsAround DEF Remains
<1>6. CASE CheckListed
    <2>1. Listed(list, Candidate) /\ UNCHANGED <<result, at, halving, trouble>>
        BY <1>6 DEF CheckListed
    <2>2. Candidate \in call.others
        BY <1>2, <1>3, <1>4, <2>1, ListedIsMember DEF Range
    <2>3. \A k \in 1..at : \A c \in Range(Tail(todo)) : LeftOf(list[k], c)
        BY <1>2, <1>3 DEF CheckInv
    <2>4. at <= Len(list)
        BY <1>3 DEF CheckInv
    <2>5. \A q \in Remains : ~Leads(Candidate, q)
        BY <1>5, <2>2
    <2> QED BY <1>1, <1>3, <1>4, <2>1, <2>3, <2>4, <2>5
<1>7. ASSUME NEW i \in SearchEnds, at' = Searched(i)
      PROVE  /\ at' \in Nat /\ at' <= Len(list)
             /\ \A k \in 1..at' : /\ LeftOf(list[k], Candidate)
                                  /\ \A c \in Range(Tail(todo)) : LeftOf(list[k], c)
    <2>1. i \in Nat /\ i <= Len(list) /\ Searched(i) \in Nat /\ Searched(i) <= i
        BY <1>1, SearchGoesPast
    <2>2. at' \in Nat /\ at' <= Len(list)
        BY <1>3, <1>7, <2>1
    <2> QED BY <1>1, <1>7, <2>2, SearchKeepsLeft
<1>8. CASE CheckContained
    <2>1. PICK i \in SearchEnds : Contained(i) /\ at' = Searched(i)
        BY <1>8 DEF CheckContained
    <2>2. UNCHANGED <<result, halving, trouble>>
        BY <1>8 DEF CheckContained
    <2>3. i \in Nat
        BY <1>1, SearchGoesPast
    <2>4. PICK k \in 1..Len(list) : k = i + 1
        BY <1>3, <2>1, <2>3 DEF Contained
    <2>5. list[k] \in Path /\ list[k] \in call.others
        BY <1>3 DEF Range
    <2>6. Leads(list[k], Candidate)
        BY <1>2, <2>1, <2>4, <2>5, WithinIsLeads DEF Contained, Within
    <2>7. \A q \in Remains : ~Leads(Candidate, q)
        BY <1>2, <1>5, <2>5, <2>6, LeadsOn
    <2> QED BY <1>1, <1>3, <1>4, <1>7, <2>1, <2>2, <2>7
<1>9. CASE CheckBroken
    <2>1. PICK i \in SearchEnds : /\ Broken(i) /\ at' = Searched(i)
                                  /\ halving' = Halving(Candidate, list[i + 1])
        BY <1>9 DEF CheckBroken
    <2>2. UNCHANGED <<result, trouble>> /\ ~Listed(list, Candidate)
        BY <1>9 DEF CheckBroken
    <2>3. i \in Nat
        BY <1>1, SearchGoesPast
    <2>4. PICK k \in 1..Len(list) : k = i + 1
        BY <1>3, <2>1, <2>3 DEF Broken
    <2> DEFINE o == list[k]
    <2>5. o \in Path /\ o \in call.others
        BY <1>3 DEF Range
    <2>6. Candidate # o
        BY <1>2, <1>3, <1>4, <2>2, ListedIsMember
    <2>7. ~IsSubnet(o, Candidate) /\ Overlaps(o, Candidate)
        BY <2>1, <2>4 DEF Broken, Contained
    <2>8. Leads(Candidate, o)
        BY <1>2, <2>5, <2>7, WithinIsLeads, MeetingIsLeads DEF Within, Meeting
    <2>9. halving' = {[network |-> Candidate, other |-> o]}
        BY <1>2, <2>1, <2>4, <2>5, <2>6, <2>8, HalvingStarts
    <2> HIDE DEF o
    <2>10. \A q \in Remains : Leads(Candidate, q) => Reached(q)'
        BY <2>9 DEF Reached
    <2>11. /\ \A h \in halving' : /\ h.network = Candidate /\ h.other \in call.others
                                  /\ Leads(Candidate, h.other) /\ Candidate # h.other
           /\ \A g, h \in halving' : g = h
        BY <2>5, <2>6, <2>8, <2>9
    <2>12. \A k1 \in 1..at' : /\ \A c \in Range(Tail(todo)) : LeftOf(list[k1], c)
                              /\ \A h \in halving' : LeftOf(list[k1], h.network)
        BY <1>7, <2>1, <2>11
    <2> QED BY <1>1, <1>3, <1>7, <2>1, <2>2, <2>10, <2>11, <2>12
<1>10. CASE CheckPassed
    <2>1. PICK i \in SearchEnds : ~Contained(i) /\ ~Broken(i) /\ at' = Searched(i)
        BY <1>10 DEF CheckPassed
    <2>2. halving' = {} /\ \/ result' = Push(result, Candidate) /\ trouble' = trouble
                           \/ result' = result /\ trouble' = trouble \cup {"memory"}
        BY <1>4, <1>10 DEF CheckPassed
    <2>3. Candidate \in Remains
        BY <1>1, <2>1, CandidateRemains
    <2>4. Range(Push(result, Candidate)) = Range(result) \cup {Candidate}
        BY <1>2, <1>3, <1>4, PushIsRight
    <2>5. ASSUME NEW q \in Remains, Leads(Candidate, q), trouble' = {} PROVE Reached(q)'
        <3>1. Candidate = q
            BY <1>3, <2>3, <2>5, RemainsApart DEF Remains
        <3>2. q \in Range(result')
            BY <2>2, <2>4, <2>5, <3>1
        <3> QED BY <3>2 DEF Reached
    <2>6. Range(result') \subseteq Range(result) \cup {Candidate} /\ Range(result) \subseteq Range(result')
        BY <2>2, <2>4
    <2>7. trouble \subseteq trouble'
        BY <2>2
    <2> QED BY <1>1, <1>7, <2>1, <2>2, <2>3, <2>5, <2>6, <2>7
<1> QED BY <1>6, <1>8, <1>9, <1>10

LEMMA CheckKeepsExclude ==
    ASSUME ListsInv, ExcludeInv, CheckListed \/ CheckContained \/ CheckBroken \/ CheckPassed
    PROVE  ExcludeInv'
<1>1. Checking /\ todo' = Tail(todo) /\ UNCHANGED <<list, call, state, outcome>>
    BY CheckEffect
<1>2. /\ state = "checking" /\ call.op = "exclude" /\ Candidate \in Path /\ Candidate \in Range(todo)
      /\ Range(todo) = {Candidate} \cup Range(Tail(todo))
    BY <1>1, CandidateType DEF ListsInv
<1>3. /\ call.network \in Path /\ call.others \in SUBSET Path /\ CheckInv /\ ReachedInv
      /\ Range(todo) \subseteq Kept /\ Range(result) \subseteq Remains
      /\ todo # <<>> \/ result # <<>> \/ halving # {} => Starts
      /\ outcome = "none"
    BY <1>2, InvParts
<1>4. halving = {} /\ todo # <<>>
    BY <1>1 DEF Checking
<1>5. /\ \A h \in halving' : /\ h.network = Candidate /\ h.other \in call.others
                             /\ Leads(Candidate, h.other) /\ Candidate # h.other
      /\ \A g, h \in halving' : g = h
    BY CheckEffect
<1>6. HalvedInv'
    <2>1. Leads(call.network, Candidate)
        BY <1>2, <1>3 DEF Kept
    <2> QED BY <1>1, <1>5, <2>1 DEF HalvedInv
<1>7. KeptInv'
    <2>1. Range(result') \subseteq Remains
        BY <1>3, CheckEffect
    <2>2. Range(todo') \subseteq Kept
        BY <1>1, <1>2, <1>3
    <2> QED BY <1>1, <1>3, <1>4, <2>1, <2>2, SameCall DEF KeptInv
<1>8. ASSUME NEW q \in Remains, trouble' = {} PROVE Reached(q)'
    <2>1. trouble = {}
        BY <1>8, CheckEffect
    <2>2. Reached(q)
        BY <1>2, <1>3, <2>1 DEF ReachedInv
    <2>3. CASE q \in Range(result)
        <3>1. q \in Range(result')
            BY <2>3, CheckEffect
        <3> QED BY <3>1 DEF Reached
    <2>4. CASE Leads(Candidate, q)
        BY <1>8, <2>4, CheckEffect
    <2>5. CASE \E c \in Range(Tail(todo)) : Leads(c, q)
        BY <1>1, <2>5 DEF Reached
    <2> QED BY <1>2, <1>4, <2>2, <2>3, <2>4, <2>5 DEF Reached
<1>9. ReachedInv'
    BY <1>1, <1>2, <1>8, SameCall DEF ReachedInv
<1>10. CheckInv'
    <2>1. /\ at' <= Len(list)
          /\ \A k \in 1..at' : /\ \A c \in Range(Tail(todo)) : LeftOf(list[k], c)
                               /\ \A h \in halving' : LeftOf(list[k], h.network)
        BY CheckEffect
    <2> QED BY <1>1, <1>3, <2>1 DEF CheckInv
<1> QED BY <1>1, <1>2, <1>3, <1>6, <1>7, <1>9, <1>10 DEF ExcludeInv

LEMMA NextKeepsExclude == ListsInv /\ ExcludeInv /\ [Next]_vars => ExcludeInv'
<1> SUFFICES ASSUME ListsInv, ExcludeInv, [Next]_vars PROVE ExcludeInv'
    OBVIOUS
<1>1. CASE \/ (\E p \in Networks : PushNetwork(p)) \/ Pop \/ PopFirst \/ Release
           \/ \E first, last \in Ends : Summarize(first, last)
           \/ SummarizeTurn \/ SummarizeEnds \/ SummarizeRefused \/ SummarizeNoMemory
           \/ Merge \/ MergeTurn \/ MergeNoMemory \/ MergeEnds
    BY <1>1, OtherCallsKeepExclude
<1>2. CASE \E p \in Networks : Exclude(p) \/ ExcludeList(p)
    BY <1>2, BeginKeepsExclude
<1>3. CASE HalveTurn
    BY <1>3, HalveTurnKeepsExclude
<1>4. CASE HalveNoMemory \/ HalveRefused
    BY <1>4, GiveUpKeepsExclude
<1>5. CASE CollectTurn
    BY <1>5, CollectTurnKeepsExclude
<1>6. CASE CollectEnds
    BY <1>6, CollectEndsKeepsExclude
<1>7. CASE ExcludeEnds \/ CheckEnds
    BY <1>7, EndsKeepExclude
<1>8. CASE CheckListed \/ CheckContained \/ CheckBroken \/ CheckPassed
    BY <1>8, CheckKeepsExclude
<1>9. CASE UNCHANGED vars
    BY <1>9 DEF vars, ExcludeInv, HalvedInv, KeptInv, Kept, Remains, Starts, ReachedInv, Reached,
                CollectInv, CheckInv
<1> QED BY <1>1, <1>2, <1>3, <1>4, <1>5, <1>6, <1>7, <1>8, <1>9 DEF Next, Turn, NoMemory

\* What is returned is always a part of what remains, and nothing that remains is
\* lost without a failed allocation or a network that cannot be halved.
THEOREM ExcludeInvariant == Spec => []ExcludeInv
<1>1. Init => ExcludeInv
    BY DEF Init, NoCall, ExcludeInv
<1> QED BY <1>1, NextKeepsExclude, ListsInvariant, PTL DEF Spec

-----------------------------------------------------------------------------
(* The addresses of what remains *)

LEMMA CoveredIsOutside ==
    ASSUME NEW p \in Path, NEW others \in SUBSET Path, NEW R \in SUBSET Remaining(p, others)
    PROVE  Covered(R) \subseteq Covered({p}) \ Covered(others)
<1> SUFFICES ASSUME NEW a \in Covered(R) PROVE a \in Covered({p}) \ Covered(others)
    OBVIOUS
<1>1. PICK q \in R : a \in Address /\ OnPath(q, a)
    BY DEF Covered
<1>2. q \in Path /\ Leads(p, q) /\ \A o \in others : ~Leads(q, o) /\ ~Leads(o, q)
    BY RemainsAround
<1>3. a \in Path /\ Leads(q, a)
    BY <1>1, <1>2, AddressIsPath, MatchesIsLeads
<1>4. OnPath(p, a)
    BY <1>1, <1>2, <1>3, LeadsOn, MatchesIsLeads
<1>5. \A o \in others : ~OnPath(o, a)
    BY <1>1, <1>2, <1>3, MatchesIsLeads, LeadsFromBoth
<1> QED BY <1>1, <1>4, <1>5 DEF Covered

LEMMA RemainingCovers ==
    ASSUME NEW p \in Path, NEW others \in SUBSET Path, \E o \in others : Halving(p, o) # {}
    PROVE  Covered(Remaining(p, others)) = Covered({p}) \ Covered(others)
<1>1. \E o \in others : <<o, p>> \in Within /\ o # p
    BY HalvingStarts, WithinIsLeads
<1>2. ASSUME NEW a \in Covered({p}) \ Covered(others) PROVE a \in Covered(Remaining(p, others))
    <2>1. a \in Address /\ OnPath(p, a) /\ \A o \in others : ~OnPath(o, a)
        BY <1>2 DEF Covered
    <2>2. \E q \in Remaining(p, others) : OnPath(q, a)
        BY <1>1, <2>1, RemainingIsAll
    <2> QED BY <2>1, <2>2 DEF Covered
<1> QED BY <1>2, CoveredIsOutside

LEMMA InvGivesAvoidance == ListsInv /\ ExcludeInv => RemainderAvoidsOthers
<1> SUFFICES ASSUME ListsInv, ExcludeInv, call.op = "exclude"
             PROVE  Covered(Range(result)) \subseteq Remainder /\ Disjoint(Range(result))
    BY DEF RemainderAvoidsOthers
<1>1. /\ call.network \in Path /\ call.others \in SUBSET Path
      /\ Range(result) \subseteq Remaining(call.network, call.others)
    BY InvParts DEF Remains
<1>2. Covered(Range(result)) \subseteq Remainder
    BY <1>1, CoveredIsOutside DEF Remainder, Excluded
<1>3. ASSUME NEW q \in Range(result), NEW r \in Range(result), q # r PROVE ~Overlaps(q, r)
    <2>1. q \in Path /\ r \in Path
        BY <1>1, RemainsAround
    <2>2. <<q, r>> \notin Meeting
        BY <1>1, <1>3, RemainingPaths
    <2> QED BY <2>1, <2>2 DEF Meeting
<1> QED BY <1>2, <1>3 DEF Disjoint

\* Excluding networks from a network, of any number and in any position, never returns
\* an address of one of them, one from outside, or one twice, whatever fails on the way.
THEOREM RemainderIsApart == Spec => []RemainderAvoidsOthers
BY InvGivesAvoidance, ListsInvariant, ExcludeInvariant, PTL

LEMMA InvGivesExact == ListsInv /\ ExcludeInv => RemainderIsExact
<1> SUFFICES ASSUME ListsInv, ExcludeInv, call.op = "exclude", outcome = "ok"
             PROVE  IF ~Starts THEN result = <<>>
                    ELSE trouble = {} => /\ Covered(Range(result)) = Remainder
                                         /\ Range(result) = Remaining(call.network, call.others)
    BY DEF RemainderIsExact
<1>1. /\ call.network \in Path /\ call.others \in SUBSET Path
      /\ Range(result) \subseteq Remains
      /\ result # <<>> => Starts
      /\ state = "idle" /\ ReachedInv
    BY InvParts
<1>2. halving = {} /\ todo = <<>>
    BY <1>1 DEF ListsInv, TypesInv, Excluding
<1>3. ASSUME trouble = {}, Starts
      PROVE  /\ Covered(Range(result)) = Remainder
             /\ Range(result) = Remaining(call.network, call.others)
    <2>1. ASSUME NEW q \in Remains PROVE q \in Range(result)
        <3>1. Reached(q)
            BY <1>1, <1>3 DEF ReachedInv
        <3> QED BY <1>2, <3>1, EmptyRange DEF Reached
    <2>2. Range(result) = Remaining(call.network, call.others)
        BY <1>1, <2>1 DEF Remains
    <2>3. Covered(Range(result)) = Remainder
        BY <1>1, <1>3, <2>2, RemainingCovers DEF Starts, Remainder, Excluded
    <2> QED BY <2>2, <2>3
<1> QED BY <1>1, <1>3

\* A call that succeeds without trouble returns all that is left of the network, as the
\* fewest networks, or nothing when it never started.
THEOREM RemainderIsWhole == Spec => []RemainderIsExact
BY InvGivesExact, ListsInvariant, ExcludeInvariant, PTL

-----------------------------------------------------------------------------
(* What may be refused *)

LEMMA SameRefusals ==
    ASSUME RefusalsAreKnown, UNCHANGED <<call, trouble>>, outcome' = outcome \/ outcome' # "failed"
    PROVE  RefusalsAreKnown'
BY DEF RefusalsAreKnown, MixedRange

LEMMA NewRefusals ==
    ASSUME trouble' = {}, outcome' # "failed"
    PROVE  RefusalsAreKnown'
BY DEF RefusalsAreKnown

LEMMA SummarizeKeepsRefusals ==
    ASSUME ListsInv, RefusalsInv,
           \/ \E first, last \in Ends : Summarize(first, last)
           \/ SummarizeTurn \/ SummarizeEnds \/ SummarizeRefused \/ SummarizeNoMemory
    PROVE  RefusalsInv'
<1>1. RefusalsAreKnown /\ start \in Address
    BY DEF RefusalsInv, ListsInv, TypesInv
<1>2. ASSUME NEW first \in Ends, NEW last \in Ends, Summarize(first, last) PROVE RefusalsInv'
    <2>1. /\ trouble' = {} /\ outcome' = "none"
          /\ call' = [op |-> "summarize", first |-> first, last |-> last,
                      valid |-> ValidRange(first, last)]
          /\ state' = IF ValidRange(first, last) THEN "summarizing" ELSE "idle"
          /\ start' = IF ValidRange(first, last) THEN first ELSE AllZeroes
        BY <1>2 DEF Summarize, Begin
    <2>2. first \in Address /\ last \in Address
        BY ListsAssumption
    <2>3. call'.first = first /\ call'.last = last
        BY <2>1
    <2>4. state' = "summarizing" => OneFamily(first, last) /\ start' = first
        BY <2>1 DEF ValidRange
    <2>5. ~Less(first, first)
        BY <2>2, LessIsLeft, AddressIsPath, LeftIsApart
    <2> QED BY <2>1, <2>2, <2>3, <2>4, <2>5, NewRefusals DEF RefusalsInv
<1>3. CASE state = "summarizing"
    <2>1. /\ call.op = "summarize" /\ call.first \in Address /\ call.last \in Address
          /\ OneFamily(call.first, call.last) /\ ~Less(start, call.first)
        BY <1>3 DEF ListsInv, TypesInv, RefusalsInv
    <2>2. CASE SummarizeTurn
        <3>1. PICK p \in Fitting(start, call.last) :
                  \/ Return("ok")
                  \/ start' = Behind[p] /\ UNCHANGED <<state, outcome, at, halving, todo>>
            BY <2>2 DEF SummarizeTurn
        <3>2. UNCHANGED call /\ trouble \subseteq trouble' /\ trouble' \subseteq trouble \cup {"misled"}
            BY <2>2 DEF SummarizeTurn, Misleads
        <3>3. p \in Path /\ Leads(p, start)
            BY <1>1, FittingIsPath
        <3>4. start' = Behind[p] => start' \in Address /\ ~Less(start', call.first)
            BY <1>1, <2>1, <3>3, BehindIsNotLess, NotLess
        <3>5. outcome' = "ok" \/ outcome' = outcome
            BY <3>1 DEF Return
        <3>6. RefusalsAreKnown'
            BY <1>1, <3>2, <3>5 DEF RefusalsAreKnown, MixedRange
        <3>7. state' = "summarizing" => start' = Behind[p]
            BY <3>1 DEF Return
        <3> QED BY <2>1, <3>2, <3>4, <3>6, <3>7 DEF RefusalsInv
    <2>3. CASE SummarizeEnds
        <3>1. UNCHANGED <<call, trouble>> /\ state' = "idle" /\ outcome' = "ok"
            BY <2>3 DEF SummarizeEnds, Return
        <3> QED BY <1>1, <3>1, SameRefusals DEF RefusalsInv
    <2>4. CASE SummarizeRefused
        <3>1. /\ ~Less(call.last, start) /\ Fitting(start, call.last) = {} /\ state' = "idle"
              /\ trouble' = trouble \cup {w \in {"family"} : ~OneFamily(start, call.last)}
                                    \cup {w \in {"misled"} : OneFamily(start, call.last) /\ Misled}
              /\ UNCHANGED call
            BY <2>4 DEF SummarizeRefused, Left, Return
        <3>2. ASSUME ~OneFamily(start, call.last) PROVE MixedRange
            <4>1. /\ V4Mapped(call.first) <=> V4Mapped(call.last)
                  /\ ~(V4Mapped(start) <=> V4Mapped(call.last))
                BY <2>1, <3>2 DEF OneFamily, V4Mapped
            <4>2. ~V4Mapped(call.first) /\ V4Mapped(start)
                BY <1>1, <2>1, <3>1, <4>1, V4IsConvex
            <4>3. start \in Interval(call.first, call.last)
                BY <1>1, <2>1, <3>1 DEF Interval
            <4> QED BY <4>2, <4>3 DEF MixedRange
        <3>3. ASSUME OneFamily(start, call.last) PROVE Misled
            BY <1>1, <2>1, <3>1, <3>3, RefusedIsMiscounted DEF Misled
        <3>4. trouble' # {}
            BY <3>1, <3>3
        <3>5. "family" \in trouble' => MixedRange
            BY <1>1, <3>1, <3>2 DEF RefusalsAreKnown
        <3>6. "astray" \notin trouble' /\ ("refused" \in trouble' => SpansV4(call.network))
            BY <1>1, <3>1 DEF RefusalsAreKnown
        <3>7. RefusalsAreKnown'
            BY <3>1, <3>4, <3>5, <3>6 DEF RefusalsAreKnown, MixedRange
        <3> QED BY <3>1, <3>7 DEF RefusalsInv
    <2>5. CASE SummarizeNoMemory
        <3>1. UNCHANGED call /\ trouble' = trouble \cup {"memory"} /\ state' = "idle"
            BY <2>5 DEF SummarizeNoMemory, Return
        <3>2. RefusalsAreKnown'
            BY <1>1, <3>1 DEF RefusalsAreKnown, MixedRange
        <3> QED BY <3>1, <3>2 DEF RefusalsInv
    <2>6. CASE \E first, last \in Ends : Summarize(first, last)
        BY <1>2, <2>6
    <2> QED BY <2>2, <2>3, <2>4, <2>5, <2>6
<1>4. CASE state # "summarizing"
    <2>1. \E first, last \in Ends : Summarize(first, last)
        BY <1>4 DEF SummarizeTurn, SummarizeEnds, SummarizeRefused, SummarizeNoMemory
    <2> QED BY <1>2, <2>1
<1> QED BY <1>3, <1>4

\* A network that is halved around another one has a half on the way to it.
LEMMA HalvingGoesOn ==
    ASSUME NEW p \in Path, NEW o \in Path, Leads(p, o), p # o, CanHalve(p)
    PROVE  Ways(p, o) # {}
<1> DEFINE b == o[Len(p) + 1]
<1>1. b \in Bit /\ Leads(Append(p, b), o) /\ Append(p, b) \in Path
    BY LeadsByChild
<1>2. FirstHalf(p) = Append(p, 0) /\ SecondHalf(p) = Append(p, 1)
    BY HalvesAreChildren
<1>3. IsSubnet(Append(p, b), o)
    BY <1>1, WithinIsLeads DEF Within
<1> HIDE DEF b
<1>4. CASE b = 0
    <2>1. <<FirstHalf(p), SecondHalf(p)>> \in Ways(p, o)
        BY <1>2, <1>3, <1>4 DEF Ways
    <2> QED BY <2>1
<1>5. CASE b = 1
    <2>1. <<SecondHalf(p), FirstHalf(p)>> \in Ways(p, o)
        BY <1>2, <1>3, <1>5 DEF Ways
    <2> QED BY <2>1
<1> QED BY <1>1, <1>4, <1>5 DEF Bit

LEMMA SpansV4Outside ==
    ASSUME NEW p \in Path, NEW q \in Path, Leads(p, q), SpansV4(q)
    PROVE  SpansV4(p)
<1>1. Len(p) \in Nat /\ Len(q) \in Nat /\ V4Len \in Nat /\ Len(p) <= Len(q) /\ Len(q) < V4Len
    BY PathType, V4Assumption DEF Leads, SpansV4, V4Len
<1>2. \A i \in 1..Len(p) : i \in 1..Len(q)
    BY <1>1
<1> QED BY <1>1, <1>2 DEF SpansV4, Leads, OnPath

\* A network that cannot be halved spans the IPv4 range, and so does the one of the
\* call.
LEMMA HalvingKeepsRefusals ==
    ASSUME ListsInv, ExcludeInv, RefusalsAreKnown, HalveNoMemory \/ HalveRefused
    PROVE  RefusalsAreKnown' /\ state' # "summarizing"
<1>1. PICK h \in halving, why \in {"memory", "refused", "astray"} :
          /\ GiveUp(why)
          /\ \/ why = "memory"
             \/ why = "refused" /\ ~CanHalve(h.network)
             \/ why = "astray" /\ CanHalve(h.network) /\ Ways(h.network, h.other) = {}
    BY DEF HalveNoMemory, HalveRefused
<1>2. call.op = "exclude" /\ state \in Excluding
    BY <1>1 DEF ListsInv, TypesInv
<1>3. /\ call.network \in Path /\ h.network \in Path /\ h.other \in Path
      /\ Leads(call.network, h.network) /\ Leads(h.network, h.other) /\ h.network # h.other
    BY <1>1, <1>2, InvParts
<1>4. why # "astray"
    BY <1>1, <1>3, HalvingGoesOn
<1>5. ASSUME why = "refused" PROVE SpansV4(call.network)
    <2>1. ~CanHalve(h.network)
        BY <1>1, <1>5
    <2>2. Len(h.network) \in Nat /\ Len(h.other) \in Nat /\ Len(h.other) <= W
          /\ Len(h.network) < Len(h.other) /\ W \in Nat
        BY <1>3, LeadsByChild, PathType, WidthAssumption
    <2>3. SpansV4(h.network)
        BY <1>3, <2>1, <2>2, HalvesAreChildren
    <2> QED BY <1>3, <2>3, SpansV4Outside
<1>6. UNCHANGED call /\ trouble' = trouble \cup {why}
    BY <1>1 DEF GiveUp
<1>7. state' # "summarizing"
    BY <1>1, <1>2 DEF GiveUp, Return, Excluding
<1>8. why \in {"memory", "refused"}
    BY <1>1, <1>4
<1>9. RefusalsAreKnown'
    BY <1>5, <1>6, <1>8 DEF RefusalsAreKnown, MixedRange
<1> QED BY <1>7, <1>9

LEMMA NextKeepsRefusals == ListsInv /\ ExcludeInv /\ RefusalsInv /\ [Next]_vars => RefusalsInv'
<1> SUFFICES ASSUME ListsInv, ExcludeInv, RefusalsInv, [Next]_vars PROVE RefusalsInv'
    OBVIOUS
<1>1. RefusalsAreKnown
    BY DEF RefusalsInv
<1>2. CASE \/ \E first, last \in Ends : Summarize(first, last)
           \/ SummarizeTurn \/ SummarizeEnds \/ SummarizeRefused \/ SummarizeNoMemory
    BY <1>2, SummarizeKeepsRefusals
<1>3. CASE HalveNoMemory \/ HalveRefused
    BY <1>1, <1>3, HalvingKeepsRefusals DEF RefusalsInv
<1>4. CASE (\E p \in Networks : PushNetwork(p)) \/ Pop \/ PopFirst
    <2>1. UNCHANGED <<call, trouble, outcome, state>> /\ state = "idle"
        BY <1>4 DEF PushNetwork, Pop, PopFirst, Change, Free, Idle
    <2> QED BY <1>1, <2>1, SameRefusals DEF RefusalsInv
<1>5. CASE Release \/ Merge \/ \E p \in Networks : Exclude(p) \/ ExcludeList(p)
    <2>1. trouble' = {} /\ outcome' = "none" /\ state' # "summarizing"
        BY <1>5 DEF Release, Merge, Exclude, ExcludeList, Begin
    <2> QED BY <2>1, NewRefusals DEF RefusalsInv
<1>6. CASE MergeNoMemory
    <2>1. UNCHANGED call /\ trouble' = trouble \cup {"memory"} /\ state' = "idle"
        BY <1>6 DEF MergeNoMemory, Return
    <2>2. RefusalsAreKnown'
        BY <1>1, <2>1 DEF RefusalsAreKnown, MixedRange
    <2> QED BY <2>1, <2>2 DEF RefusalsInv
<1>7. CASE MergeTurn \/ HalveTurn \/ CollectTurn \/ CollectEnds
    <2>1. UNCHANGED <<call, trouble, outcome>> /\ state' # "summarizing"
        BY <1>7 DEF MergeTurn, HalveTurn, CollectTurn, CollectEnds, ListsInv, TypesInv, Excluding
    <2> QED BY <1>1, <2>1, SameRefusals DEF RefusalsInv
<1>8. CASE MergeEnds \/ ExcludeEnds \/ CheckEnds
    <2>1. UNCHANGED <<call, trouble>> /\ state' = "idle" /\ outcome' = "ok"
        BY <1>8 DEF MergeEnds, ExcludeEnds, CheckEnds, Return
    <2> QED BY <1>1, <2>1, SameRefusals DEF RefusalsInv
<1>9. CASE CheckListed \/ CheckContained \/ CheckBroken \/ CheckPassed
    <2>1. /\ UNCHANGED <<call, state, outcome>> /\ state = "checking"
          /\ trouble' = trouble \/ trouble' = trouble \cup {"memory"}
        BY <1>9 DEF CheckListed, CheckContained, CheckBroken, CheckPassed, Checking
    <2>2. RefusalsAreKnown'
        BY <1>1, <2>1 DEF RefusalsAreKnown, MixedRange
    <2> QED BY <2>1, <2>2 DEF RefusalsInv
<1>10. CASE UNCHANGED vars
    BY <1>10 DEF vars, RefusalsInv, RefusalsAreKnown, MixedRange
<1> QED BY <1>2, <1>3, <1>4, <1>5, <1>6, <1>7, <1>8, <1>9, <1>10 DEF Next, Turn, NoMemory

\* A call fails only where this is known: halving never gets where "we should never
\* get", and refuses only around the IPv4 range; summarising refuses only a range that
\* leads through IPv4, or whose number of addresses is wrong.
THEOREM RefusalsInvariant == Spec => []RefusalsInv
<1>1. Init => RefusalsInv
    BY DEF Init, RefusalsInv, RefusalsAreKnown
<1> QED BY <1>1, NextKeepsRefusals, ListsInvariant, ExcludeInvariant, PTL DEF Spec

\* Whatever is asked of the lists, the refusals are those that are known.
THEOREM RefusalsProved == Spec => []RefusalsAreKnown
<1>1. RefusalsInv => RefusalsAreKnown
    BY DEF RefusalsInv
<1> QED BY <1>1, RefusalsInvariant, PTL

-----------------------------------------------------------------------------
(* What makes up a range *)

LEMMA NotBefore ==
    ASSUME NEW a \in Address, NEW b \in Address, Less(a, b)
    PROVE  ~Less(b, a)
BY AddressIsPath, LessIsLeft, LeftOneWay

\* Networks that overlap have an address in common.
LEMMA OverlapHasAddress ==
    ASSUME NEW p \in Path, NEW q \in Path, Overlaps(p, q)
    PROVE  \E a \in Address : OnPath(p, a) /\ OnPath(q, a)
<1>1. Leads(p, q) \/ Leads(q, p)
    BY MeetingIsLeads DEF Meeting
<1>2. ASSUME NEW x \in Path, NEW y \in Path, Leads(x, y)
      PROVE  /\ FirstAddress(y) \in Address
             /\ OnPath(x, FirstAddress(y)) /\ OnPath(y, FirstAddress(y))
    <2>1. FirstAddress(y) \in Address /\ FirstAddress(y) \in Path /\ Leads(y, FirstAddress(y))
        BY LeadsToEnds, AddressIsPath
    <2>2. Leads(x, FirstAddress(y))
        BY <1>2, <2>1, LeadsOn
    <2> QED BY <2>1, <2>2, MatchesIsLeads
<1> QED BY <1>1, <1>2

\* The next network is pushed on the list, and either there is more behind it or not.
LEMMA SummarizeTurnIs ==
    ASSUME ListsInv, RefusalsInv, SummaryInv, SummarizeTurn
    PROVE  /\ call.op = "summarize" /\ state = "summarizing" /\ outcome = "none"
           /\ call.first \in Address /\ call.last \in Address /\ start \in Address
           /\ OneFamily(call.first, call.last) /\ ~Less(start, call.first)
           /\ ~Less(call.last, start) /\ OneFamily(start, call.last)
           /\ UNCHANGED call /\ list \in Seq(Path)
           /\ trouble \subseteq trouble' /\ (Misled => "misled" \in trouble')
           /\ \E p \in Fitting(start, call.last) :
                 /\ p \in Path /\ FirstAddress(p) = start /\ LastAddress(p) \in Address
                 /\ ~Less(LastAddress(p), start) /\ ~Less(call.last, LastAddress(p))
                 /\ Range(list') = Range(list) \cup {p}
                 /\ \/ IsAllOnes(Upto[p]) /\ state' = "idle" /\ outcome' = "ok"
                    \/ /\ ~IsAllOnes(Upto[p]) /\ start' = Behind[p]
                       /\ state' = state /\ outcome' = outcome
<1>1. /\ state = "summarizing" /\ Left /\ UNCHANGED call
      /\ trouble \subseteq trouble' /\ (Misled => "misled" \in trouble')
    BY DEF SummarizeTurn, Misleads
<1>2. /\ call.op = "summarize" /\ outcome = "none" /\ start \in Address
      /\ list \in Seq(Path) /\ Sorted(list)
      /\ call.first \in Address /\ call.last \in Address
      /\ OneFamily(call.first, call.last) /\ ~Less(start, call.first)
    BY <1>1 DEF ListsInv, TypesInv, ListsSorted, RefusalsInv, SummaryInv
<1>3. ~Less(call.last, start)
    BY <1>1 DEF Left
<1>4. PICK p \in Fitting(start, call.last) :
          /\ list' = Push(list, p)
          /\ \/ IsAllOnes(Upto[p]) /\ Return("ok")
             \/ ~IsAllOnes(Upto[p]) /\ start' = Behind[p] /\ UNCHANGED <<state, outcome>>
    BY DEF SummarizeTurn
<1>5. /\ p \in Path /\ OneFamily(start, call.last) /\ FirstAddress(p) = start
      /\ LastAddress(p) \in Address /\ ~Less(call.last, LastAddress(p)) /\ ~Less(LastAddress(p), start)
    BY <1>2, <1>3, FittingIsNext
<1>6. Range(list') = Range(list) \cup {p}
    BY <1>2, <1>4, <1>5, PushIsRight
<1>7. Return("ok") => state' = "idle" /\ outcome' = "ok"
    BY DEF Return
<1> QED BY <1>1, <1>2, <1>3, <1>4, <1>5, <1>6, <1>7

LEMMA CoveredByOneMore ==
    ASSUME NEW R \in SUBSET Path, NEW p \in Path, NEW first \in Address, NEW last \in Address,
           NEW s \in Address, NEW S, S = Interval(first, last), ~Less(s, first),
           FirstAddress(p) = s, LastAddress(p) \in Address,
           ~Less(LastAddress(p), s), ~Less(last, LastAddress(p)),
           Covered(R) = {a \in S : Less(a, s)}
    PROVE  Covered(R \cup {p}) = {a \in S : ~Less(LastAddress(p), a)}
<1>1. ASSUME NEW a \in Address, OnPath(p, a) PROVE a \in S /\ ~Less(LastAddress(p), a)
    <2>1. ~Less(a, s) /\ ~Less(LastAddress(p), a)
        BY <1>1, MatchesIsLeads DEF MatchesAddress
    <2>2. ~Less(a, first) /\ ~Less(last, a)
        BY <2>1, NotLess
    <2> QED BY <2>1, <2>2 DEF Interval
<1>2. ASSUME NEW a \in S, Less(a, s) PROVE ~Less(LastAddress(p), a)
    <2>1. a \in Address
        BY DEF Interval
    <2>2. ~Less(s, a)
        BY <1>2, <2>1, NotBefore
    <2> QED BY <2>1, <2>2, NotLess
<1>3. ASSUME NEW a \in S, ~Less(LastAddress(p), a), ~Less(a, s) PROVE OnPath(p, a)
    <2>1. a \in Address
        BY DEF Interval
    <2>2. MatchesAddress(p, a)
        BY <1>3 DEF MatchesAddress
    <2> QED BY <2>1, <2>2, MatchesIsLeads
<1>4. Covered(R \cup {p}) = Covered(R) \cup {a \in Address : OnPath(p, a)}
    BY DEF Covered
<1>5. S \subseteq Address
    BY DEF Interval
<1> QED BY <1>1, <1>2, <1>3, <1>4, <1>5

\* It has no address of the networks before it.
LEMMA NextIsApart ==
    ASSUME NEW R \in SUBSET Path, NEW p \in Path, Disjoint(R), FirstAddress(p) \in Address,
           \A a \in Covered(R) : Less(a, FirstAddress(p))
    PROVE  Disjoint(R \cup {p})
<1>1. ASSUME NEW q \in R, Overlaps(p, q) \/ Overlaps(q, p) PROVE FALSE
    <2>1. PICK a \in Address : OnPath(p, a) /\ OnPath(q, a)
        BY <1>1, OverlapHasAddress
    <2>2. a \in Covered(R)
        BY <2>1 DEF Covered
    <2>3. ~Less(a, FirstAddress(p))
        BY <2>1, MatchesIsLeads DEF MatchesAddress
    <2> QED BY <2>2, <2>3
<1> QED BY <1>1 DEF Disjoint

LEMMA TurnKeepsExact ==
    ASSUME ListsInv, RefusalsInv, SummaryInv, SummarizeTurn
    PROVE  SummaryIsExact'
<1> DEFINE S == Interval(call.first, call.last)
<1>1. /\ call.op = "summarize" /\ state = "summarizing"
      /\ call.first \in Address /\ call.last \in Address /\ start \in Address
      /\ OneFamily(call.first, call.last) /\ ~Less(start, call.first)
      /\ ~Less(call.last, start) /\ OneFamily(start, call.last)
      /\ call' = call /\ list \in Seq(Path)
    BY SummarizeTurnIs
<1>2. PICK p \in Path :
          /\ FirstAddress(p) = start /\ LastAddress(p) \in Address
          /\ ~Less(LastAddress(p), start) /\ ~Less(call.last, LastAddress(p))
          /\ Range(list') = Range(list) \cup {p}
          /\ \/ IsAllOnes(Upto[p]) /\ state' = "idle" /\ outcome' = "ok"
             \/ /\ ~IsAllOnes(Upto[p]) /\ start' = Behind[p]
                /\ state' = "summarizing" /\ outcome' = "none"
    BY SummarizeTurnIs
<1>3. Disjoint(Range(list)) /\ Covered(Range(list)) = {a \in S : Less(a, start)}
    BY <1>1 DEF SummaryInv, SummaryIsExact
<1>4. Range(list) \in SUBSET Path
    BY <1>1 DEF Range
<1>5. Disjoint(Range(list'))
    <2>1. \A a \in Covered(Range(list)) : Less(a, FirstAddress(p))
        BY <1>2, <1>3
    <2> QED BY <1>1, <1>2, <1>3, <1>4, <2>1, NextIsApart
<1>6. Covered(Range(list')) = {a \in S : ~Less(LastAddress(p), a)}
    BY <1>1, <1>2, <1>3, <1>4, CoveredByOneMore
<1>7. CASE ~IsAllOnes(Upto[p])
    <2>1. \A a \in Address : Less(a, start') <=> ~Less(LastAddress(p), a)
        BY <1>2, <1>7, NextIsBehind
    <2>2. {a \in S : Less(a, start')} = {a \in S : ~Less(LastAddress(p), a)}
        BY <2>1 DEF Interval
    <2> QED BY <1>1, <1>2, <1>5, <1>6, <1>7, <2>2 DEF SummaryIsExact
<1>8. CASE IsAllOnes(Upto[p])
    <2>1. ASSUME ~MixedRange PROVE Covered(Range(list')) = S
        <3>1. LastAddress(p) \in S
            BY <1>1, <1>2, NotLess DEF Interval
        <3>2. V4Mapped(call.last) => V4Mapped(LastAddress(p))
            BY <1>1, <1>2, V4IsConvex DEF OneFamily
        <3>3. ~V4Mapped(call.last) => ~V4Mapped(LastAddress(p))
            BY <1>1, <2>1, <3>1 DEF OneFamily, MixedRange
        <3>4. ~Less(LastAddress(p), call.last)
            BY <1>1, <1>2, <1>8, <3>2, <3>3, AllOnesIsLast DEF Upto
        <3>5. \A a \in S : ~Less(LastAddress(p), a)
            BY <1>1, <1>2, <3>4, NotLess DEF Interval
        <3> QED BY <1>6, <3>5
    <2>2. MixedRange' <=> MixedRange
        BY <1>1 DEF MixedRange
    <2> QED BY <1>1, <1>2, <1>5, <1>8, <2>1, <2>2 DEF SummaryIsExact
<1> QED BY <1>7, <1>8

\* No larger network would have started there.
LEMMA FittingIsLargest ==
    ASSUME NEW s \in Address, NEW e \in Address, ~Miscounted(s, e), NEW p \in Fitting(s, e),
           p # <<>>, p[Len(p)] = 0
    PROVE  Less(e, LastAddress(Front(p)))
<1>1. OneFamily(s, e) /\ p \in Path
    BY FittingIs
<1>2. PICK bits \in 0..FamilyBits(s) :
         /\ bits \in 0..W /\ W - bits \in 0..W /\ bits <= AlignedBits(s)
         /\ p = Masked(s, W - bits) /\ Len(p) = W - bits
         /\ \E n \in CountBits(s, e) : bits <= n /\ (bits = AlignedBits(s) \/ bits = n)
    BY FittingIs
<1>3. /\ W \in Nat /\ V4Len \in Nat /\ bits \in Nat /\ W - bits > 0 /\ W - bits \in 1..W
      /\ FamilyBits(s) \in 0..W /\ AlignedBits(s) \in 0..FamilyBits(s)
    <2>1. W \in Nat /\ V4Len \in Nat /\ bits \in Nat
          /\ FamilyBits(s) \in 0..W /\ AlignedBits(s) \in 0..FamilyBits(s)
        BY SignificantBits, AlignedType
    <2>2. Len(p) > 0
        BY <1>1, PathType
    <2> QED BY <1>2, <2>1, <2>2
<1> DEFINE k == bits + 1
<1>4. s[W - bits] = 0
    <2>1. Masked(s, W - bits)[W - bits] = s[W - bits]
        BY <1>2, <1>3, MaskedPath
    <2> QED BY <1>2, <2>1
<1>5. k \in 0..FamilyBits(s)
    <2>1. SUFFICES ASSUME bits = FamilyBits(s) PROVE FALSE
        BY <1>2, <1>3
    <2>2. V4Mapped(s) /\ W - bits = V4Len
        BY <1>3, <2>1 DEF FamilyBits
    <2>3. V4Len \in 1..V4Len /\ V4Prefix[V4Len] = 1
        BY SignificantBits
    <2>4. s[V4Len] = 1
        BY <2>2, <2>3, Zenon DEF V4Mapped
    <2> QED BY <1>4, <2>2, <2>4
<1>6. W - k \in 0..W /\ W - k + 1 = W - bits /\ W - k = Len(p) - 1
    BY <1>2, <1>3
<1>7. \A i \in 1..W : i > W - k => s[i] = 0
    <2> TAKE i \in 1..W
    <2>1. i > W - k => i = W - bits \/ i > W - bits
        BY <1>3
    <2>2. i > W - bits => s[i] = 0
        BY <1>2, AlignedStart
    <2> QED BY <1>4, <2>1, <2>2
<1>8. k <= AlignedBits(s)
    BY <1>5, <1>7, AlignedStart
<1>9. bits \in CountBits(s, e) /\ ~(k <= bits)
    BY <1>2, <1>3, <1>8
<1> HIDE DEF k
<1>10. Less(e, LastAddress(Masked(s, W - k)))
    BY <1>1, <1>5, <1>7, <1>9, CountedIsEnough
<1>11. Front(p) = Masked(s, W - k)
    <2>1. Front(p) = SubSeq(p, 1, Len(p) - 1)
        BY DEF Front
    <2>2. W - k \in 0..(W - bits)
        BY <1>3, <1>6
    <2>3. SubSeq(Masked(s, W - bits), 1, W - k) = Masked(s, W - k)
        BY <1>2, <2>2, MaskedPrefix
    <2> QED BY <1>2, <1>6, <2>1, <2>3
<1> QED BY <1>10, <1>11

LEMMA TurnKeepsLargest ==
    ASSUME ListsInv, RefusalsInv, SummaryInv, SummarizeTurn
    PROVE  LargestInv'
<1>1. /\ call.op = "summarize" /\ call.last \in Address /\ start \in Address /\ call' = call
      /\ trouble \subseteq trouble' /\ (Misled => "misled" \in trouble')
    BY SummarizeTurnIs
<1>2. PICK p \in Fitting(start, call.last) : Range(list') = Range(list) \cup {p}
    BY SummarizeTurnIs
<1>3. ASSUME "misled" \notin trouble', p # <<>>, p[Len(p)] = 0
      PROVE  Less(call.last, LastAddress(Front(p)))
    BY <1>1, <1>3, FittingIsLargest DEF Misled
<1> QED BY <1>1, <1>2, <1>3 DEF SummaryInv, LargestInv

LEMMA NoSummary ==
    ASSUME call'.op # "summarize", state' # "summarizing"
    PROVE  SummaryInv'
BY DEF SummaryInv, SummaryIsExact, LargestInv

LEMMA SummaryStays ==
    ASSUME SummaryInv, UNCHANGED <<list, call>>, trouble \subseteq trouble', state' # "summarizing",
           outcome' = "ok" => outcome = "ok"
    PROVE  SummaryInv'
BY DEF SummaryInv, SummaryIsExact, LargestInv, MixedRange

LEMMA SummarizeKeepsSummary ==
    ASSUME ListsInv, RefusalsInv, SummaryInv,
           \/ \E first, last \in Ends : Summarize(first, last)
           \/ SummarizeTurn \/ SummarizeEnds \/ SummarizeRefused \/ SummarizeNoMemory
    PROVE  SummaryInv'
<1>1. ASSUME NEW first \in Ends, NEW last \in Ends, Summarize(first, last) PROVE SummaryInv'
    <2>1. /\ list' = <<>> /\ outcome' = "none" /\ call'.first = first /\ call'.last = last
          /\ state' = "summarizing" => start' = first
        BY <1>1 DEF Summarize, Begin
    <2>2. Range(list') = {}
        BY <2>1, EmptyRange
    <2>3. Covered({}) = {} /\ Disjoint({})
        BY DEF Covered, Disjoint
    <2>4. state' = "summarizing" => {a \in Interval(first, last) : Less(a, start')} = {}
        BY <2>1 DEF Interval
    <2>5. SummaryIsExact'
        BY <2>1, <2>2, <2>3, <2>4 DEF SummaryIsExact
    <2>6. LargestInv'
        BY <2>2 DEF LargestInv
    <2> QED BY <2>1, <2>5, <2>6 DEF SummaryInv
<1>2. CASE SummarizeTurn
    <2>1. SummaryIsExact' /\ LargestInv'
        BY <1>2, TurnKeepsExact, TurnKeepsLargest
    <2>2. state' = "summarizing" => outcome' = "none"
        BY <1>2, SummarizeTurnIs
    <2> QED BY <2>1, <2>2 DEF SummaryInv
<1>3. CASE SummarizeEnds
    <2> DEFINE S == Interval(call.first, call.last)
    <2>1. /\ state = "summarizing" /\ UNCHANGED <<list, call, trouble>> /\ state' = "idle"
          /\ Less(call.last, start)
        BY <1>3 DEF SummarizeEnds, Return, Left
    <2>2. call.op = "summarize" /\ start \in Address /\ call.last \in Address
        BY <2>1 DEF ListsInv, TypesInv, RefusalsInv
    <2>3. ASSUME NEW a \in S PROVE Less(a, start)
        BY <2>1, <2>2, NotLess DEF Interval
    <2>4. Disjoint(Range(list)) /\ Covered(Range(list)) = {a \in S : Less(a, start)}
        BY <2>1, <2>2 DEF SummaryInv, SummaryIsExact
    <2>5. Covered(Range(list)) = S
        BY <2>3, <2>4
    <2>6. SummaryIsExact'
        BY <2>1, <2>4, <2>5 DEF SummaryIsExact
    <2>7. LargestInv'
        BY <2>1 DEF SummaryInv, LargestInv
    <2> QED BY <2>1, <2>6, <2>7 DEF SummaryInv
<1>4. CASE SummarizeRefused \/ SummarizeNoMemory
    <2>1. /\ UNCHANGED <<list, call>> /\ trouble \subseteq trouble' /\ state' = "idle"
          /\ outcome' = "failed"
        BY <1>4 DEF SummarizeRefused, SummarizeNoMemory, Return
    <2> QED BY <2>1, SummaryStays
<1> QED BY <1>1, <1>2, <1>3, <1>4

LEMMA NextKeepsSummary == ListsInv /\ RefusalsInv /\ SummaryInv /\ [Next]_vars => SummaryInv'
<1> SUFFICES ASSUME ListsInv, RefusalsInv, SummaryInv, [Next]_vars PROVE SummaryInv'
    OBVIOUS
<1>1. CASE \/ \E first, last \in Ends : Summarize(first, last)
           \/ SummarizeTurn \/ SummarizeEnds \/ SummarizeRefused \/ SummarizeNoMemory
    BY <1>1, SummarizeKeepsSummary
<1>2. CASE (\E p \in Networks : PushNetwork(p)) \/ Pop \/ PopFirst \/ Release
    <2>1. call' = NoCall /\ state' = "idle"
        BY <1>2 DEF PushNetwork, Pop, PopFirst, Change, Free, Idle, Release, Begin
    <2>2. call'.op = "none"
        BY <2>1 DEF NoCall
    <2> QED BY <2>1, <2>2, NoSummary
<1>3. CASE Merge \/ \E p \in Networks : Exclude(p) \/ ExcludeList(p)
    <2>1. call'.op # "summarize" /\ state' # "summarizing"
        BY <1>3 DEF Merge, Exclude, ExcludeList, Begin
    <2> QED BY <2>1, NoSummary
<1>4. CASE MergeTurn \/ MergeNoMemory \/ MergeEnds
    <2>1. /\ state = "merging" /\ call' = call /\ state' \in {"merging", "idle"}
        BY <1>4 DEF MergeTurn, MergeNoMemory, MergeEnds, Return
    <2> QED BY <2>1, NoSummary DEF ListsInv, TypesInv
<1>5. CASE \/ HalveTurn \/ HalveNoMemory \/ HalveRefused
           \/ ExcludeEnds \/ CollectTurn \/ CollectEnds
    <2>1. state \in Excluding /\ call' = call /\ state' \in {"idle"} \cup Excluding
        BY <1>5 DEF HalveTurn, HalveNoMemory, HalveRefused, GiveUp, ExcludeEnds, CollectTurn,
                    CollectEnds, Return, ListsInv, TypesInv, Excluding
    <2> QED BY <2>1, NoSummary DEF ListsInv, TypesInv, Excluding
<1>6. CASE CheckListed \/ CheckContained \/ CheckBroken \/ CheckPassed \/ CheckEnds
    <2>1. state = "checking" /\ call' = call /\ state' \in {"idle", "checking"}
        BY <1>6 DEF CheckListed, CheckContained, CheckBroken, CheckPassed, CheckEnds, Checking, Return
    <2> QED BY <2>1, NoSummary DEF ListsInv, TypesInv, Excluding
<1>7. CASE UNCHANGED vars
    BY <1>7 DEF vars, SummaryInv, SummaryIsExact, LargestInv, MixedRange
<1> QED BY <1>1, <1>2, <1>3, <1>4, <1>5, <1>6, <1>7 DEF Next, Turn, NoMemory

\* While a range is summarised, the networks on the list are disjoint and have the
\* addresses in front of what is left of it, and each that could be the first half of
\* a larger one would lead out of the range as that.
THEOREM SummaryInvariant == Spec => []SummaryInv
<1>1. Init => SummaryInv
    <2> SUFFICES ASSUME Init PROVE SummaryInv
        OBVIOUS
    <2>1. call = NoCall /\ state = "idle"
        BY DEF Init
    <2>2. call.op = "none"
        BY <2>1 DEF NoCall
    <2> QED BY <2>1, <2>2 DEF SummaryInv, SummaryIsExact, LargestInv
<1> QED BY <1>1, NextKeepsSummary, ListsInvariant, RefusalsInvariant, PTL DEF Spec

\* A summary has each address of its range once, and no other one, at every turn of the
\* loop and at its end, for any range that does not lead through the IPv4 range.
THEOREM SummariesAreExact == Spec => []SummaryIsExact
<1>1. SummaryInv => SummaryIsExact
    BY DEF SummaryInv
<1> QED BY <1>1, SummaryInvariant, PTL

LEMMA InvGivesMinimal == ListsInv /\ SummaryInv => SummaryIsMinimal
<1> SUFFICES ASSUME ListsInv, SummaryInv, call.op = "summarize", outcome = "ok", ~MixedRange,
                    "misled" \notin trouble,
                    NEW p \in Range(list), NEW q \in Range(list), p # q, Len(p) = Len(q),
                    Front(p) = Front(q)
             PROVE  FALSE
    BY DEF SummaryIsMinimal
<1>1. list \in Seq(Path) /\ p \in Path /\ q \in Path
    BY DEF ListsInv, TypesInv, Range
<1>2. /\ Covered(Range(list)) = Interval(call.first, call.last)
      /\ \A r \in Range(list) : r # <<>> /\ r[Len(r)] = 0 => Less(call.last, LastAddress(Front(r)))
    BY DEF SummaryInv, SummaryIsExact, LargestInv
<1>3. p \in Seq(Bit) /\ q \in Seq(Bit) /\ Len(p) \in Nat /\ Len(p) > 0 /\ p # <<>> /\ q # <<>>
    <2>1. p \in Seq(Bit) /\ q \in Seq(Bit) /\ Len(p) \in Nat
        BY <1>1, PathType
    <2>2. Len(p) # 0
        BY <2>1
    <2> QED BY <2>1, <2>2
<1>4. /\ p = Append(Front(p), p[Len(p)]) /\ p[Len(p)] \in Bit
      /\ q = Append(Front(q), q[Len(q)]) /\ q[Len(q)] \in Bit
    BY <1>1, <1>3, PathParent DEF Front
<1>5. p[Len(p)] # q[Len(q)]
    BY <1>4
<1>6. ASSUME NEW r \in Range(list), r \in Path, r # <<>>, r[Len(r)] = 1
      PROVE  ~Less(call.last, LastAddress(Front(r)))
    <2>1. LastAddress(Front(r)) = LastAddress(r)
        <3>1. /\ Len(r) \in Nat /\ Len(r) > 0 /\ Len(r) - 1 \in 0..Len(r)
            BY <1>6, PathType
        <3>2. Front(r) \in Path /\ Len(Front(r)) = Len(r) - 1
              /\ \A i \in 1..(Len(r) - 1) : Front(r)[i] = r[i]
            BY <1>6, <3>1, PathPrefix DEF Front
        <3>3. ASSUME NEW i \in 1..W PROVE LastAddress(Front(r))[i] = LastAddress(r)[i]
            <4>1. i \in Nat /\ (i \in 1..(Len(r) - 1) \/ i = Len(r) \/ i > Len(r))
                BY <3>1, WidthAssumption
            <4> QED BY <1>6, <3>1, <3>2, <4>1, EndBits
        <3> QED BY <3>3 DEF LastAddress
    <2>2. LastAddress(r) \in Address /\ OnPath(r, LastAddress(r))
        BY <1>6, LeadsToEnds, MatchesIsLeads
    <2>3. LastAddress(r) \in Interval(call.first, call.last)
        BY <1>2, <1>6, <2>2 DEF Covered
    <2> QED BY <2>1, <2>3 DEF Interval
<1> QED BY <1>1, <1>2, <1>3, <1>4, <1>5, <1>6 DEF Bit

\* A summary has no two networks that are the halves of one, so that there is none with
\* fewer networks, if no number of addresses was wrong.
THEOREM SummariesAreMinimal == Spec => []SummaryIsMinimal
BY InvGivesMinimal, SummaryInvariant, ListsInvariant, PTL
=============================================================================

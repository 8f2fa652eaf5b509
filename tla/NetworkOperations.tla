------------------------- MODULE NetworkOperations -------------------------
(***************************************************************************)
(* What is computed with networks and with sorted lists of networks, one   *)
(* call or turn at a time: the pure part of src/src/network.c and          *)
(* src/src/network-list.c.  NetworkLists runs the loops they are used in.  *)
(***************************************************************************)
EXTENDS AddressArithmetic, SequencesExt

-----------------------------------------------------------------------------
(* Networks *)

\* first_address and last_address
From == [p \in Path |-> FirstAddress(p)]
Upto == [p \in Path |-> LastAddress(p)]

\* Fault: a network is not inside itself.
IsSubnetStrictly(p, q) ==
    /\ Len(p) < Len(q)
    /\ ~Less(From[q], From[p])
    /\ ~Less(Upto[p], Upto[q])

IsSubnet(p, q) ==
    /\ Len(p) <= Len(q)
    /\ ~Less(From[q], From[p])
    /\ ~Less(Upto[p], Upto[q])

\* Fault: only the start of the second network is looked for.
OverlapsAtStart(p, q) == MatchesAddress(p, From[q])

Overlaps(p, q) ==
    \/ MatchesAddress(p, From[q]) \/ MatchesAddress(q, From[p])
    \/ MatchesAddress(p, Upto[q]) \/ MatchesAddress(q, Upto[p])

\* loc_network_new
New(a, prefix) == SubSeq(a, 1, IF V4Mapped(a) THEN prefix + V4Len ELSE prefix)

\* loc_network_subnets: the second half starts after the first one.  An address
\* that is v4-mapped where the network is not has no room for the prefix.
HalfPrefix(p) == (IF IsV4(p) THEN Len(p) - V4Len ELSE Len(p)) + 1
FirstHalf(p) == New(From[p], HalfPrefix(p))
Behind == [p \in Path |-> Increment(Upto[p])]
SecondHalf(p) == New(Behind[FirstHalf(p)], HalfPrefix(p))
CanHalve(p) ==
    /\ ValidPrefix(From[p], HalfPrefix(p))
    /\ ValidPrefix(Behind[FirstHalf(p)], HalfPrefix(p))

-----------------------------------------------------------------------------
(* Lists *)

\* Fault: the position is that of the last network that was compared.
BisectionWhereStopped(l, p) ==
    LET Bisect[r \in [lo : 0..Len(l), hi : -1..(Len(l) - 1), index : 0..Len(l)]] ==
            IF r.lo > r.hi THEN [index |-> r.index, found |-> FALSE]
            ELSE LET middle == (r.lo + r.hi) \div 2
                     q == l[middle + 1]
                 IN  IF p = q THEN [index |-> middle, found |-> TRUE]
                     ELSE Bisect[IF NetworkLess(q, p)
                                 THEN [lo |-> middle + 1, hi |-> r.hi, index |-> middle]
                                 ELSE [lo |-> r.lo, hi |-> middle - 1, index |-> middle]]
    IN  Bisect

\* The loop of loc_network_list_find, from its variables to what it returns
Bisection(l, p) ==
    LET Bisect[r \in [lo : 0..Len(l), hi : -1..(Len(l) - 1), index : 0..Len(l)]] ==
            IF r.lo > r.hi THEN [index |-> r.index, found |-> FALSE]
            ELSE LET middle == (r.lo + r.hi) \div 2
                     q == l[middle + 1]
                 IN  IF p = q THEN [index |-> middle, found |-> TRUE]
                     ELSE Bisect[IF NetworkLess(q, p)
                                 THEN [lo |-> middle + 1, hi |-> r.hi, index |-> middle + 1]
                                 ELSE [lo |-> r.lo, hi |-> middle - 1, index |-> middle]]
    IN  Bisect

\* loc_network_list_find: the end is tried first, then the list is bisected.
Find(l, p) ==
    IF l = <<>> THEN [index |-> 0, found |-> FALSE]
    ELSE IF p = Last(l) THEN [index |-> Len(l) - 1, found |-> TRUE]
    ELSE IF NetworkLess(Last(l), p) THEN [index |-> Len(l), found |-> FALSE]
    ELSE Bisection(l, p)[[lo |-> 0, hi |-> Len(l) - 1, index |-> 0]]

Listed(l, p) == Find(l, p).found

\* Fault: the networks behind are not moved out of the way.
PushOverwrites(l, p) ==
    LET i == Find(l, p).index
    IN  IF Listed(l, p) THEN l ELSE SubSeq(l, 1, i) \o <<p>> \o SubSeq(l, i + 2, Len(l))

\* loc_network_list_push, when there is memory
Push(l, p) == IF Listed(l, p) THEN l ELSE InsertAt(l, Find(l, p).index + 1, p)

\* and when there is none: what is on the list already needs none
PushFails(l, p) == ~Listed(l, p)
-----------------------------------------------------------------------------
(* Summarising a range of addresses *)

\* Fault: one bit of the alignment is not used.
AlignedBitsLess(a) == IF TrailingZeroes(a) > 0 THEN TrailingZeroes(a) - 1 ELSE 0

\* Fault: the bits of the number are those of the network.
CountBitsWhole(start, last) == {BitLength(Increment(d)) : d \in {Difference(last, start)}}

\* bits1: what the alignment of an address allows
AlignedBits(a) == IF IsAllZeroes(a) THEN FamilyBits(a) ELSE TrailingZeroes(a)

\* bits2: what the number of the addresses that are left allows, that number
\* being an address, too
CountBits(start, last) ==
    {BitLength(number) - 1 : number \in {Increment(d) : d \in {Difference(last, start)}}}

OneFamily(first, last) == V4Mapped(first) = V4Mapped(last)

\* The next network of what is left from start to last; none when
\* loc_address_sub or loc_network_new refuses.
Fitting(start, last) ==
    {New(start, FamilyBits(start) - bits) : bits \in
        {Min({AlignedBits(start), n}) : n \in CountBits(start, last)}
            \cap {n \in -1..W : /\ OneFamily(start, last)
                               /\ ValidPrefix(start, FamilyBits(start) - n)}}

\* The number of the addresses that are left does not fit, being that of all of a
\* family, or it is taken for an IPv4 address, before or after it is incremented.
Miscounted(start, last) ==
    LET d == Difference(last, start)
    IN  IsAllOnes(d) \/ (~V4Mapped(start) /\ (V4Mapped(d) \/ V4Mapped(Increment(d))))

\* Two families, or a range that does not have two addresses, are refused.
ValidRange(first, last) == OneFamily(first, last) /\ Less(first, last)

-----------------------------------------------------------------------------
(* Excluding a network from another one *)

\* A network that is no subnet, or the network itself, is not excluded.
Halving(p, q) ==
    IF p = q \/ ~IsSubnet(p, q) THEN {} ELSE {[network |-> p, other |-> q]}

\* Which half to go on with, and which one to keep
Ways(p, q) ==
    {way \in {<<FirstHalf(p), SecondHalf(p)>>, <<SecondHalf(p), FirstHalf(p)>>} :
        IsSubnet(way[1], q)}

\* Which networks are inside each other, and which have an address in common
Within == {pair \in Path \X Path : IsSubnet(pair[2], pair[1])}
Meeting == {pair \in Path \X Path : Overlaps(pair[1], pair[2])}
Meets(p, others) == \E other \in others : <<p, other>> \in Meeting

\* loc_network_exclude_list for others strictly inside, when there is memory: the
\* largest networks inside p that have no address of another one
Remaining(p, others) ==
    {q \in Path : /\ <<q, p>> \in Within /\ p # q
                  /\ ~Meets(q, others) /\ Meets(Front(q), others)}
=============================================================================

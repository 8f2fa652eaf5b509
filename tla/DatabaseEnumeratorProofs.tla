---------------------- MODULE DatabaseEnumeratorProofs ----------------------
(***************************************************************************)
(* The two listings of any database: the flattened one has each address    *)
(* once, in order and with its most specific network, and leaves none out  *)
(* unless a call failed; the bogons are the gaps between the networks, and *)
(* all of them.                                                            *)
(***************************************************************************)
EXTENDS DatabaseEnumerator, DatabaseFormatProofs

-----------------------------------------------------------------------------
(* Networks inside, apart from and before each other *)

LEMMA OrderIsLess ==
    ASSUME NEW p \in Path, NEW q \in Path
    PROVE  <<p, q>> \in Order <=> LeftOf(p, q) \/ (Leads(p, q) /\ p # q)
BY LessIsLeftOrLeads DEF Order

LEMMA ApartIsLeft ==
    ASSUME NEW p \in Path, NEW q \in Path
    PROVE  Apart(p, q) <=> LeftOf(p, q)
<1> DEFINE a == LastAddress(p)
           b == FirstAddress(q)
<1>1. Upto[p] = a /\ From[q] = b
    BY DEF From, Upto
<1>2. a \in Address /\ a \in Path /\ Leads(p, a) /\ b \in Address /\ b \in Path /\ Leads(q, b)
    BY LeadsToEnds, AddressIsPath
<1> HIDE DEF a, b
<1>3. Apart(p, q) <=> LeftOf(a, b)
    BY <1>1, <1>2, LessIsLeft DEF Apart
<1>4. LeftOf(p, q) => LeftOf(a, b)
    BY <1>2, LeftLeads
<1>5. LeftOf(q, p) => ~LeftOf(a, b)
    BY <1>2, LeftLeads, LeftOneWay
<1>6. ASSUME Leads(p, q) PROVE ~LeftOf(a, b)
    <2>1. Leads(p, b)
        BY <1>2, <1>6, LeadsOn
    <2>2. MatchesAddress(p, b)
        BY <1>2, <2>1, MatchesIsLeads
    <2> QED BY <1>2, <2>2, LessIsLeft DEF MatchesAddress, a
<1>7. ASSUME Leads(q, p) PROVE ~LeftOf(a, b)
    <2>1. Leads(q, a)
        BY <1>2, <1>7, LeadsOn
    <2>2. MatchesAddress(q, a)
        BY <1>2, <2>1, MatchesIsLeads
    <2> QED BY <1>2, <2>2, LessIsLeft DEF MatchesAddress, b
<1> QED BY <1>3, <1>4, <1>5, <1>6, <1>7, PathsCompare

\* The order is a strict one, and one of any two networks is the first.
LEMMA OrderIsStrict ==
    /\ \A p, q \in Path : <<p, q>> \in Order => <<q, p>> \notin Order /\ p # q
    /\ \A p, q, r \in Path : <<p, q>> \in Order /\ <<q, r>> \in Order => <<p, r>> \in Order
    /\ \A p, q \in Path : p = q \/ <<p, q>> \in Order \/ <<q, p>> \in Order
BY LessIsStrict DEF Order

\* Being inside is a partial order, and what is inside comes later.
LEMMA WithinOrder ==
    /\ \A p \in Path : <<p, p>> \in Within
    /\ \A p, q \in Path : <<q, p>> \in Within /\ <<p, q>> \in Within => p = q
    /\ \A p, q, r \in Path : <<q, p>> \in Within /\ <<r, q>> \in Within => <<r, p>> \in Within
    /\ \A p, q \in Path : <<q, p>> \in Within /\ q # p => <<p, q>> \in Order
BY InsideIsOrder, WithinIsLeads, OrderIsLess

\* A network that comes later is inside or apart, and so are those behind it.
LEMMA ApartOrWithin ==
    /\ \A p, q \in Path : <<p, q>> \in Order => Apart(p, q) \/ <<q, p>> \in Within
    /\ \A p, q \in Path : Apart(p, q) => <<p, q>> \in Order /\ <<p, q>> \notin Meeting
    /\ \A p, q, r \in Path : Apart(p, q) /\ <<r, q>> \in Within => Apart(p, r)
    /\ \A p, q, r \in Path : Apart(p, q) /\ <<r, p>> \in Within => Apart(r, q)
    /\ \A p, q, r \in Path : Apart(p, q) /\ <<q, r>> \in Order => Apart(p, r)
<1>1. ASSUME NEW p \in Path, NEW q \in Path, <<p, q>> \in Order
      PROVE  Apart(p, q) \/ <<q, p>> \in Within
    BY <1>1, OrderIsLess, ApartIsLeft, WithinIsLeads
<1>2. ASSUME NEW p \in Path, NEW q \in Path, Apart(p, q)
      PROVE  <<p, q>> \in Order /\ <<p, q>> \notin Meeting
    BY <1>2, OrderIsLess, ApartIsLeft, MeetingIsLeads, LeftIsApart
<1>3. ASSUME NEW p \in Path, NEW q \in Path, NEW r \in Path, Apart(p, q), <<r, q>> \in Within
      PROVE  Apart(p, r)
    BY <1>3, ApartIsLeft, WithinIsLeads, LeadsToItself, LeftLeads
<1>4. ASSUME NEW p \in Path, NEW q \in Path, NEW r \in Path, Apart(p, q), <<r, p>> \in Within
      PROVE  Apart(r, q)
    BY <1>4, ApartIsLeft, WithinIsLeads, LeadsToItself, LeftLeads
<1>5. ASSUME NEW p \in Path, NEW q \in Path, NEW r \in Path, Apart(p, q), <<q, r>> \in Order
      PROVE  Apart(p, r)
    <2>1. CASE Apart(q, r)
        BY <1>5, <2>1, ApartIsLeft, LeftOn
    <2>2. CASE <<r, q>> \in Within
        BY <1>3, <1>5, <2>2
    <2> QED BY <1>1, <1>5, <2>1, <2>2
<1> QED BY <1>1, <1>2, <1>3, <1>4, <1>5

\* There are finitely many paths, so one of any that are given is the first.
LEMMA PathIsFinite == IsFiniteSet(Path)
<1> DEFINE ones(p) == {i \in 1..W : i <= Len(p) /\ p[i] = 1}
           T == (0..W) \X SUBSET (1..W)
           f == [p \in Path |-> <<Len(p), ones(p)>>]
<1>1. IsFiniteSet(T)
    <2>1. 0 \in Int /\ 1 \in Int /\ W \in Int
        BY WidthAssumption
    <2>2. IsFiniteSet(0..W) /\ IsFiniteSet(1..W)
        BY <2>1, FS_Interval
    <2>3. IsFiniteSet(SUBSET (1..W))
        BY <2>2, FS_SUBSET
    <2> QED BY <2>2, <2>3, FS_Product, Zenon
<1>2. f \in [Path -> T]
    <2>1. ASSUME NEW p \in Path PROVE Len(p) \in 0..W /\ ones(p) \in SUBSET (1..W)
        BY PathType, WidthAssumption
    <2> QED BY <2>1
<1>3. ASSUME NEW p \in Path, NEW q \in Path, f[p] = f[q]
      PROVE  p = q
    <2>1. Len(p) = Len(q) /\ ones(p) = ones(q)
        BY <1>3
    <2>2. /\ p \in Seq(Bit) /\ q \in Seq(Bit) /\ Len(p) \in Nat /\ Len(p) <= W
          /\ \A i \in 1..Len(p) : p[i] \in Bit /\ q[i] \in Bit
        BY <2>1, PathType
    <2>3. \A i \in 1..Len(p) : i \in 1..W /\ i <= Len(p)
        BY <2>2, WidthAssumption
    <2>4. \A i \in 1..Len(p) : p[i] = 1 <=> q[i] = 1
        BY <2>1, <2>3
    <2>5. \A i \in 1..Len(p) : p[i] = q[i]
        BY <2>2, <2>4 DEF Bit
    <2> QED BY <2>1, <2>2, <2>5, SeqEqual
<1>4. f \in Injection(Path, T)
    <2> HIDE DEF f, T
    <2> QED BY <1>2, <1>3 DEF Injection, IsInjective
<1> QED BY <1>1, <1>4, FS_Injection

LEMMA FirstPath ==
    ASSUME NEW P \in SUBSET Path, P # {}
    PROVE  \E p \in P : \A q \in P : q = p \/ <<p, q>> \in Order
<1> DEFINE Below(p) == {q \in P : <<q, p>> \in Order}
           Sizes == {Cardinality(Below(p)) : p \in P}
<1>1. ASSUME NEW p \in P PROVE IsFiniteSet(Below(p)) /\ Cardinality(Below(p)) \in Nat
    <2>1. Below(p) \in SUBSET Path
        OBVIOUS
    <2> QED BY <2>1, PathIsFinite, FS_Subset, FS_CardinalityType
<1>2. Sizes \in SUBSET Nat /\ Sizes # {}
    BY <1>1
<1>3. PICK n \in Sizes : \A m \in Sizes : n <= m
    BY <1>2, SmallestMember
<1>4. PICK p \in P : n = Cardinality(Below(p))
    OBVIOUS
<1>5. ASSUME NEW q \in P, <<q, p>> \in Order PROVE FALSE
    <2>1. Below(q) \in SUBSET Below(p)
        BY <1>5, OrderIsStrict
    <2>2. q \in Below(p) /\ q \notin Below(q)
        BY <1>5, OrderIsStrict
    <2>3. Cardinality(Below(q)) <= Cardinality(Below(p)) /\ Cardinality(Below(q)) # Cardinality(Below(p))
        BY <1>1, <2>1, <2>2, FS_Subset
    <2>4. Cardinality(Below(p)) <= Cardinality(Below(q))
        BY <1>3, <1>4
    <2> HIDE DEF Below
    <2> QED BY <1>1, <2>3, <2>4
<1> QED BY <1>5, OrderIsStrict

-----------------------------------------------------------------------------
(* The inductive invariant of a flattened listing *)

IInv ==
    /\ db \in Databases
    /\ mode = "flattened" => returned \in Seq([path : Path, owner : Path])
    /\ FlattenedInv

\* The paths of what is listed
LEMMA PathsOfParts ==
    ASSUME IInv, mode = "flattened"
    PROVE  /\ DOMAIN db \subseteq Path
           /\ \A n \in Pending \cup Range(returned) :
                 /\ n.path \in Path /\ n.owner \in Path /\ n.owner \in DOMAIN db
                 /\ <<n.path, n.owner>> \in Within
           /\ \A m, n \in Pending : m.path = n.path => m = n
<1>1. DOMAIN db \subseteq Path
    BY DatabasesAssumption DEF IInv
<1>2. PartsOfNetworks
    BY DEF IInv, FlattenedInv
<1> QED BY <1>1, <1>2 DEF PartsOfNetworks, Within

\* The order of the networks on a list that has none twice
IsList(list) ==
    /\ \A n \in list : n.path \in Path
    /\ \A m, n \in list : m.path = n.path => m = n

LEMMA BeforeIsStrict ==
    ASSUME NEW list, IsList(list)
    PROVE  /\ \A m, n \in list : Before(m, n) => ~Before(n, m) /\ m # n
           /\ \A k, m, n \in list : Before(k, m) /\ Before(m, n) => Before(k, n)
           /\ \A m, n \in list : m = n \/ Before(m, n) \/ Before(n, m)
BY OrderIsStrict DEF Before, IsList

LEMMA LeastIsFirst ==
    ASSUME NEW list, IsList(list), list # {}
    PROVE  Least(list) \in list /\ \A m \in list : m = Least(list) \/ Before(Least(list), m)
<1> DEFINE P == {n.path : n \in list}
<1>1. P \in SUBSET Path /\ P # {}
    BY DEF IsList
<1>2. PICK p \in P : \A q \in P : q = p \/ <<p, q>> \in Order
    BY <1>1, FirstPath
<1>3. PICK n \in list : p = n.path
    BY <1>2
<1>4. \A m \in list : m = n \/ Before(n, m)
    BY <1>2, <1>3 DEF Before, IsList
<1> QED BY <1>4 DEF Least

\* What is on the stack, in the database, looked at and found inside
LEMMA PendingIsList ==
    ASSUME IInv, mode = "flattened"
    PROVE  /\ IsList(Pending) /\ IsList(Rest)
           /\ \A m \in stack, n \in unread : Before(m, n)
           /\ \A m \in network \cup subnets, n \in Rest : Before(m, n)
BY PathsOfParts DEF IsList, Rest, Pending, IInv, FlattenedInv, InFront

\* A network is taken in order, and the ones in front of it are gone.
LEMMA TakenIsFirst ==
    ASSUME IInv, mode = "flattened", NEW filter,
           NEW taken, taken = Taken(filter)
    PROVE  \/ /\ Passing(Rest, filter) = {}
              /\ taken.network = {} /\ taken.stack = {} /\ taken.unread = {}
           \/ \E n \in Passing(Rest, filter) :
                 /\ taken.network = {n} /\ taken.stack \subseteq stack /\ taken.unread \subseteq unread
                 /\ taken.stack \cup taken.unread = {m \in Rest : Before(n, m)}
                 /\ \A m \in Passing(Rest, filter) : m = n \/ Before(n, m)
<1> DEFINE stacked == Passing(stack, filter)
           listed == Passing(unread, filter)
<1>1. /\ IsList(Rest) /\ \A m \in stack, n \in unread : Before(m, n)
      /\ stack \subseteq Rest /\ unread \subseteq Rest /\ Rest = stack \cup unread
    BY PendingIsList DEF Rest
<1>2. /\ stacked \subseteq stack /\ listed \subseteq unread
      /\ Passing(Rest, filter) = stacked \cup listed
    BY <1>1 DEF Passing
<1>3. \A n, m \in Rest : Before(n, m) => ~Before(m, n) /\ m # n
    BY <1>1, BeforeIsStrict
<1>4. CASE stacked # {}
    <2> DEFINE n == Least(stacked)
    <2>1. IsList(stacked)
        BY <1>1, <1>2 DEF IsList
    <2>2. n \in stacked /\ \A m \in stacked : m = n \/ Before(n, m)
        BY <1>4, <2>1, LeastIsFirst
    <2>3. taken = [network |-> {n}, stack |-> After(n, stack), unread |-> unread]
        BY <1>4 DEF Taken
    <2> HIDE DEF n, stacked, listed
    <2>4. After(n, stack) = {m \in stack : Before(n, m)}
        BY DEF After
    <2>5. \A m \in unread : Before(n, m)
        BY <1>1, <1>2, <2>2
    <2>6. taken.stack \cup taken.unread = {m \in Rest : Before(n, m)}
        BY <1>1, <2>3, <2>4, <2>5
    <2> QED BY <1>2, <2>2, <2>3, <2>4, <2>5, <2>6
<1>5. CASE stacked = {} /\ listed # {}
    <2> DEFINE n == Least(listed)
    <2>1. IsList(listed)
        BY <1>1, <1>2 DEF IsList
    <2>2. n \in listed /\ \A m \in listed : m = n \/ Before(n, m)
        BY <1>5, <2>1, LeastIsFirst
    <2>3. taken = [network |-> {n}, stack |-> {}, unread |-> After(n, unread)]
        BY <1>5 DEF Taken
    <2> HIDE DEF n, stacked, listed
    <2>4. After(n, unread) = {m \in unread : Before(n, m)}
        BY DEF After
    <2>5. \A m \in stack : ~Before(n, m)
        BY <1>1, <1>2, <1>3, <2>2
    <2>6. taken.stack \cup taken.unread = {m \in Rest : Before(n, m)}
        BY <1>1, <2>3, <2>4, <2>5
    <2> QED BY <1>2, <1>5, <2>2, <2>3, <2>4, <2>6
<1>6. CASE stacked = {} /\ listed = {}
    <2>1. taken = [network |-> {}, stack |-> {}, unread |-> {}]
        BY <1>6 DEF Taken
    <2> QED BY <1>2, <1>6, <2>1
<1> QED BY <1>4, <1>5, <1>6

LEMMA UntakenIsBehind ==
    ASSUME IInv, mode = "flattened", NEW taken \in Untaken
    PROVE  /\ taken.stack \subseteq stack /\ taken.unread \subseteq unread
           /\ \E n \in Rest : taken.stack \cup taken.unread = {m \in Rest : Before(n, m)}
<1>1. /\ IsList(Rest) /\ \A m \in stack, n \in unread : Before(m, n)
      /\ stack \subseteq Rest /\ unread \subseteq Rest /\ Rest = stack \cup unread
    BY PendingIsList DEF Rest
<1>2. PICK n \in unread : taken = [stack |-> {}, unread |-> After(n, unread)]
    BY DEF Untaken
<1>3. \A m \in stack : ~Before(n, m)
    BY <1>1, BeforeIsStrict
<1>4. taken.stack \cup taken.unread = {m \in Rest : Before(n, m)}
    BY <1>1, <1>2, <1>3 DEF After
<1> QED BY <1>1, <1>2, <1>4 DEF After

-----------------------------------------------------------------------------
(* Reading on *)

\* As long as nothing that matches is dropped, nothing is lost.
LEMMA NothingIsDropped ==
    ASSUME db' = db, NothingLost,
           \A m \in Pending \cup Range(returned) :
               db[m.owner].wanted => m \in Pending' \cup Range(returned')
    PROVE  NothingLost'
<1>1. ASSUME NEW p \in {q \in DOMAIN db : db[q].wanted}
      PROVE  Covered({n.path : n \in {m \in Pending \cup Range(returned) : m.owner = p}})
                \subseteq Covered({n.path : n \in {m \in Pending' \cup Range(returned') : m.owner = p}})
    BY DEF Covered
<1>2. \A p : Inside(p)' = Inside(p)
    BY DEF Inside
<1> QED BY <1>1, <1>2 DEF NothingLost, Covered

\* What is true of what was returned stays true.
LEMMA ReturnedStays ==
    ASSUME db' = db, returned' = returned, ReturnedRight
    PROVE  ReturnedRight'
BY DEF ReturnedRight, Inside, Wanted

\* A network is taken, or lost, and those in front of it are dropped, or there was
\* none.  It is looked at only if it matches, and nothing was found inside it yet.
LEMMA TakingKeeps ==
    ASSUME IInv, mode = "flattened", db' = db, returned' = returned,
           stack' \subseteq stack, unread' \subseteq unread, subnets' = {}, state' # "breaking",
           \/ Rest' = {} /\ network' = {}
           \/ \E n \in Rest : /\ Rest' = {m \in Rest : Before(n, m)}
                              /\ network' \in {{}, {n}}
                              /\ network' = {n} => Wanted(n)
    PROVE  /\ PartsOfNetworks' /\ InFront' /\ ReturnedInFront'
           /\ MoreSpecificFirst => MoreSpecificFirst'
<1>1. PartsOfNetworks /\ InFront /\ ReturnedInFront
    BY DEF IInv, FlattenedInv
<1>2. IsList(Pending) /\ IsList(Rest) /\ Rest \subseteq Pending
    BY PendingIsList DEF Pending, Rest
<1>3. Pending' = Rest' \cup network'
    BY DEF Pending, Rest
<1>4. Rest' \subseteq Rest /\ network' \subseteq Rest /\ Pending' \subseteq Rest /\ Pending' \subseteq Pending
    BY <1>2, <1>3
<1>5. \A m \in network', n \in Rest' : Before(m, n)
    OBVIOUS
<1>6. PartsOfNetworks'
    <2>1. \A m, n \in network' : m = n
        OBVIOUS
    <2>2. \A n \in network' : Wanted(n)'
        BY DEF Wanted
    <2> QED BY <1>1, <1>4, <2>1, <2>2 DEF PartsOfNetworks
<1>7. InFront'
    <2>1. \A m \in stack', n \in unread' : Before(m, n)
        BY <1>1 DEF InFront
    <2> QED BY <1>5, <2>1 DEF InFront, Before
<1>8. ReturnedInFront'
    BY <1>1, <1>4 DEF ReturnedInFront
<1>9. ASSUME MoreSpecificFirst PROVE MoreSpecificFirst'
    <2>1. ASSUME NEW n \in Pending', n.path = n.owner
          PROVE  Whole(Inside(n.owner)) \subseteq Rest'
        <3>1. Whole(Inside(n.owner)) \subseteq Rest \cup subnets /\ n \in Pending /\ n \in Rest
            BY <1>4, <1>9, <2>1 DEF MoreSpecificFirst
        <3>2. ASSUME NEW q \in Inside(n.owner) PROVE Part(q, q) \in Rest'
            <4>1. Part(q, q) \in Rest \cup subnets /\ Part(q, q).path = q
                BY <3>1 DEF Whole, Part
            <4>2. q \in Path /\ n.path \in Path /\ <<q, n.path>> \in Within /\ q # n.path
                BY <2>1, <3>1, PathsOfParts DEF Inside
            <4>3. Before(n, Part(q, q))
                BY <4>1, <4>2, WithinOrder DEF Before
            <4>4. Part(q, q) \in Rest
                <5>1. ASSUME Part(q, q) \in subnets PROVE FALSE
                    <6>1. Before(Part(q, q), n) /\ Part(q, q) \in Pending
                        BY <3>1, <5>1, PendingIsList DEF Pending
                    <6> QED BY <1>2, <3>1, <4>3, <6>1, BeforeIsStrict
                <5> QED BY <4>1, <5>1
            <4>5. PICK k \in Rest : /\ Rest' = {m \in Rest : Before(k, m)}
                                    /\ network' \in {{}, {k}}
                BY <1>3, <2>1
            <4>6. n = k \/ Before(k, n)
                BY <1>3, <2>1, <4>5
            <4>7. Before(k, Part(q, q))
                BY <1>2, <3>1, <4>3, <4>4, <4>6, BeforeIsStrict
            <4> QED BY <4>4, <4>5, <4>7
        <3> QED BY <3>2 DEF Whole
    <2>2. \A p : Inside(p)' = Inside(p)
        BY DEF Inside
    <2>3. \A n \in Pending' : n.path = n.owner => Whole(Inside(n.owner))' \subseteq (Rest \cup subnets)'
        BY <2>1, <2>2 DEF Whole
    <2> QED BY <1>4, <1>9, <2>2, <2>3 DEF MoreSpecificFirst
<1> QED BY <1>6, <1>7, <1>8, <1>9

LEMMA FlattenKeeps ==
    ASSUME IInv, mode = "flattened", Flatten
    PROVE  FlattenedInv'
<1> DEFINE taken == Taken("on")
<1>1. /\ state = "next" /\ network' = taken.network /\ stack' = taken.stack /\ unread' = taken.unread
      /\ subnets' = subnets /\ db' = db /\ returned' = returned /\ trouble' = trouble
      /\ start' = start
      /\ IF network' = {} THEN state' = "idle" /\ outcome' = "end"
                          ELSE state' = "collecting" /\ outcome' = outcome
    BY DEF Flatten, Fixed, gap, GoOn, ReturnEnd
<1>2. network = {} /\ subnets = {} /\ start = NoAddress /\ outcome # "end"
    BY <1>1 DEF IInv, FlattenedInv, LookedAt
<1>3. Rest' = taken.stack \cup taken.unread /\ Pending = Rest /\ Pending' = Rest' \cup network'
    BY <1>1, <1>2 DEF Rest, Pending
<1>4. CASE Passing(Rest, "on") = {} /\ taken.network = {} /\ taken.stack = {} /\ taken.unread = {}
    <2>1. /\ PartsOfNetworks' /\ InFront' /\ ReturnedInFront'
          /\ MoreSpecificFirst => MoreSpecificFirst'
        <3> HIDE DEF taken
        <3> QED BY <1>1, <1>2, <1>3, <1>4, TakingKeeps
    <2>2. LookedAt'
        BY <1>1, <1>2, <1>3, <1>4 DEF LookedAt
    <2>3. NothingLost => NothingLost'
        <3>1. \A m \in Pending : ~db[m.owner].wanted
            BY <1>3, <1>4 DEF Passing, Wanted
        <3> QED BY <1>1, <3>1, NothingIsDropped
    <2> QED BY <1>1, <2>1, <2>2, <2>3, ReturnedStays DEF IInv, FlattenedInv
<1>5. ASSUME NEW n \in Passing(Rest, "on"),
             taken.network = {n}, taken.stack \subseteq stack, taken.unread \subseteq unread,
             taken.stack \cup taken.unread = {m \in Rest : Before(n, m)},
             \A m \in Passing(Rest, "on") : m = n \/ Before(n, m)
      PROVE  FlattenedInv'
    <2>1. n \in Rest /\ Wanted(n) /\ network' = {n} /\ state' = "collecting"
        BY <1>1, <1>5 DEF Passing
    <2>2. /\ PartsOfNetworks' /\ InFront' /\ ReturnedInFront'
          /\ MoreSpecificFirst => MoreSpecificFirst'
        <3> HIDE DEF taken
        <3> QED BY <1>1, <1>2, <1>3, <1>5, <2>1, TakingKeeps
    <2>3. LookedAt'
        BY <1>1, <1>2, <2>1 DEF LookedAt
    <2>4. NothingLost => NothingLost'
        <3>1. \A m \in Rest : db[m.owner].wanted => m \in Rest' \cup network'
            BY <1>3, <1>5, <2>1 DEF Passing, Wanted
        <3> QED BY <1>1, <1>3, <3>1, NothingIsDropped
    <2> QED BY <1>1, <2>2, <2>3, <2>4, ReturnedStays DEF IInv, FlattenedInv
<1> QED BY <1>4, <1>5, TakenIsFirst

\* When there is no memory for what is read, nothing is returned or put aside.
LEMMA NoMemoryToReadKeeps ==
    ASSUME IInv, mode = "flattened", FlattenNoMemory \/ CollectNoMemory
    PROVE  FlattenedInv'
<1>1. /\ network' = {} /\ subnets' = {} /\ db' = db /\ returned' = returned /\ start' = start
      /\ trouble' = trouble \cup {"memory"} /\ state' = "idle" /\ outcome' = "error"
    BY DEF FlattenNoMemory, CollectNoMemory, Fixed, gap, NoMemory, ReturnError,
           IInv, FlattenedInv, LookedAt
<1>2. PICK taken \in Untaken \cup {Taken("off")} :
          stack' = taken.stack /\ unread' = taken.unread
    BY DEF FlattenNoMemory, CollectNoMemory
<1>3. /\ stack' \subseteq stack /\ unread' \subseteq unread
      /\ Rest' = {} \/ \E n \in Rest : Rest' = {m \in Rest : Before(n, m)}
    <2>1. CASE taken \in Untaken
        BY <1>2, <2>1, UntakenIsBehind DEF Rest
    <2>2. CASE taken = Taken("off")
        BY <1>2, <2>2, TakenIsFirst DEF Rest, Passing
    <2> QED BY <2>1, <2>2
<1>4. /\ PartsOfNetworks' /\ InFront' /\ ReturnedInFront'
      /\ MoreSpecificFirst => MoreSpecificFirst'
    BY <1>1, <1>3, TakingKeeps
<1>5. LookedAt'
    BY <1>1 DEF LookedAt, IInv, FlattenedInv
<1> QED BY <1>1, <1>4, <1>5, ReturnedStays DEF IInv, FlattenedInv

\* Where the process ends, everything is as it was.
LEMMA CrashKeeps ==
    ASSUME IInv, mode = "flattened", CollectCrashes
    PROVE  FlattenedInv'
<1>1. /\ db' = db /\ unread' = unread /\ stack' = stack /\ network' = network /\ subnets' = subnets
      /\ start' = start /\ outcome' = outcome /\ returned' = returned
      /\ state = "collecting" /\ state' = "crashed" /\ trouble' = trouble \cup {"memory"}
    BY DEF CollectCrashes, Fixed, gap
<1>2. PartsOfNetworks /\ InFront /\ LookedAt /\ ReturnedInFront
    BY DEF IInv, FlattenedInv
<1>3. /\ Pending' = Pending /\ Rest' = Rest
      /\ (\A p : Inside(p)' = Inside(p)) /\ (\A n : Wanted(n)' = Wanted(n))
    BY <1>1 DEF Pending, Rest, Inside, Wanted
<1>4. PartsOfNetworks' /\ ReturnedInFront'
    BY <1>1, <1>2, <1>3 DEF PartsOfNetworks, ReturnedInFront
<1>5. InFront'
    BY <1>1, <1>2, <1>3 DEF InFront
<1>6. LookedAt'
    BY <1>1, <1>2 DEF LookedAt
<1>7. MoreSpecificFirst /\ ReturnedRight => MoreSpecificFirst' /\ ReturnedRight'
    BY <1>1, <1>3 DEF MoreSpecificFirst, ReturnedRight
<1> QED BY <1>1, <1>4, <1>5, <1>6, <1>7 DEF IInv, FlattenedInv

\* Networks that are not on a list are all put on it.
LEMMA PushedIsUnion ==
    ASSUME NEW list, NEW networks, \A m \in list, n \in networks : m.path # n.path
    PROVE  Pushed(list, networks) = list \cup networks
BY DEF Pushed

\* The network that is read next is found inside the one that is looked at, or it is
\* put on the stack, in front of all that follow.
LEMMA CollectKeeps ==
    ASSUME IInv, mode = "flattened", Collect
    PROVE  FlattenedInv'
<1> DEFINE taken == Taken("off")
           inside == Subnets(taken.network)
<1>1. /\ state = "collecting" /\ unread' = taken.unread
      /\ subnets' = Pushed(subnets, inside)
      /\ stack' = Pushed(taken.stack, taken.network \ inside)
      /\ network' = network /\ db' = db /\ returned' = returned /\ trouble' = trouble
      /\ start' = start /\ outcome' = outcome
      /\ state' = IF inside = {} THEN "breaking" ELSE "collecting"
    BY DEF Collect, Fixed, gap, GoOn
<1>2. /\ PartsOfNetworks /\ InFront /\ LookedAt /\ ReturnedInFront
      /\ IsList(Pending) /\ Rest \subseteq Pending
      /\ \A m, n \in network : m = n
    BY PendingIsList DEF IInv, FlattenedInv, PartsOfNetworks, Pending, Rest
<1>3. Pending' = Rest' \cup network \cup subnets' /\ Rest' = stack' \cup unread'
    BY <1>1 DEF Rest, Pending
<1> DEFINE Read ==
              /\ Rest' \cup subnets' = Rest \cup subnets
              /\ Rest' \subseteq Rest /\ unread' \subseteq unread
              /\ \A m \in stack', n \in unread' : Before(m, n)
              /\ \A n \in subnets' \ subnets : n \in Rest /\ n \in inside /\ \A m \in Rest' : Before(n, m)
              /\ \A m \in network, n \in Rest' : state' = "breaking" => <<n.path, m.path>> \notin Within
<1>4. Read
    <2> SUFFICES ASSUME
                 \/ /\ Rest = {} /\ taken.network = {} /\ taken.stack = {} /\ taken.unread = {}
                 \/ \E n \in Rest :
                       /\ taken.network = {n} /\ taken.stack \subseteq stack
                       /\ taken.unread \subseteq unread
                       /\ taken.stack \cup taken.unread = {m \in Rest : Before(n, m)}
                       /\ \A m \in Rest : m = n \/ Before(n, m)
                 PROVE  Read
        BY TakenIsFirst DEF Passing
    <2> HIDE DEF taken
    <2>1. CASE Rest = {} /\ taken.network = {} /\ taken.stack = {} /\ taken.unread = {}
        <3>1. inside = {} /\ taken.network \ inside = {}
            BY <2>1 DEF Subnets
        <3>2. stack' = {} /\ unread' = {} /\ subnets' = subnets
            BY <1>1, <2>1, <3>1 DEF Pushed
        <3> QED BY <1>3, <2>1, <3>2
    <2>2. ASSUME NEW n \in Rest, taken.network = {n}, taken.stack \subseteq stack,
                 taken.unread \subseteq unread,
                 taken.stack \cup taken.unread = {m \in Rest : Before(n, m)},
                 \A m \in Rest : m = n \/ Before(n, m)
          PROVE  Read
        <3>1. IsList(Rest) /\ IsList(Pending) /\ ~Before(n, n)
            BY PendingIsList, BeforeIsStrict
        <3>2. \A m \in taken.stack \cup taken.unread : Before(n, m) /\ m \in Rest /\ m # n
            BY <2>2, <3>1
        <3>3. Rest \ {n} = taken.stack \cup taken.unread
            BY <2>2, <3>1
        <3>4. \A m \in subnets : m.path # n.path
            BY <1>2, <3>1, PendingIsList, BeforeIsStrict DEF IsList, Pending
        <3>5. \A m \in taken.stack : m.path # n.path
            BY <3>1, <3>2 DEF IsList
        <3>6. \A m \in stack, k \in unread : Before(m, k)
            BY PendingIsList
        <3>7. CASE inside = {n}
            <4>1. subnets' = subnets \cup {n}
                BY <1>1, <3>4, <3>7, PushedIsUnion
            <4>2. taken.network \ inside = {}
                BY <2>2, <3>7
            <4>3. stack' = taken.stack
                BY <1>1, <4>2 DEF Pushed
            <4>4. Rest' = Rest \ {n}
                BY <1>1, <1>3, <3>3, <4>3
            <4>5. state' = "collecting"
                BY <1>1, <3>7
            <4> HIDE DEF inside
            <4> QED BY <1>1, <2>2, <3>2, <3>3, <3>6, <3>7, <4>1, <4>3, <4>4, <4>5
        <3>8. CASE inside = {}
            <4>1. subnets' = subnets
                BY <1>1, <3>8 DEF Pushed
            <4>2. taken.network \ inside = {n}
                BY <2>2, <3>8
            <4>3. stack' = taken.stack \cup {n}
                BY <1>1, <3>5, <4>2, PushedIsUnion
            <4>4. Rest' = Rest
                BY <1>1, <1>3, <3>3, <4>3
            <4>5. \A m \in stack', k \in unread' : Before(m, k)
                BY <1>1, <2>2, <3>2, <3>6, <4>3
            <4>6. ASSUME NEW m \in network, NEW k \in Rest, <<k.path, m.path>> \in Within
                  PROVE  FALSE
                <5>1. <<n.path, m.path>> \notin Within
                    BY <2>2, <3>8 DEF Subnets
                <5>2. Before(m, n) /\ k # n /\ Before(n, k)
                    BY <2>2, <4>6, <5>1, PendingIsList
                <5>3. n.path \in Path /\ m.path \in Path /\ k.path \in Path
                    BY PathsOfParts DEF Pending, Rest
                <5>4. Apart(m.path, n.path)
                    BY <5>1, <5>2, <5>3, ApartOrWithin DEF Before
                <5>5. Apart(m.path, k.path)
                    BY <5>2, <5>3, <5>4, ApartOrWithin DEF Before
                <5> QED BY <4>6, <5>3, <5>5, ApartOrWithin, MeetingOrder
            <4> QED BY <1>1, <2>2, <4>1, <4>4, <4>5, <4>6
        <3>9. inside = {} \/ inside = {n}
            BY <2>2 DEF Subnets
        <3> QED BY <3>7, <3>8, <3>9
    <2> QED BY <2>1, <2>2
<1>5. Pending' = Pending
    BY <1>3, <1>4 DEF Pending, Rest
<1>6. PartsOfNetworks'
    BY <1>1, <1>2, <1>4, <1>5 DEF PartsOfNetworks, Wanted
<1>7. InFront'
    <2>1. \A m \in network \cup subnets, n \in Rest' : Before(m, n)
        BY <1>4, PendingIsList
    <2>2. \A m \in subnets' \ subnets, n \in Rest' : Before(m, n)
        BY <1>4
    <2>3. ASSUME NEW m \in network, NEW n \in subnets'
          PROVE  Before(m, n) /\ <<n.path, m.path>> \in Within
        <3>1. CASE n \in subnets
            BY <1>2, <3>1 DEF InFront
        <3>2. CASE n \notin subnets
            <4>1. n \in Rest /\ n \in inside
                BY <1>4, <3>2
            <4>2. <<n.path, m.path>> \in Within
                BY <1>2, <4>1 DEF Subnets
            <4> QED BY <4>1, <4>2, PendingIsList
        <3> QED BY <3>1, <3>2
    <2>4. \A m \in network' \cup subnets', n \in Rest' : Before(m, n)
        BY <1>1, <2>1, <2>2
    <2> QED BY <1>1, <1>4, <2>3, <2>4 DEF InFront, Before
<1>8. LookedAt'
    BY <1>1, <1>2 DEF LookedAt
<1>9. ReturnedInFront'
    BY <1>1, <1>2, <1>5 DEF ReturnedInFront
<1>10. ASSUME MoreSpecificFirst PROVE MoreSpecificFirst'
    BY <1>1, <1>4, <1>5, <1>10 DEF MoreSpecificFirst, Inside, Whole
<1>11. NothingLost => NothingLost'
    BY <1>1, <1>5, NothingIsDropped
<1> QED BY <1>1, <1>6, <1>7, <1>8, <1>9, <1>10, <1>11, ReturnedStays DEF IInv, FlattenedInv

-----------------------------------------------------------------------------
(* Returning the network *)

\* What a sequence has with one more at its end
LEMMA RangeOfLonger ==
    ASSUME NEW s, NEW t, NEW n, DOMAIN t = DOMAIN s \cup {n}, \A i \in DOMAIN s : t[i] = s[i]
    PROVE  Range(t) = Range(s) \cup {t[n]}
BY Zenon DEF Range

LEMMA ReturnWholeKeeps ==
    ASSUME IInv, mode = "flattened", ReturnWhole
    PROVE  FlattenedInv' /\ returned' \in Seq([path : Path, owner : Path])
<1>1. PICK w \in network : returned' = Append(returned, w) /\ state' = "idle" /\ outcome' = "network"
    BY DEF ReturnWhole, ReturnNetwork
<1>2. /\ state = "breaking" /\ subnets = {} /\ network' = {} /\ subnets' = {}
      /\ unread' = unread /\ stack' = stack /\ start' = start /\ db' = db /\ trouble' = trouble
    BY DEF ReturnWhole, ReturnNetwork, Fixed, gap
<1>3. /\ PartsOfNetworks /\ InFront /\ LookedAt /\ ReturnedInFront
      /\ network = {w} /\ Pending = Rest \cup {w} /\ Rest' = Rest /\ Pending' = Rest
    BY <1>2 DEF IInv, FlattenedInv, PartsOfNetworks, Pending, Rest
<1>4. w \in Pending /\ w \in [path : Path, owner : Path] /\ Wanted(w)
    <2>1. w \in Pending /\ w = Part(w.path, w.owner) /\ Wanted(w)
        BY <1>3 DEF PartsOfNetworks
    <2>2. w.path \in Path /\ w.owner \in Path
        BY <2>1, PathsOfParts
    <2> QED BY <2>1, <2>2 DEF Part
<1>5. /\ returned' \in Seq([path : Path, owner : Path])
      /\ DOMAIN returned = 1..Len(returned) /\ Len(returned) \in Nat
      /\ DOMAIN returned' = 1..(Len(returned) + 1)
      /\ \A i \in 1..Len(returned) : returned'[i] = returned[i]
      /\ returned'[Len(returned) + 1] = w
      /\ Range(returned') = Range(returned) \cup {w}
    <2> DEFINE S == [path : Path, owner : Path]
    <2>1. returned \in Seq(S) /\ w \in S /\ returned' = Append(returned, w)
        BY <1>1, <1>4 DEF IInv
    <2> HIDE DEF S
    <2>2. /\ returned' \in Seq(S) /\ Len(returned) \in Nat /\ DOMAIN returned = 1..Len(returned)
          /\ Len(returned') = Len(returned) + 1
          /\ (\A i \in 1..Len(returned) : returned'[i] = returned[i])
          /\ returned'[Len(returned) + 1] = w
        BY <2>1, AppendProperties, LenProperties
    <2>3. DOMAIN returned' = 1..(Len(returned) + 1)
        BY <2>2, LenProperties
    <2>4. 1..(Len(returned) + 1) = (1..Len(returned)) \cup {Len(returned) + 1}
        BY <2>2
    <2>5. Range(returned') = Range(returned) \cup {returned'[Len(returned) + 1]}
        <3>1. DOMAIN returned' = DOMAIN returned \cup {Len(returned) + 1}
            BY <2>2, <2>3, <2>4
        <3>2. \A i \in DOMAIN returned : returned'[i] = returned[i]
            BY <2>2
        <3> QED BY <3>1, <3>2, RangeOfLonger
    <2> QED BY <2>2, <2>3, <2>5, Zenon DEF S
<1>6. \A n \in Rest : <<n.path, w.path>> \notin Within
    BY <1>2, <1>3 DEF InFront
<1>7. \A n \in Rest : Apart(w.path, n.path)
    <2> TAKE n \in Rest
    <2>1. Before(w, n) /\ w.path \in Path /\ n.path \in Path
        BY <1>3, <1>4, PathsOfParts, PendingIsList
    <2> QED BY <1>6, <2>1, ApartOrWithin DEF Before
<1>8. PartsOfNetworks'
    <2>1. Pending' \cup Range(returned)' = Pending \cup Range(returned)
        BY <1>3, <1>5
    <2>2. \A n \in Pending' \cup Range(returned)' :
              /\ n.owner \in DOMAIN db /\ n = Part(n.path, n.owner) /\ <<n.path, n.owner>> \in Within
        BY <1>3, <2>1 DEF PartsOfNetworks
    <2> QED BY <1>2, <1>3, <2>2 DEF PartsOfNetworks
<1>9. InFront'
    BY <1>1, <1>2, <1>3 DEF InFront, Before
<1>10. LookedAt'
    BY <1>1, <1>2, <1>3 DEF LookedAt
<1>11. ReturnedInFront'
    <2>1. \A m \in Range(returned), n \in Pending : Apart(m.path, n.path)
        BY <1>3 DEF ReturnedInFront
    <2>2. \A m \in Range(returned'), n \in Pending' : Apart(m.path, n.path)
        BY <1>3, <1>5, <1>7, <2>1
    <2>3. ASSUME NEW i \in DOMAIN returned', NEW j \in DOMAIN returned', i < j
          PROVE  Apart(returned'[i].path, returned'[j].path)
        <3>1. i \in 1..Len(returned) /\ (j \in 1..Len(returned) \/ j = Len(returned) + 1)
            BY <1>5, <2>3
        <3>2. returned'[i] = returned[i] /\ i \in DOMAIN returned
            BY <1>5, <3>1
        <3>3. CASE j \in 1..Len(returned)
            <4>1. returned'[j] = returned[j] /\ j \in DOMAIN returned
                BY <1>5, <3>3
            <4> QED BY <1>3, <2>3, <3>2, <4>1 DEF ReturnedInFront
        <3>4. CASE j = Len(returned) + 1
            <4>1. returned'[j] = w /\ returned[i] \in Range(returned)
                BY <1>5, <3>2, <3>4 DEF Range
            <4> QED BY <1>4, <2>1, <3>2, <4>1
        <3> QED BY <3>1, <3>3, <3>4
    <2> QED BY <2>2, <2>3 DEF ReturnedInFront
<1>12. \A p : Inside(p)' = Inside(p)
    BY <1>2 DEF Inside
<1>13. ASSUME MoreSpecificFirst, ReturnedRight PROVE MoreSpecificFirst' /\ ReturnedRight'
    <2>1. MoreSpecificFirst'
        BY <1>2, <1>3, <1>12, <1>13 DEF MoreSpecificFirst, Whole
    <2>2. ASSUME NEW p \in Inside(w.owner), <<p, w.path>> \in Meeting PROVE FALSE
        <3>1. w.path = w.owner
            BY <1>4, <1>13, <2>2 DEF MoreSpecificFirst
        <3>2. Part(p, p) \in Rest /\ Part(p, p).path = p /\ <<p, w.path>> \in Within
            BY <1>2, <1>4, <1>13, <2>2, <3>1 DEF MoreSpecificFirst, Whole, Part, Inside
        <3> QED BY <1>6, <3>2
    <2>3. ReturnedRight'
        <3>1. \A n \in Range(returned)' : n \in Range(returned) \/ n = w
            BY <1>5
        <3>2. \A n \in Range(returned)' : Wanted(n) /\ \A p \in Inside(n.owner) : <<p, n.path>> \notin Meeting
            BY <1>4, <1>13, <2>2, <3>1 DEF ReturnedRight
        <3> QED BY <1>2, <1>12, <3>2 DEF ReturnedRight, Wanted
    <2> QED BY <2>1, <2>3
<1>14. NothingLost => NothingLost'
    BY <1>2, <1>3, <1>5, NothingIsDropped
<1> QED BY <1>2, <1>5, <1>8, <1>9, <1>10, <1>11, <1>13, <1>14 DEF IInv, FlattenedInv

-----------------------------------------------------------------------------
(* Taking the network apart *)

\* The parts of the network are inside it, outside of all that was found inside it,
\* apart from each other, and apart from all that follow.
LEMMA ExcludedParts ==
    ASSUME IInv, mode = "flattened", NEW w \in network, state = "breaking"
    PROVE  /\ network = {w} /\ w \in Pending /\ w.path \in Path /\ w.owner \in Path
           /\ \A n \in Excluded :
                 /\ n = Part(n.path, w.owner) /\ n.owner = w.owner /\ n.path \in Path
                 /\ <<n.path, w.path>> \in Within /\ n.path # w.path /\ n.path # n.owner
                 /\ \A m \in subnets : <<n.path, m.path>> \notin Meeting /\ m.path # n.path
                 /\ \A m \in Rest : Apart(n.path, m.path) /\ m.path # n.path
           /\ \A m, n \in Excluded : m # n => <<m.path, n.path>> \notin Meeting
<1> DEFINE others == {n.path : n \in subnets}
           left == Remaining(w.path, others)
<1>1. /\ network = {w} /\ w \in Pending /\ w.path \in Path /\ w.owner \in Path
      /\ <<w.path, w.owner>> \in Within
    BY PathsOfParts DEF IInv, FlattenedInv, PartsOfNetworks, Pending
<1>2. Excluded = {Part(p, w.owner) : p \in left}
    BY <1>1 DEF Excluded
<1>3. others \in SUBSET Path
    BY PathsOfParts DEF Pending
<1>4. /\ \A q \in left : /\ q \in Path /\ <<q, w.path>> \in Within /\ q # w.path
                         /\ \A other \in others : <<q, other>> \notin Meeting
      /\ \A q, r \in left : q # r => <<q, r>> \notin Meeting
    BY <1>1, <1>3, RemainingPaths
<1> HIDE DEF left
<1>5. ASSUME NEW n \in Excluded
      PROVE  /\ n = Part(n.path, w.owner) /\ n.owner = w.owner /\ n.path \in Path /\ n.path \in left
             /\ <<n.path, w.path>> \in Within /\ n.path # w.path /\ n.path # n.owner
             /\ \A m \in subnets : <<n.path, m.path>> \notin Meeting
             /\ \A m \in Rest : Apart(n.path, m.path)
    <2>1. PICK p \in left : n = Part(p, w.owner)
        BY <1>2
    <2>2. n.path = p /\ n.owner = w.owner
        BY <2>1 DEF Part
    <2>3. n.path # w.owner
        BY <1>1, <1>4, <2>2, WithinOrder
    <2>4. \A m \in subnets : <<n.path, m.path>> \notin Meeting
        BY <1>4, <2>2
    <2>5. ASSUME NEW m \in Rest PROVE Apart(n.path, m.path)
        <3>1. <<m.path, w.path>> \notin Within /\ Before(w, m) /\ m.path \in Path
            BY PathsOfParts, PendingIsList DEF IInv, FlattenedInv, InFront, Rest, Pending
        <3>2. Apart(w.path, m.path)
            BY <1>1, <3>1, ApartOrWithin DEF Before
        <3> QED BY <1>1, <1>4, <2>2, <3>1, <3>2, ApartOrWithin
    <2> QED BY <1>4, <2>1, <2>2, <2>3, <2>4, <2>5
<1>6. ASSUME NEW n \in Excluded
      PROVE  /\ \A m \in subnets : m.path # n.path
             /\ \A m \in Rest : m.path # n.path
    <2>1. <<n.path, n.path>> \in Meeting /\ n.path \in Path
        BY <1>5, MeetingOrder, WithinOrder
    <2>2. ~Apart(n.path, n.path)
        BY <2>1, ApartOrWithin
    <2> QED BY <1>5, <2>1, <2>2
<1>7. ASSUME NEW m \in Excluded, NEW n \in Excluded, m # n
      PROVE  <<m.path, n.path>> \notin Meeting
    <2>1. m.path # n.path
        BY <1>5, <1>7
    <2> QED BY <1>4, <1>5, <2>1
<1> QED BY <1>1, <1>5, <1>6, <1>7

\* Subnets and parts are put on the stack, all of them or some.  Subnets are not
\* left out while parts are put there, unless none is put there.
LEMMA BreakingKeeps ==
    ASSUME IInv, mode = "flattened", state = "breaking", db' = db, returned' = returned,
           network' = {}, subnets' = {}, unread' = unread, state' # "breaking",
           NEW kept, kept \subseteq subnets \cup Excluded, stack' = stack \cup kept
    PROVE  /\ PartsOfNetworks' /\ InFront' /\ ReturnedInFront'
           /\ MoreSpecificFirst /\ (kept = {} \/ subnets \subseteq kept) => MoreSpecificFirst'
<1>1. PartsOfNetworks /\ InFront /\ ReturnedInFront /\ LookedAt
    BY DEF IInv, FlattenedInv
<1>2. PICK w \in network : network = {w}
    BY <1>1 DEF LookedAt, PartsOfNetworks
<1>3. /\ w \in Pending /\ w.path \in Path /\ w.owner \in Path
      /\ \A n \in Excluded :
             /\ n = Part(n.path, w.owner) /\ n.owner = w.owner /\ n.path \in Path
             /\ <<n.path, w.path>> \in Within /\ n.path # w.path /\ n.path # n.owner
             /\ \A m \in subnets : <<n.path, m.path>> \notin Meeting /\ m.path # n.path
             /\ \A m \in Rest : Apart(n.path, m.path) /\ m.path # n.path
      /\ \A m, n \in Excluded : m # n => <<m.path, n.path>> \notin Meeting
    BY ExcludedParts
<1>4. /\ Pending' = Rest \cup kept /\ Rest' = Rest \cup kept
      /\ Rest \subseteq Pending /\ subnets \subseteq Pending /\ unread \subseteq Rest
      /\ \A n \in Pending' : n \in Rest \/ n \in subnets \/ n \in Excluded
      /\ \A n \in Pending' : n \in Pending \/ n \in Excluded
    BY DEF Pending, Rest
<1>5. \A n \in Pending : n.path \in Path /\ n.owner \in Path
    BY PathsOfParts
<1>6. PartsOfNetworks'
    <2>1. ASSUME NEW n \in Excluded
          PROVE  /\ n.owner \in DOMAIN db /\ n = Part(n.path, n.owner)
                 /\ <<n.path, n.owner>> \in Within
        <3>1. w.owner \in DOMAIN db /\ <<w.path, w.owner>> \in Within
            BY <1>3, PathsOfParts
        <3>2. n = Part(n.path, n.owner) /\ n.owner \in DOMAIN db
            BY <1>3, <3>1
        <3>3. <<n.path, n.owner>> \in Within
            BY <1>3, <3>1, WithinOrder
        <3> QED BY <3>2, <3>3
    <2>2. \A n \in Pending' \cup Range(returned)' :
              /\ n.owner \in DOMAIN db /\ n = Part(n.path, n.owner)
              /\ <<n.path, n.owner>> \in Within
        BY <1>1, <1>4, <2>1 DEF PartsOfNetworks
    <2>3. ASSUME NEW m \in Pending', NEW n \in Pending', m.path = n.path
          PROVE  m = n
        <3>1. CASE m \in Pending /\ n \in Pending
            BY <1>1, <2>3, <3>1 DEF PartsOfNetworks
        <3>2. CASE m \in Excluded /\ n \in Excluded
            BY <1>3, <2>3, <3>2
        <3>3. CASE m \in Excluded /\ n \notin Excluded
            BY <1>3, <1>4, <2>3, <3>3
        <3>4. CASE m \notin Excluded /\ n \in Excluded
            BY <1>3, <1>4, <2>3, <3>4
        <3> QED BY <1>4, <3>1, <3>2, <3>3, <3>4
    <2> QED BY <1>1, <2>2, <2>3 DEF PartsOfNetworks
<1>7. InFront'
    <2>1. \A m \in stack \cup subnets, n \in unread : Before(m, n)
        BY <1>4, PendingIsList
    <2>2. \A m \in Excluded, n \in unread : Before(m, n)
        BY <1>3, <1>4, <1>5, ApartOrWithin DEF Before
    <2>3. \A m \in stack', n \in unread' : Before(m, n)
        BY <2>1, <2>2
    <2> QED BY <2>3 DEF InFront, Before
<1>8. ReturnedInFront'
    <2>1. ASSUME NEW m \in Range(returned), NEW n \in Excluded PROVE Apart(m.path, n.path)
        <3>1. Apart(m.path, w.path) /\ m.path \in Path
            BY <1>1, <1>3, PathsOfParts DEF ReturnedInFront
        <3> QED BY <1>3, <3>1, ApartOrWithin
    <2> QED BY <1>1, <1>4, <2>1 DEF ReturnedInFront
<1>9. ASSUME MoreSpecificFirst, kept = {} \/ subnets \subseteq kept
      PROVE  MoreSpecificFirst'
    <2>1. \A p : Inside(p)' = Inside(p) /\ Inside(p) \subseteq Path
        BY PathsOfParts DEF Inside
    <2>2. ASSUME NEW n \in Pending', n.path # n.owner, NEW p \in Inside(n.owner)
          PROVE  <<p, n.path>> \notin Meeting
        <3>1. CASE n \in Pending
            BY <1>9, <2>2, <3>1 DEF MoreSpecificFirst
        <3>2. CASE n \in Excluded
            <4>1. /\ n.owner = w.owner /\ n.path \in Path /\ p \in Path
                  /\ <<n.path, w.path>> \in Within
                BY <1>3, <2>1, <2>2, <3>2
            <4>2. CASE w.path # w.owner
                <5>1. <<p, w.path>> \notin Meeting
                    BY <1>3, <1>9, <2>2, <4>1, <4>2 DEF MoreSpecificFirst
                <5> QED BY <1>3, <4>1, <5>1, MeetingOrder
            <4>3. CASE w.path = w.owner
                <5>1. Part(p, p) \in Rest \cup subnets /\ Part(p, p).path = p
                    BY <1>3, <1>9, <2>2, <4>1, <4>3 DEF MoreSpecificFirst, Whole, Part
                <5>2. <<p, w.path>> \in Within
                    BY <2>2, <4>1, <4>3 DEF Inside
                <5>3. Part(p, p) \in subnets
                    BY <1>1, <5>1, <5>2 DEF InFront
                <5>4. <<n.path, p>> \notin Meeting
                    BY <1>3, <3>2, <5>1, <5>3
                <5> QED BY <4>1, <5>4, MeetingOrder
            <4> QED BY <4>2, <4>3
        <3> QED BY <1>4, <3>1, <3>2
    <2>3. ASSUME NEW n \in Pending', n.path = n.owner, NEW q \in Inside(n.owner)
          PROVE  Part(q, q) \in Rest'
        <3>1. n \in Rest \cup subnets /\ n \in Pending
            BY <1>3, <1>4, <2>3
        <3>2. Part(q, q) \in Rest \cup subnets /\ Part(q, q).path = q
            BY <1>9, <2>3, <3>1 DEF MoreSpecificFirst, Whole, Part
        <3>3. CASE subnets \subseteq kept
            BY <1>4, <3>2, <3>3
        <3>4. CASE kept = {}
            <4>1. n \in Rest
                BY <1>4, <2>3, <3>4
            <4>2. Before(n, Part(q, q))
                <5>1. q \in Path /\ n.path \in Path /\ <<q, n.path>> \in Within /\ q # n.path
                    BY <1>5, <2>1, <2>3, <3>1 DEF Inside
                <5> QED BY <3>2, <5>1, WithinOrder DEF Before
            <4>3. ASSUME Part(q, q) \in subnets PROVE FALSE
                <5>1. Before(Part(q, q), n) /\ Part(q, q) \in Pending
                    BY <1>4, <4>1, <4>3, PendingIsList
                <5> QED BY <3>1, <4>2, <5>1, PendingIsList, BeforeIsStrict
            <4> QED BY <1>4, <3>2, <4>3
        <3> QED BY <1>9, <3>3, <3>4
    <2>4. ASSUME NEW m \in Pending', NEW n \in Pending', m # n, m.owner = n.owner
          PROVE  <<m.path, n.path>> \notin Meeting
        <3>1. ASSUME NEW k \in Rest \cup subnets, k.owner = w.owner, NEW e \in Excluded
              PROVE  <<k.path, e.path>> \notin Meeting
            <4>1. k \in Pending /\ Before(w, k)
                BY <1>1, <1>4, <3>1, PendingIsList DEF InFront
            <4>2. k # w
                BY <1>3, <4>1, PendingIsList, BeforeIsStrict
            <4>3. <<k.path, w.path>> \notin Meeting
                BY <1>3, <1>9, <3>1, <4>1, <4>2 DEF MoreSpecificFirst
            <4> QED BY <1>3, <1>5, <4>1, <4>3, MeetingOrder
        <3>2. \A k \in Pending \cup Excluded : k.path \in Path
            BY <1>3, <1>5
        <3>3. CASE m \in Rest \cup subnets /\ n \in Rest \cup subnets
            BY <1>4, <1>9, <2>4, <3>3 DEF MoreSpecificFirst
        <3>4. CASE m \in Rest \cup subnets /\ n \in Excluded
            BY <1>3, <2>4, <3>1, <3>4
        <3>5. CASE m \in Excluded /\ n \in Rest \cup subnets
            <4>1. <<n.path, m.path>> \notin Meeting
                BY <1>3, <2>4, <3>1, <3>5
            <4> QED BY <1>4, <3>2, <3>5, <4>1, MeetingOrder
        <3>6. CASE m \in Excluded /\ n \in Excluded
            BY <1>3, <2>4, <3>6
        <3> QED BY <1>4, <3>3, <3>4, <3>5, <3>6
    <2>5. \A n \in Pending' : n.path = n.owner => Whole(Inside(n.owner))' \subseteq (Rest \cup subnets)'
        BY <2>1, <2>3 DEF Whole
    <2> QED BY <2>1, <2>2, <2>4, <2>5 DEF MoreSpecificFirst
<1> QED BY <1>6, <1>7, <1>8, <1>9

\* What is put on the stack is not there already.
LEMMA PushedOnStack ==
    ASSUME IInv, mode = "flattened", state = "breaking"
    PROVE  /\ \A kept \in SUBSET (subnets \cup Excluded) : Pushed(stack, kept) = stack \cup kept
           /\ \A parts \in SUBSET Excluded :
                 Pushed(Pushed(stack, subnets), parts) = stack \cup (subnets \cup parts)
<1>1. PICK w \in network : TRUE
    BY DEF IInv, FlattenedInv, LookedAt
<1>2. \A m \in Rest, n \in Excluded : m.path # n.path
    BY ExcludedParts
<1>3. \A m \in subnets, n \in Excluded : m.path # n.path
    BY ExcludedParts
<1>4. \A m \in Rest, n \in subnets : m.path # n.path
    <2> SUFFICES ASSUME NEW m \in Rest, NEW n \in subnets
                 PROVE  m.path # n.path
        OBVIOUS
    <2>1. m \in Pending /\ n \in Pending /\ Before(n, m)
        BY PendingIsList DEF Pending, Rest
    <2>2. m # n
        BY <2>1, PendingIsList, BeforeIsStrict
    <2> QED BY <2>1, <2>2, PathsOfParts
<1>5. stack \subseteq Rest
    BY DEF Rest
<1>6. ASSUME NEW kept \in SUBSET (subnets \cup Excluded)
      PROVE  Pushed(stack, kept) = stack \cup kept
    BY <1>2, <1>4, <1>5, PushedIsUnion
<1>7. ASSUME NEW parts \in SUBSET Excluded
      PROVE  Pushed(Pushed(stack, subnets), parts) = stack \cup (subnets \cup parts)
    <2>1. Pushed(stack, subnets) = stack \cup subnets
        BY <1>6
    <2>2. \A m \in stack \cup subnets, n \in parts : m.path # n.path
        BY <1>2, <1>3, <1>5
    <2>3. Pushed(stack \cup subnets, parts) = (stack \cup subnets) \cup parts
        BY <2>2, PushedIsUnion
    <2> QED BY <2>1, <2>3
<1> QED BY <1>6, <1>7

\* An address of the network is one of a subnet that is more specific, or one of a
\* part of it.
LEMMA ExcludedIsAll ==
    ASSUME IInv, mode = "flattened", state = "breaking", subnets # {}, MoreSpecificFirst,
           NEW w \in network, NEW a \in Address, OnPath(w.path, a),
           a \notin Covered(Inside(w.owner))
    PROVE  \E n \in Excluded : n.owner = w.owner /\ OnPath(n.path, a)
<1> DEFINE others == {n.path : n \in subnets}
<1>1. /\ w \in Pending /\ w.path \in Path /\ w.owner \in Path /\ w.owner \in DOMAIN db
      /\ <<w.path, w.owner>> \in Within
    BY PathsOfParts DEF Pending
<1>2. ASSUME NEW s \in subnets
      PROVE  /\ s \in Pending /\ s.path \in Path /\ s.owner \in Path /\ s.owner \in DOMAIN db
             /\ <<s.path, s.owner>> \in Within
             /\ <<s.path, w.path>> \in Within /\ s.path # w.path
    <2>1. s \in Pending
        BY DEF Pending
    <2>2. <<s.path, w.path>> \in Within /\ Before(w, s)
        BY DEF IInv, FlattenedInv, InFront
    <2>3. s # w
        BY <1>1, <2>1, <2>2, PendingIsList, BeforeIsStrict
    <2> QED BY <1>1, <2>1, <2>2, <2>3, PathsOfParts
<1>3. ASSUME NEW s \in subnets, OnPath(s.path, a) PROVE FALSE
    <2>1. <<s.path, w.path>> \in Meeting /\ <<w.path, s.path>> \in Meeting
        BY <1>1, <1>2, MeetingOrder
    <2>2. s.owner # w.owner
        BY <1>1, <1>2, <2>1 DEF MoreSpecificFirst
    <2>3. <<s.path, w.owner>> \in Within
        BY <1>1, <1>2, WithinOrder
    <2>4. <<s.owner, w.owner>> \in Within \/ <<w.owner, s.owner>> \in Within
        BY <1>1, <1>2, <2>3, MeetingOrder
    <2>5. CASE <<s.owner, w.owner>> \in Within
        <3>1. s.owner \in Inside(w.owner)
            BY <1>2, <2>2, <2>5 DEF Inside
        <3>2. OnPath(s.owner, a)
            BY <1>2, <1>3, OnPathIsWithin, WithinOrder
        <3> QED BY <3>1, <3>2 DEF Covered
    <2>6. CASE <<w.owner, s.owner>> \in Within
        <3>1. w.owner \in Inside(s.owner)
            BY <1>1, <2>2, <2>6 DEF Inside
        <3>2. <<w.owner, s.path>> \in Meeting
            BY <1>1, <1>2, <2>3, MeetingOrder
        <3>3. s.path = s.owner
            BY <1>2, <3>1, <3>2 DEF MoreSpecificFirst
        <3> QED BY <1>1, <1>2, <2>2, <2>3, <2>6, <3>3, WithinOrder
    <2> QED BY <2>4, <2>5, <2>6
<1>4. others \in SUBSET Path /\ \E other \in others : <<other, w.path>> \in Within /\ other # w.path
    BY <1>2
<1>5. \A other \in others : ~OnPath(other, a)
    BY <1>3
<1>6. PICK q \in Remaining(w.path, others) : OnPath(q, a)
    BY <1>1, <1>4, <1>5, RemainingIsAll
<1>7. Part(q, w.owner) \in Excluded
    <2>1. network = {w}
        BY DEF IInv, FlattenedInv, PartsOfNetworks
    <2> DEFINE left == {Part(p, w.owner) : p \in Remaining(w.path, others)}
    <2>2. Excluded = left
        BY <2>1 DEF Excluded
    <2>3. Part(q, w.owner) \in left
        BY <1>6
    <2> HIDE DEF left
    <2> QED BY <2>2, <2>3
<1>8. Part(q, w.owner).owner = w.owner /\ Part(q, w.owner).path = q
    BY DEF Part
<1> QED BY <1>6, <1>7, <1>8

LEMMA BreakKeeps ==
    ASSUME IInv, mode = "flattened", Break
    PROVE  FlattenedInv'
<1>1. /\ state = "breaking" /\ subnets # {} /\ network' = {} /\ subnets' = {} /\ state' = "next"
      /\ unread' = unread /\ start' = start /\ db' = db /\ returned' = returned
      /\ trouble' = trouble /\ outcome' = outcome
      /\ stack' = Pushed(Pushed(stack, subnets), Excluded)
    BY DEF Break, Again, GoOn, Fixed, gap
<1>2. PartsOfNetworks /\ LookedAt
    BY DEF IInv, FlattenedInv
<1>3. stack' = stack \cup (subnets \cup Excluded)
    BY <1>1, PushedOnStack
<1>4. /\ PartsOfNetworks' /\ InFront' /\ ReturnedInFront'
      /\ MoreSpecificFirst => MoreSpecificFirst'
    BY <1>1, <1>3, BreakingKeeps
<1>5. LookedAt'
    BY <1>1, <1>2 DEF LookedAt
<1>6. ASSUME MoreSpecificFirst, NothingLost PROVE NothingLost'
    <2>1. Pending' = Rest \cup subnets \cup Excluded
        BY <1>1, <1>3 DEF Pending, Rest
    <2>2. \A p : Inside(p)' = Inside(p)
        BY <1>1 DEF Inside
    <2>3. ASSUME NEW p \in DOMAIN db, db[p].wanted,
                 NEW a \in Address, OnPath(p, a), a \notin Covered(Inside(p))
          PROVE  \E m \in Pending' \cup Range(returned) : m.owner = p /\ OnPath(m.path, a)
        <3>1. PICK m \in Pending \cup Range(returned) : m.owner = p /\ OnPath(m.path, a)
            BY <1>6, <2>3 DEF NothingLost, Covered
        <3>2. CASE m \in network
            BY <1>1, <1>6, <2>1, <2>3, <3>1, <3>2, ExcludedIsAll
        <3>3. CASE m \notin network
            BY <2>1, <3>1, <3>3 DEF Pending, Rest
        <3> QED BY <3>2, <3>3
    <2>4. ASSUME NEW p \in {q \in DOMAIN db : db[q].wanted}
          PROVE  Covered({p}) \ Covered(Inside(p))
                    \subseteq Covered({n.path : n \in {m \in Pending' \cup Range(returned) : m.owner = p}})
        BY <2>3 DEF Covered
    <2> QED BY <1>1, <2>2, <2>4 DEF NothingLost, Covered
<1> QED BY <1>1, <1>4, <1>5, <1>6, ReturnedStays DEF IInv, FlattenedInv

\* Whatever is lost for want of memory, the others stay in order and disjoint.
LEMMA NoMemoryToBreakKeeps ==
    ASSUME IInv, mode = "flattened", BreakLosesParts \/ BreakNoMemory
    PROVE  FlattenedInv'
<1>1. /\ state = "breaking" /\ subnets # {} /\ network' = {} /\ subnets' = {}
      /\ unread' = unread /\ start' = start /\ db' = db /\ returned' = returned
      /\ state' \in {"next", "idle"} /\ outcome' \in {outcome, "error"}
    BY DEF BreakLosesParts, BreakNoMemory, NoMemory, ReturnError, Fixed, gap
<1>2. PartsOfNetworks /\ LookedAt
    BY DEF IInv, FlattenedInv
<1>3. LookedAt'
    BY <1>1, <1>2 DEF LookedAt
<1>4. ASSUME NEW kept \in SUBSET (subnets \cup Excluded), stack' = stack \cup kept,
             trouble' # {}, trouble \subseteq trouble',
             kept = {} \/ subnets \subseteq kept \/ "merge" \in trouble'
      PROVE  FlattenedInv'
    <2>1. /\ PartsOfNetworks' /\ InFront' /\ ReturnedInFront'
          /\ MoreSpecificFirst /\ (kept = {} \/ subnets \subseteq kept) => MoreSpecificFirst'
        BY <1>1, <1>4, BreakingKeeps
    <2> QED BY <1>1, <1>3, <1>4, <2>1, ReturnedStays DEF IInv, FlattenedInv
<1>5. CASE BreakLosesParts
    <2>1. /\ trouble' = trouble \cup {"memory"}
          /\ \E parts \in SUBSET Excluded : stack' = Pushed(Pushed(stack, subnets), parts)
        BY <1>5 DEF BreakLosesParts
    <2>2. PICK parts \in SUBSET Excluded : stack' = stack \cup (subnets \cup parts)
        BY <1>1, <2>1, PushedOnStack
    <2> QED BY <1>4, <2>1, <2>2
<1>6. CASE BreakNoMemory
    <2>1. CASE stack' = stack /\ trouble' = trouble \cup {"memory"}
        <3>1. {} \in SUBSET (subnets \cup Excluded) /\ stack' = stack \cup {}
            BY <2>1
        <3> QED BY <1>4, <2>1, <3>1
    <2>2. CASE /\ stack' \in {Pushed(stack, subnets \cup begun) : begun \in Begun(Excluded)}
               /\ trouble' = trouble \cup {"memory"}
        <3>1. PICK begun \in SUBSET Excluded : stack' = Pushed(stack, subnets \cup begun)
            BY <2>2 DEF Begun
        <3>2. stack' = stack \cup (subnets \cup begun)
            BY <1>1, <3>1, PushedOnStack
        <3> QED BY <1>4, <2>2, <3>2
    <2>3. CASE /\ stack' \in {Pushed(stack, begun) : begun \in Begun(subnets)}
               /\ trouble' = trouble \cup {"merge"}
        <3>1. PICK begun \in SUBSET subnets : stack' = Pushed(stack, begun)
            BY <2>3 DEF Begun
        <3>2. stack' = stack \cup begun
            BY <1>1, <3>1, PushedOnStack
        <3> QED BY <1>4, <2>3, <3>2
    <2> QED BY <1>6, <2>1, <2>2, <2>3 DEF BreakNoMemory, NoMemory, ReturnError
<1> QED BY <1>5, <1>6

-----------------------------------------------------------------------------
(* Every step of a flattened listing *)

LEMMA InitInv == Init => IInv
<1> SUFFICES ASSUME Init PROVE IInv
    OBVIOUS
<1>1. /\ db \in Databases /\ unread = Whole(DOMAIN db) /\ stack = {} /\ network = {} /\ subnets = {}
      /\ returned = <<>> /\ trouble = {} /\ state = "idle" /\ outcome = "none" /\ start = NoAddress
    BY DEF Init
<1>2. /\ returned \in Seq([path : Path, owner : Path]) /\ DOMAIN returned = {} /\ Range(returned) = {}
    <2>1. Len(returned) = 0 /\ returned \in Seq([path : Path, owner : Path])
        BY <1>1, EmptySeq
    <2>2. DOMAIN returned = {}
        BY <2>1, LenProperties
    <2> QED BY <2>1, <2>2 DEF Range
<1>3. /\ DOMAIN db \subseteq Path /\ Pending = unread /\ Rest = unread
      /\ \A n \in unread : n.path \in DOMAIN db /\ n.owner = n.path /\ n = Part(n.path, n.owner)
      /\ \A p \in DOMAIN db : Part(p, p) \in unread /\ Part(p, p).path = p /\ Part(p, p).owner = p
    BY <1>1, DatabasesAssumption DEF Pending, Rest, Whole, Part
<1>4. PartsOfNetworks
    BY <1>1, <1>2, <1>3, WithinOrder DEF PartsOfNetworks
<1>5. InFront /\ LookedAt /\ ReturnedInFront
    BY <1>1, <1>2 DEF InFront, LookedAt, ReturnedInFront
<1>6. MoreSpecificFirst
    <2>1. \A n \in Pending : n.path = n.owner
        BY <1>3
    <2>2. \A m, n \in Pending : m.owner = n.owner => m = n
        BY <1>3
    <2>3. ASSUME NEW n \in Pending PROVE Whole(Inside(n.owner)) \subseteq Rest \cup subnets
        BY <1>3 DEF Whole, Inside
    <2> QED BY <2>1, <2>2, <2>3 DEF MoreSpecificFirst
<1>7. ReturnedRight
    BY <1>2 DEF ReturnedRight
<1>8. NothingLost
    BY <1>3 DEF NothingLost, Covered
<1> QED BY <1>1, <1>2, <1>4, <1>5, <1>6, <1>7, <1>8 DEF IInv, FlattenedInv

\* A call begins, or nothing happens.
LEMMA CallingKeeps ==
    ASSUME IInv, mode = "flattened", NextNetwork \/ UNCHANGED vars
    PROVE  FlattenedInv'
<1>1. /\ db' = db /\ unread' = unread /\ stack' = stack /\ network' = network
      /\ subnets' = subnets /\ start' = start /\ returned' = returned /\ trouble' = trouble
      /\ outcome' = outcome
      /\ state' = state \/ (state = "idle" /\ outcome # "end" /\ state' = "next")
    BY DEF NextNetwork, gap, vars
<1>2. PartsOfNetworks /\ InFront /\ LookedAt /\ ReturnedInFront
    BY DEF IInv, FlattenedInv
<1>3. Pending' = Pending /\ Rest' = Rest /\ \A p : Inside(p)' = Inside(p)
    BY <1>1 DEF Pending, Rest, Inside
<1>4. LookedAt'
    BY <1>1, <1>2, <1>3 DEF LookedAt
<1>5. PartsOfNetworks'
    BY <1>1, <1>2, <1>3 DEF PartsOfNetworks, Wanted
<1>6. InFront'
    BY <1>1, <1>2, <1>3 DEF InFront, Before
<1>7. ReturnedInFront'
    BY <1>1, <1>2, <1>3 DEF ReturnedInFront
<1>8. MoreSpecificFirst => MoreSpecificFirst'
    BY <1>1, <1>3 DEF MoreSpecificFirst, Whole
<1>9. NothingLost => NothingLost'
    BY <1>1, <1>3, NothingIsDropped
<1> QED BY <1>1, <1>4, <1>5, <1>6, <1>7, <1>8, <1>9, ReturnedStays DEF IInv, FlattenedInv

LEMMA NextKeeps == IInv /\ [Next]_vars => IInv'
<1> SUFFICES ASSUME IInv, [Next]_vars PROVE IInv'
    OBVIOUS
<1>1. db' = db /\ mode' = mode
    BY DEF Next, Step, vars, Fixed, NextNetwork, Flatten, Collect, ReturnWhole, Break, Again,
           PopBogon, SkipNetwork, PassNetwork, GapEnds, SummarizeTurn, SummarizeRefused,
           SummaryIsLost, Finish, FinishIPv6, FinishIPv4, FlattenNoMemory, CollectNoMemory,
           CollectCrashes, BreakLosesParts, BreakNoMemory, ReadNoMemory, SummarizeNoMemory
<1>2. CASE mode # "flattened"
    BY <1>1, <1>2 DEF IInv, FlattenedInv
<1>3. CASE mode = "flattened"
    <2>1. LookedAt
        BY <1>3 DEF IInv, FlattenedInv
    <2>2. CASE ReturnWhole
        BY <1>1, <1>3, <2>2, ReturnWholeKeeps DEF IInv
    <2>3. CASE UNCHANGED vars \/ NextNetwork \/ Flatten \/ Collect \/ Break
        <3>1. FlattenedInv'
            BY <1>3, <2>3, CallingKeeps, FlattenKeeps, CollectKeeps, BreakKeeps
        <3>2. returned' = returned
            BY <2>3 DEF vars, NextNetwork, Flatten, Collect, Break, Again, GoOn, ReturnEnd
        <3> QED BY <1>1, <1>3, <3>1, <3>2 DEF IInv
    <2>4. CASE \/ FlattenNoMemory \/ CollectNoMemory \/ CollectCrashes
               \/ BreakLosesParts \/ BreakNoMemory
        <3>1. FlattenedInv'
            BY <1>3, <2>4, NoMemoryToReadKeeps, CrashKeeps, NoMemoryToBreakKeeps
        <3>2. returned' = returned
            BY <2>4 DEF FlattenNoMemory, CollectNoMemory, CollectCrashes, BreakLosesParts,
                        BreakNoMemory, NoMemory, ReturnError
        <3> QED BY <1>1, <1>3, <3>1, <3>2 DEF IInv
    <2>5. CASE \/ PopBogon \/ SkipNetwork \/ PassNetwork \/ GapEnds \/ SummarizeTurn
               \/ SummarizeRefused \/ Finish \/ FinishIPv6 \/ FinishIPv4 \/ ReadNoMemory
               \/ SummarizeNoMemory
        BY <2>1, <2>5 DEF LookedAt, PopBogon, SkipNetwork, PassNetwork, GapEnds, SummarizeTurn,
               SummarizeRefused, SummarizeNoMemory, Finish, FinishIPv6, FinishIPv4,
               ReadNoMemory, Reading
    <2> QED BY <2>2, <2>3, <2>4, <2>5 DEF Next, Step
<1> QED BY <1>2, <1>3

-----------------------------------------------------------------------------
(* The theorems about flattened listings *)

\* Of what a flattened listing has on its stack, in the database and under its eyes,
\* each is a part of one network of the database, they are in order, those inside
\* the others are still to come, and no address of a network that matches is lost
\* without a failed allocation.  So it is after every call that failed, and until the
\* process ends in one that reads ahead without memory.
THEOREM FlattenedInvariant == Spec => []FlattenedInv
<1>1. Spec => []IInv
    BY InitInv, NextKeeps, PTL DEF Spec
<1>2. IInv => FlattenedInv
    BY DEF IInv
<1> QED BY <1>1, <1>2, PTL

LEMMA InvGivesLongestMatch == IInv => FlattenedIsLongestMatch
<1> SUFFICES ASSUME IInv, mode = "flattened", NEW n \in Answer
             PROVE  /\ \A m \in Former : Less(Upto[m.path], From[n.path])
                    /\ "merge" \notin trouble =>
                          /\ Wanted(n) /\ <<n.path, n.owner>> \in Within
                          /\ \A p \in DOMAIN db \ {n.owner} :
                                <<p, n.owner>> \in Within => <<p, n.path>> \notin Meeting
    BY DEF FlattenedIsLongestMatch
<1>1. /\ n \in Range(returned) /\ n = Last(returned)
    BY DEF Answer
<1>2. PartsOfNetworks /\ ReturnedInFront /\ returned \in Seq([path : Path, owner : Path])
    BY DEF IInv, FlattenedInv
<1>3. Len(returned) \in Nat /\ DOMAIN returned = 1..Len(returned)
    BY <1>2, LenProperties
<1>4. Len(returned) \in 1..Len(returned)
    <2>1. \E i \in DOMAIN returned : TRUE
        BY <1>1 DEF Range
    <2> QED BY <1>3, <2>1
<1>5. n = returned[Len(returned)]
    BY <1>1 DEF Last
<1>6. ASSUME NEW m \in Former PROVE Apart(m.path, n.path)
    <2>1. PICK i \in 1..(Len(returned) - 1) : m = returned[i]
        BY DEF Former
    <2>2. i \in 1..Len(returned) /\ i < Len(returned)
        BY <1>3, <2>1
    <2> QED BY <1>2, <1>3, <1>4, <1>5, <2>1, <2>2 DEF ReturnedInFront
<1>7. <<n.path, n.owner>> \in Within
    BY <1>1, <1>2 DEF PartsOfNetworks
<1>8. "merge" \notin trouble => ReturnedRight
    BY DEF IInv, FlattenedInv
<1> QED BY <1>1, <1>6, <1>7, <1>8 DEF Apart, ReturnedRight, Inside

\* A flattened listing of any database gives each address at most once, in order,
\* and with the attributes of its most specific network, even after calls that
\* failed.
THEOREM FlattenedIsRight == Spec => []FlattenedIsLongestMatch
<1>1. Spec => []IInv
    BY InitInv, NextKeeps, PTL DEF Spec
<1> QED BY <1>1, InvGivesLongestMatch, PTL

LEMMA InvGivesComplete == IInv => FlattenedIsComplete
<1> SUFFICES ASSUME IInv, mode = "flattened", outcome = "end", trouble = {}
             PROVE  {a \in Address : \E p \in LongestMatch(DOMAIN db, a) : db[p].wanted}
                        = Covered(ReturnedPaths)
    BY DEF FlattenedIsComplete
<1>1. /\ Pending = {} /\ NothingLost /\ ReturnedRight
      /\ returned \in Seq([path : Path, owner : Path])
    BY DEF IInv, FlattenedInv, LookedAt
<1>2. ReturnedPaths = {n.path : n \in Range(returned)}
    BY <1>1, LenProperties DEF ReturnedPaths, Range
<1>3. /\ DOMAIN db \subseteq Path
      /\ \A n \in Range(returned) : /\ n.path \in Path /\ n.owner \in Path /\ n.owner \in DOMAIN db
                                    /\ <<n.path, n.owner>> \in Within
    BY PathsOfParts
<1>4. ASSUME NEW a \in Address, NEW p \in LongestMatch(DOMAIN db, a), db[p].wanted
      PROVE  \E n \in Range(returned) : OnPath(n.path, a)
    <2>1. /\ p \in DOMAIN db /\ p \in Path /\ OnPath(p, a)
          /\ \A q \in DOMAIN db : OnPath(q, a) => Len(q) <= Len(p)
        BY <1>3 DEF LongestMatch
    <2>2. ASSUME NEW q \in Inside(p), OnPath(q, a) PROVE FALSE
        <3>1. q \in DOMAIN db /\ q \in Path /\ q # p /\ Leads(p, q)
            BY <1>3, <2>1, WithinIsLeads DEF Inside
        <3>2. Len(p) \in Nat /\ Len(q) \in Nat /\ Len(p) < Len(q)
            BY <2>1, <3>1, LeadsByChild, PathType
        <3> QED BY <2>1, <2>2, <3>1, <3>2
    <2>3. a \in Covered({p}) \ Covered(Inside(p))
        BY <2>1, <2>2 DEF Covered
    <2>4. Covered({p}) \ Covered(Inside(p))
            \subseteq Covered({n.path : n \in {m \in Range(returned) : m.owner = p}})
        BY <1>1, <1>4, <2>1 DEF NothingLost
    <2> QED BY <2>3, <2>4 DEF Covered
<1>5. ASSUME NEW a \in Address, NEW n \in Range(returned), OnPath(n.path, a)
      PROVE  \E p \in LongestMatch(DOMAIN db, a) : db[p].wanted
    <2>1. /\ n.path \in Path /\ n.owner \in Path /\ n.owner \in DOMAIN db /\ db[n.owner].wanted
          /\ <<n.path, n.owner>> \in Within /\ a \in Path
        BY <1>1, <1>3, AddressIsPath DEF ReturnedRight, Wanted
    <2>2. <<a, n.path>> \in Within /\ <<a, n.owner>> \in Within /\ OnPath(n.owner, a)
        BY <1>5, <2>1, OnPathIsWithin, WithinOrder
    <2>3. ASSUME NEW q \in DOMAIN db, OnPath(q, a) PROVE Len(q) <= Len(n.owner)
        <3>1. q \in Path /\ <<a, q>> \in Within
            BY <1>3, <2>3, OnPathIsWithin
        <3>2. <<q, n.path>> \in Meeting
            BY <2>1, <2>2, <3>1, MeetingOrder
        <3>3. q \notin Inside(n.owner)
            BY <1>1, <3>2 DEF ReturnedRight
        <3>4. q = n.owner \/ <<q, n.owner>> \notin Within
            BY <2>3, <3>3 DEF Inside
        <3>5. <<q, n.owner>> \in Within \/ <<n.owner, q>> \in Within
            BY <2>1, <2>2, <3>1, MeetingOrder
        <3>6. Leads(q, n.owner)
            BY <2>1, <3>1, <3>4, <3>5, WithinIsLeads, LeadsToItself
        <3> QED BY <3>6 DEF Leads
    <2>4. n.owner \in LongestMatch(DOMAIN db, a)
        BY <2>1, <2>2, <2>3 DEF LongestMatch
    <2> QED BY <2>1, <2>4
<1>6. Covered(ReturnedPaths) = {a \in Address : \E n \in Range(returned) : OnPath(n.path, a)}
    BY <1>2 DEF Covered
<1> QED BY <1>4, <1>5, <1>6

\* When the end of a flattened listing is reached and no call failed, the addresses
\* that were listed are exactly those whose most specific network matches.
THEOREM FlattenedIsWhole == Spec => []FlattenedIsComplete
<1>1. Spec => []IInv
    BY InitInv, NextKeeps, PTL DEF Spec
<1> QED BY <1>1, InvGivesComplete, PTL

-----------------------------------------------------------------------------
(* The ends of the families, and addresses beyond the IPv4 range *)

\* The first bit of the IPv4 range that is set
LEMMA LeadingZero ==
    /\ LeadingZeroes \in Nat /\ LeadingZeroes < V4Len /\ LeadingZeroes + 1 \in 1..V4Len
    /\ V4Prefix[LeadingZeroes + 1] = 1
    /\ \A i \in 1..V4Len : i <= LeadingZeroes => V4Prefix[i] = 0
<1> DEFINE S == {i \in 1..V4Len : V4Prefix[i] = 1}
<1>1. /\ W \in Nat /\ V4Len \in Nat /\ V4Len < W /\ V4Len \in S
      /\ \A i \in 1..V4Len : V4Prefix[i] \in Bit /\ i \in 1..W
    BY SignificantBits
<1>2. S \in SUBSET (1..W) /\ S # {}
    BY <1>1
<1>3. Min(S) \in S /\ \A i \in S : Min(S) <= i
    BY <1>2, MinOf
<1>4. LeadingZeroes = Min(S) - 1
    BY DEF LeadingZeroes
<1> HIDE DEF S
<1>5. Min(S) \in 1..V4Len /\ V4Prefix[Min(S)] = 1
    BY <1>3 DEF S
<1>6. /\ LeadingZeroes \in Nat /\ LeadingZeroes < V4Len /\ LeadingZeroes + 1 = Min(S)
      /\ LeadingZeroes < Min(S)
    BY <1>1, <1>4, <1>5
<1>7. ASSUME NEW i \in 1..V4Len, i <= LeadingZeroes PROVE V4Prefix[i] = 0
    <2>1. ~(Min(S) <= i)
        BY <1>1, <1>5, <1>6, <1>7
    <2>2. i \notin S
        BY <1>3, <2>1
    <2> QED BY <1>1, <2>2 DEF S, Bit
<1> QED BY <1>5, <1>6, <1>7

Edge == [i \in 1..W |-> IF i < LeadingZeroes THEN 0 ELSE 1]

LEMMA BeyondIs ==
    /\ Edge \in Address
    /\ \A a \in Address : Beyond(a) <=> LeadingZeroes > 1 /\ ~Less(a, Edge)
    /\ \A a, b \in Address : Beyond(a) /\ ~Less(b, a) => Beyond(b)
    /\ \A a \in Address : Beyond(a) => ~V4Mapped(a) /\ ~IsAllZeroes(a)
    /\ ~V4Mapped(AllZeroes) /\ AllZeroes \in Address
<1>1. Edge \in Address
    BY DEF Edge, Address, Bit
<1>2. \A a \in Address : Beyond(a) <=> LeadingZeroes > 1 /\ ~Less(a, Edge)
    BY DEF Beyond, Edge
<1>3. ASSUME NEW a \in Address, NEW b \in Address, Beyond(a), ~Less(b, a) PROVE Beyond(b)
    BY <1>1, <1>2, <1>3, NotLess
<1>4. ~V4Mapped(AllZeroes) /\ AllZeroes \in Address
    BY SignificantBits DEF V4Mapped, AllZeroes, Address, Bit
<1>5. /\ LeadingZeroes \in Nat /\ LeadingZeroes < V4Len /\ V4Len < W /\ W \in Nat /\ V4Len \in Nat
      /\ \A i \in 1..V4Len : i <= LeadingZeroes => V4Prefix[i] = 0
    BY LeadingZero, SignificantBits
<1>6. ASSUME NEW a \in Address, Beyond(a), \A i \in 1..LeadingZeroes : a[i] = 0 PROVE FALSE
    <2>1. LeadingZeroes > 1 /\ ~Less(a, Edge)
        BY <1>2, <1>6
    <2>2. LeadingZeroes \in 1..W /\ LeadingZeroes \in 1..LeadingZeroes
        BY <1>5, <2>1
    <2>3. a[LeadingZeroes] = 0 /\ Edge[LeadingZeroes] = 1
        BY <1>5, <1>6, <2>2 DEF Edge
    <2>4. \A j \in 1..(LeadingZeroes - 1) : j \in 1..LeadingZeroes /\ j \in 1..W /\ j < LeadingZeroes
        BY <1>5
    <2>5. \A j \in 1..(LeadingZeroes - 1) : a[j] = Edge[j]
        BY <1>6, <2>4 DEF Edge
    <2>6. a[LeadingZeroes] < Edge[LeadingZeroes]
        BY <2>3
    <2> HIDE DEF Edge
    <2> QED BY <2>1, <2>2, <2>5, <2>6, Zenon DEF Less
<1>7. ASSUME NEW a \in Address, Beyond(a), V4Mapped(a) PROVE FALSE
    <2>1. \A i \in 1..LeadingZeroes : i \in 1..V4Len /\ i <= LeadingZeroes
        BY <1>5
    <2>2. \A i \in 1..LeadingZeroes : a[i] = 0
        BY <1>5, <1>7, <2>1 DEF V4Mapped
    <2> QED BY <1>6, <1>7, <2>2
<1>8. ASSUME NEW a \in Address, Beyond(a), IsAllZeroes(a) PROVE FALSE
    <2>1. Significant(a) = 1..W
        BY <1>7, <1>8, SignificantBits
    <2>2. \A i \in 1..W : a[i] = 0
        BY <1>8, <2>1 DEF IsAllZeroes, Ones, Address, Bit
    <2>3. \A i \in 1..LeadingZeroes : i \in 1..W
        BY <1>5
    <2> QED BY <1>6, <1>8, <2>2, <2>3
<1> QED BY <1>1, <1>2, <1>3, <1>4, <1>7, <1>8

\* The ends of the families
LEMMA EndsOfFamilies ==
    ASSUME NEW f \in Families
    PROVE  /\ FirstOf[f] \in AddressesOf(f) /\ IsAllZeroes(FirstOf[f])
           /\ FirstOf["IPv6"] = AllZeroes
           /\ \A a \in AddressesOf(f) : ~Less(a, FirstOf[f]) /\ (IsAllZeroes(a) => a = FirstOf[f])
           /\ f = "IPv4" \/ LeadingZeroes > 1 =>
                 /\ LastOf[f] \in AddressesOf(f) /\ IsAllOnes(LastOf[f])
                 /\ \A a \in AddressesOf(f) : ~Less(LastOf[f], a)
           /\ f = "IPv6" /\ LeadingZeroes > 1 => Beyond(LastOf[f])
<1>1. /\ W \in Nat /\ V4Len \in Nat /\ 0 < V4Len /\ V4Len < W
      /\ \A i \in 1..V4Len : V4Prefix[i] \in Bit /\ i \in 1..W
    BY SignificantBits
<1> DEFINE first == FirstOf[f]
           last == LastOf[f]
<1>2. CASE f = "IPv4"
    <2>1. /\ first = [i \in 1..W |-> IF i <= V4Len THEN V4Prefix[i] ELSE 0]
          /\ last = [i \in 1..W |-> IF i <= V4Len THEN V4Prefix[i] ELSE 1]
        BY <1>2 DEF FirstOf, LastOf, FirstAddress, LastAddress, V4Len
    <2> HIDE DEF first, last
    <2>2. \A i \in 1..W : i <= V4Len => i \in 1..V4Len
        BY <1>1
    <2>3. \A i \in 1..V4Len : i \in 1..W /\ i <= V4Len
        BY <1>1
    <2>4. first \in Address /\ last \in Address
        BY <1>1, <2>1, <2>2 DEF Address, Bit
    <2>5. V4Mapped(first) /\ V4Mapped(last)
        BY <2>1, <2>3 DEF V4Mapped
    <2>6. \A i \in Significant(first) : i \in 1..W /\ ~(i <= V4Len)
        BY <1>1, <2>5, SignificantBits
    <2>7. IsAllZeroes(first)
        <3>1. \A i \in Significant(first) : first[i] = 0
            BY <2>1, <2>6
        <3> QED BY <3>1 DEF IsAllZeroes, Ones
    <2>8. \A i \in Significant(last) : i \in 1..W /\ ~(i <= V4Len)
        BY <1>1, <2>5, SignificantBits
    <2>9. IsAllOnes(last)
        BY <2>1, <2>8 DEF IsAllOnes, Zeroes, Ones
    <2>10. first \in AddressesOf(f) /\ last \in AddressesOf(f)
        BY <1>2, <2>4, <2>5 DEF AddressesOf
    <2>11. ASSUME NEW a \in AddressesOf(f)
           PROVE  ~Less(a, first) /\ (IsAllZeroes(a) => a = first) /\ ~Less(last, a)
        <3>1. a \in Address /\ V4Mapped(a)
            BY <1>2 DEF AddressesOf
        <3> QED BY <2>4, <2>5, <2>7, <2>9, <3>1, AllZeroesIsFirst, AllOnesIsLast
    <2>12. FirstOf["IPv6"] = AllZeroes
        BY <1>1 DEF FirstOf, FirstAddress, AllZeroes, Families
    <2> QED BY <1>2, <2>7, <2>9, <2>10, <2>11, <2>12 DEF first, last
<1>3. CASE f = "IPv6"
    <2>1. /\ first = AllZeroes
          /\ last = [i \in 1..W |-> 1]
        BY <1>1, <1>3 DEF FirstOf, LastOf, FirstAddress, LastAddress, AllZeroes
    <2> HIDE DEF first, last
    <2>2. first \in Address /\ last \in Address /\ ~V4Mapped(first)
        BY <2>1, BeyondIs DEF Address, Bit
    <2>3. IsAllZeroes(first)
        BY <2>1, <2>2, SignificantBits DEF IsAllZeroes, Ones, AllZeroes
    <2>4. ASSUME NEW a \in AddressesOf(f) PROVE a \in Address /\ ~V4Mapped(a)
        BY <1>3 DEF AddressesOf
    <2>5. \A a \in AddressesOf(f) : ~Less(a, first) /\ (IsAllZeroes(a) => a = first)
        BY <2>2, <2>3, <2>4, AllZeroesIsFirst
    <2>6. ASSUME LeadingZeroes > 1
          PROVE  ~V4Mapped(last) /\ IsAllOnes(last) /\ Beyond(last)
        <3>1. 1 \in 1..V4Len /\ 1 \in 1..W /\ 1 <= LeadingZeroes
            BY <1>1, <2>6, LeadingZero
        <3>2. V4Prefix[1] = 0 /\ last[1] = 1
            BY <2>1, <3>1, LeadingZero
        <3>3. ~V4Mapped(last)
            BY <3>1, <3>2 DEF V4Mapped
        <3>4. IsAllOnes(last)
            BY <2>1, <3>3, SignificantBits DEF IsAllOnes, Zeroes, Ones
        <3>5. ASSUME Less(last, Edge) PROVE FALSE
            <4>1. PICK i \in 1..W : last[i] < Edge[i]
                BY <3>5 DEF Less
            <4> QED BY <2>1, <4>1, BeyondIs DEF Address, Bit
        <3> QED BY <2>2, <2>6, <3>3, <3>4, <3>5, BeyondIs
    <2>7. LeadingZeroes > 1 => \A a \in AddressesOf(f) : ~Less(last, a)
        BY <2>2, <2>4, <2>6, AllOnesIsLast
    <2>8. first \in AddressesOf(f) /\ (LeadingZeroes > 1 => last \in AddressesOf(f))
        BY <1>3, <2>2, <2>6 DEF AddressesOf
    <2> QED BY <1>3, <2>1, <2>3, <2>5, <2>6, <2>7, <2>8 DEF first, last
<1> QED BY <1>2, <1>3 DEF Families

\* The address behind one of a family is in that family.
LEMMA BehindInFamily ==
    ASSUME NEW f \in Families, NEW a \in AddressesOf(f), f = "IPv6" => Beyond(a)
    PROVE  /\ Increment(a) \in AddressesOf(f) /\ ~Less(Increment(a), a)
           /\ ~IsAllZeroes(Increment(a))
           /\ f = "IPv6" => Beyond(Increment(a))
           /\ IsAllOnes(a) => Increment(a) = a
           /\ ~IsAllOnes(a) => \A b \in Address : Less(b, Increment(a)) <=> ~Less(a, b)
<1>1. a \in Address /\ (V4Mapped(a) <=> f = "IPv4")
    BY DEF AddressesOf
<1>2. Increment(a) \in Address /\ ~Less(Increment(a), a)
    BY <1>1, IncrementType
<1>3. f = "IPv6" => Beyond(Increment(a))
    BY <1>1, <1>2, BeyondIs
<1>4. V4Mapped(Increment(a)) <=> f = "IPv4"
    <2>1. CASE f = "IPv4"
        BY <1>1, <2>1, IncrementMapped
    <2>2. CASE f = "IPv6"
        BY <1>2, <1>3, <2>2, BeyondIs
    <2> QED BY <2>1, <2>2 DEF Families
<1>5. IsAllOnes(a) => Increment(a) = a
    BY DEF Increment
<1>6. ~IsAllOnes(a) => \A b \in Address : Less(b, Increment(a)) <=> ~Less(a, b)
    BY <1>1, IncrementIsNext
<1>7. ~IsAllZeroes(Increment(a))
    <2>1. Significant(Increment(a)) = Significant(a)
        BY <1>1, <1>4 DEF Significant
    <2>2. CASE IsAllOnes(a)
        <3>1. W \in Significant(a)
            BY SignificantBits
        <3>2. W \in Ones(a)
            BY <2>2, <3>1 DEF IsAllOnes, Zeroes
        <3> QED BY <1>5, <2>2, <3>2 DEF IsAllZeroes
    <2>3. CASE ~IsAllOnes(a)
        <3>1. PICK c \in Zeroes(a) : c \in Significant(a) /\ Increment(a)[c] = 1
            BY <1>1, <2>3, IncrementBits
        <3> QED BY <2>1, <3>1 DEF IsAllZeroes, Ones
    <2> QED BY <2>2, <2>3
<1>8. Increment(a) \in AddressesOf(f)
    BY <1>2, <1>4 DEF AddressesOf
<1> QED BY <1>2, <1>3, <1>5, <1>6, <1>7, <1>8

\* What is announced, of a database without networks near the IPv4 range: its ends
\* are in one family, and what is behind it, too.
LEMMA AnnouncedIs ==
    ASSUME db \in Databases, ~NearV4, NEW f \in Families, NEW p \in Announced(f)
    PROVE  /\ p \in DOMAIN db /\ p \in Path /\ Family(p) = f /\ db[p].wanted /\ db[p].country
           /\ From[p] = FirstAddress(p) /\ Upto[p] = LastAddress(p) /\ Behind[p] = Increment(Upto[p])
           /\ From[p] \in AddressesOf(f) /\ Upto[p] \in AddressesOf(f) /\ ~Less(Upto[p], From[p])
           /\ f = "IPv6" => LeadingZeroes > 1 /\ Beyond(From[p]) /\ Beyond(Upto[p])
           /\ ~IsAllZeroes(From[p]) =>
                 /\ Decrement(From[p]) \in AddressesOf(f)
                 /\ f = "IPv6" => Beyond(Decrement(From[p]))
                 /\ \A a \in Address : Less(Decrement(From[p]), a) <=> ~Less(a, From[p])
<1>1. /\ p \in DOMAIN db /\ p \in Path /\ Family(p) = f /\ db[p].wanted /\ db[p].country
      /\ DOMAIN db \subseteq Path /\ ~SpansV4(p)
    BY DatabasesAssumption DEF Announced
<1>2. From[p] = FirstAddress(p) /\ Upto[p] = LastAddress(p) /\ Behind[p] = Increment(Upto[p])
    BY <1>1 DEF From, Upto, Behind
<1> DEFINE a == FirstAddress(p)
           b == LastAddress(p)
<1>3. a \in Address /\ b \in Address /\ Leads(p, a) /\ Leads(p, b)
    BY <1>1, LeadsToEnds
<1>4. ~Less(b, a)
    BY <1>1, <1>3, MatchesIsLeads DEF MatchesAddress
<1>5. (V4Mapped(a) <=> f = "IPv4") /\ (IsV4(p) <=> f = "IPv4")
    BY <1>1 DEF Family, IsV4
<1>6. a = [i \in 1..W |-> IF i <= Len(p) THEN p[i] ELSE 0] /\ \A i \in 1..W : i <= Len(p) => b[i] = p[i]
    BY DEF FirstAddress, LastAddress
<1> HIDE DEF a, b
<1>7. ASSUME f = "IPv4" PROVE V4Mapped(b)
    <2>1. V4Len <= Len(p) /\ \A i \in 1..V4Len : p[i] = V4Prefix[i]
        BY <1>1, <1>5, <1>7, V4IsInside
    <2>2. \A i \in 1..V4Len : i \in 1..W /\ i <= Len(p)
        BY <1>1, <2>1, SignificantBits, PathType
    <2> QED BY <1>6, <2>1, <2>2 DEF V4Mapped
<1>8. ASSUME f = "IPv6" PROVE LeadingZeroes > 1 /\ Less(Edge, a)
    <2>1. PICK i \in 1..(LeadingZeroes - 1) : a[i] # 0
        BY <1>1, <1>2, <1>5, <1>8, Zenon DEF NearV4, a, Families
    <2>2. /\ LeadingZeroes \in Nat /\ W \in Nat /\ LeadingZeroes < V4Len /\ V4Len < W
          /\ V4Len \in Nat /\ i \in 1..W /\ i \in Nat
        BY <2>1, LeadingZero, SignificantBits
    <2> DEFINE S == {j \in 1..W : a[j] = 1}
    <2>3. i \in S /\ S \in SUBSET (1..W)
        BY <1>3, <2>1, <2>2 DEF Address, Bit
    <2>4. Min(S) \in S /\ \A j \in S : Min(S) <= j
        BY <2>3, MinOf
    <2>5. PICK m \in S : \A j \in S : m <= j
        BY <2>4
    <2>6. m \in 1..W /\ a[m] = 1 /\ m <= i /\ m \in Nat /\ m < LeadingZeroes
        BY <2>1, <2>2, <2>3, <2>5
    <2>7. Edge[m] = 0
        BY <2>6 DEF Edge
    <2>8. \A j \in 1..(m - 1) : j \in 1..W /\ ~(m <= j) /\ j < LeadingZeroes
        BY <2>2, <2>6
    <2>9. \A j \in 1..(m - 1) : j \notin S
        BY <2>5, <2>8
    <2>10. \A j \in 1..(m - 1) : a[j] = 0 /\ Edge[j] = 0
        BY <1>3, <2>8, <2>9 DEF Address, Bit, Edge
    <2>11. Edge[m] < a[m] /\ \A j \in 1..(m - 1) : Edge[j] = a[j]
        BY <2>6, <2>7, <2>10
    <2>12. Less(Edge, a)
        BY <2>6, <2>11, Zenon DEF Less
    <2> QED BY <2>1, <2>2, <2>12
<1>9. ASSUME f = "IPv6" PROVE Beyond(a) /\ Beyond(b)
    <2>1. ~Less(a, Edge)
        BY <1>3, <1>8, <1>9, BeyondIs, AddressIsPath, LessIsLeft, LeftOneWay
    <2>2. Beyond(a)
        BY <1>3, <1>8, <1>9, <2>1, BeyondIs
    <2> QED BY <1>3, <1>4, <2>2, BeyondIs
<1>10. a \in AddressesOf(f) /\ b \in AddressesOf(f)
    <2>1. V4Mapped(b) <=> f = "IPv4"
        BY <1>3, <1>7, <1>9, BeyondIs DEF Families
    <2> QED BY <1>3, <1>5, <2>1 DEF AddressesOf
<1>11. ASSUME ~IsAllZeroes(a)
       PROVE  /\ Decrement(a) \in AddressesOf(f)
              /\ f = "IPv6" => Beyond(Decrement(a))
              /\ \A c \in Address : Less(Decrement(a), c) <=> ~Less(c, a)
    <2> DEFINE d == Decrement(a)
    <2>1. /\ d \in Address /\ (V4Mapped(a) => V4Mapped(d))
          /\ \A c \in Address : Less(d, c) <=> ~Less(c, a)
        <3>1. ~BecomesMapped(a)
            <4>1. f = "IPv4" => V4Mapped(a)
                BY <1>5
            <4>2. ASSUME f = "IPv6", BecomesMapped(a) PROVE FALSE
                <5>1. PICK i \in 1..(LeadingZeroes - 1) : a[i] # 0
                    BY <1>1, <1>2, <1>5, <4>2, Zenon DEF NearV4, a, Families
                <5>2. i \in 1..V4Len /\ i \in 1..W /\ i \in Nat /\ V4Prefix[i] = 0
                    BY <5>1, LeadingZero, SignificantBits
                <5>3. a[i] = 0
                    BY <4>2, <5>2 DEF BecomesMapped
                <5> QED BY <5>1, <5>3
            <4> QED BY <4>1, <4>2 DEF BecomesMapped, Families
        <3> QED BY <1>3, <1>11, <3>1, DecrementIsPrevious
    <2> HIDE DEF d
    <2>2. f = "IPv6" => Beyond(d)
        BY <1>8, <2>1, BeyondIs
    <2>3. V4Mapped(d) <=> f = "IPv4"
        BY <1>5, <2>1, <2>2, BeyondIs DEF Families
    <2>4. d \in AddressesOf(f)
        BY <2>1, <2>3 DEF AddressesOf
    <2> QED BY <2>1, <2>2, <2>4 DEF d
<1> QED BY <1>1, <1>2, <1>4, <1>8, <1>9, <1>10, <1>11 DEF a, b

\* The first network from the first address on fills the block of the IPv4 range.
LEMMA FirstFits ==
    ASSUME NEW e \in Address, Beyond(e), NEW p \in Fitting(AllZeroes, e)
    PROVE  Beyond(LastAddress(p))
<1>1. /\ W \in Nat /\ V4Len \in Nat /\ V4Len < W /\ LeadingZeroes \in Nat
      /\ LeadingZeroes < V4Len /\ LeadingZeroes > 1
      /\ AllZeroes \in Address /\ ~V4Mapped(AllZeroes) /\ ~V4Mapped(e) /\ ~Less(e, Edge)
    BY LeadingZero, SignificantBits, BeyondIs
<1> DEFINE m == LeadingZeroes - 1
           d == Difference(e, AllZeroes)
           y == Increment(d)
<1>2. m \in Nat /\ m \in 0..W /\ 1 <= m /\ OneFamily(AllZeroes, e)
    <2>1. OneFamily(AllZeroes, e)
        <3>1. V4Mapped(AllZeroes) \in BOOLEAN /\ V4Mapped(e) \in BOOLEAN
            BY DEF V4Mapped
        <3> QED BY <1>1, <3>1, Zenon DEF OneFamily
    <2> QED BY <1>1, <2>1
<1>3. FamilyBits(AllZeroes) = W /\ AlignedBits(AllZeroes) = W
    <2>1. IsAllZeroes(AllZeroes)
        BY <1>1, SignificantBits DEF IsAllZeroes, Ones, AllZeroes
    <2> QED BY <1>1, <2>1, SignificantBits DEF AlignedBits
<1>4. d = e
    <2>1. 0 \in 0..W
        BY <1>1
    <2>2. \A j \in 1..W : j > 0 => AllZeroes[j] = 0 /\ j \in Significant(AllZeroes)
        BY <1>1, SignificantBits DEF AllZeroes
    <2>3. \A j \in 1..W : j <= 0 => e[j] = AllZeroes[j]
        BY <1>1
    <2>4. \A i \in 1..W : (i > 0 => d[i] = e[i])
        BY <1>1, <1>2, <2>1, <2>2, <2>3, SmallDifference
    <2>5. d \in Address
        BY <1>1, <1>2, DifferenceType
    <2> HIDE DEF d
    <2>6. \A i \in 1..W : i > 0
        BY <1>1
    <2>7. d = [i \in 1..W |-> d[i]] /\ e = [i \in 1..W |-> e[i]]
        BY <2>5 DEF Address
    <2> QED BY <2>4, <2>6, <2>7
<1> HIDE DEF d
<1>5. y \in Address /\ \E i \in Ones(y) : i <= m
    <2>1. CASE IsAllOnes(d)
        <3>1. y = e /\ IsAllOnes(e)
            BY <1>4, <2>1 DEF Increment
        <3>2. 1 \in Significant(e)
            BY <1>1, SignificantBits
        <3>3. 1 \in Ones(e)
            BY <3>1, <3>2 DEF IsAllOnes, Zeroes
        <3> QED BY <1>2, <3>1, <3>3
    <2>2. CASE ~IsAllOnes(d)
        <3>1. y \in Address /\ Less(Edge, y)
            BY <1>1, <1>4, <2>2, BeyondIs, IncrementIsNext, IncrementType
        <3> HIDE DEF y
        <3>2. PICK i \in 1..W : Edge[i] < y[i]
            BY <3>1 DEF Less
        <3>3. y[i] = 1 /\ Edge[i] = 0
            BY <3>1, <3>2, BeyondIs DEF Address, Bit
        <3>4. i \in Nat /\ i <= m
            BY <1>1, <3>3 DEF Edge
        <3>5. ~V4Mapped(y)
            <4>1. ~Less(y, Edge)
                BY <3>1, BeyondIs, AddressIsPath, LessIsLeft, LeftOneWay
            <4> QED BY <1>1, <3>1, <4>1, BeyondIs
        <3>6. i \in Ones(y)
            BY <3>3, <3>5, SignificantBits DEF Ones
        <3> QED BY <3>1, <3>4, <3>6
    <2> QED BY <2>1, <2>2
<1>6. \A n \in CountBits(AllZeroes, e) : n = BitLength(y) - 1
    BY DEF CountBits, d, y
<1> HIDE DEF y
<1>7. BitLength(y) > W - m /\ BitLength(y) \in 0..W
    BY <1>2, <1>5, BitLengthIs, BitLengthType
<1>8. PICK bits \in 0..W : /\ W - bits \in 0..W /\ p = Masked(AllZeroes, W - bits) /\ Len(p) = W - bits
                           /\ \E n \in CountBits(AllZeroes, e) :
                                 bits = AlignedBits(AllZeroes) \/ bits = n
    BY <1>1, FittingIs
<1>9. bits >= W - m
    BY <1>1, <1>2, <1>3, <1>6, <1>7, <1>8
<1>10. Len(p) \in Nat /\ Len(p) <= m
    BY <1>1, <1>2, <1>8, <1>9
<1>11. p \in Path /\ \A i \in 1..Len(p) : p[i] = 0
    <2>1. p \in Path /\ \A i \in 1..(W - bits) : p[i] = AllZeroes[i] /\ i \in 1..W
        BY <1>1, <1>8, MaskedPath
    <2> QED BY <1>8, <2>1 DEF AllZeroes
<1> DEFINE u == LastAddress(p)
<1>12. u \in Address /\ \A i \in 1..W : i > Len(p) => u[i] = 1
    BY <1>11, LeadsToEnds, EndBits
<1> HIDE DEF u
<1>13. ASSUME Less(u, Edge) PROVE FALSE
    <2>1. PICK i \in 1..W : u[i] < Edge[i]
        BY <1>13 DEF Less
    <2>2. u[i] = 0 /\ Edge[i] = 1
        BY <1>12, <2>1, BeyondIs DEF Address, Bit
    <2>3. ~(i > Len(p)) /\ ~(i < LeadingZeroes)
        BY <1>12, <2>2 DEF Edge
    <2> QED BY <1>1, <1>10, <2>3
<1> QED BY <1>1, <1>12, <1>13, BeyondIs DEF u

-----------------------------------------------------------------------------
(* The inductive invariant of the bogons *)

GapsInv ==
    /\ db \in Databases /\ ~NearV4
    /\ returned \in Seq([path : Path, owner : Path])
    /\ Progress /\ GapInHand /\ GapStarts /\ NetworksPassed
    /\ BogonsInFront /\ BogonsOutside /\ SettledInFront

BInv ==
    /\ db \in Databases
    /\ mode = "bogons" /\ trouble = {} /\ ~NearV4 => GapsInv

\* A network of one address has none inside it.
LEMMA OneAddress ==
    ASSUME NEW p \in Path, NEW q \in Path, From[q] = Upto[q], <<p, q>> \in Within
    PROVE  p = q
<1>1. Leads(q, p) /\ FirstAddress(q) = LastAddress(q)
    BY WithinIsLeads DEF From, Upto
<1>2. W \in 1..W /\ W \in Nat /\ Len(p) \in Nat /\ Len(q) \in Nat /\ Len(p) <= W
    BY SignificantBits, PathType, WidthAssumption
<1>3. ~(W > Len(q))
    BY <1>1, <1>2, EndBits
<1> QED BY <1>1, <1>2, <1>3, LeadsByChild

\* The networks of the database stay what they are.
LEMMA SameDatabase ==
    ASSUME db' = db
    PROVE  /\ (NearV4' <=> NearV4)
           /\ \A f : Announced(f)' = Announced(f) /\ Noticed(f)' = Noticed(f)
           /\ Bogons' = Bogons => \A f : Settled(f)' = Settled(f)
           /\ Bogons \subseteq Bogons' => \A f : Settled(f) \subseteq Settled(f)'
<1>1. \A f : Announced(f)' = Announced(f)
    BY DEF Announced
<1>2. \A f : Unnoticed(f)' = Unnoticed(f)
    BY <1>1 DEF Unnoticed
<1>3. \A f : Noticed(f)' = Noticed(f)
    BY <1>1, <1>2 DEF Noticed
<1>4. NearV4' <=> NearV4
    BY DEF NearV4
<1>5. Bogons' = Bogons => \A f : Settled(f)' = Settled(f)
    BY <1>1 DEF Settled
<1>6. Bogons \subseteq Bogons' => \A f : Settled(f) \subseteq Settled(f)'
    BY <1>1 DEF Settled, Covered
<1> QED BY <1>1, <1>3, <1>4, <1>5, <1>6

\* A gap of at most one family is looked for.
LEMMA InHandIs ==
    ASSUME Progress, \A f \in Families : \A p \in Announced(f) : p \in Path /\ Family(p) = f
    PROVE  /\ InHand \subseteq Families /\ \A f, g \in InHand : f = g
           /\ state \in {"idle", "bogon"} => InHand = {} /\ network = {}
           /\ state \in Families => InHand = {state} /\ network = {} /\ unread = {}
           /\ state = "gap" => \E f \in Families : \E p \in Announced(f) :
                 /\ network = {Part(p, p)} /\ Part(p, p).path = p /\ Part(p, p).owner = p
                 /\ InHand = {f} /\ Family(p) = f
           /\ state \in {"idle", "bogon", "gap"} \cup Families
           /\ state \in {"idle", "bogon"} => state \notin Families
           /\ "gap" \notin Families
<1>1. state \notin Families <=> state \in {"idle", "bogon", "gap"}
    BY DEF Progress, Families
<1>2. state # "gap" <=> network = {}
    BY DEF Progress
<1>3. ASSUME state \in Families PROVE InHand = {state} /\ network = {} /\ unread = {}
    BY <1>2, <1>3 DEF InHand, Progress, Families
<1>4. ASSUME state \in {"idle", "bogon"} PROVE InHand = {} /\ network = {}
    BY <1>2, <1>4 DEF InHand, Families
<1>5. ASSUME state = "gap"
      PROVE  \E f \in Families : \E p \in Announced(f) :
                 /\ network = {Part(p, p)} /\ Part(p, p).path = p /\ Part(p, p).owner = p
                 /\ InHand = {f} /\ Family(p) = f
    <2>1. PICK n \in network : network = {n}
        BY <1>2, <1>5 DEF Progress
    <2>2. PICK f \in Families : n \in Whole(Announced(f))
        BY <2>1 DEF Progress
    <2>3. PICK p \in Announced(f) : n = Part(p, p)
        BY <2>2 DEF Whole
    <2>4. Part(p, p).path = p /\ Part(p, p).owner = p
        BY DEF Part
    <2>5. Family(p) = f
        OBVIOUS
    <2>6. InHand = {f}
        BY <1>5, <2>1, <2>3, <2>4, <2>5 DEF InHand, Families
    <2> QED BY <2>1, <2>3, <2>4, <2>5, <2>6
<1> QED BY <1>1, <1>3, <1>4, <1>5 DEF InHand, Families

LEMMA AnnouncedPaths ==
    ASSUME db \in Databases
    PROVE  /\ DOMAIN db \subseteq Path
           /\ \A f \in Families : \A p \in Announced(f) : p \in Path /\ Family(p) = f
BY DatabasesAssumption DEF Announced

-----------------------------------------------------------------------------
(* Calling, and returning a bogon *)

\* The next network is the first that matches, or there is none left.
LEMMA ReadIsFirst ==
    ASSUME GapsInv, Reading, NEW taken, taken = Taken("on")
    PROVE  /\ \A n \in taken.network :
                 /\ n \in unread /\ taken.network = {n} /\ n = Part(n.path, n.path)
                 /\ n.path \in DOMAIN db /\ n.path \in Path /\ n.owner = n.path /\ db[n.path].wanted
                 /\ taken.unread \subseteq unread
                 /\ \A m \in taken.unread : Before(n, m)
                 /\ \A m \in unread : Wanted(m) => m = n \/ (Before(n, m) /\ m \in taken.unread)
           /\ taken.network = {} => \A m \in unread : ~Wanted(m)
<1> DEFINE listed == Passing(unread, "on")
<1>1. /\ unread \subseteq Whole(DOMAIN db) /\ DOMAIN db \subseteq Path /\ stack = {}
    BY AnnouncedPaths DEF GapsInv, Progress, Reading
<1>2. \A n \in unread : /\ n = Part(n.path, n.path) /\ n.path \in DOMAIN db /\ n.path \in Path
                        /\ n.owner = n.path
    BY <1>1 DEF Whole, Part
<1>3. IsList(unread) /\ listed = {n \in unread : Wanted(n)} /\ Passing(stack, "on") = {}
    BY <1>1, <1>2 DEF IsList, Passing
<1>4. CASE listed # {}
    <2> DEFINE n == Least(listed)
    <2>1. IsList(listed)
        BY <1>3 DEF IsList
    <2>2. n \in listed /\ \A m \in listed : m = n \/ Before(n, m)
        BY <1>4, <2>1, LeastIsFirst
    <2>3. taken = [network |-> {n}, stack |-> {}, unread |-> After(n, unread)]
        BY <1>3, <1>4 DEF Taken
    <2> HIDE DEF n, listed
    <2>4. After(n, unread) = {m \in unread : Before(n, m)}
        BY DEF After
    <2>5. n \in unread /\ Wanted(n)
        BY <1>3, <2>2
    <2>6. db[n.path].wanted
        BY <1>2, <2>5 DEF Wanted
    <2>7. \A m \in unread : Wanted(m) => m = n \/ (Before(n, m) /\ m \in taken.unread)
        BY <1>3, <2>2, <2>3, <2>4
    <2> QED BY <1>2, <2>3, <2>4, <2>5, <2>6, <2>7
<1>5. CASE listed = {}
    <2>1. taken = [network |-> {}, stack |-> {}, unread |-> {}]
        BY <1>3, <1>5 DEF Taken
    <2> QED BY <1>3, <1>5, <2>1
<1> QED BY <1>4, <1>5

\* Between two calls and before the first network is read, no gap is in hand.
LEMMA AtRest ==
    ASSUME GapsInv, state \in {"idle", "bogon"}
    PROVE  InHand = {} /\ network = {} /\ start = NoAddress
<1>1. InHand = {} /\ network = {}
    BY AnnouncedPaths, InHandIs DEF GapsInv
<1>2. start = NoAddress
    BY DEF GapsInv, GapInHand, Families
<1> QED BY <1>1, <1>2

\* Where no gap is in hand and no bogon is found, most of it stays.
LEMMA RestKeeps ==
    ASSUME GapsInv, state \in {"idle", "bogon"}, state' \in {"idle", "bogon"},
           db' = db, unread' = unread, network' = network, start' = start, gap_end' = gap_end,
           gap_start' = gap_start, Bogons' = Bogons
    PROVE  /\ GapInHand' /\ GapStarts' /\ NetworksPassed' /\ BogonsOutside' /\ SettledInFront'
           /\ InHand' = {} /\ \A f : Finished(f)' = Finished(f)
           /\ \A n \in Bogons : LET f == Family(n.path) IN
                 /\ f \in InHand' /\ start' # NoAddress => Less(Upto[n.path], start')
                 /\ f \in InHand' /\ start' = NoAddress =>
                       \A m \in network' : Less(Upto[n.path], From[m.path])
                 /\ f \notin InHand' => Less(Upto[n.path], gap_start'[f]) \/ Finished(f)'
<1>1. InHand = {} /\ network = {} /\ start = NoAddress
    BY AtRest
<1>2. InHand' = {}
    BY <1>1 DEF InHand, Families
<1>3. /\ \A f : Announced(f)' = Announced(f) /\ Noticed(f)' = Noticed(f)
      /\ \A f : Settled(f)' = Settled(f)
    BY SameDatabase
<1>4. \A f : Finished(f)' = Finished(f)
    BY DEF Finished
<1>5. GapInHand'
    BY <1>1 DEF GapInHand
<1>6. GapStarts'
    BY <1>3 DEF GapsInv, GapStarts
<1>7. NetworksPassed'
    BY <1>3, <1>4 DEF GapsInv, NetworksPassed
<1>8. BogonsOutside'
    BY <1>3 DEF GapsInv, BogonsOutside
<1>9. SettledInFront'
    BY <1>1, <1>2, <1>3 DEF GapsInv, SettledInFront, Families
<1>10. ASSUME NEW n \in Bogons, NEW f, f = Family(n.path)
       PROVE  Less(Upto[n.path], gap_start[f]) \/ Finished(f)
    BY <1>1, <1>10 DEF GapsInv, BogonsInFront
<1>11. \A n \in Bogons : Less(Upto[n.path], gap_start'[Family(n.path)]) \/ Finished(Family(n.path))'
    BY <1>4, <1>10
<1> QED BY <1>2, <1>4, <1>5, <1>6, <1>7, <1>8, <1>9, <1>11

LEMMA CallKeepsGaps ==
    ASSUME GapsInv, NextNetwork \/ UNCHANGED vars, mode = "bogons"
    PROVE  GapsInv'
<1>1. /\ db' = db /\ unread' = unread /\ stack' = stack /\ network' = network /\ mode' = mode
      /\ gap_start' = gap_start /\ gap_end' = gap_end /\ start' = start /\ returned' = returned
      /\ outcome' = outcome
      /\ state' = state \/ (state = "idle" /\ outcome # "end" /\ state' = "bogon")
    BY DEF NextNetwork, gap, vars
<1>2. CASE UNCHANGED vars
    <2>1. /\ Bogons' = Bogons /\ InHand' = InHand /\ \A f : Finished(f)' = Finished(f)
          /\ state' = state
        BY <1>1, <1>2 DEF Bogons, InHand, Finished, vars
    <2>2. /\ (NearV4' <=> NearV4)
          /\ \A f : Announced(f)' = Announced(f) /\ Noticed(f)' = Noticed(f)
          /\ \A f : Settled(f)' = Settled(f)
        BY <1>1, <2>1, SameDatabase
    <2>3. \A n : Skipped(n)' = Skipped(n)
        BY <1>1 DEF Skipped
    <2>4. Progress'
        BY <1>1, <2>1, <2>2, <2>3 DEF GapsInv, Progress
    <2>5. GapInHand'
        BY <1>1, <2>1, <2>2 DEF GapsInv, GapInHand
    <2>6. GapStarts' /\ NetworksPassed'
        BY <1>1, <2>1, <2>2 DEF GapsInv, GapStarts, NetworksPassed
    <2>7. BogonsInFront'
        BY <1>1, <2>1, <2>2 DEF GapsInv, BogonsInFront
    <2>8. BogonsOutside' /\ SettledInFront'
        BY <1>1, <2>1, <2>2 DEF GapsInv, BogonsOutside, SettledInFront
    <2> QED BY <1>1, <2>2, <2>4, <2>5, <2>6, <2>7, <2>8 DEF GapsInv
<1>3. CASE state = "idle" /\ outcome # "end" /\ state' = "bogon"
    <2>1. Bogons' = Bogons
        BY <1>1 DEF Bogons
    <2>2. /\ GapInHand' /\ GapStarts' /\ NetworksPassed' /\ BogonsOutside' /\ SettledInFront'
          /\ \A n \in Bogons : LET f == Family(n.path) IN
                 /\ f \in InHand' /\ start' # NoAddress => Less(Upto[n.path], start')
                 /\ f \in InHand' /\ start' = NoAddress =>
                       \A m \in network' : Less(Upto[n.path], From[m.path])
                 /\ f \notin InHand' => Less(Upto[n.path], gap_start'[f]) \/ Finished(f)'
        BY <1>1, <1>3, <2>1, RestKeeps
    <2>3. network = {} /\ network' = {}
        BY <1>1, <1>3, AtRest
    <2>4. Progress'
        BY <1>1, <1>3, <2>1, <2>3 DEF GapsInv, Progress, Families
    <2>5. BogonsInFront'
        BY <1>1, <2>1, <2>2 DEF GapsInv, BogonsInFront
    <2> QED BY <1>1, <2>2, <2>4, <2>5, SameDatabase DEF GapsInv
<1> QED BY <1>1, <1>2, <1>3 DEF NextNetwork

\* The first bogon of the stack is the one that is returned.
LEMMA PopKeepsGaps ==
    ASSUME GapsInv, PopBogon
    PROVE  GapsInv'
<1> DEFINE w == Least(stack)
           S == [path : Path, owner : Path]
<1>1. /\ state = "bogon" /\ stack # {} /\ state' = "idle" /\ outcome' = "network"
      /\ stack' = After(w, stack) /\ returned' = Append(returned, w)
      /\ db' = db /\ unread' = unread /\ network' = network
      /\ start' = start /\ gap_start' = gap_start /\ gap_end' = gap_end
    BY DEF PopBogon, ReturnNetwork, Fixed, gap
<1>2. \A n \in Bogons : n = Part(n.path, n.path) /\ n.path \in Path
    BY DEF GapsInv, Progress
<1>3. IsList(stack)
    BY <1>2 DEF IsList, Bogons
<1>4. w \in stack /\ \A m \in stack : m = w \/ Before(w, m)
    BY <1>1, <1>3, LeastIsFirst
<1>5. w \in S
    BY <1>2, <1>4 DEF Bogons, Part
<1> HIDE DEF w
<1>6. /\ returned' \in Seq(S)
      /\ DOMAIN returned = 1..Len(returned) /\ Len(returned) \in Nat
      /\ DOMAIN returned' = 1..(Len(returned) + 1)
      /\ \A i \in 1..Len(returned) : returned'[i] = returned[i]
      /\ returned'[Len(returned) + 1] = w
      /\ Range(returned') = Range(returned) \cup {w}
    <2>1. returned \in Seq(S) /\ w \in S /\ returned' = Append(returned, w)
        BY <1>1, <1>5 DEF GapsInv
    <2> HIDE DEF S
    <2>2. /\ returned' \in Seq(S) /\ Len(returned) \in Nat /\ DOMAIN returned = 1..Len(returned)
          /\ Len(returned') = Len(returned) + 1
          /\ (\A i \in 1..Len(returned) : returned'[i] = returned[i])
          /\ returned'[Len(returned) + 1] = w
        BY <2>1, AppendProperties, LenProperties
    <2>3. DOMAIN returned' = 1..(Len(returned) + 1)
        BY <2>2, LenProperties
    <2>4. 1..(Len(returned) + 1) = (1..Len(returned)) \cup {Len(returned) + 1}
        BY <2>2
    <2>5. Range(returned') = Range(returned) \cup {returned'[Len(returned) + 1]}
        <3>1. DOMAIN returned' = DOMAIN returned \cup {Len(returned) + 1}
            BY <2>2, <2>3, <2>4
        <3>2. \A i \in DOMAIN returned : returned'[i] = returned[i]
            BY <2>2
        <3> QED BY <3>1, <3>2, RangeOfLonger
    <2> QED BY <2>2, <2>3, <2>5, Zenon DEF S
<1> HIDE DEF S
<1>7. stack' \subseteq stack /\ Bogons' = Bogons
    BY <1>1, <1>4, <1>6 DEF Bogons, After
<1>8. /\ GapInHand' /\ GapStarts' /\ NetworksPassed' /\ BogonsOutside' /\ SettledInFront'
      /\ \A f : Finished(f)' = Finished(f)
      /\ \A n \in Bogons : LET f == Family(n.path) IN
             /\ f \in InHand' /\ start' # NoAddress => Less(Upto[n.path], start')
             /\ f \in InHand' /\ start' = NoAddress =>
                   \A m \in network' : Less(Upto[n.path], From[m.path])
             /\ f \notin InHand' => Less(Upto[n.path], gap_start'[f]) \/ Finished(f)'
    BY <1>1, <1>7, RestKeeps
<1>9. network = {}
    BY <1>1, AtRest
<1>10. Progress'
    BY <1>1, <1>7, <1>9 DEF GapsInv, Progress, Families
<1>11. BogonsInFront'
    <2>1. ASSUME NEW i \in DOMAIN returned', NEW j \in DOMAIN returned', i < j,
                 Family(returned'[i].path) = Family(returned'[j].path)
          PROVE  Apart(returned'[i].path, returned'[j].path)
        <3>1. i \in Nat /\ j \in Nat /\ i \in 1..Len(returned) /\ returned'[i] = returned[i]
            BY <1>6, <2>1
        <3>2. CASE j \in 1..Len(returned)
            BY <1>6, <2>1, <3>1, <3>2 DEF GapsInv, BogonsInFront
        <3>3. CASE j = Len(returned) + 1
            <4>1. returned[i] \in Range(returned)
                BY <1>6, <3>1 DEF Range
            <4> QED BY <1>4, <1>6, <2>1, <3>1, <3>3, <4>1 DEF GapsInv, BogonsInFront
        <3> QED BY <1>6, <2>1, <3>1, <3>2, <3>3
    <2>2. ASSUME NEW m \in Range(returned'), NEW n \in stack', Family(m.path) = Family(n.path)
          PROVE  Apart(m.path, n.path)
        <3>1. CASE m \in Range(returned)
            BY <1>7, <2>2, <3>1 DEF GapsInv, BogonsInFront
        <3>2. CASE m = w
            <4>1. n \in stack /\ Before(w, n)
                BY <1>1 DEF After
            <4>2. w = n \/ Apart(w.path, n.path) \/ Apart(n.path, w.path)
                BY <1>4, <2>2, <3>2, <4>1 DEF GapsInv, BogonsInFront
            <4>3. w.path \in Path /\ n.path \in Path /\ <<w.path, n.path>> \in Order
                BY <1>3, <1>4, <4>1 DEF IsList, Before
            <4> QED BY <3>2, <4>2, <4>3, ApartOrWithin, OrderIsStrict
        <3> QED BY <1>6, <3>1, <3>2
    <2>3. \A m, n \in stack' : Family(m.path) = Family(n.path) =>
              m = n \/ Apart(m.path, n.path) \/ Apart(n.path, m.path)
        BY <1>7 DEF GapsInv, BogonsInFront
    <2> QED BY <1>7, <1>8, <2>1, <2>2, <2>3 DEF BogonsInFront
<1> QED BY <1>1, <1>6, <1>8, <1>10, <1>11, SameDatabase DEF GapsInv, S

-----------------------------------------------------------------------------
(* Reading the networks *)

\* Of two networks that are announced, one of which is inside the other, the outer one
\* is noticed.
LEMMA OuterIsNoticed ==
    ASSUME db \in Databases, NEW f \in Families, NEW p \in Announced(f),
           NEW q \in Announced(f), q # p, <<p, q>> \in Within
    PROVE  q \in Noticed(f) /\ p \in Path /\ q \in Path /\ <<q, p>> \in Order
<1>1. p \in Path /\ q \in Path
    BY AnnouncedPaths
<1>2. From[q] # Upto[q]
    BY <1>1, OneAddress
<1> QED BY <1>1, <1>2, WithinOrder DEF Noticed, Unnoticed

\* The ends of a network inside another one
LEMMA EndsInside ==
    ASSUME NEW p \in Path, NEW q \in Path, <<p, q>> \in Within
    PROVE  /\ Upto[p] \in Address /\ Upto[q] \in Address /\ From[p] \in Address /\ From[q] \in Address
           /\ ~Less(Upto[q], Upto[p]) /\ ~Less(From[p], From[q])
<1>1. Leads(q, p)
    BY WithinIsLeads
<1>2. /\ Upto[p] = LastAddress(p) /\ Upto[q] = LastAddress(q)
      /\ From[p] = FirstAddress(p) /\ From[q] = FirstAddress(q)
    BY DEF Upto, From
<1> QED BY <1>1, <1>2, LeadsToEnds, EndsOfLeads, LessIsLeft

\* A network that is read starts where the gap does, or behind, unless it is inside of
\* what is in front of the gap.
LEMMA ReadFromGap ==
    ASSUME GapsInv, NEW f \in Families, NEW p \in Announced(f), Part(p, p) \in unread
    PROVE  /\ gap_start[f] \in AddressesOf(f)
           /\ \/ ~Less(From[p], gap_start[f])
              \/ ~IsAllZeroes(gap_start[f]) /\ (Less(Upto[p], gap_start[f]) \/ IsAllOnes(gap_start[f]))
           /\ \/ gap_start[f] = FirstOf[f]
              \/ ~IsAllZeroes(gap_start[f]) /\ (Less(Upto[p], gap_start[f]) \/ IsAllOnes(gap_start[f]))
              \/ \E q \in Announced(f) : Apart(q, p) /\ gap_start[f] = Behind[q]
<1> DEFINE gs == gap_start[f]
<1>1. /\ gs \in AddressesOf(f) /\ gs \in Address
      /\ db \in Databases /\ ~NearV4 /\ From[p] \in AddressesOf(f) /\ From[p] \in Address
      /\ Upto[p] \in Address /\ p \in Path /\ ~Less(Upto[p], From[p])
    BY AnnouncedIs DEF GapsInv, GapStarts, AddressesOf
<1>2. CASE gs = FirstOf[f]
    BY <1>1, <1>2, EndsOfFamilies
<1>3. CASE gs # FirstOf[f]
    <2>1. PICK q \in Announced(f) : gs = Behind[q] /\ \A n \in unread \cup network : <<q, n.path>> \in Order
        BY <1>3 DEF GapsInv, GapStarts
    <2>2. <<q, p>> \in Order /\ q \in Path
        BY <1>1, <2>1, AnnouncedIs DEF Part
    <2>3. /\ Upto[q] \in AddressesOf(f) /\ Upto[q] \in Address /\ (f = "IPv6" => Beyond(Upto[q]))
          /\ gs = Increment(Upto[q])
        BY <1>1, <2>1, AnnouncedIs DEF AddressesOf
    <2>4. /\ ~IsAllZeroes(gs) /\ (IsAllOnes(Upto[q]) => gs = Upto[q])
          /\ ~IsAllOnes(Upto[q]) => \A b \in Address : Less(b, gs) <=> ~Less(Upto[q], b)
        BY <2>3, BehindInFamily
    <2> HIDE DEF gs
    <2>5. CASE IsAllOnes(Upto[q])
        <3>1. IsAllOnes(gs)
            BY <2>4, <2>5
        <3> QED BY <1>1, <2>4, <3>1 DEF gs
    <2>6. CASE ~IsAllOnes(Upto[q]) /\ Apart(q, p)
        <3>1. Less(Upto[q], From[p])
            BY <2>6 DEF Apart
        <3>2. ~Less(From[p], gs)
            BY <1>1, <2>4, <2>6, <3>1
        <3> QED BY <1>1, <2>1, <2>6, <3>2 DEF gs
    <2>7. CASE ~IsAllOnes(Upto[q]) /\ <<p, q>> \in Within
        <3>1. ~Less(Upto[q], Upto[p])
            BY <1>1, <2>2, <2>7, EndsInside
        <3>2. Less(Upto[p], gs)
            BY <1>1, <2>4, <2>7, <3>1
        <3> QED BY <1>1, <2>4, <3>2 DEF gs
    <2> QED BY <1>1, <2>2, <2>5, <2>6, <2>7, ApartOrWithin
<1> QED BY <1>2, <1>3

\* A network that is skipped for what it has in front of the gap is in front of it, if
\* it is noticed.
LEMMA SkippedIsPassed ==
    ASSUME GapsInv, network = {}, NEW f \in Families, NEW p \in Noticed(f),
           Part(p, p) \in unread, ~Less(gap_start[f], Upto[p]),
           \A m \in unread : Wanted(m) => m = Part(p, p) \/ Before(Part(p, p), m)
    PROVE  /\ ~IsAllZeroes(gap_start[f])
           /\ Less(Upto[p], gap_start[f]) \/ IsAllOnes(gap_start[f])
<1> DEFINE gs == gap_start[f]
<1>1. SUFFICES ASSUME ~(/\ ~IsAllZeroes(gs)
                        /\ Less(Upto[p], gs) \/ IsAllOnes(gs))
               PROVE  FALSE
    OBVIOUS
<1>2. p \in Announced(f) /\ db \in Databases /\ ~NearV4
    BY DEF Noticed, GapsInv
<1>3. /\ gs \in AddressesOf(f)
      /\ ~Less(From[p], gs)
      /\ gs = FirstOf[f] \/ \E q \in Announced(f) : Apart(q, p) /\ gs = Behind[q]
    BY <1>1, <1>2, ReadFromGap
<1>4. /\ gs \in Address /\ From[p] \in Address /\ Upto[p] \in Address /\ ~Less(Upto[p], From[p])
      /\ From[p] \in AddressesOf(f) /\ Upto[p] \in AddressesOf(f) /\ p \in Path
    BY <1>2, <1>3, AnnouncedIs DEF AddressesOf
<1>5. ~Less(Upto[p], gs)
    <2>1. CASE gs = FirstOf[f]
        BY <1>4, <2>1, EndsOfFamilies
    <2>2. CASE gs # FirstOf[f]
        <3>1. ~IsAllZeroes(gs)
            BY <1>3, <2>2, EndsOfFamilies
        <3> QED BY <1>1, <3>1
    <2> QED BY <2>1, <2>2
<1>6. Upto[p] = gs /\ From[p] = gs
    BY <1>3, <1>4, <1>5, AddressesInOrder
<1>7. PICK q \in Announced(f) \ {p} : <<p, q>> \in Within
    <2>1. p \notin Unnoticed(f)
        BY DEF Noticed
    <2> QED BY <1>2, <1>3, <1>6, <2>1, Zenon DEF Unnoticed
<1>8. q \in Noticed(f) /\ <<q, p>> \in Order /\ q \in Path /\ q # p
    BY <1>2, <1>7, OuterIsNoticed
<1>9. Part(q, q) \notin unread
    <2>1. db[q].wanted /\ Part(q, q).owner = q /\ Part(q, q).path = q /\ Part(p, p).path = p
        BY <1>2, <1>7, AnnouncedIs DEF Part
    <2>2. Wanted(Part(q, q))
        BY <2>1 DEF Wanted
    <2>3. Part(q, q) # Part(p, p) /\ ~Before(Part(p, p), Part(q, q))
        BY <1>4, <1>8, <2>1, OrderIsStrict DEF Before
    <2> QED BY <2>2, <2>3
<1>10. ~IsAllZeroes(gs) /\ (Less(Upto[q], gs) \/ IsAllOnes(gs))
    BY <1>8, <1>9 DEF GapsInv, NetworksPassed, Finished
<1>11. ~Less(Upto[q], Upto[p])
    BY <1>4, <1>7, <1>8, EndsInside
<1> QED BY <1>1, <1>6, <1>10, <1>11

LEMMA SkipKeepsGaps ==
    ASSUME GapsInv, SkipNetwork
    PROVE  GapsInv'
<1> DEFINE taken == Taken("on")
<1>1. /\ state = "bogon" /\ Reading /\ stack' = stack /\ network' = network
      /\ gap_start' = gap_start /\ gap_end' = gap_end /\ start' = start /\ db' = db
      /\ state' = "bogon" /\ outcome' = outcome /\ returned' = returned /\ unread' = taken.unread
    BY DEF SkipNetwork, Reading, GoOn, Fixed, gap
<1>2. PICK n \in taken.network : Skipped(n)
    BY DEF SkipNetwork
<1> DEFINE p == n.path
<1>3. /\ n \in unread /\ n = Part(p, p) /\ p \in DOMAIN db /\ p \in Path /\ n.owner = p /\ db[p].wanted
      /\ unread' \subseteq unread
      /\ \A m \in unread : Wanted(m) => m = n \/ (Before(n, m) /\ m \in unread')
    BY <1>1, <1>2, ReadIsFirst
<1>4. InHand = {} /\ network = {} /\ start = NoAddress
    BY <1>1, AtRest
<1>5. InHand' = {} /\ Bogons' = Bogons
    BY <1>1, <1>4 DEF InHand, Families, Bogons
<1>6. /\ (NearV4' <=> NearV4)
      /\ \A f : Announced(f)' = Announced(f) /\ Noticed(f)' = Noticed(f)
      /\ \A f : Settled(f)' = Settled(f)
    BY <1>1, <1>5, SameDatabase
<1>7. \A f : ~Finished(f)
    BY <1>3 DEF Finished
<1> HIDE DEF p, taken
<1>8. Progress'
    BY <1>1, <1>3, <1>4, <1>5 DEF GapsInv, Progress, Families
<1>9. GapInHand'
    BY <1>1, <1>4 DEF GapInHand
<1>10. GapStarts'
    BY <1>1, <1>3, <1>6 DEF GapsInv, GapStarts
<1>11. NetworksPassed'
    <2>1. ASSUME NEW f \in Families, NEW q \in Noticed(f)
          PROVE  \/ Part(q, q) \in unread'
                 \/ ~IsAllZeroes(gap_start[f]) /\ (Less(Upto[q], gap_start[f]) \/ IsAllOnes(gap_start[f]))
        <3>1. CASE Part(q, q) \in unread
            <4>1. q \in Announced(f) /\ db \in Databases /\ ~NearV4
                BY DEF Noticed, GapsInv
            <4>2. db[q].wanted /\ db[q].country /\ Family(q) = f /\ Part(q, q).owner = q
                BY <4>1, AnnouncedIs DEF Part
            <4>3. Part(q, q) = n \/ Part(q, q) \in unread'
                BY <1>3, <3>1, <4>2 DEF Wanted
            <4>4. CASE Part(q, q) = n
                <5>1. p = q
                    BY <4>4 DEF Part, p
                <5>2. ~Less(gap_start[f], Upto[q])
                    BY <1>2, <1>3, <4>2, <5>1 DEF Skipped, p
                <5>3. \A m \in unread : Wanted(m) => m = Part(q, q) \/ Before(Part(q, q), m)
                    BY <1>3, <4>4
                <5> QED BY <1>4, <3>1, <5>2, <5>3, SkippedIsPassed
            <4> QED BY <4>3, <4>4
        <3>2. CASE Part(q, q) \notin unread
            BY <1>4, <1>7, <3>2 DEF GapsInv, NetworksPassed
        <3> QED BY <3>1, <3>2
    <2> QED BY <1>1, <1>6, <2>1 DEF NetworksPassed
<1>12. BogonsInFront'
    <2>1. \A m \in Bogons : Less(Upto[m.path], gap_start[Family(m.path)])
        BY <1>4, <1>7 DEF GapsInv, BogonsInFront
    <2> QED BY <1>1, <1>5, <2>1 DEF GapsInv, BogonsInFront
<1>13. BogonsOutside'
    BY <1>5, <1>6 DEF GapsInv, BogonsOutside
<1>14. SettledInFront'
    BY <1>1, <1>4, <1>5, <1>6 DEF GapsInv, SettledInFront, Families
<1> QED BY <1>1, <1>6, <1>8, <1>9, <1>10, <1>11, <1>12, <1>13, <1>14 DEF GapsInv

LEMMA PassKeepsGaps ==
    ASSUME GapsInv, PassNetwork, trouble = {}, trouble' = {}
    PROVE  GapsInv'
<1> DEFINE taken == Taken("on")
<1>1. /\ state = "bogon" /\ Reading /\ stack' = stack /\ gap_start' = gap_start /\ db' = db
      /\ unread' = taken.unread
    BY DEF PassNetwork, Reading, Fixed
<1>2. PICK n \in taken.network :
          /\ ~Skipped(n)
          /\ SummarizeGap(gap_start[Family(n.path)], Decrement(From[n.path]), "gap")
          /\ network' = {m \in {n} : state' = "gap"}
    BY DEF PassNetwork
<1> DEFINE p == n.path
           f == Family(n.path)
           gs == gap_start[f]
           D == Decrement(From[p])
<1>3. /\ n \in unread /\ n = Part(p, p) /\ p \in DOMAIN db /\ p \in Path /\ n.owner = p /\ db[p].wanted
      /\ unread' \subseteq unread /\ \A m \in unread' : Before(n, m)
      /\ \A m \in unread : Wanted(m) => m = n \/ (Before(n, m) /\ m \in unread')
    BY <1>1, <1>2, ReadIsFirst
<1>4. /\ f \in Families /\ db[p].country /\ Less(gs, Upto[p]) /\ p \in Announced(f)
    BY <1>2, <1>3 DEF Skipped, Announced, Family, Families
<1>5. /\ gap_end' = D /\ state' = "gap" /\ outcome' = outcome /\ returned' = returned
      /\ \/ ValidRange(gs, D) /\ start' = gs
         \/ Less(D, gs) /\ start' = NoAddress
    <2>1. ~ReturnError("refused")
        BY DEF ReturnError
    <2> QED BY <1>2, <2>1 DEF SummarizeGap, GoOn
<1>6. network' = {n}
    BY <1>2, <1>5
<1> HIDE DEF taken
<1>7. /\ db \in Databases /\ ~NearV4
      /\ gs \in AddressesOf(f) /\ gs \in Address
      /\ From[p] \in AddressesOf(f) /\ From[p] \in Address /\ Upto[p] \in Address
      /\ Upto[p] \in AddressesOf(f) /\ ~Less(Upto[p], From[p])
      /\ f = "IPv6" => (gs = AllZeroes \/ Beyond(gs)) /\ Beyond(From[p])
      /\ ~IsAllZeroes(From[p]) =>
            /\ D \in AddressesOf(f) /\ D \in Address /\ (f = "IPv6" => Beyond(D))
            /\ \A a \in Address : Less(D, a) <=> ~Less(a, From[p])
    BY <1>4, AnnouncedIs DEF GapsInv, GapStarts, AddressesOf
<1>8. ~IsAllOnes(gs)
    <2>1. V4Mapped(gs) <=> V4Mapped(Upto[p])
        BY <1>7 DEF AddressesOf
    <2> QED BY <1>4, <1>7, <2>1, AllOnesIsLast
<1>9. ~Less(From[p], gs)
    <2>1. ~Less(Upto[p], gs)
        BY <1>4, <1>7, AddressesInOrder
    <2> HIDE DEF f, gs, D, p
    <2> QED BY <1>3, <1>4, <1>8, <2>1, ReadFromGap DEF gs
<1>10. ~IsAllZeroes(From[p])
    <2>1. ASSUME IsAllZeroes(From[p]) PROVE FALSE
        <3>1. D = From[p] /\ From[p] = FirstOf[f]
            BY <1>4, <1>7, <2>1, EndsOfFamilies DEF Decrement
        <3>2. ~Less(gs, D) /\ ~Less(D, gs)
            BY <1>4, <1>7, <1>9, <3>1, EndsOfFamilies
        <3> QED BY <1>5, <3>2 DEF ValidRange
    <2> QED BY <2>1
<1>11. /\ D \in AddressesOf(f) /\ D \in Address /\ (f = "IPv6" => Beyond(D))
       /\ \A a \in Address : Less(D, a) <=> ~Less(a, From[p])
    BY <1>7, <1>10
<1>12. start' # NoAddress => Less(gs, D) /\ start' = gs
    BY <1>5 DEF ValidRange
<1>13. start' = NoAddress => From[p] = gs
    <2>1. ASSUME start' = NoAddress PROVE Less(D, gs)
        BY <1>5, <1>7, <2>1, AddressesInOrder
    <2> QED BY <1>7, <1>9, <1>11, <2>1, AddressesInOrder
<1>14. InHand = {} /\ network = {} /\ start = NoAddress
    BY <1>1, AtRest
<1>15. InHand' = {f} /\ Bogons' = Bogons
    BY <1>1, <1>4, <1>5, <1>6 DEF InHand, Families, Bogons
<1>16. /\ (NearV4' <=> NearV4)
       /\ \A g : Announced(g)' = Announced(g) /\ Noticed(g)' = Noticed(g)
       /\ \A g : Settled(g)' = Settled(g)
    BY <1>1, <1>15, SameDatabase
<1>17. \A g : ~Finished(g)
    BY <1>3 DEF Finished
<1> HIDE DEF p, f, gs, D
<1>18. Progress'
    <2>1. Skipped(n)' = Skipped(n)
        BY <1>1 DEF Skipped
    <2>2. n \in Whole(Announced(f))
        BY <1>3, <1>4 DEF Whole
    <2> QED BY <1>1, <1>2, <1>3, <1>4, <1>5, <1>6, <1>15, <1>16, <2>1, <2>2 DEF GapsInv, Progress, Families
<1>19. ASSUME NEW g \in Families, NEW q \in Noticed(g)
       PROVE  \/ Part(q, q) = n \/ Part(q, q) \in unread'
              \/ ~IsAllZeroes(gap_start[g]) /\ (Less(Upto[q], gap_start[g]) \/ IsAllOnes(gap_start[g]))
    <2>1. q \in Announced(g)
        BY DEF Noticed
    <2>2. db[q].wanted /\ Part(q, q).owner = q
        BY <1>7, <2>1, AnnouncedIs DEF Part
    <2> QED BY <1>3, <1>14, <1>17, <2>2 DEF GapsInv, NetworksPassed, Wanted
<1>20. GapInHand'
    <2>1. ASSUME start' # NoAddress, NEW q \in Noticed(f)
          PROVE  Less(Upto[q], gs) \/ Less(D, From[q])
        <3>1. q \in Announced(f)
            BY DEF Noticed
        <3>2. From[q] \in Address /\ q \in Path
            BY <1>4, <1>7, <3>1, AnnouncedIs DEF AddressesOf
        <3>3. CASE Part(q, q) = n
            <4>1. q = p
                BY <3>3 DEF Part, p
            <4> QED BY <1>7, <1>11, <4>1, AddressesInOrder
        <3>4. CASE Part(q, q) \in unread'
            <4>1. <<p, q>> \in Order
                BY <1>3, <3>4 DEF Before, Part, p
            <4>2. ~Less(From[q], From[p])
                <5>1. NetworkLess(p, q) /\ From[p] = FirstAddress(p) /\ From[q] = FirstAddress(q)
                    BY <4>1 DEF Order, From
                <5> QED BY <1>7, <3>2, <5>1, AddressesInOrder DEF NetworkLess
            <4> QED BY <1>11, <3>2, <4>2
        <3> QED BY <1>4, <1>8, <1>19, <3>3, <3>4 DEF gs
    <2>2. start' # NoAddress => ~Less(D, gs)
        BY <1>7, <1>11, <1>12, AddressesInOrder
    <2>3. \A m \in network' : From[m.path] = From[p] /\ D = Decrement(From[m.path])
        BY <1>6 DEF D, p
    <2>4. AddressesOf(f)' = AddressesOf(f)
        BY DEF AddressesOf
    <2>5. state' # f
        BY <1>4, <1>5 DEF Families
    <2> QED BY <1>5, <1>7, <1>10, <1>11, <1>12, <1>15, <1>16, <2>1, <2>2, <2>3, <2>5 DEF GapInHand
<1>21. GapStarts'
    BY <1>1, <1>3, <1>6, <1>16 DEF GapsInv, GapStarts
<1>22. NetworksPassed'
    BY <1>1, <1>6, <1>16, <1>19 DEF NetworksPassed
<1>23. BogonsInFront'
    <2>1. \A m \in Bogons : Less(Upto[m.path], gap_start[Family(m.path)])
        BY <1>14, <1>17 DEF GapsInv, BogonsInFront
    <2>2. \A m \in network' : From[m.path] = From[p]
        BY <1>6 DEF p
    <2>3. ASSUME NEW m \in Bogons, NEW g, g = Family(m.path)
          PROVE  /\ g \in InHand' /\ start' # NoAddress => Less(Upto[m.path], start')
                 /\ g \in InHand' /\ start' = NoAddress =>
                       \A k \in network' : Less(Upto[m.path], From[k.path])
                 /\ g \notin InHand' => Less(Upto[m.path], gap_start'[g]) \/ Finished(g)'
        BY <1>1, <1>12, <1>13, <1>15, <2>1, <2>2, <2>3 DEF gs
    <2> QED BY <1>1, <1>5, <1>15, <2>3 DEF GapsInv, BogonsInFront
<1>24. BogonsOutside'
    BY <1>15, <1>16 DEF GapsInv, BogonsOutside
<1>25. SettledInFront'
    <2>1. \A m \in network' : From[m.path] = From[p]
        BY <1>6 DEF p
    <2>2. ASSUME NEW g \in Families, NEW a \in Address, a \in AddressesOf(g) \ Settled(g)
          PROVE  ~Less(a, gap_start[g])
        BY <2>2 DEF GapsInv, SettledInFront
    <2>3. state' \notin Families
        BY <1>5 DEF Families
    <2> QED BY <1>1, <1>12, <1>13, <1>15, <1>16, <2>1, <2>2, <2>3 DEF SettledInFront, gs
<1> QED BY <1>1, <1>5, <1>16, <1>18, <1>20, <1>21, <1>22, <1>23, <1>24, <1>25 DEF GapsInv

\* An address that is in front of what is behind a network is in front of the network, or
\* in it.
LEMMA InFrontOfBehind ==
    ASSUME NEW p \in Path, NEW a \in Address, Less(a, Behind[p])
    PROVE  Less(a, From[p]) \/ OnPath(p, a)
<1>1. /\ From[p] = FirstAddress(p) /\ Upto[p] = LastAddress(p) /\ Behind[p] = Increment(Upto[p])
      /\ Upto[p] \in Address
    BY LeadsToEnds DEF From, Upto, Behind
<1>2. ~Less(Upto[p], a)
    <2>1. CASE IsAllOnes(Upto[p])
        BY <1>1, <2>1, AddressesInOrder DEF Increment
    <2>2. CASE ~IsAllOnes(Upto[p])
        BY <1>1, <2>2, IncrementIsNext
    <2> QED BY <2>1, <2>2
<1> QED BY <1>1, <1>2, MatchesIsLeads DEF MatchesAddress

LEMMA GapEndsKeepsGaps ==
    ASSUME GapsInv, GapEnds
    PROVE  GapsInv'
<1>1. /\ state = "gap" /\ start = NoAddress /\ network' = {} /\ unread' = unread /\ stack' = stack
      /\ gap_end' = gap_end /\ start' = start /\ db' = db
      /\ state' = "bogon" /\ outcome' = outcome /\ returned' = returned
    BY DEF GapEnds, GoOn, Fixed
<1>2. PICK f \in Families : \E q \in Announced(f) :
                 /\ network = {Part(q, q)} /\ Part(q, q).path = q /\ Part(q, q).owner = q
                 /\ InHand = {f} /\ Family(q) = f
    BY <1>1, AnnouncedPaths, InHandIs DEF GapsInv
<1>3. PICK p \in Announced(f) :
                 /\ network = {Part(p, p)} /\ Part(p, p).path = p /\ Part(p, p).owner = p
                 /\ InHand = {f} /\ Family(p) = f
    BY <1>2
<1> DEFINE n == Part(p, p)
           gs == gap_start[f]
<1>4. gap_start' = [gap_start EXCEPT ![f] = Behind[p]]
    BY <1>3 DEF GapEnds

<1>5. /\ gap_start'[f] = Behind[p] /\ DOMAIN gap_start' = Families
      /\ \A g \in Families : g # f => gap_start'[g] = gap_start[g]
    BY <1>4 DEF GapsInv, GapStarts
<1>6. /\ db \in Databases /\ ~NearV4 /\ p \in Path /\ n = Part(n.path, n.path)
      /\ gs \in AddressesOf(f) /\ gs \in Address /\ Less(gs, Upto[p])
      /\ From[p] \in Address /\ Upto[p] \in Address
      /\ Upto[p] \in AddressesOf(f) /\ ~Less(Upto[p], From[p])
      /\ (f = "IPv6" => Beyond(Upto[p])) /\ Behind[p] = Increment(Upto[p])
    <2>1. ~Skipped(n)
        BY <1>3 DEF GapsInv, Progress
    <2>2. Less(gs, Upto[p])
        BY <1>3, <2>1 DEF Skipped
    <2>3. gs \in AddressesOf(f)
        BY DEF GapsInv, GapStarts
    <2> QED BY <1>3, <2>2, <2>3, AnnouncedIs DEF GapsInv, AddressesOf
<1> DEFINE b == Behind[p]
<1>7. /\ b \in AddressesOf(f) /\ b \in Address /\ ~Less(b, Upto[p]) /\ ~IsAllZeroes(b)
      /\ f = "IPv6" => Beyond(b)
      /\ Less(Upto[p], b) \/ IsAllOnes(b)
    <2>1. /\ b \in AddressesOf(f) /\ b \in Address /\ ~Less(b, Upto[p]) /\ ~IsAllZeroes(b)
          /\ f = "IPv6" => Beyond(b)
          /\ IsAllOnes(Upto[p]) => b = Upto[p]
          /\ ~IsAllOnes(Upto[p]) => \A a \in Address : Less(a, b) <=> ~Less(Upto[p], a)
        BY <1>6, BehindInFamily DEF AddressesOf
    <2>2. ~Less(Upto[p], Upto[p])
        BY <1>6, AddressesInOrder
    <2> QED BY <1>6, <2>1, <2>2
<1>8. ~IsAllOnes(gs)
    <2>1. V4Mapped(gs) <=> V4Mapped(Upto[p])
        BY <1>6 DEF AddressesOf
    <2> QED BY <1>6, <2>1, AllOnesIsLast
<1>9. InHand' = {} /\ Bogons' = Bogons
    BY <1>1 DEF InHand, Families, Bogons
<1>10. /\ (NearV4' <=> NearV4)
       /\ \A g : Announced(g)' = Announced(g) /\ Noticed(g)' = Noticed(g)
       /\ \A g : Settled(g)' = Settled(g)
    BY <1>1, <1>9, SameDatabase
<1>11. \A g : ~Finished(g)
    BY <1>3 DEF Finished
<1> HIDE DEF n, gs, b
<1>12. Progress'
    BY <1>1, <1>9 DEF GapsInv, Progress, Families
<1>13. GapInHand'
    BY <1>1 DEF GapInHand
<1>14. GapStarts'
    <2>1. \A m \in unread : <<p, m.path>> \in Order
        BY <1>3 DEF GapsInv, Progress, Before
    <2>2. ASSUME NEW g \in Families
          PROVE  /\ gap_start'[g] \in AddressesOf(g)
                 /\ g = "IPv6" => gap_start'[g] = AllZeroes \/ Beyond(gap_start'[g])
                 /\ \/ gap_start'[g] = FirstOf[g]
                    \/ \E q \in Announced(g) : /\ gap_start'[g] = Behind[q]
                                               /\ \A m \in unread : <<q, m.path>> \in Order
        <3>1. CASE g = f
            BY <1>5, <1>7, <2>1, <3>1 DEF b
        <3>2. CASE g # f
            BY <1>5, <3>2 DEF GapsInv, GapStarts
        <3> QED BY <3>1, <3>2
    <2> QED BY <1>1, <1>5, <1>10, <2>2 DEF GapStarts
<1>15. NetworksPassed'
    <2>1. ASSUME NEW g \in Families, NEW q \in Noticed(g)
          PROVE  \/ Part(q, q) \in unread
                 \/ /\ ~IsAllZeroes(gap_start'[g])
                    /\ Less(Upto[q], gap_start'[g]) \/ IsAllOnes(gap_start'[g])
        <3>1. \/ Part(q, q) \in unread \/ Part(q, q) = n
              \/ ~IsAllZeroes(gap_start[g]) /\ (Less(Upto[q], gap_start[g]) \/ IsAllOnes(gap_start[g]))
            BY <1>3, <1>11 DEF GapsInv, NetworksPassed, n
        <3>2. q \in Announced(g)
            BY DEF Noticed
        <3>3. Family(q) = g /\ Upto[q] \in Address
            BY <1>6, <3>2, AnnouncedIs DEF AddressesOf
        <3>4. CASE Part(q, q) = n
            <4>1. q = p
                BY <3>4 DEF Part, n
            <4> QED BY <1>3, <1>5, <1>7, <3>3, <4>1 DEF b
        <3>5. CASE g = f /\ Less(Upto[q], gs)
            <4>1. Less(Upto[q], b)
                BY <1>6, <1>7, <3>3, <3>5, AddressesInOrder
            <4> QED BY <1>5, <1>7, <3>5, <4>1 DEF b
        <3>6. CASE g # f
            <4>1. Part(q, q) # n
                BY <1>3, <3>3, <3>6 DEF Part, n
            <4> QED BY <1>5, <3>1, <3>6, <4>1
        <3> QED BY <1>8, <3>1, <3>4, <3>5, <3>6 DEF gs
    <2> QED BY <1>1, <1>10, <2>1 DEF NetworksPassed
<1>16. BogonsInFront'
    <2>1. ASSUME NEW m \in Bogons, NEW g, g = Family(m.path)
          PROVE  Less(Upto[m.path], gap_start'[g])
        <3>1. g \in Families /\ m.path \in Path
            BY <2>1 DEF Family, Families, GapsInv, Progress
        <3>2. CASE g = f
            <4>1. Less(Upto[m.path], From[p])
                BY <1>1, <1>3, <2>1, <3>2 DEF GapsInv, BogonsInFront
            <4>2. Upto[m.path] \in Address
                BY <3>1, LeadsToEnds DEF Upto
            <4>3. Less(Upto[m.path], b)
                BY <1>6, <1>7, <4>1, <4>2, AddressesInOrder
            <4> QED BY <1>5, <3>2, <4>3 DEF b
        <3>3. CASE g # f
            <4>1. Less(Upto[m.path], gap_start[g])
                BY <1>3, <1>11, <2>1, <3>3 DEF GapsInv, BogonsInFront
            <4> QED BY <1>5, <3>1, <3>3, <4>1
        <3> QED BY <3>2, <3>3
    <2> QED BY <1>1, <1>9, <2>1 DEF GapsInv, BogonsInFront
<1>17. BogonsOutside'
    BY <1>9, <1>10 DEF GapsInv, BogonsOutside
<1>18. SettledInFront'
    <2>1. ASSUME NEW g \in Families, NEW a \in Address, a \in AddressesOf(g), a \notin Settled(g)
          PROVE  ~Less(a, gap_start'[g])
        <3>1. CASE g = f
            <4>1. ~Less(a, From[p])
                BY <1>1, <1>3, <2>1, <3>1 DEF GapsInv, SettledInFront
            <4>2. ~OnPath(p, a)
                BY <2>1, <3>1 DEF Settled, Covered
            <4> QED BY <1>5, <1>6, <3>1, <4>1, <4>2, InFrontOfBehind
        <3>2. CASE g # f
            BY <1>5, <2>1, <3>2 DEF GapsInv, SettledInFront
        <3> QED BY <3>1, <3>2
    <2>2. state' \notin Families
        BY <1>1 DEF Families
    <2> QED BY <1>9, <1>10, <2>1, <2>2 DEF SettledInFront
<1> QED BY <1>1, <1>10, <1>12, <1>13, <1>14, <1>15, <1>16, <1>17, <1>18 DEF GapsInv

-----------------------------------------------------------------------------
(* Summarising a gap *)

\* The next network of a gap is in the family of the gap, and so is what is left.
LEMMA TurnIs ==
    ASSUME GapsInv, start # NoAddress, NEW f \in InHand, NEW p \in Fitting(start, gap_end)
    PROVE  /\ f \in Families /\ p \in Path /\ Family(p) = f /\ From[p] = start
           /\ Upto[p] \in AddressesOf(f) /\ Upto[p] \in Address
           /\ start \in Address /\ gap_end \in Address /\ ~Less(gap_end, Upto[p]) /\ ~Less(Upto[p], start)
           /\ f = "IPv6" => Beyond(Upto[p])
           /\ Behind[p] = Increment(Upto[p])
<1>1. /\ f \in Families
      /\ start \in AddressesOf(f) /\ gap_end \in AddressesOf(f) /\ ~Less(gap_end, start)
      /\ start \in Address /\ gap_end \in Address
      /\ f = "IPv6" => (start = AllZeroes \/ Beyond(start)) /\ Beyond(gap_end)
    BY DEF GapsInv, GapInHand, InHand, AddressesOf
<1> DEFINE u == LastAddress(p)
<1>2. /\ p \in Path /\ FirstAddress(p) = start /\ u \in Address /\ ~Less(gap_end, u) /\ ~Less(u, start)
    BY <1>1, FittingIsNext
<1> HIDE DEF u
<1>3. Upto[p] = u /\ From[p] = start /\ Behind[p] = Increment(Upto[p])
    BY <1>2 DEF Upto, From, Behind, u
<1>4. Family(p) = f
    BY <1>1, <1>2 DEF Family, IsV4, AddressesOf, Families
<1>5. ASSUME f = "IPv6" PROVE Beyond(u)
    <2>1. CASE start = AllZeroes
        BY <1>1, <1>5, <2>1, FirstFits DEF u
    <2>2. CASE Beyond(start)
        BY <1>1, <1>2, <2>2, BeyondIs
    <2> QED BY <1>1, <1>5, <2>1, <2>2
<1>6. u \in AddressesOf(f)
    <2>1. CASE f = "IPv4"
        <3>1. V4Mapped(start) /\ V4Mapped(gap_end)
            BY <1>1, <2>1 DEF AddressesOf
        <3>2. V4Mapped(u)
            BY <1>1, <1>2, <3>1, V4IsConvex
        <3> QED BY <1>2, <2>1, <3>2 DEF AddressesOf
    <2>2. CASE f = "IPv6"
        BY <1>2, <1>5, <2>2, BeyondIs DEF AddressesOf
    <2> QED BY <1>1, <2>1, <2>2 DEF Families
<1> QED BY <1>1, <1>2, <1>3, <1>4, <1>5, <1>6

LEMMA TurnKeepsGaps ==
    ASSUME GapsInv, SummarizeTurn
    PROVE  GapsInv'
<1>1. /\ start # NoAddress /\ state' = state /\ outcome' = outcome /\ returned' = returned
      /\ unread' = unread /\ network' = network /\ gap_start' = gap_start /\ gap_end' = gap_end
      /\ db' = db
    BY DEF SummarizeTurn, GoOn, Fixed
<1>2. PICK p \in Fitting(start, gap_end) :
          /\ stack' = Pushed(stack, Whole({p}))
          /\ start' = IF IsAllOnes(Upto[p]) \/ Less(gap_end, Behind[p]) THEN NoAddress
                      ELSE Behind[p]
    BY DEF SummarizeTurn
<1>3. PICK f \in Families : InHand = {f}
    <2>1. /\ \A g \in Families : \A q \in Announced(g) : q \in Path /\ Family(q) = g
        BY AnnouncedPaths DEF GapsInv
    <2>2. state \in {"gap"} \cup Families
        BY <1>1 DEF GapsInv, GapInHand
    <2>3. CASE state = "gap"
        BY <2>1, <2>3, InHandIs DEF GapsInv
    <2>4. CASE state \in Families
        BY <2>1, <2>4, InHandIs DEF GapsInv
    <2> QED BY <2>2, <2>3, <2>4
<1> DEFINE w == Part(p, p)
           s == start
           e == gap_end
           u == Upto[p]
           b == Behind[p]
<1>4. /\ p \in Path /\ Family(p) = f /\ From[p] = s /\ s \in Address /\ e \in Address
      /\ u \in AddressesOf(f) /\ u \in Address /\ ~Less(e, u) /\ ~Less(u, s)
      /\ (f = "IPv6" => Beyond(u)) /\ b = Increment(u)
      /\ w.path = p
    BY <1>1, <1>3, TurnIs DEF Part
<1>5. /\ b \in AddressesOf(f) /\ b \in Address /\ ~Less(b, u)
      /\ f = "IPv6" => Beyond(b)
      /\ ~IsAllOnes(u) => Less(u, b)
    <2>1. /\ b \in AddressesOf(f) /\ ~Less(b, u)
          /\ f = "IPv6" => Beyond(b)
          /\ ~IsAllOnes(u) => \A a \in Address : Less(a, b) <=> ~Less(u, a)
        BY <1>4, BehindInFamily
    <2>2. ~Less(u, u)
        BY <1>4, AddressesInOrder
    <2> QED BY <1>4, <2>1, <2>2 DEF AddressesOf
<1>6. start' # NoAddress => start' = b /\ ~IsAllOnes(u) /\ ~Less(e, b)
    BY <1>2
<1>7. start' = NoAddress => IsAllOnes(u) \/ Less(e, b)
    BY <1>2, <1>5, AddressesInOrder
<1> HIDE DEF w, s, e, u, b
<1>8. stack' = stack \cup {w} /\ Bogons' = Bogons \cup {w}
    <2>1. \A m \in stack : m = Part(m.path, m.path)
        BY DEF GapsInv, Progress, Bogons
    <2>2. Whole({p}) = {w}
        BY DEF Whole, w
    <2>3. stack' = stack \cup {k \in {w} : \A m \in stack : m.path # k.path}
        BY <1>2, <2>2 DEF Pushed
    <2>4. (\A m \in stack : m.path # w.path) \/ w \in stack
        BY <1>4, <2>1 DEF w
    <2>5. stack' = stack \cup {w}
        BY <2>3, <2>4
    <2> QED BY <1>1, <2>5 DEF Bogons
<1>9. InHand' = {f} /\ \A g : Finished(g)' = Finished(g)
    BY <1>1, <1>3 DEF InHand, Finished
<1>10. /\ (NearV4' <=> NearV4)
       /\ \A g : Announced(g)' = Announced(g) /\ Noticed(g)' = Noticed(g)
       /\ \A g : Settled(g) \subseteq Settled(g)'
    BY <1>1, <1>8, SameDatabase
<1>11. /\ state = f => e = LastOf[f]
       /\ \A n \in network : /\ ~IsAllZeroes(From[n.path]) /\ e = Decrement(From[n.path])
       /\ \A q \in Noticed(f) : Less(Upto[q], s) \/ Less(e, From[q])
    BY <1>1, <1>3 DEF GapsInv, GapInHand, s, e
<1>12. ASSUME NEW n \in network
       PROVE  /\ n.path \in Path /\ From[n.path] \in Address
              /\ \A a \in Address : Less(e, a) <=> ~Less(a, From[n.path])
    <2>1. PICK g \in Families : n \in Whole(Announced(g))
        BY DEF GapsInv, Progress
    <2>2. PICK q \in Announced(g) : n = Part(q, q)
        BY <2>1 DEF Whole
    <2>3. n.path = q
        BY <2>2 DEF Part
    <2>4. ~IsAllZeroes(From[q]) /\ e = Decrement(From[q])
        BY <1>11, <2>3
    <2>5. From[q] \in Address /\ q \in Path /\ \A a \in Address : Less(e, a) <=> ~Less(a, From[q])
        BY <2>2, <2>4, AnnouncedIs DEF GapsInv, AddressesOf
    <2> QED BY <2>3, <2>5
<1>13. \A m \in Bogons : Family(m.path) = f => Less(Upto[m.path], s) /\ Apart(m.path, p)
    BY <1>1, <1>3, <1>4 DEF GapsInv, BogonsInFront, Apart, s
<1>14. Progress'
    <2>1. \A n : Skipped(n)' = Skipped(n)
        BY <1>1 DEF Skipped
    <2>2. \A m \in Bogons' : m = Part(m.path, m.path) /\ m.path \in Path
        BY <1>4, <1>8 DEF GapsInv, Progress, w
    <2>3. outcome' # "end"
        BY <1>1 DEF GapsInv, Progress, GapInHand, Families
    <2> QED BY <1>1, <1>10, <2>1, <2>2, <2>3 DEF GapsInv, Progress
<1>15. GapInHand'
    <2>1. ASSUME start' # NoAddress, NEW q \in Noticed(f) PROVE Less(Upto[q], b) \/ Less(e, From[q])
        <3>1. q \in Announced(f)
            BY DEF Noticed
        <3>2. Upto[q] \in Address
            BY <3>1, AnnouncedIs DEF GapsInv, AddressesOf
        <3>3. Less(Upto[q], s) => Less(Upto[q], b)
            BY <1>4, <1>5, <3>2, AddressesInOrder
        <3> QED BY <1>11, <3>3
    <2>2. gap_end \in AddressesOf(f) /\ (f = "IPv6" => Beyond(gap_end)) /\ state \in {"gap"} \cup Families
        BY <1>1, <1>3 DEF GapsInv, GapInHand
    <2> QED BY <1>1, <1>5, <1>6, <1>9, <1>10, <1>11, <2>1, <2>2 DEF GapInHand, e
<1>16. GapStarts'
    BY <1>1, <1>10 DEF GapsInv, GapStarts
<1>17. NetworksPassed'
    <2>1. ASSUME NEW g \in Families, AddressesOf(g) \subseteq Settled(g)
          PROVE  AddressesOf(g) \subseteq Settled(g)'
        BY <1>10, <2>1
    <2> QED BY <1>1, <1>9, <1>10, <2>1 DEF GapsInv, NetworksPassed
<1>18. BogonsInFront'
    <2>1. ASSUME NEW m \in Range(returned), NEW k \in stack', Family(m.path) = Family(k.path)
          PROVE  Apart(m.path, k.path)
        <3>1. CASE k \in stack
            BY <2>1, <3>1 DEF GapsInv, BogonsInFront
        <3>2. CASE k = w
            BY <1>4, <1>13, <2>1, <3>2 DEF Bogons
        <3> QED BY <1>8, <3>1, <3>2
    <2>2. ASSUME NEW m \in stack', NEW k \in stack', Family(m.path) = Family(k.path)
          PROVE  m = k \/ Apart(m.path, k.path) \/ Apart(k.path, m.path)
        <3>1. CASE m \in stack /\ k \in stack
            BY <2>2, <3>1 DEF GapsInv, BogonsInFront
        <3>2. CASE m \in stack /\ k = w
            BY <1>4, <1>13, <2>2, <3>2 DEF Bogons
        <3>3. CASE m = w /\ k \in stack
            BY <1>4, <1>13, <2>2, <3>3 DEF Bogons
        <3> QED BY <1>8, <3>1, <3>2, <3>3
    <2>3. ASSUME NEW m \in Bogons', Family(m.path) = f
          PROVE  /\ start' # NoAddress => Less(Upto[m.path], start')
                 /\ start' = NoAddress => \A k \in network : Less(Upto[m.path], From[k.path])
        <3>1. m.path \in Path
            BY <1>14 DEF Progress
        <3>2. Upto[m.path] \in Address
            BY <3>1, LeadsToEnds DEF Upto
        <3>3. ~Less(u, Upto[m.path])
            <4>1. CASE m \in Bogons
                BY <1>4, <1>13, <2>3, <3>2, <4>1, AddressesInOrder
            <4>2. CASE m = w
                BY <1>4, <4>2, AddressesInOrder DEF u
            <4> QED BY <1>8, <4>1, <4>2
        <3>4. start' # NoAddress => Less(Upto[m.path], start')
            BY <1>4, <1>5, <1>6, <3>2, <3>3, AddressesInOrder
        <3>5. ASSUME NEW k \in network PROVE Less(Upto[m.path], From[k.path])
            <4>1. From[k.path] \in Address /\ Less(u, From[k.path])
                BY <1>4, <1>12
            <4> QED BY <1>4, <3>2, <3>3, <4>1, AddressesInOrder
        <3> QED BY <3>4, <3>5
    <2>4. ASSUME NEW m \in Bogons', Family(m.path) # f
          PROVE  Less(Upto[m.path], gap_start[Family(m.path)]) \/ Finished(Family(m.path))
        <3>1. m \in Bogons
            BY <1>4, <1>8, <2>4
        <3> QED BY <1>3, <2>4, <3>1 DEF GapsInv, BogonsInFront
    <2> QED BY <1>1, <1>9, <2>1, <2>2, <2>3, <2>4 DEF GapsInv, BogonsInFront
<1>19. BogonsOutside'
    <2>1. ASSUME NEW q \in Noticed(f) PROVE <<q, p>> \notin Meeting
        <3>1. q \in Announced(f)
            BY DEF Noticed
        <3>2. q \in Path /\ From[q] \in Address
            BY <3>1, AnnouncedIs DEF GapsInv, AddressesOf
        <3>3. CASE Less(Upto[q], s)
            BY <1>4, <3>2, <3>3, ApartOrWithin DEF Apart
        <3>4. CASE Less(e, From[q])
            <4>1. Less(u, From[q])
                BY <1>4, <3>2, <3>4, AddressesInOrder
            <4>2. <<p, q>> \notin Meeting
                BY <1>4, <3>2, <4>1, ApartOrWithin DEF Apart, u
            <4> QED BY <1>4, <3>2, <4>2, MeetingOrder
        <3> QED BY <1>11, <3>3, <3>4
    <2>2. \A m \in Bogons : \A q \in Noticed(Family(m.path)) : <<q, m.path>> \notin Meeting
        BY DEF GapsInv, BogonsOutside
    <2>3. \A m \in Bogons' : \A q \in Noticed(Family(m.path)) : <<q, m.path>> \notin Meeting
        BY <1>4, <1>8, <2>1, <2>2
    <2> QED BY <1>10, <2>3 DEF BogonsOutside
<1>20. SettledInFront'
    <2>1. ASSUME NEW g \in Families, NEW a \in Address, a \in AddressesOf(g), a \notin Settled(g)'
          PROVE  /\ ~Less(a, gap_start[g])
                 /\ g = f /\ start' # NoAddress => ~Less(a, start')
                 /\ g = f /\ start' = NoAddress => \A n \in network : ~Less(a, From[n.path])
                 /\ state = g /\ start' = NoAddress => IsAllZeroes(gap_start[g])
        <3>1. a \notin Settled(g)
            BY <1>10, <2>1
        <3>2. /\ ~Less(a, gap_start[g])
              /\ g = f => ~Less(a, s)
            BY <1>1, <1>3, <2>1, <3>1 DEF GapsInv, SettledInFront, s
        <3>3. ~OnPath(p, a)
            <4>1. OnPath(w.path, a) => a \in Settled(g)'
                BY <1>8 DEF Settled, Covered
            <4> QED BY <1>4, <2>1, <4>1
        <3>4. g = f => ~Less(a, b)
            BY <1>4, <3>2, <3>3, InFrontOfBehind DEF b
        <3>5. ASSUME g = f, start' = NoAddress PROVE Less(e, a)
            <4>1. CASE IsAllOnes(u)
                <5>1. b = u
                    BY <1>4, <4>1 DEF Increment
                <5>2. V4Mapped(u) <=> V4Mapped(a)
                    BY <1>4, <2>1, <3>5 DEF AddressesOf
                <5>3. ~Less(u, a)
                    BY <1>4, <4>1, <5>2, AllOnesIsLast
                <5>4. Less(u, a) \/ u = a
                    BY <1>4, <3>4, <3>5, <5>1, AddressesInOrder
                <5>5. Leads(p, u) /\ OnPath(p, u)
                    BY <1>4, LeadsToEnds, MatchesIsLeads DEF u, Upto
                <5> QED BY <3>3, <5>3, <5>4, <5>5
            <4>2. CASE Less(e, b)
                BY <1>4, <1>5, <3>4, <3>5, <4>2, AddressesInOrder
            <4> QED BY <1>7, <3>5, <4>1, <4>2
        <3>6. ASSUME g = f, start' = NoAddress, NEW n \in network PROVE ~Less(a, From[n.path])
            BY <1>12, <3>5, <3>6
        <3>7. ASSUME state = g, start' = NoAddress PROVE FALSE
            <4>1. g \in InHand
                BY <3>7 DEF InHand
            <4>2. g = f /\ e = LastOf[f]
                BY <1>3, <1>11, <3>7, <4>1
            <4>3. f = "IPv4" \/ LeadingZeroes > 1
                BY <1>4, BeyondIs DEF Families
            <4>4. ~Less(LastOf[f], a)
                BY <2>1, <4>2, <4>3, EndsOfFamilies
            <4> QED BY <3>5, <3>7, <4>2, <4>4
        <3> QED BY <1>4, <1>6, <3>2, <3>4, <3>6, <3>7
    <2> QED BY <1>1, <1>9, <2>1 DEF SettledInFront
<1> QED BY <1>1, <1>10, <1>14, <1>15, <1>16, <1>17, <1>18, <1>19, <1>20 DEF GapsInv

-----------------------------------------------------------------------------
(* What is left of the families *)

\* What is left of a family is in front of its last address, and behind all that is in it.
LEMMA CloseIs ==
    ASSUME GapsInv, start = NoAddress, NEW f \in Families, Close(f), trouble = {}, trouble' = {},
           f \notin InHand, network = {}, \A q \in Noticed(f) : Part(q, q) \notin unread
    PROVE  /\ state' = f /\ outcome' = outcome /\ returned' = returned
           /\ IsAllZeroes(gap_start[f]) => start' = NoAddress
           /\ ~IsAllZeroes(gap_start[f]) =>
                 /\ start' = gap_start[f] /\ start' # NoAddress /\ gap_end' = LastOf[f]
                 /\ start' \in AddressesOf(f) /\ gap_end' \in AddressesOf(f) /\ ~Less(gap_end', start')
                 /\ f = "IPv6" => Beyond(start') /\ Beyond(gap_end')
                 /\ \A q \in Noticed(f) : Less(Upto[q], start')
                 /\ \A m \in Bogons : Family(m.path) = f => Less(Upto[m.path], start')
<1> DEFINE gs == gap_start[f]
           z == LastOf[f]
<1>1. CASE IsAllZeroes(gs)
    BY <1>1 DEF Close, GoOn
<1>2. CASE ~IsAllZeroes(gs)
    <2>1. gs \in AddressesOf(f) /\ gs \in Address /\ (f = "IPv6" => Beyond(gs))
        <3>1. gs \in AddressesOf(f) /\ (f = "IPv6" => gs = AllZeroes \/ Beyond(gs))
            BY DEF GapsInv, GapStarts
        <3>2. f = "IPv6" => gs # AllZeroes
            BY <1>2, EndsOfFamilies
        <3> QED BY <3>1, <3>2 DEF AddressesOf
    <2>2. /\ z \in AddressesOf(f) /\ z \in Address /\ (f = "IPv6" => Beyond(z)) /\ ~Less(z, gs)
        <3>1. f = "IPv4" \/ LeadingZeroes > 1
            BY <2>1, BeyondIs DEF Families
        <3> QED BY <2>1, <3>1, EndsOfFamilies DEF AddressesOf
    <2>3. ~ReturnError("refused")
        BY DEF ReturnError
    <2>4. /\ gap_end' = z /\ ValidRange(gs, z) /\ start' = gs /\ state' = f
          /\ outcome' = outcome /\ returned' = returned
        BY <1>2, <2>2, <2>3 DEF Close, SummarizeGap, GoOn
    <2>5. Less(gs, z) /\ gs # NoAddress
        BY <2>1, <2>4, AddressesInOrder DEF ValidRange
    <2>6. ~IsAllOnes(gs)
        <3>1. V4Mapped(gs) <=> V4Mapped(z)
            BY <2>1, <2>2 DEF AddressesOf
        <3> QED BY <2>1, <2>2, <2>5, <3>1, AllOnesIsLast
    <2>7. \A q \in Noticed(f) : Less(Upto[q], gs)
        BY <1>2, <2>6 DEF GapsInv, NetworksPassed, Finished
    <2>8. \A m \in Bogons : Family(m.path) = f => Less(Upto[m.path], gs)
        BY <1>2 DEF GapsInv, BogonsInFront, Finished
    <2> QED BY <1>2, <2>1, <2>2, <2>4, <2>5, <2>7, <2>8
<1> QED BY <1>1, <1>2

\* Once all of its addresses are settled, a family starts over.
LEMMA ResetIs ==
    ASSUME GapsInv, NEW f \in Families, Reset(f), state = f, start = NoAddress
    PROVE  /\ gap_start'[f] = FirstOf[f] /\ IsAllZeroes(gap_start'[f]) /\ DOMAIN gap_start' = Families
           /\ gap_start'[f] \in AddressesOf(f)
           /\ \A g \in Families : g # f => gap_start'[g] = gap_start[g]
           /\ Noticed(f) # {} => AddressesOf(f) \subseteq Settled(f)
<1>1. DOMAIN gap_start = Families /\ gap_start[f] \in AddressesOf(f)
    BY DEF GapsInv, GapStarts
<1>2. FirstOf[f] \in AddressesOf(f) /\ IsAllZeroes(FirstOf[f])
    BY EndsOfFamilies
<1>3. unread = {} /\ network = {}
    BY DEF GapsInv, Progress, Families
<1>4. CASE IsAllZeroes(gap_start[f])
    <2>1. gap_start' = gap_start
        BY <1>4 DEF Reset
    <2>2. gap_start[f] = FirstOf[f]
        BY <1>1, <1>4, EndsOfFamilies
    <2>3. Noticed(f) # {} => AddressesOf(f) \subseteq Settled(f)
        BY <1>3, <1>4 DEF GapsInv, NetworksPassed
    <2> QED BY <1>1, <1>2, <2>1, <2>2, <2>3
<1>5. CASE ~IsAllZeroes(gap_start[f])
    <2>1. gap_start' = [gap_start EXCEPT ![f] = FirstOf[f]]
        BY <1>5 DEF Reset
    <2>2. AddressesOf(f) \subseteq Settled(f)
        <3>1. ASSUME NEW a \in AddressesOf(f), a \notin Settled(f) PROVE FALSE
            <4>1. a \in Address
                BY DEF AddressesOf
            <4> QED BY <1>5, <3>1, <4>1 DEF GapsInv, SettledInFront
        <3> QED BY <3>1
    <2> QED BY <1>1, <1>2, <2>1, <2>2
<1> QED BY <1>4, <1>5

LEMMA FinishKeepsGaps ==
    ASSUME GapsInv, Finish, trouble = {}, trouble' = {}
    PROVE  GapsInv'
<1> DEFINE f == "IPv6"
<1>1. /\ state = "bogon" /\ Reading /\ unread' = {} /\ stack' = stack /\ network' = network
      /\ gap_start' = gap_start /\ db' = db /\ Close(f) /\ f \in Families
      /\ Taken("on").network = {}
    BY DEF Finish, Reading, Fixed, Families
<1>2. InHand = {} /\ network = {} /\ start = NoAddress
    BY <1>1, AtRest
<1>3. ASSUME NEW g \in Families, NEW q \in Noticed(g) PROVE Part(q, q) \notin unread
    <2>1. q \in Announced(g)
        BY DEF Noticed
    <2>2. db[q].wanted /\ Part(q, q).owner = q
        BY <2>1, AnnouncedIs DEF GapsInv, Part
    <2>3. Wanted(Part(q, q))
        BY <2>2 DEF Wanted
    <2> QED BY <1>1, <2>3, ReadIsFirst
<1> DEFINE gs == gap_start[f]
<1>4. /\ state' = f /\ outcome' = outcome /\ returned' = returned
      /\ IsAllZeroes(gs) => start' = NoAddress
      /\ ~IsAllZeroes(gs) =>
                 /\ start' = gs /\ start' # NoAddress /\ gap_end' = LastOf[f]
                 /\ start' \in AddressesOf(f) /\ gap_end' \in AddressesOf(f) /\ ~Less(gap_end', start')
                 /\ f = "IPv6" => Beyond(start') /\ Beyond(gap_end')
                 /\ \A q \in Noticed(f) : Less(Upto[q], start')
                 /\ \A m \in Bogons : Family(m.path) = f => Less(Upto[m.path], start')
    <2> HIDE DEF f
    <2> QED BY <1>1, <1>2, <1>3, CloseIs
<1>5. InHand' = {f} /\ Bogons' = Bogons /\ \A g \in Families : Finished(g) => Finished(g)'
    BY <1>1, <1>2, <1>4 DEF InHand, Families, Bogons, Finished
<1>6. /\ (NearV4' <=> NearV4)
      /\ \A g : Announced(g)' = Announced(g) /\ Noticed(g)' = Noticed(g)
      /\ \A g : Settled(g)' = Settled(g)
    BY <1>1, <1>5, SameDatabase
<1> HIDE DEF f, gs
<1>7. Progress'
    <2>1. outcome # "end"
        BY <1>1 DEF GapsInv, Progress
    <2> QED BY <1>1, <1>2, <1>4, <1>5, <2>1 DEF GapsInv, Progress, Families, f
<1>8. GapInHand'
    <2>1. state' \in {"gap"} \cup Families
        BY <1>1, <1>4
    <2> QED BY <1>1, <1>2, <1>4, <1>5, <1>6, <2>1 DEF GapInHand
<1>9. GapStarts'
    BY <1>1, <1>2, <1>6 DEF GapsInv, GapStarts
<1>10. NetworksPassed'
    BY <1>1, <1>2, <1>3, <1>5, <1>6 DEF GapsInv, NetworksPassed
<1>11. BogonsInFront'
    <2>1. ASSUME NEW m \in Bogons
          PROVE  Less(Upto[m.path], gap_start[Family(m.path)]) \/ Finished(Family(m.path))
        BY <1>2 DEF GapsInv, BogonsInFront
    <2>2. ASSUME NEW m \in Bogons, Family(m.path) # f
          PROVE  Less(Upto[m.path], gap_start'[Family(m.path)]) \/ Finished(Family(m.path))'
        <3>1. Family(m.path) \in Families
            BY DEF Family, Families
        <3> QED BY <1>1, <1>5, <2>1, <3>1
    <2>3. ASSUME NEW m \in Bogons, Family(m.path) = f, start' # NoAddress
          PROVE  Less(Upto[m.path], start')
        BY <1>4, <2>3
    <2> QED BY <1>1, <1>2, <1>4, <1>5, <2>2, <2>3 DEF GapsInv, BogonsInFront
<1>12. BogonsOutside'
    BY <1>5, <1>6 DEF GapsInv, BogonsOutside
<1>13. SettledInFront'
    <2>1. ASSUME NEW g \in Families, NEW a \in Address, a \in AddressesOf(g), a \notin Settled(g)
          PROVE  ~Less(a, gap_start[g])
        BY <2>1 DEF GapsInv, SettledInFront
    <2> QED BY <1>1, <1>2, <1>4, <1>5, <1>6, <2>1 DEF SettledInFront, gs
<1> QED BY <1>1, <1>4, <1>6, <1>7, <1>8, <1>9, <1>10, <1>11, <1>12, <1>13 DEF GapsInv

LEMMA FinishIPv6KeepsGaps ==
    ASSUME GapsInv, FinishIPv6, trouble = {}, trouble' = {}
    PROVE  GapsInv'
<1> DEFINE f == "IPv4"
           h == "IPv6"
<1>1. /\ state = h /\ start = NoAddress /\ unread' = unread /\ stack' = stack /\ network' = network
      /\ db' = db /\ Reset(h) /\ Close(f) /\ f \in Families /\ h \in Families /\ f # h
      /\ Families = {f, h}
    BY DEF FinishIPv6, Fixed, Families
<1>2. InHand = {h} /\ network = {} /\ unread = {}
    BY <1>1, AnnouncedPaths, InHandIs DEF GapsInv
<1>3. /\ gap_start'[h] = FirstOf[h] /\ IsAllZeroes(gap_start'[h]) /\ DOMAIN gap_start' = Families
      /\ gap_start'[h] \in AddressesOf(h) /\ gap_start'[h] = AllZeroes
      /\ gap_start'[f] = gap_start[f]
      /\ Noticed(h) # {} => AddressesOf(h) \subseteq Settled(h)
    BY <1>1, ResetIs, EndsOfFamilies
<1> DEFINE gs == gap_start[f]
<1>4. /\ state' = f /\ outcome' = outcome /\ returned' = returned
      /\ IsAllZeroes(gs) => start' = NoAddress
      /\ ~IsAllZeroes(gs) =>
                 /\ start' = gs /\ start' # NoAddress /\ gap_end' = LastOf[f]
                 /\ start' \in AddressesOf(f) /\ gap_end' \in AddressesOf(f) /\ ~Less(gap_end', start')
                 /\ f = "IPv6" => Beyond(start') /\ Beyond(gap_end')
                 /\ \A q \in Noticed(f) : Less(Upto[q], start')
                 /\ \A m \in Bogons : Family(m.path) = f => Less(Upto[m.path], start')
    <2>1. f \notin InHand /\ \A q \in Noticed(f) : Part(q, q) \notin unread
        BY <1>1, <1>2
    <2> HIDE DEF f
    <2> QED BY <1>1, <1>2, <2>1, CloseIs
<1>5. InHand' = {f} /\ Bogons' = Bogons /\ Finished(h)' /\ (Finished(f) => Finished(f)')
    BY <1>1, <1>2, <1>3, <1>4 DEF InHand, Families, Bogons, Finished
<1>6. /\ (NearV4' <=> NearV4)
      /\ \A g : Announced(g)' = Announced(g) /\ Noticed(g)' = Noticed(g)
      /\ \A g : Settled(g)' = Settled(g)
    BY <1>1, <1>5, SameDatabase
<1>7. Progress'
    <2>1. outcome # "end" /\ state' = "IPv4" /\ IsAllZeroes(gap_start'["IPv6"])
        BY <1>1, <1>3, <1>4 DEF GapsInv, Progress
    <2> QED BY <1>1, <1>2, <1>4, <1>5, <2>1 DEF GapsInv, Progress, Families
<1> HIDE DEF f, gs, h
<1>8. GapInHand'
    <2>1. state' \in {"gap"} \cup Families
        BY <1>1, <1>4
    <2> QED BY <1>1, <1>2, <1>4, <1>5, <1>6, <2>1 DEF GapInHand
<1>9. GapStarts'
    BY <1>1, <1>2, <1>3, <1>6 DEF GapsInv, GapStarts
<1>10. NetworksPassed'
    <2>1. \A q \in Noticed(f) :
              \/ ~IsAllZeroes(gs) /\ (Less(Upto[q], gs) \/ IsAllOnes(gs))
              \/ Finished(f) /\ AddressesOf(f) \subseteq Settled(f)
        BY <1>1, <1>2 DEF GapsInv, NetworksPassed, gs
    <2>2. \A q \in Noticed(h) : Finished(h)' /\ AddressesOf(h) \subseteq Settled(h)
        BY <1>3, <1>5
    <2> QED BY <1>1, <1>3, <1>5, <1>6, <2>1, <2>2 DEF NetworksPassed, gs
<1>11. BogonsInFront'
    <2>1. ASSUME NEW m \in Bogons, Family(m.path) # f
          PROVE  Finished(Family(m.path))'
        <3>1. Family(m.path) \in Families
            BY DEF Family, Families
        <3> QED BY <1>1, <1>5, <2>1, <3>1
    <2>2. ASSUME NEW m \in Bogons, Family(m.path) = f, start' # NoAddress
          PROVE  Less(Upto[m.path], start')
        BY <1>4, <2>2
    <2> QED BY <1>1, <1>2, <1>4, <1>5, <2>1, <2>2 DEF GapsInv, BogonsInFront
<1>12. BogonsOutside'
    BY <1>5, <1>6 DEF GapsInv, BogonsOutside
<1>13. SettledInFront'
    <2>1. ASSUME NEW a \in Address, a \in AddressesOf(f), a \notin Settled(f)
          PROVE  ~Less(a, gs)
        BY <1>1, <2>1 DEF GapsInv, SettledInFront, gs
    <2>2. \A a \in Address : a \in AddressesOf(h) => ~Less(a, gap_start'[h])
        BY <1>1, <1>3, EndsOfFamilies
    <2> QED BY <1>1, <1>2, <1>3, <1>4, <1>5, <1>6, <2>1, <2>2 DEF SettledInFront, gs
<1> QED BY <1>1, <1>4, <1>6, <1>7, <1>8, <1>9, <1>10, <1>11, <1>12, <1>13 DEF GapsInv

LEMMA FinishIPv4KeepsGaps ==
    ASSUME GapsInv, FinishIPv4
    PROVE  GapsInv'
<1> DEFINE f == "IPv4"
           h == "IPv6"
<1>1. /\ state = f /\ start = NoAddress /\ unread' = unread /\ stack' = stack /\ network' = network
      /\ gap_end' = gap_end /\ start' = start
      /\ db' = db /\ Reset(f) /\ f \in Families /\ h \in Families /\ f # h
      /\ Families = {f, h} /\ returned' = returned
      /\ \/ stack = {} /\ state' = "idle" /\ outcome' = "end"
         \/ state' = "bogon" /\ outcome' = outcome
    BY DEF FinishIPv4, Fixed, Families, ReturnEnd, GoOn
<1>2. InHand = {f} /\ network = {} /\ unread = {}
    BY <1>1, AnnouncedPaths, InHandIs DEF GapsInv
<1>3. /\ gap_start'[f] = FirstOf[f] /\ IsAllZeroes(gap_start'[f]) /\ DOMAIN gap_start' = Families
      /\ gap_start'[f] \in AddressesOf(f)
      /\ gap_start'[h] = gap_start[h]
      /\ Noticed(f) # {} => AddressesOf(f) \subseteq Settled(f)
    BY <1>1, ResetIs
<1>4. IsAllZeroes(gap_start[h]) /\ outcome # "end"
    BY <1>1 DEF GapsInv, Progress
<1>5. InHand' = {} /\ Bogons' = Bogons /\ \A g \in Families : Finished(g)'
    BY <1>1, <1>2, <1>3, <1>4 DEF InHand, Families, Bogons, Finished
<1>6. /\ (NearV4' <=> NearV4)
      /\ \A g : Announced(g)' = Announced(g) /\ Noticed(g)' = Noticed(g)
      /\ \A g : Settled(g)' = Settled(g)
    BY <1>1, <1>5, SameDatabase
<1>7. Progress'
    BY <1>1, <1>2, <1>4, <1>5 DEF GapsInv, Progress, Families
<1>8. GapInHand'
    BY <1>1 DEF GapInHand
<1> HIDE DEF f, h
<1>9. GapStarts'
    <2>1. f # "IPv6" /\ h = "IPv6"
        BY DEF f, h
    <2> QED BY <1>1, <1>2, <1>3, <1>6, <2>1 DEF GapsInv, GapStarts
<1>10. NetworksPassed'
    <2>1. \A q \in Noticed(h) : AddressesOf(h) \subseteq Settled(h)
        BY <1>1, <1>2, <1>4 DEF GapsInv, NetworksPassed
    <2> QED BY <1>1, <1>3, <1>5, <1>6, <2>1 DEF NetworksPassed
<1>11. BogonsInFront'
    <2>1. \A m \in Bogons : Family(m.path) \in Families
        BY DEF Family, Families
    <2> QED BY <1>1, <1>5, <2>1 DEF GapsInv, BogonsInFront
<1>12. BogonsOutside'
    BY <1>5, <1>6 DEF GapsInv, BogonsOutside
<1>13. SettledInFront'
    <2>1. ASSUME NEW a \in Address, a \in AddressesOf(h), a \notin Settled(h)
          PROVE  ~Less(a, gap_start[h])
        BY <1>1, <2>1 DEF GapsInv, SettledInFront
    <2>2. \A a \in Address : a \in AddressesOf(f) => ~Less(a, gap_start'[f])
        BY <1>1, <1>3, EndsOfFamilies
    <2>3. state' \notin Families
        BY <1>1 DEF f, h
    <2> QED BY <1>1, <1>3, <1>5, <1>6, <2>1, <2>2, <2>3 DEF SettledInFront
<1> QED BY <1>1, <1>6, <1>7, <1>8, <1>9, <1>10, <1>11, <1>12, <1>13 DEF GapsInv

-----------------------------------------------------------------------------
(* Every step of a listing of bogons *)

LEMMA InitGaps == Init => BInv
<1> SUFFICES ASSUME Init, mode = "bogons", trouble = {}, ~NearV4 PROVE GapsInv
    BY DEF Init, BInv
<1>1. /\ db \in Databases /\ unread = Whole(DOMAIN db) /\ stack = {} /\ network = {}
      /\ returned = <<>> /\ state = "idle" /\ outcome = "none" /\ start = NoAddress
      /\ gap_start = FirstOf
    BY DEF Init
<1>2. /\ returned \in Seq([path : Path, owner : Path]) /\ DOMAIN returned = {} /\ Range(returned) = {}
    <2>1. Len(returned) = 0 /\ returned \in Seq([path : Path, owner : Path])
        BY <1>1, EmptySeq
    <2>2. DOMAIN returned = {}
        BY <2>1, LenProperties
    <2> QED BY <2>1, <2>2 DEF Range
<1>3. Bogons = {} /\ InHand = {}
    BY <1>1, <1>2 DEF Bogons, InHand, Families
<1>4. Progress
    BY <1>1, <1>3 DEF Progress, Families
<1>5. GapInHand
    BY <1>1 DEF GapInHand
<1>6. DOMAIN gap_start = Families
    BY <1>1 DEF FirstOf
<1>7. GapStarts
    <2>1. \A f \in Families : gap_start[f] \in AddressesOf(f)
        BY <1>1, EndsOfFamilies
    <2>2. gap_start["IPv6"] = AllZeroes
        BY <1>1, EndsOfFamilies DEF Families
    <2> QED BY <1>1, <1>6, <2>1, <2>2 DEF GapStarts
<1>8. NetworksPassed
    BY <1>1 DEF NetworksPassed, Noticed, Announced, Whole
<1>9. BogonsInFront /\ BogonsOutside
    BY <1>1, <1>2, <1>3 DEF BogonsInFront, BogonsOutside
<1>10. SettledInFront
    <2>1. \A f \in Families : \A a \in AddressesOf(f) : ~Less(a, gap_start[f])
        BY <1>1, EndsOfFamilies
    <2> QED BY <1>1, <1>3, <2>1 DEF SettledInFront, Families
<1> QED BY <1>1, <1>2, <1>4, <1>5, <1>7, <1>8, <1>9, <1>10 DEF GapsInv

LEMMA NextKeepsGaps == BInv /\ [Next]_vars => BInv'
<1> SUFFICES ASSUME BInv, [Next]_vars PROVE BInv'
    OBVIOUS
<1>1. db' = db /\ mode' = mode
    BY DEF Next, Step, vars, Fixed, NextNetwork, Flatten, Collect, ReturnWhole, Break, Again,
           PopBogon, SkipNetwork, PassNetwork, GapEnds, SummarizeTurn, SummarizeRefused,
           SummaryIsLost, Finish, FinishIPv6, FinishIPv4, FlattenNoMemory, CollectNoMemory,
           CollectCrashes, BreakLosesParts, BreakNoMemory, ReadNoMemory, SummarizeNoMemory
<1>2. db' \in Databases /\ (NearV4' <=> NearV4)
    BY <1>1, SameDatabase DEF BInv
<1>3. SUFFICES ASSUME mode = "bogons", trouble' = {}, ~NearV4 PROVE GapsInv'
    BY <1>1, <1>2 DEF BInv
<1>4. CASE \/ FlattenNoMemory \/ CollectNoMemory \/ CollectCrashes \/ BreakLosesParts
           \/ BreakNoMemory \/ ReadNoMemory \/ SummarizeNoMemory \/ SummarizeRefused
    <2>1. trouble' # {}
        BY <1>4 DEF FlattenNoMemory, CollectNoMemory, CollectCrashes, BreakLosesParts, BreakNoMemory,
                    ReadNoMemory, SummarizeNoMemory, SummarizeRefused, NoMemory, ReturnError
    <2> QED BY <1>3, <2>1
<1>5. CASE UNCHANGED vars \/ NextNetwork \/ Step
    <2>1. trouble = {}
        <3>1. trouble \subseteq trouble'
            BY <1>5 DEF Step, vars, NextNetwork, Flatten, Collect, ReturnWhole, Break, Again,
               PopBogon, SkipNetwork, PassNetwork, GapEnds, SummarizeTurn, SummarizeRefused,
               Finish, FinishIPv6, FinishIPv4, GoOn, ReturnNetwork, ReturnEnd, ReturnError,
               SummarizeGap, Close
        <3> QED BY <1>3, <3>1
    <2>2. GapsInv
        BY <1>3, <2>1 DEF BInv
    <2>3. state \notin {"next", "collecting", "breaking"}
        BY <2>2 DEF GapsInv, Progress, Families
    <2>4. ~Flatten /\ ~Collect /\ ~ReturnWhole /\ ~Break
        BY <2>3 DEF Flatten, Collect, ReturnWhole, Break, Again
    <2>5. CASE UNCHANGED vars \/ NextNetwork
        BY <1>3, <2>2, <2>5, CallKeepsGaps
    <2>6. CASE PopBogon
        BY <2>2, <2>6, PopKeepsGaps
    <2>7. CASE SkipNetwork
        BY <2>2, <2>7, SkipKeepsGaps
    <2>8. CASE PassNetwork
        BY <1>3, <2>1, <2>2, <2>8, PassKeepsGaps
    <2>9. CASE GapEnds
        BY <2>2, <2>9, GapEndsKeepsGaps
    <2>10. CASE SummarizeTurn
        BY <2>2, <2>10, TurnKeepsGaps
    <2>11. CASE Finish
        BY <1>3, <2>1, <2>2, <2>11, FinishKeepsGaps
    <2>12. CASE FinishIPv6
        BY <1>3, <2>1, <2>2, <2>12, FinishIPv6KeepsGaps
    <2>13. CASE FinishIPv4
        BY <2>2, <2>13, FinishIPv4KeepsGaps
    <2> QED BY <1>4, <1>5, <2>4, <2>5, <2>6, <2>7, <2>8, <2>9, <2>10, <2>11, <2>12, <2>13 DEF Step
<1> QED BY <1>4, <1>5 DEF Next

-----------------------------------------------------------------------------
(* The theorems about bogons *)

\* In a listing of bogons no call of which has failed, what is on the stack and what
\* was returned is in order and in front of where the next gap starts, it has no address
\* of a network that is noticed, and with the networks it has each address in front of
\* the next gap.
THEOREM BogonsInvariant == Spec => []BogonsInv
<1>1. Spec => []BInv
    BY InitGaps, NextKeepsGaps, PTL DEF Spec
<1>2. BInv => BogonsInv
    BY DEF BInv, GapsInv, BogonsInv
<1> QED BY <1>1, <1>2, PTL

\* The invariants of both modes
THEOREM ListingInvariant == Spec => []ListingInv
<1>1. FlattenedInv /\ BogonsInv => ListingInv
    BY DEF ListingInv
<1> QED BY <1>1, FlattenedInvariant, BogonsInvariant, PTL

LEMMA InvGivesGaps == BInv => BogonsAreGaps
<1> SUFFICES ASSUME BInv, mode = "bogons", trouble = {}, ~NearV4, NEW n \in Answer
             PROVE  /\ \A m \in Former : Family(m.path) = Family(n.path) => Less(Upto[m.path], From[n.path])
                    /\ \A p \in Noticed(Family(n.path)) : <<p, n.path>> \notin Meeting
    BY DEF BogonsAreGaps
<1>1. n \in Range(returned) /\ n = Last(returned)
    BY DEF Answer
<1>2. /\ BogonsInFront /\ BogonsOutside
      /\ returned \in Seq([path : Path, owner : Path])
    BY DEF BInv, GapsInv
<1>3. Len(returned) \in Nat /\ DOMAIN returned = 1..Len(returned)
    BY <1>2, LenProperties
<1>4. Len(returned) \in 1..Len(returned)
    <2>1. \E i \in DOMAIN returned : TRUE
        BY <1>1 DEF Range
    <2> QED BY <1>3, <2>1
<1>5. n = returned[Len(returned)]
    BY <1>1 DEF Last
<1>6. ASSUME NEW m \in Former, Family(m.path) = Family(n.path) PROVE Apart(m.path, n.path)
    <2>1. PICK i \in 1..(Len(returned) - 1) : m = returned[i]
        BY DEF Former
    <2>2. i \in 1..Len(returned) /\ i < Len(returned)
        BY <1>3, <2>1
    <2> QED BY <1>2, <1>3, <1>4, <1>5, <1>6, <2>1, <2>2 DEF BogonsInFront
<1>7. \A p \in Noticed(Family(n.path)) : <<p, n.path>> \notin Meeting
    BY <1>1, <1>2 DEF BogonsOutside, Bogons
<1> QED BY <1>6, <1>7 DEF Apart

\* Until a call fails, the bogons of any database come in order within their family, and
\* none has an address of a network that is noticed, if no network is near the IPv4 range.
THEOREM BogonsAreRight == Spec => []BogonsAreGaps
<1>1. Spec => []BInv
    BY InitGaps, NextKeepsGaps, PTL DEF Spec
<1> QED BY <1>1, InvGivesGaps, PTL

LEMMA InvGivesAllGaps == BInv => BogonsAreComplete
<1> SUFFICES ASSUME BInv, mode = "bogons", outcome = "end", trouble = {}, ~NearV4,
                    NEW f \in Families, Noticed(f) # {}
             PROVE  AddressesOf(f) \subseteq Covered(ReturnedPaths \cup Announced(f))
    BY DEF BogonsAreComplete
<1>1. GapsInv
    BY DEF BInv
<1>2. stack = {} /\ Finished(f) /\ returned \in Seq([path : Path, owner : Path])
    BY <1>1 DEF GapsInv, Progress
<1>3. AddressesOf(f) \subseteq Settled(f)
    BY <1>1, <1>2 DEF GapsInv, NetworksPassed, Finished
<1>4. ReturnedPaths = {n.path : n \in Range(returned)}
    BY <1>2, LenProperties DEF ReturnedPaths, Range
<1>5. Bogons = Range(returned)
    BY <1>2 DEF Bogons
<1> QED BY <1>3, <1>4, <1>5 DEF Settled

\* When the end of a listing of bogons is reached and no call failed, each address of a
\* family with a network that is noticed is in a bogon or in a network, if no network is
\* near the IPv4 range.
THEOREM BogonsAreAll == Spec => []BogonsAreComplete
<1>1. Spec => []BInv
    BY InitGaps, NextKeepsGaps, PTL DEF Spec
<1> QED BY <1>1, InvGivesAllGaps, PTL
=============================================================================

------------------------- MODULE DatabaseEnumerator -------------------------
(***************************************************************************)
(* Listing a database in the two modes that work on top of the plain one:  *)
(* flattened, where each address is listed once, with the most specific    *)
(* network that has it, and bogons, the gaps between the networks          *)
(* (loc_database_enumerator_next_network in src/src/database.c).           *)
(*                                                                         *)
(* What they read from the database comes as NetworkListing has it: one    *)
(* network after the other, in order.  The lists are sorted and have no    *)
(* network twice (ListsSorted in NetworkLists), so they are sets here, and *)
(* what an exclusion fills them with is Remaining (RemainderIsExact there). *)
(***************************************************************************)
EXTENDS NetworkOperations

CONSTANTS Databases,  \* functions from paths to [wanted, country : BOOLEAN]
          MaxFailed   \* bound: after how many failed calls the caller gives up

\* Whether a network matches the filter and whether it has a country code is all
\* that counts of its attributes.  No network spans the IPv4 range: such a
\* database is not even listed reliably, see NetworkEnumerator.
ASSUME DatabasesAssumption ==
    \A d \in Databases : /\ DOMAIN d \subseteq Path
                         /\ d \in [DOMAIN d -> [wanted : BOOLEAN, country : BOOLEAN]]
                         /\ \A p \in DOMAIN d : ~SpansV4(p)
ASSUME MaxFailedAssumption == MaxFailed \in Nat

VARIABLES db,
          mode,       \* "flattened" or "bogons"
          unread,     \* the networks the plain listing has still to come to
          stack,      \* networks to return before those
          network,    \* flattened: the network that is looked at, {} if there is none
          subnets,    \* flattened: the networks found inside it
          gap_start,  \* bogons: gap6_start and gap4_start
          gap_end,    \* bogons: the end of the gap that is summarised
          start,      \* bogons: where what is left of it starts, NoAddress if nothing is
          state,      \* "idle", what a call does, or "crashed"
          outcome,    \* how the last call ended
          returned,   \* auxiliary: the networks returned so far
          failed,     \* auxiliary: how many calls failed
          trouble     \* auxiliary: why, or what was lost

vars == <<db, mode, unread, stack, network, subnets, gap_start, gap_end, start, state,
          outcome, returned, failed, trouble>>
gap == <<gap_start, gap_end, start>>

Families == {"IPv4", "IPv6"}
Family(p) == IF IsV4(p) THEN "IPv4" ELSE "IPv6"

\* loc_address_reset, loc_address_reset_last
FirstOf == [f \in Families |-> FirstAddress(IF f = "IPv4" THEN V4Prefix ELSE <<>>)]
LastOf == [f \in Families |-> LastAddress(IF f = "IPv4" THEN V4Prefix ELSE <<>>)]

\* A network on a list, and the network of the database whose attributes it has
Part(p, owner) == [path |-> p, owner |-> owner]
Whole(paths) == {Part(p, p) : p \in paths}

Init ==
    /\ db \in Databases
    /\ mode \in {"flattened", "bogons"}
    /\ unread = Whole(DOMAIN db)
    /\ stack = {} /\ network = {} /\ subnets = {}
    /\ gap_start = FirstOf /\ gap_end = AllZeroes /\ start = NoAddress
    /\ state = "idle" /\ outcome = "none"
    /\ returned = <<>> /\ failed = 0 /\ trouble = {}

-----------------------------------------------------------------------------
(* Lists *)

Order == {pair \in Path \X Path : NetworkLess(pair[1], pair[2])}
Before(m, n) == <<m.path, n.path>> \in Order
After(n, list) == {m \in list : Before(n, m)}
Least(list) == CHOOSE n \in list : \A m \in list : m = n \/ Before(n, m)

\* loc_network_list_push, loc_network_list_merge: a network that is on the list
\* already is not put there again.
Pushed(list, networks) ==
    list \cup {n \in networks : \A m \in list : m.path # n.path}

\* The parts of a list that may be handled already when memory runs out
Begun(list) == {{m \in list : Before(m, n)} : n \in list}

Wanted(n) == db[n.owner].wanted
\* The filter is off while networks are read ahead.
Passing(networks, filter) ==
    IF filter = "on" THEN {n \in networks : Wanted(n)} ELSE networks

\* __loc_database_enumerator_next_network: the first network of the stack, or
\* else of the database, that passes the filter; those in front are dropped.
Taken(filter) ==
    LET stacked == Passing(stack, filter)
        listed == Passing(unread, filter)
    IN  CASE stacked # {} -> [network |-> {Least(stacked)},
                              stack |-> After(Least(stacked), stack), unread |-> unread]
          [] stacked = {} /\ listed # {} -> [network |-> {Least(listed)}, stack |-> {},
                                             unread |-> After(Least(listed), unread)]
          [] OTHER -> [network |-> {}, stack |-> {}, unread |-> {}]

\* The same when there is no memory for a network of the database: it is lost.
Untaken ==
    {[stack |-> {}, unread |-> After(n, unread)] :
        n \in {m \in unread : ~ \E k \in Passing(stack \cup unread, "on") : Before(k, m)}}

-----------------------------------------------------------------------------
(* Calls *)

\* The caller asks for the next network, until there is none.
NextNetwork ==
    /\ state = "idle" /\ outcome # "end" /\ failed < MaxFailed
    /\ state' = IF mode = "flattened" THEN "next" ELSE "bogon"
    /\ UNCHANGED <<db, mode, unread, stack, network, subnets, gap, outcome, returned,
                   failed, trouble>>

GoOn(what) == state' = what /\ UNCHANGED <<outcome, returned, failed, trouble>>
ReturnNetwork(n) ==
    /\ state' = "idle" /\ outcome' = "network"
    /\ returned' = Append(returned, n)
    /\ UNCHANGED <<failed, trouble>>
ReturnEnd == state' = "idle" /\ outcome' = "end" /\ UNCHANGED <<returned, failed, trouble>>
ReturnError(why) ==
    /\ state' = "idle" /\ outcome' = "error"
    /\ failed' = failed + 1
    /\ trouble' = trouble \cup {why}
    /\ UNCHANGED returned

\* Bound: memory runs out once.
MemoryLasts == trouble \cap {"memory", "merge"} = {}
NoMemory(why) == MemoryLasts /\ ReturnError(why)

Fixed == UNCHANGED <<db, mode>>

-----------------------------------------------------------------------------
(* __loc_database_enumerator_next_network_flattened *)

Flatten ==
    /\ state = "next"
    /\ \E taken \in {Taken("on")} :
          /\ network' = taken.network
          /\ stack' = taken.stack /\ unread' = taken.unread
          /\ IF taken.network = {} THEN ReturnEnd ELSE GoOn("collecting")
    /\ UNCHANGED <<subnets, gap>> /\ Fixed

\* There is no memory for the network or, in the first call, for the list of
\* subnets: either way it is lost.
FlattenNoMemory ==
    /\ state = "next"
    /\ \E taken \in Untaken : stack' = taken.stack /\ unread' = taken.unread
    /\ NoMemory("memory")
    /\ UNCHANGED <<network, subnets, gap>> /\ Fixed

Subnets(networks) ==
    {n \in networks : \E whole \in network : <<n.path, whole.path>> \in Within}

\* Fault: only networks that match are read ahead.
CollectMatching ==
    /\ state = "collecting"
    /\ \E taken \in {Taken("on")} : \E inside \in {Subnets(taken.network)} :
          /\ unread' = taken.unread
          /\ subnets' = Pushed(subnets, inside)
          /\ stack' = Pushed(taken.stack, taken.network \ inside)
          /\ GoOn(IF inside = {} THEN "breaking" ELSE "collecting")
    /\ UNCHANGED <<network, gap>> /\ Fixed

\* The networks that follow are read ahead, whether they match or not, as long
\* as they are subnets; the first one that is not goes back on the stack.
Collect ==
    /\ state = "collecting"
    /\ \E taken \in {Taken("off")} : \E inside \in {Subnets(taken.network)} :
          /\ unread' = taken.unread
          /\ subnets' = Pushed(subnets, inside)
          /\ stack' = Pushed(taken.stack, taken.network \ inside)
          /\ GoOn(IF inside = {} THEN "breaking" ELSE "collecting")
    /\ UNCHANGED <<network, gap>> /\ Fixed

\* There is no room for the network that was read on the list of subnets, or on
\* the stack if it did not come from there.  It is lost, and so are the subnets and
\* the network they were collected for.
CollectNoMemory ==
    /\ state = "collecting"
    /\ \E taken \in {Taken("off")} :
          /\ taken.network # {} /\ (stack = {} \/ Subnets(taken.network) # {})
          /\ stack' = taken.stack /\ unread' = taken.unread
    /\ subnets' = {} /\ network' = {}
    /\ NoMemory("memory")
    /\ UNCHANGED gap /\ Fixed

\* Without memory for a network of the database there is no subnet, but the code
\* drops its reference to it: it goes through a null pointer, and the process ends.
CollectCrashes ==
    /\ state = "collecting" /\ stack = {} /\ unread # {} /\ MemoryLasts
    /\ state' = "crashed" /\ trouble' = trouble \cup {"memory"}
    /\ UNCHANGED <<unread, stack, network, subnets, gap, outcome, returned, failed>> /\ Fixed

ReturnWhole ==
    /\ state = "breaking" /\ subnets = {}
    /\ \E n \in network : ReturnNetwork(n)
    /\ network' = {}
    /\ UNCHANGED <<unread, stack, subnets, gap>> /\ Fixed

\* Fault: nothing is taken out of the network.
ExcludedNothing == network

\* What is left of the network without its subnets, with its attributes
Excluded ==
    UNION {{Part(p, whole.owner) : p \in Remaining(whole.path, {n.path : n \in subnets})} :
             whole \in network}

\* What the call has put in the place of the network is on the stack, and it
\* starts again.
Again ==
    /\ state = "breaking" /\ subnets # {}
    /\ network' = {} /\ subnets' = {}
    /\ GoOn("next")
    /\ UNCHANGED <<unread, gap>> /\ Fixed

\* Fault: the subnets are dropped.
BreakDropsSubnets == Again /\ stack' = Pushed(stack, Excluded)

Break == Again /\ stack' = Pushed(Pushed(stack, subnets), Excluded)

\* Parts the exclusion has no memory for are left out, and nothing is said.
BreakLosesParts ==
    /\ state = "breaking" /\ subnets # {} /\ MemoryLasts
    /\ \E parts \in SUBSET Excluded : stack' = Pushed(Pushed(stack, subnets), parts)
    /\ network' = {} /\ subnets' = {}
    /\ state' = "next" /\ trouble' = trouble \cup {"memory"}
    /\ UNCHANGED <<unread, gap, outcome, returned, failed>> /\ Fixed

\* When there is no memory for the excluded list, or to merge the parts or the
\* subnets, what was merged stays on the stack.
BreakNoMemory ==
    /\ state = "breaking" /\ subnets # {}
    /\ \/ stack' = stack /\ NoMemory("memory")
       \/ /\ stack' \in {Pushed(stack, subnets \cup begun) : begun \in Begun(Excluded)}
          /\ NoMemory("memory")
       \/ /\ stack' \in {Pushed(stack, begun) : begun \in Begun(subnets)}
          /\ NoMemory("merge")
    /\ network' = {} /\ subnets' = {}
    /\ UNCHANGED <<unread, gap>> /\ Fixed

-----------------------------------------------------------------------------
(* __loc_database_enumerator_next_bogon *)

PopBogon ==
    /\ state = "bogon" /\ stack # {}
    /\ stack' = After(Least(stack), stack)
    /\ ReturnNetwork(Least(stack))
    /\ UNCHANGED <<unread, network, subnets, gap>> /\ Fixed

\* loc_network_list_summarize: the call goes on with a range, if it has one, and
\* fails if it is refused.
SummarizeGap(first, last, next) ==
    /\ gap_end' = last
    /\ start' = IF ValidRange(first, last) THEN first ELSE NoAddress
    /\ IF ValidRange(first, last) \/ Less(last, first) THEN GoOn(next) ELSE ReturnError("refused")

SummarizeTurn ==
    /\ start # NoAddress
    /\ \E p \in Fitting(start, gap_end) :
          /\ stack' = Pushed(stack, Whole({p}))
          /\ start' = IF IsAllOnes(Upto[p]) \/ Less(gap_end, Behind[p]) THEN NoAddress
                      ELSE Behind[p]
    /\ GoOn(state)
    /\ UNCHANGED <<unread, network, subnets, gap_start, gap_end>> /\ Fixed

\* What was summarised stays on the stack.  The network is gone, but the gap
\* starts where it did.
SummaryIsLost ==
    /\ start' = NoAddress /\ network' = {}
    /\ UNCHANGED <<unread, stack, subnets, gap_start, gap_end>> /\ Fixed

SummarizeRefused ==
    start # NoAddress /\ Fitting(start, gap_end) = {} /\ SummaryIsLost /\ ReturnError("refused")
SummarizeNoMemory == start # NoAddress /\ SummaryIsLost /\ NoMemory("memory")

Reading == state = "bogon" /\ stack = {}

\* No country code, or taken for one inside a former network
Skipped(n) ==
    \/ ~db[n.owner].country
    \/ ~Less(gap_start[Family(n.path)], Upto[n.path])

SkipNetwork ==
    /\ Reading
    /\ \E taken \in {Taken("on")} :
          /\ \E n \in taken.network : Skipped(n)
          /\ unread' = taken.unread
    /\ UNCHANGED <<stack, network, subnets, gap>> /\ GoOn("bogon") /\ Fixed

\* The next network, and the gap in front of it
PassNetwork ==
    /\ Reading
    /\ \E taken \in {Taken("on")} :
          /\ unread' = taken.unread
          /\ \E n \in taken.network :
                /\ ~Skipped(n)
                /\ SummarizeGap(gap_start[Family(n.path)], Decrement(From[n.path]), "gap")
                /\ network' = {m \in {n} : state' = "gap"}
    /\ UNCHANGED <<stack, subnets, gap_start>> /\ Fixed

\* Fault: the next gap starts at the end of the network.
GapEndsInclusive ==
    /\ state = "gap" /\ start = NoAddress
    /\ \E n \in network : gap_start' = [gap_start EXCEPT ![Family(n.path)] = Upto[n.path]]
    /\ network' = {}
    /\ UNCHANGED <<unread, stack, subnets, gap_end, start>> /\ GoOn("bogon") /\ Fixed

GapEnds ==
    /\ state = "gap" /\ start = NoAddress
    /\ \E n \in network : gap_start' = [gap_start EXCEPT ![Family(n.path)] = Behind[n.path]]
    /\ network' = {}
    /\ UNCHANGED <<unread, stack, subnets, gap_end, start>> /\ GoOn("bogon") /\ Fixed

ReadNoMemory ==
    /\ Reading
    /\ \E taken \in Untaken : unread' = taken.unread
    /\ NoMemory("memory")
    /\ UNCHANGED <<stack, network, subnets, gap>> /\ Fixed

\* FINISH: what is left of a family, unless no network of it was seen
Close(f) ==
    IF IsAllZeroes(gap_start[f]) THEN UNCHANGED <<gap_end, start>> /\ GoOn(f)
    ELSE SummarizeGap(gap_start[f], LastOf[f], f)

Reset(f) ==
    gap_start' = IF IsAllZeroes(gap_start[f]) THEN gap_start
                 ELSE [gap_start EXCEPT ![f] = FirstOf[f]]

Finish ==
    /\ Reading /\ Taken("on").network = {}
    /\ unread' = {}
    /\ Close("IPv6")
    /\ UNCHANGED <<stack, network, subnets, gap_start>> /\ Fixed

FinishIPv6 ==
    /\ state = "IPv6" /\ start = NoAddress
    /\ Reset("IPv6")
    /\ Close("IPv4")
    /\ UNCHANGED <<unread, stack, network, subnets>> /\ Fixed

\* Fault: what was summarised last is not looked for on the stack.
FinishIPv4AtOnce ==
    /\ state = "IPv4" /\ start = NoAddress
    /\ Reset("IPv4") /\ ReturnEnd
    /\ UNCHANGED <<unread, stack, network, subnets, gap_end, start>> /\ Fixed

FinishIPv4 ==
    /\ state = "IPv4" /\ start = NoAddress
    /\ Reset("IPv4")
    /\ IF stack = {} THEN ReturnEnd ELSE GoOn("bogon")
    /\ UNCHANGED <<unread, stack, network, subnets, gap_end, start>> /\ Fixed

-----------------------------------------------------------------------------
Step == \/ Flatten \/ Collect \/ ReturnWhole \/ Break
        \/ PopBogon \/ SkipNetwork \/ PassNetwork \/ GapEnds
        \/ SummarizeTurn \/ SummarizeRefused
        \/ Finish \/ FinishIPv6 \/ FinishIPv4

Next == \/ NextNetwork \/ Step
        \/ FlattenNoMemory \/ CollectNoMemory \/ CollectCrashes
        \/ BreakLosesParts \/ BreakNoMemory
        \/ ReadNoMemory \/ SummarizeNoMemory

\* A call runs to its end once it is made; the caller need not make another.
Spec == Init /\ [][Next]_vars /\ WF_vars(Step)

-----------------------------------------------------------------------------
(* Properties *)

Covered(paths) == {a \in Address : \E p \in paths : OnPath(p, a)}
ReturnedPaths == {returned[i].path : i \in 1..Len(returned)}

\* What a flattened listing has still to return, and what has become of it
Pending == stack \cup unread \cup network \cup subnets
Rest == stack \cup unread

\* The more specific networks inside one of the database
Inside(p) == {q \in DOMAIN db \ {p} : <<q, p>> \in Within}

Apart(p, q) == Less(Upto[p], From[q])

\* Each is a part of a network of the database, and none is there twice.
PartsOfNetworks ==
    /\ \A n \in Pending \cup Range(returned) :
          /\ n.owner \in DOMAIN db /\ n = Part(n.path, n.owner)
          /\ <<n.path, n.owner>> \in Within
    /\ \A n \in unread : n.path = n.owner
    /\ \A m, n \in Pending : m.path = n.path => m = n
    /\ \A m, n \in network : m = n
    /\ \A n \in network : Wanted(n)

\* The stack comes before the database, and before both of them the network that
\* is looked at with the subnets found inside it.  They are all there is inside it
\* when it is taken apart.
InFront ==
    /\ \A m \in stack, n \in unread : Before(m, n)
    /\ \A m \in network \cup subnets, n \in Rest : Before(m, n)
    /\ \A m \in network, n \in subnets : Before(m, n) /\ <<n.path, m.path>> \in Within
    /\ state = "breaking" => \A m \in network, n \in Rest : <<n.path, m.path>> \notin Within

\* Between two calls, and while a call looks for a network, there is none; no gap
\* is summarised.
LookedAt ==
    /\ state \in {"idle", "next", "collecting", "breaking", "crashed"}
    /\ network = {} <=> state \in {"idle", "next"}
    /\ network = {} => subnets = {}
    /\ start = NoAddress
    /\ outcome = "end" => state = "idle" /\ Pending = {}

\* All that was returned lies in front of what is still to come.
ReturnedInFront ==
    /\ \A i, j \in DOMAIN returned : i < j => Apart(returned[i].path, returned[j].path)
    /\ \A m \in Range(returned), n \in Pending : Apart(m.path, n.path)

\* A part of a network has no address of a network inside it; the networks inside
\* one that is still whole are still to come.  Parts of one network are disjoint.
MoreSpecificFirst ==
    /\ \A n \in Pending : n.path # n.owner =>
          \A p \in Inside(n.owner) : <<p, n.path>> \notin Meeting
    /\ \A n \in Pending : n.path = n.owner => Whole(Inside(n.owner)) \subseteq Rest \cup subnets
    /\ \A m, n \in Pending : m # n /\ m.owner = n.owner => <<m.path, n.path>> \notin Meeting

\* What was returned is right for all of its addresses.
ReturnedRight ==
    \A n \in Range(returned) :
        Wanted(n) /\ \A p \in Inside(n.owner) : <<p, n.path>> \notin Meeting

\* The addresses of a network that matches that no other one inside it has are
\* among what was returned of it or is still to come.
NothingLost ==
    \A p \in {q \in DOMAIN db : db[q].wanted} :
        Covered({p}) \ Covered(Inside(p))
            \subseteq Covered({n.path : n \in {m \in Pending \cup Range(returned) : m.owner = p}})

\* The invariant of a flattened listing, whatever calls have failed before
FlattenedInv ==
    mode = "flattened" =>
        /\ PartsOfNetworks /\ InFront /\ LookedAt /\ ReturnedInFront
        /\ "merge" \notin trouble => MoreSpecificFirst /\ ReturnedRight
        /\ trouble = {} => NothingLost

\* The network the last call has returned, and those before it
Answer == {n \in Range(returned) : state = "idle" /\ outcome = "network" /\ n = Last(returned)}
Former == {returned[i] : i \in 1..(Len(returned) - 1)}

\* A flattened listing gives each address once, in order, and to its most specific
\* network: what is returned is behind all that was returned before, and a part of a
\* network that matches, outside of every more specific one.  That is so even after
\* calls that failed and lost networks on the way, unless one had memory to merge
\* some of the subnets and no more: a subnet that was lost is then listed as a part
\* of the one around it (database.c:1492).
FlattenedIsLongestMatch ==
    mode = "flattened" =>
        \A n \in Answer :
            /\ \A m \in Former : Less(Upto[m.path], From[n.path])
            /\ "merge" \notin trouble =>
                  /\ Wanted(n) /\ <<n.path, n.owner>> \in Within
                  /\ \A p \in DOMAIN db \ {n.owner} :
                        <<p, n.owner>> \in Within => <<p, n.path>> \notin Meeting

\* When the end of a flattened listing is reached without a failure, the addresses
\* that were listed are those of which the most specific network matches.
FlattenedIsComplete ==
    mode = "flattened" /\ outcome = "end" /\ trouble = {} =>
        {a \in Address : \E p \in LongestMatch(DOMAIN db, a) : db[p].wanted}
            = Covered(ReturnedPaths)

\* The networks the bogons are the gaps between
Announced(f) == {p \in DOMAIN db : db[p].wanted /\ db[p].country /\ Family(p) = f}
AddressesOf(f) == {a \in Address : V4Mapped(a) <=> f = "IPv4"}

\* Networks of one address right where a gap starts, at the first address of the
\* family or behind another network: they are taken for a subnet of a former one
\* (database.c:1585), and become a part of the gap.
Unnoticed(f) ==
    {p \in Announced(f) :
        /\ From[p] = Upto[p]
        /\ From[p] = FirstOf[f] \/ \E q \in Announced(f) : Apart(q, p) /\ From[p] = Behind[q]
        /\ \A q \in Announced(f) \ {p} : <<p, q>> \notin Within}
Noticed(f) == Announced(f) \ Unnoticed(f)

\* Networks of IPv6 in the block that ends with the IPv4 range (::/80), or in the
\* one next to it.  The gaps around them are not computed right.
LeadingZeroes == Min({i \in 1..V4Len : V4Prefix[i] = 1}) - 1
NearV4 == \E p \in DOMAIN db : ~IsV4(p) /\ \A i \in 1..(LeadingZeroes - 1) : From[p][i] = 0

\* From the last address of those two blocks on
Beyond(a) ==
    LeadingZeroes > 1 /\ ~Less(a, [i \in 1..W |-> IF i < LeadingZeroes THEN 0 ELSE 1])

\* The bogons that were found, and the addresses that are in one of them or in a
\* network of the family
Bogons == stack \cup Range(returned)
Settled(f) == Covered({n.path : n \in Bogons} \cup Announced(f))

\* The family of which a gap is looked for, or was just now
InHand == {f \in Families : state = f \/ \E n \in network : Family(n.path) = f}

\* A family is finished, or its gaps are still looked for.
Finished(f) == IsAllZeroes(gap_start[f]) /\ unread = {} /\ network = {}

\* What a call is at
Progress ==
    /\ state \in {"idle", "bogon", "gap"} \cup Families
    /\ \A n \in Bogons : n = Part(n.path, n.path) /\ n.path \in Path
    /\ unread \subseteq Whole(DOMAIN db)
    /\ network = {} <=> state # "gap"
    /\ \A m, n \in network : m = n
    /\ \A n \in network : ~Skipped(n) /\ \E f \in Families : n \in Whole(Announced(f))
    /\ \A m \in network, n \in unread : Before(m, n)
    /\ state \in Families => unread = {}
    /\ state = "IPv4" => IsAllZeroes(gap_start["IPv6"])
    /\ outcome = "end" => state = "idle" /\ stack = {} /\ \A f \in Families : Finished(f)

\* What is left of a gap lies in one family, in front of the network at its end or
\* of the end of the family, and has no address of a network.
GapInHand ==
    /\ start # NoAddress => state \in {"gap"} \cup Families
    /\ start # NoAddress => \A f \in InHand :
          /\ start \in AddressesOf(f) /\ gap_end \in AddressesOf(f) /\ ~Less(gap_end, start)
          /\ f = "IPv6" => (start = AllZeroes \/ Beyond(start)) /\ Beyond(gap_end)
          /\ state = f => gap_end = LastOf[f]
          /\ \A n \in network : ~IsAllZeroes(From[n.path]) /\ gap_end = Decrement(From[n.path])
          /\ \A p \in Noticed(f) : Less(Upto[p], start) \/ Less(gap_end, From[p])

\* The next gap starts at the first address, or behind a network that comes before
\* those still to come.
GapStarts ==
    /\ DOMAIN gap_start = Families
    /\ \A f \in Families :
          /\ gap_start[f] \in AddressesOf(f)
          /\ f = "IPv6" => gap_start[f] = AllZeroes \/ Beyond(gap_start[f])
          /\ \/ gap_start[f] = FirstOf[f]
             \/ \E q \in Announced(f) : /\ gap_start[f] = Behind[q]
                                        /\ \A n \in unread \cup network : <<q, n.path>> \in Order

\* A network is still to come or in front of the next gap, until its family is finished.
NetworksPassed ==
    \A f \in Families : \A p \in Noticed(f) :
        \/ Part(p, p) \in unread \cup network
        \/ ~IsAllZeroes(gap_start[f]) /\ (Less(Upto[p], gap_start[f]) \/ IsAllOnes(gap_start[f]))
        \/ Finished(f) /\ AddressesOf(f) \subseteq Settled(f)

\* Bogons of one family come in order, in front of the gaps still to be found.
BogonsInFront ==
    /\ \A i, j \in DOMAIN returned :
          i < j /\ Family(returned[i].path) = Family(returned[j].path)
              => Apart(returned[i].path, returned[j].path)
    /\ \A m \in Range(returned), n \in stack :
          Family(m.path) = Family(n.path) => Apart(m.path, n.path)
    /\ \A m, n \in stack :
          Family(m.path) = Family(n.path) => m = n \/ Apart(m.path, n.path) \/ Apart(n.path, m.path)
    /\ \A n \in Bogons : LET f == Family(n.path) IN
          /\ f \in InHand /\ start # NoAddress => Less(Upto[n.path], start)
          /\ f \in InHand /\ start = NoAddress => \A m \in network : Less(Upto[n.path], From[m.path])
          /\ f \notin InHand => Less(Upto[n.path], gap_start[f]) \/ Finished(f)

BogonsOutside ==
    \A n \in Bogons : \A p \in Noticed(Family(n.path)) : <<p, n.path>> \notin Meeting

\* In front of the gaps still to be found, each address is settled.
SettledInFront ==
    \A f \in Families, a \in Address : a \in AddressesOf(f) \ Settled(f) =>
        /\ ~Less(a, gap_start[f])
        /\ f \in InHand /\ start # NoAddress => ~Less(a, start)
        /\ f \in InHand /\ start = NoAddress => \A n \in network : ~Less(a, From[n.path])
        /\ state = f /\ start = NoAddress => IsAllZeroes(gap_start[f])

\* The invariant of a listing of bogons no call of which has failed
BogonsInv ==
    mode = "bogons" /\ trouble = {} /\ ~NearV4 =>
        /\ Progress /\ GapInHand /\ GapStarts /\ NetworksPassed
        /\ BogonsInFront /\ BogonsOutside /\ SettledInFront

ListingInv == FlattenedInv /\ BogonsInv

\* As long as no call has failed, bogons come in order within their family, and none
\* has an address of a former one, or of a network of that family, but for those
\* networks that are not noticed.
BogonsAreGaps ==
    mode = "bogons" /\ trouble = {} /\ ~NearV4 =>
        \A n \in Answer :
            /\ \A m \in Former : Family(m.path) = Family(n.path) => Less(Upto[m.path], From[n.path])
            /\ \A p \in Noticed(Family(n.path)) : <<p, n.path>> \notin Meeting

\* When the end is reached without a failure, all gaps of each family that has a
\* network were listed.
BogonsAreComplete ==
    mode = "bogons" /\ outcome = "end" /\ trouble = {} =>
        \A f \in {g \in Families : Noticed(g) # {} /\ ~NearV4} :
            AddressesOf(f) \subseteq Covered(ReturnedPaths \cup Announced(f))

\* A call returns, however often it starts again, or memory runs out while it reads
\* ahead and it takes the process with it (database.c:1436).
CallReturns == state # "idle" ~> state \in {"idle", "crashed"}

\* "This function finds all bogons (i.e. gaps) between the input networks"
\* (database.c:1519): with memory, it does not fail.
BogonsAreFound == mode = "bogons" /\ MemoryLasts => outcome # "error"
=============================================================================

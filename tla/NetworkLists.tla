---------------------------- MODULE NetworkLists ----------------------------
(***************************************************************************)
(* Sorted lists of networks (src/src/network-list.c) and what is computed  *)
(* with them: the networks that make up a range of addresses, and what     *)
(* remains of a network without others (exclude in src/src/network.c).     *)
(* One caller, one list; a call runs a turn of one of its loops at a time. *)
(*                                                                         *)
(* The arrays grow by blocks; here any insertion may be the one for which  *)
(* there is no memory.                                                     *)
(***************************************************************************)
EXTENDS NetworkOperations

CONSTANTS
    Networks,   \* the networks the caller has
    Ends,       \* the ends of the ranges it has
    MaxPushed,  \* bound: the length up to which it pushes networks on a list
    MaxMerged,  \* bound: the length up to which it merges lists
    MaxExcluded \* bound: the length of the lists it excludes

ASSUME ListsAssumption ==
    /\ Networks \subseteq Path /\ Ends \subseteq Address
    /\ MaxPushed \in Nat /\ MaxMerged \in Nat /\ MaxExcluded \in Nat

\* ::ffff:0:0/96 has a zero behind as many of its bits as an IPv4 address has of
\* its own: a prefix that reaches that far is refused for an IPv4 address.
ASSUME HalvingAssumption == \E i \in (W - V4Len + 1)..V4Len : V4Prefix[i] = 0

VARIABLES
    list,     \* the list of the caller
    result,   \* the list a call has made
    call,     \* the last call and its arguments
    state,    \* the loop that is running
    outcome,  \* what the last call returned
    start,    \* summarize: the first address not summarised yet
    at,       \* merge, exclude_list: the position in the list that is read
    halving,  \* __loc_network_exclude: the network that is halved, and around what
    todo,     \* exclude_list: to_check
    trouble   \* auxiliary: what went wrong on the way

vars == <<list, result, call, state, outcome, start, at, halving, todo, trouble>>

-----------------------------------------------------------------------------
(* Calls *)

Idle == state = "idle"
NoCall == [op |-> "none"]

Init ==
    /\ list = <<>> /\ result = <<>>
    /\ call = NoCall /\ state = "idle" /\ outcome = "none"
    /\ start = AllZeroes /\ at = 0 /\ halving = {} /\ todo = <<>>
    /\ trouble = {}

Begin(arguments, loop) ==
    /\ Idle
    /\ call' = arguments
    /\ state' = loop
    /\ outcome' = "none"
    /\ at' = 0
    /\ trouble' = {}

\* The caller does one thing after the other: between two of them it releases
\* what the last call returned.
Free == Idle /\ call = NoCall

Release ==
    /\ call # NoCall
    /\ Begin(NoCall, "idle")
    /\ result' = <<>>
    /\ UNCHANGED <<list, start, halving, todo>>

Return(what) ==
    /\ state' = "idle"
    /\ outcome' = what
    /\ start' = AllZeroes /\ at' = 0 /\ halving' = {} /\ todo' = <<>>

\* The short operations: push, pop, pop_first
Change(changed) ==
    /\ Free
    /\ list' = changed
    /\ UNCHANGED <<result, call, state, outcome, start, at, halving, todo, trouble>>

PushNetwork(p) == Len(list) < MaxPushed /\ Change(Push(list, p))
Pop == list # <<>> /\ Change(Front(list))
PopFirst == list # <<>> /\ Change(Tail(list))

-----------------------------------------------------------------------------
(* loc_network_list_summarize *)

\* As database.c calls it, with an empty list.
Summarize(first, last) ==
    /\ Free /\ list = <<>>
    /\ LET valid == ValidRange(first, last)
       IN  /\ Begin([op |-> "summarize", first |-> first, last |-> last, valid |-> valid],
                    IF valid THEN "summarizing" ELSE "idle")
           /\ start' = IF valid THEN first ELSE AllZeroes
    /\ UNCHANGED <<list, result, halving, todo>>

Left == ~Less(call.last, start)

\* The number of the addresses that are left is a wrong one.
Misled == Miscounted(start, call.last)
Misleads == trouble' = trouble \cup {w \in {"misled"} : Misled}

\* Fault: the loop relies on its condition to end.
SummarizeTurnOnly ==
    /\ state = "summarizing" /\ Left
    /\ \E p \in Fitting(start, call.last) :
          /\ list' = Push(list, p)
          /\ start' = Behind[p]
    /\ Misleads
    /\ UNCHANGED <<result, call, state, outcome, at, halving, todo>>

SummarizeTurn ==
    /\ state = "summarizing" /\ Left
    /\ \E p \in Fitting(start, call.last) :
          /\ list' = Push(list, p)
          /\ \/ /\ IsAllOnes(Upto[p])
                /\ Return("ok")
             \/ /\ ~IsAllOnes(Upto[p])
                /\ start' = Behind[p]
                /\ UNCHANGED <<state, outcome, at, halving, todo>>
    /\ Misleads
    /\ UNCHANGED <<result, call>>

SummarizeEnds ==
    /\ state = "summarizing" /\ ~Left
    /\ Return("ok")
    /\ UNCHANGED <<list, result, call, trouble>>

SummarizeRefused ==
    /\ state = "summarizing" /\ Left
    /\ Fitting(start, call.last) = {}
    /\ Return("failed")
    /\ trouble' = trouble \cup {w \in {"family"} : ~OneFamily(start, call.last)}
                          \cup {w \in {"misled"} : OneFamily(start, call.last) /\ Misled}
    /\ UNCHANGED <<list, result, call>>

SummarizeNoMemory ==
    /\ state = "summarizing" /\ Left
    /\ Return("failed")
    /\ trouble' = trouble \cup {"memory"}
    /\ UNCHANGED <<list, result, call>>

-----------------------------------------------------------------------------
(* loc_network_list_merge: result into list.  When it fails, what was merged *)
(* stays.                                                                   *)

Merge ==
    /\ result # <<>> /\ Len(list) + Len(result) <= MaxMerged
    /\ Begin([op |-> "merge", union |-> Range(list) \cup Range(result)], "merging")
    /\ UNCHANGED <<list, result, start, halving, todo>>

MergeTurn ==
    /\ state = "merging" /\ at < Len(result)
    /\ list' = Push(list, result[at + 1])
    /\ at' = at + 1
    /\ UNCHANGED <<result, call, state, outcome, start, halving, todo, trouble>>

MergeNoMemory ==
    /\ state = "merging" /\ at < Len(result)
    /\ PushFails(list, result[at + 1])
    /\ Return("failed")
    /\ trouble' = trouble \cup {"memory"}
    /\ UNCHANGED <<list, result, call>>

MergeEnds ==
    /\ state = "merging" /\ at = Len(result)
    /\ Return("ok")
    /\ UNCHANGED <<list, result, call, trouble>>

-----------------------------------------------------------------------------
(* __loc_network_exclude_to_list and __loc_network_exclude: halve a network *)
(* around another one, keep the half without it, go on with the half that  *)
(* has it until that half is the other network.                            *)

\* loc_network_exclude halves into its result, loc_network_exclude_list into to_check.
Keep(p) ==
    IF state = "excluding" THEN result' = Push(result, p) /\ UNCHANGED todo
                           ELSE todo' = Push(todo, p) /\ UNCHANGED result

HalveTurn ==
    \E h \in halving :
        /\ CanHalve(h.network)
        /\ \E way \in Ways(h.network, h.other) :
              /\ Keep(way[2])
              /\ halving' = IF way[1] = h.other THEN {}
                            ELSE {[network |-> way[1], other |-> h.other]}
        /\ UNCHANGED <<list, call, state, outcome, start, at, trouble>>

\* The calls give up, but exclude_list only as long as it collects: when it
\* checks, it goes on without the rest of the network.
GiveUp(why) ==
    /\ trouble' = trouble \cup {why}
    /\ \/ /\ state = "checking"
          /\ halving' = {}
          /\ UNCHANGED <<result, state, outcome, start, at, todo>>
       \/ /\ state # "checking"
          /\ result' = <<>>
          /\ Return("failed")
    /\ UNCHANGED <<list, call>>

HalveNoMemory == halving # {} /\ GiveUp("memory")

\* A network that cannot be halved, or neither of whose halves has the other
\* one inside ("We should never get here")
HalveRefused ==
    \E h \in halving :
        /\ CanHalve(h.network) => Ways(h.network, h.other) = {}
        /\ GiveUp(IF CanHalve(h.network) THEN "astray" ELSE "refused")

\* A network without the first one on the list
Exclude(p) ==
    /\ Free /\ list # <<>> /\ Len(list) <= MaxExcluded
    /\ Begin([op |-> "exclude", network |-> p, others |-> {Head(list)}], "excluding")
    /\ halving' = Halving(p, Head(list))
    /\ UNCHANGED <<list, result, start, todo>>

ExcludeEnds ==
    /\ state = "excluding" /\ halving = {}
    /\ Return("ok")
    /\ UNCHANGED <<list, result, call, trouble>>

-----------------------------------------------------------------------------
(* loc_network_exclude_list *)

\* A network without those on the list
ExcludeList(p) ==
    /\ Free /\ Len(list) <= MaxExcluded
    /\ Begin([op |-> "exclude", network |-> p, others |-> Range(list)], "collecting")
    /\ UNCHANGED <<list, result, start, halving, todo>>

CollectTurn ==
    /\ state = "collecting" /\ halving = {} /\ at < Len(list)
    /\ halving' = IF Listed(todo, list[at + 1]) THEN {}
                  ELSE Halving(call.network, list[at + 1])
    /\ at' = at + 1
    /\ UNCHANGED <<list, result, call, state, outcome, start, todo, trouble>>

CollectEnds ==
    /\ state = "collecting" /\ halving = {} /\ at = Len(list)
    /\ state' = "checking"
    /\ at' = 0
    /\ UNCHANGED <<list, result, call, outcome, start, halving, todo, trouble>>

\* The next network to check, popped from the front of to_check
Checking == state = "checking" /\ halving = {} /\ todo # <<>>
Candidate == Head(todo)

CheckListed ==
    /\ Checking
    /\ Listed(list, Candidate)
    /\ todo' = Tail(todo)
    /\ UNCHANGED <<list, result, call, state, outcome, start, at, halving, trouble>>

\* The first network of the list, from smallest_subnet on, that ends the
\* search: it contains the candidate, overlaps it, or comes after it.
EndsSearch(i) ==
    \/ IsSubnet(list[i + 1], Candidate)
    \/ Overlaps(list[i + 1], Candidate)
    \/ NetworkLess(Candidate, list[i + 1])
SearchEnds ==
    {i \in at..Len(list) : /\ i < Len(list) => EndsSearch(i)
                           /\ \A j \in at..(i - 1) : ~EndsSearch(j)}

Contained(i) == i < Len(list) /\ IsSubnet(list[i + 1], Candidate)
Broken(i) == i < Len(list) /\ ~Contained(i) /\ Overlaps(list[i + 1], Candidate)

\* Fault: the next search starts where this one has ended.
SearchedPast(i) == IF i < Len(list) THEN i + 1 ELSE i

\* smallest_subnet: the last network the search has found to be smaller
Searched(i) == IF i > at THEN i - 1 ELSE at

CheckContained ==
    /\ Checking /\ ~Listed(list, Candidate)
    /\ \E i \in SearchEnds : Contained(i) /\ at' = Searched(i)
    /\ todo' = Tail(todo)
    /\ UNCHANGED <<list, result, call, state, outcome, start, halving, trouble>>

CheckBroken ==
    /\ Checking /\ ~Listed(list, Candidate)
    /\ \E i \in SearchEnds : /\ Broken(i)
                             /\ at' = Searched(i)
                             /\ halving' = Halving(Candidate, list[i + 1])
    /\ todo' = Tail(todo)
    /\ UNCHANGED <<list, result, call, state, outcome, start, trouble>>

\* The result of the last push is not looked at: without memory it is lost.
CheckPassed ==
    /\ Checking /\ ~Listed(list, Candidate)
    /\ \E i \in SearchEnds : ~Contained(i) /\ ~Broken(i) /\ at' = Searched(i)
    /\ todo' = Tail(todo)
    /\ \/ result' = Push(result, Candidate) /\ UNCHANGED trouble
       \/ /\ PushFails(result, Candidate)
          /\ trouble' = trouble \cup {"memory"}
          /\ UNCHANGED result
    /\ UNCHANGED <<list, call, state, outcome, start, halving>>

CheckEnds ==
    /\ state = "checking" /\ halving = {} /\ todo = <<>>
    /\ Return("ok")
    /\ UNCHANGED <<list, result, call, trouble>>

-----------------------------------------------------------------------------
Turn ==
    \/ SummarizeEnds \/ MergeEnds \/ ExcludeEnds \/ CollectEnds \/ CheckEnds
    \/ SummarizeRefused \/ HalveRefused
    \/ SummarizeTurn \/ MergeTurn \/ HalveTurn \/ CollectTurn
    \/ CheckListed \/ CheckPassed \/ CheckContained \/ CheckBroken

NoMemory == SummarizeNoMemory \/ MergeNoMemory \/ HalveNoMemory

Next ==
    \/ \E p \in Networks : PushNetwork(p) \/ Exclude(p) \/ ExcludeList(p)
    \/ \E first, last \in Ends : Summarize(first, last)
    \/ Pop \/ PopFirst \/ Merge \/ Release
    \/ Turn \/ NoMemory

\* Calls are sequential code: they go on until they return.  NoMemory is not
\* fair, as no loop may count on it to end.
Spec == Init /\ [][Next]_vars /\ WF_vars(Turn)

-----------------------------------------------------------------------------
(* Properties *)

Covered(networks) == {a \in Address : \E p \in networks : OnPath(p, a)}
Disjoint(networks) == \A p, q \in networks : p # q => ~Overlaps(p, q)
Interval(first, last) == {a \in Address : ~Less(a, first) /\ ~Less(last, a)}

\* Every list is sorted and has no network twice, whatever was pushed on it in
\* which order: bisection always ends where the network has to go.
Sorted(l) == \A i \in 1..(Len(l) - 1) : NetworkLess(l[i], l[i + 1])
ListsSorted == Sorted(list) /\ Sorted(result) /\ Sorted(todo)

\* A merge that succeeds yields exactly the networks of both lists; one that
\* fails half way has taken nothing away and added nothing of its own.
MergeIsUnion ==
    call.op = "merge" =>
        /\ Range(list) \subseteq call.union
        /\ outcome = "ok" => Range(list) = call.union

\* A range that has an end in IPv6 but IPv4 addresses inside
MixedRange == /\ ~V4Mapped(call.first)
              /\ \E a \in Interval(call.first, call.last) : V4Mapped(a)

\* Summarised are, one network after the other and each address once, the
\* addresses in front of start; and when the call succeeds the whole range,
\* unless it leads through the IPv4 range.
SummaryIsExact ==
    call.op = "summarize" =>
        /\ Disjoint(Range(list))
        /\ state = "summarizing" =>
              Covered(Range(list)) = {a \in Interval(call.first, call.last) : Less(a, start)}
        /\ outcome = "ok" /\ ~MixedRange =>
              Covered(Range(list)) = Interval(call.first, call.last)

\* A range is summarised by as few networks as possible, no two of them being
\* the halves of one, if the number of addresses left was never a wrong one.
SummaryIsMinimal ==
    call.op = "summarize" /\ outcome = "ok" /\ ~MixedRange /\ "misled" \notin trouble =>
        \A p, q \in Range(list) : p # q /\ Len(p) = Len(q) => Front(p) # Front(q)

\* What may be refused is known: a call that fails had no memory, or a range
\* with IPv4 inside or a wrong number of addresses left, or halved a network
\* around the IPv4 range.  It never gets where "we should never get".
RefusalsAreKnown ==
    /\ "astray" \notin trouble
    /\ "refused" \in trouble => SpansV4(call.network)
    /\ "family" \in trouble => MixedRange
    /\ outcome = "failed" => trouble # {} \/ (call.op = "summarize" /\ ~call.valid)

Excluded == Covered(call.others)
Remainder == Covered({call.network}) \ Excluded

\* exclude_list only starts from networks that are strictly inside.
Starts == \E q \in call.others : Halving(call.network, q) # {}

\* Whatever fails on the way, what is returned has no address of an excluded
\* network, none from outside, and none twice.
RemainderAvoidsOthers ==
    call.op = "exclude" => /\ Covered(Range(result)) \subseteq Remainder
                           /\ Disjoint(Range(result))

\* What is left of a network without others is returned in full and in as few
\* networks as possible, when nothing went wrong and there was one to exclude;
\* when none of them is a strict part of the network nothing is returned.
RemainderIsExact ==
    call.op = "exclude" /\ outcome = "ok" =>
        IF ~Starts THEN result = <<>>
        ELSE trouble = {} => /\ Covered(Range(result)) = Remainder
                             /\ Range(result) = Remaining(call.network, call.others)

\* Every call returns.
CallReturns == state # "idle" ~> state = "idle"
=============================================================================

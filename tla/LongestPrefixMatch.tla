------------------------- MODULE LongestPrefixMatch -------------------------
(***************************************************************************)
(* What loc_database_lookup promises (man/loc_database_lookup.txt): asked  *)
(* for an address, it answers with the most specific network of the        *)
(* database that contains it, or that there is none.                       *)
(***************************************************************************)
EXTENDS DatabaseFormat

VARIABLES contents,   \* the database: network -> attributes
          asked,      \* the address being looked up, NoAddress between calls
          answer      \* what the last call returned

vars == <<contents, asked, answer>>

\* A reply is the set of networks found, each with its attributes: at most one.
Reply(networks) == {[path |-> p, attributes |-> contents[p]] : p \in networks}

Init ==
    /\ DOMAIN contents \subseteq Path
    /\ contents \in [DOMAIN contents -> Attributes]
    /\ asked = NoAddress
    /\ answer = {}

Ask(a) ==
    /\ asked = NoAddress
    /\ asked' = a
    /\ answer' = {}
    /\ UNCHANGED contents

\* The one exception: a database in which a network spans the IPv4 range.  Then
\* the most specific network may be missed, but none is made up.  The bits of the
\* IPv4 prefix that the descent has set stay in network_address on the way back,
\* and the network is taken for one of IPv4 (database.c:847).
Replies ==
    IF \E p \in DOMAIN contents : SpansV4(p)
    THEN {Reply(found) : found \in {{}} \cup {{p} : p \in {q \in DOMAIN contents : OnPath(q, asked)}}}
    ELSE {Reply(LongestMatch(DOMAIN contents, asked))}

Answer ==
    /\ asked # NoAddress
    /\ answer' \in Replies
    /\ asked' = NoAddress
    /\ UNCHANGED contents

Next == Answer \/ \E a \in Address : Ask(a)

Spec == Init /\ [][Next]_vars
=============================================================================

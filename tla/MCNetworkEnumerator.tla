------------------------ MODULE MCNetworkEnumerator ------------------------
(***************************************************************************)
(* NetworkEnumerator on every small database.                              *)
(***************************************************************************)
EXTENDS NetworkEnumerator, DatabaseEncoding

CONSTANTS DE, Anycast

\* ::ffff:0:0/96 shrunk to three bits: two ones in a row, so that a bit left
\* over from another path can complete it.
MCV4Prefix == <<0, 1, 1>>

MCMaxStackDepth == 2 * W

\* The networks differ in all attributes a filter may ask for.
Numbered(networks) ==
    [p \in networks |->
        [country |-> IF Rank(p, networks) = 0 THEN DE ELSE NoCountry,
         asn |-> Rank(p, networks),
         flags |-> IF Rank(p, networks) = 2 THEN {Anycast} ELSE {}]]

UpToThree == {{}} \cup {{p, q, r} : p, q, r \in Path}

\* Databases that fill the stack, or nearly: a right child at every node of the
\* left edge.
LeftEdge(n) == [i \in 1..n |-> 0]
Comb == {Append(LeftEdge(n), 1) : n \in 0..(W - 1)}

MCDatabases == {Encode(Numbered(networks)) : networks \in UpToThree}
MCCombs == {Encode(Numbered(Comb \cup {p})) : p \in Path}
              \cup {Encode(Numbered(Comb \ {p})) : p \in Comb}

\* And more of them: any path with right children beside it, and two children at
\* its end, where one bit is left.
Fork(p) == {Append(SubSeq(p, 1, n), 1) : n \in 0..(W - 2)} \cup {Append(p, 0), Append(p, 1)}
MCForks == {Encode(Numbered(Fork(p))) : p \in {q \in Path : Len(q) = W - 1}}

Everything == [family |-> "any", countries |-> Unset, asns |-> Unset, flags |-> {}]
MCFilters == {Everything,
              [Everything EXCEPT !.family = "IPv6", !.asns = {1}],
              [family |-> "IPv4", countries |-> {DE, NoCountry}, asns |-> {}, flags |-> {Anycast}]}
MCAllDatabases == MCDatabases \cup MCCombs \cup MCForks
MCEverything == {Everything}
=============================================================================

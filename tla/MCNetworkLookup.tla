-------------------------- MODULE MCNetworkLookup --------------------------
(***************************************************************************)
(* NetworkLookup on every small database.                                  *)
(***************************************************************************)
EXTENDS NetworkLookup, DatabaseEncoding

\* ::ffff:0:0/96 shrunk to two bits
MCV4Prefix == <<0, 1>>

\* The networks are told apart by their AS numbers.
Numbered(networks) ==
    [p \in networks |-> [country |-> NoCountry, asn |-> Rank(p, networks), flags |-> {}]]

UpToTwo == {{}} \cup {{p, q} : p, q \in Path}
InTheOther(p, q) == Len(p) <= Len(q) /\ p = SubSeq(q, 1, Len(p))
Nested == {{p, q, r} : p \in {<<0>>, <<1>>, <<0, 1>>}, q, r \in Path}
NestedThree == {s \in Nested : \A p, q \in s : InTheOther(p, q) \/ InTheOther(q, p)}

\* Databases with nodes that hold no network and lead nowhere, as they are left
\* behind by a call that ran out of memory.
StrayPath == [i \in 1..(W - 1) |-> i % 2]
Stray(networks) == EncodeNodes(Numbered(networks), {StrayPath})

MCDatabases == {Encode(Numbered(networks)) : networks \in UpToTwo \cup NestedThree}
                  \cup {Stray(networks) : networks \in UpToTwo}
=============================================================================

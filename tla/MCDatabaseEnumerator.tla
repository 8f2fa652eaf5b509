------------------------ MODULE MCDatabaseEnumerator ------------------------
(***************************************************************************)
(* DatabaseEnumerator on addresses of seven bits, three of them IPv4.      *)
(***************************************************************************)
EXTENDS DatabaseEnumerator

\* ::ffff:0:0/96 shrunk to four bits
MCV4Prefix == <<0, 0, 0, 1>>

\* Networks at the ends of the families, next to the IPv4 range, inside each
\* other, side by side and one or more addresses apart, and one of one address
\* right behind another.  Gaps of 8 to 16 addresses are rare among them: their
\* length looks like an IPv4 address.
MCNetworks ==
    {MCV4Prefix, MCV4Prefix \o <<0, 1>>, MCV4Prefix \o <<1, 0, 0>>, MCV4Prefix \o <<1, 0, 1>>,
     MCV4Prefix \o <<1, 1>>, <<0, 0, 0, 0, 1>>, <<0, 1>>, <<1, 0, 0>>, <<1, 0, 0, 0, 0>>, <<1, 0, 0, 1>>, <<1, 1>>}
Sets == {{}} \cup {{p, q, r} : p, q, r \in MCNetworks}

Kinds == {[wanted |-> TRUE, country |-> TRUE],
          [wanted |-> FALSE, country |-> TRUE],
          [wanted |-> TRUE, country |-> FALSE]}
Common == CHOOSE kind \in Kinds : kind.wanted /\ kind.country

\* Every database of up to three of them, one of which may be filtered or have
\* no country code
MCDatabases ==
    UNION {{[p \in networks |-> IF p = q THEN kind ELSE Common] :
              q \in networks, kind \in Kinds} : networks \in Sets}
        \cup {[p \in {} |-> Common]}

\* Two networks with one address between them, and more around them
MCOneAddressApart ==
    {[p \in {MCV4Prefix \o <<0, 1, 0>>, MCV4Prefix \o <<1, 0>>} |-> Common]}
=============================================================================

----------------------------- MODULE Addresses -----------------------------
(***************************************************************************)
(* Addresses and networks of libloc: src/src/libloc/address.h and the      *)
(* pure part of src/src/network.c.                                         *)
(*                                                                         *)
(* An address is a sequence of W bits, most significant bit first (W is    *)
(* 128 in the code).  IPv4 lives inside IPv6: an address is IPv4 when it   *)
(* starts with the bits of ::ffff:0:0/96, here V4Prefix.                   *)
(*                                                                         *)
(* A network (struct loc_network) is first_address, last_address and       *)
(* prefix.  The three are functions of the first prefix bits, so a network *)
(* is modelled as that bit string, a member of Path.                       *)
(***************************************************************************)
EXTENDS Integers, Sequences

CONSTANTS W,         \* the number of bits of an address
          V4Prefix   \* the bits every v4-mapped address starts with

Bit == {0, 1}

V4Len == Len(V4Prefix)

\* ::ffff:0:0/96 ends in ones, and leaves bits for the IPv4 hosts
ASSUME WidthAssumption == W \in Nat /\ W > 0
ASSUME V4Assumption == /\ V4Prefix \in Seq(Bit)
                       /\ V4Len > 0 /\ V4Len < W
                       /\ V4Prefix[V4Len] = 1

Address == [1..W -> Bit]
Path == UNION {[1..n -> Bit] : n \in 0..W}

-----------------------------------------------------------------------------
(* Addresses *)

\* IN6_IS_ADDR_V4MAPPED; loc_address_family is AF_INET iff it holds
V4Mapped(a) == \A i \in 1..V4Len : a[i] = V4Prefix[i]

\* loc_address_family_bit_length
FamilyBits(a) == IF V4Mapped(a) THEN W - V4Len ELSE W

\* loc_address_cmp(a, b) < 0: comparing octets decides on the first bit that differs
Less(a, b) == \E i \in 1..W : a[i] < b[i] /\ \A j \in 1..(i - 1) : a[j] = b[j]

\* Fault: a bit that is set is never cleared again.
SetBitNeverClears(a, i, v) == IF v = 1 THEN [a EXCEPT ![i] = 1] ELSE a

\* loc_address_set_bit(a, i - 1, v)
SetBit(a, i, v) == [a EXCEPT ![i] = v]

AllZeroes == [i \in 1..W |-> 0]

\* Where no address is given.
NoAddress == <<>>

-----------------------------------------------------------------------------
(* Networks *)

\* The path lies on the way from the root of the tree to the address.
OnPath(p, a) == \A i \in 1..Len(p) : p[i] = a[i]

\* The path p leads to q, or q is on the right of where p is.
Leads(p, q) == Len(p) <= Len(q) /\ OnPath(p, q)
LeftOf(p, q) == \E i \in 1..Len(p) : /\ i <= Len(q) /\ p[i] = 0 /\ q[i] = 1
                                    /\ \A j \in 1..(i - 1) : p[j] = q[j]

\* address AND bitmask, address OR NOT bitmask
FirstAddress(p) == [i \in 1..W |-> IF i <= Len(p) THEN p[i] ELSE 0]
LastAddress(p) == [i \in 1..W |-> IF i <= Len(p) THEN p[i] ELSE 1]

\* loc_network_new: the prefix counts from the start of the family's bits
\* (IPv4 prefixes are shifted by V4Len); depth is the prefix plus that shift.
\* A prefix that does not fit the family is refused with EINVAL.  Prefixes are
\* unsigned, so a negative one is a huge one.
ValidPrefix(a, prefix) == prefix >= 0 /\ prefix <= FamilyBits(a)
Masked(a, depth) == [i \in 1..depth |-> a[i]]

\* loc_network_matches_address
MatchesAddress(p, a) == ~Less(a, FirstAddress(p)) /\ ~Less(LastAddress(p), a)

\* loc_network_address_family(p) = AF_INET: the family of the first address
IsV4(p) == V4Mapped(FirstAddress(p))

\* loc_network_cmp(p, q) < 0: first address, then prefix
NetworkLess(p, q) ==
    \/ Less(FirstAddress(p), FirstAddress(q))
    \/ FirstAddress(p) = FirstAddress(q) /\ Len(p) < Len(q)

\* The network strictly contains the IPv4 range, as ::/0 does.
SpansV4(p) == Len(p) < V4Len /\ OnPath(p, V4Prefix)

\* The longest of the networks that contain the address, {} when none does:
\* what a lookup promises.
LongestMatch(networks, a) ==
    {p \in networks : /\ OnPath(p, a)
                      /\ \A q \in networks : OnPath(q, a) => Len(q) <= Len(p)}
=============================================================================

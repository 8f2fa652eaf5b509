-------------------------- MODULE AddressArithmetic --------------------------
(***************************************************************************)
(* The arithmetic of libloc/address.h.  Every loop over the octets of an   *)
(* address starts at octet 12 when the address is v4-mapped, so for such   *)
(* an address only the bits behind V4Prefix count.                         *)
(***************************************************************************)
EXTENDS Addresses, FiniteSetsExt

\* The bits foreach_octet_in_address goes over
Significant(a) == (IF V4Mapped(a) THEN V4Len + 1 ELSE 1)..W

Ones(a) == {i \in Significant(a) : a[i] = 1}
Zeroes(a) == Significant(a) \ Ones(a)

\* loc_address_all_zeroes, loc_address_all_ones
IsAllZeroes(a) == Ones(a) = {}
IsAllOnes(a) == Zeroes(a) = {}

\* loc_address_increment: the last zero becomes a one, the ones behind it
\* become zeroes; nothing follows the last address of a family.
Increment(a) ==
    IF IsAllOnes(a) THEN a
    ELSE LET carried == Max(Zeroes(a))
         IN  SubSeq(a, 1, carried - 1) \o <<1>> \o SubSeq(AllZeroes, carried + 1, W)

\* The ones of ::ffff:0:0/96 fill two octets: the bit the second one starts at
LastOctet == V4Len + 1 - Cardinality({i \in 1..V4Len : V4Prefix[i] = 1}) \div 2

\* ::ff00:0:0, the one address that turns v4-mapped while the loop borrows from
\* its octets.  The loop asks again in every turn whether it is.
BecomesMapped(a) ==
    /\ ~V4Mapped(a)
    /\ \A i \in 1..V4Len : V4Prefix[i] = IF i < LastOctet THEN a[i] ELSE 1
    /\ \A i \in LastOctet..W : a[i] = 0

\* loc_address_decrement: the last one becomes a zero, the zeroes behind it
\* become ones; nothing comes before the first address of a family.  For an
\* address that becomes v4-mapped the loop ends before it reaches that last one.
Decrement(a) ==
    IF IsAllZeroes(a) THEN a
    ELSE IF BecomesMapped(a) THEN [i \in 1..W |-> IF i < LastOctet THEN a[i] ELSE 1]
    ELSE LET borrowed == Max(Ones(a))
         IN  SubSeq(a, 1, borrowed - 1) \o <<0>> \o [i \in 1..(W - borrowed) |-> 1]

\* What is taken from a bit of a because the bits behind it are less than those of b
Borrow(a, b, i) ==
    IF \E j \in (i + 1)..W : a[j] < b[j] /\ \A k \in (i + 1)..(j - 1) : a[k] = b[k]
    THEN 1 ELSE 0

\* loc_address_sub(a, b) of two addresses of one family: what is in front of the
\* significant bits is that of a reset address.
Difference(a, b) ==
    [i \in 1..W |-> IF i \in Significant(a) THEN (a[i] + b[i] + Borrow(a, b, i)) % 2
                    ELSE V4Prefix[i]]

\* loc_address_bit_length
BitLength(a) == IF IsAllZeroes(a) THEN 0 ELSE W - Min(Ones(a)) + 1

\* loc_address_count_trailing_zero_bits
TrailingZeroes(a) ==
    IF IsAllZeroes(a) THEN Cardinality(Significant(a)) ELSE W - Max(Ones(a))
=============================================================================

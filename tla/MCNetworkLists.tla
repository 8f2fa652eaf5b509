--------------------------- MODULE MCNetworkLists ---------------------------
(***************************************************************************)
(* NetworkLists on addresses of six bits.                                  *)
(***************************************************************************)
EXTENDS NetworkLists

\* As ::ffff:0:0/96: more zeroes than bits that are left for hosts, then ones
MCV4Prefix == <<0, 0, 0, 1>>

\* Networks around the IPv4 range, in it, and inside and beside each other
MCNetworks ==
    {<<>>, <<0, 0, 0, 1>>, <<0, 0, 0, 1, 0, 0>>,
     <<1>>, <<1, 0, 0>>, <<1, 0, 1, 0>>}

\* Ends of ranges in front of the IPv4 range, in it, right behind it and far away
MCEnds ==
    {<<0, 0, 0, 0, 0, 0>>, <<0, 0, 0, 0, 0, 1>>,
     <<0, 0, 0, 1, 0, 0>>, <<0, 0, 0, 1, 1, 0>>, <<0, 0, 0, 1, 1, 1>>,
     <<0, 0, 1, 0, 0, 0>>, <<0, 1, 1, 1, 1, 1>>, <<1, 1, 1, 1, 1, 1>>}
=============================================================================

-------------------------- MODULE MCNetworkWriter --------------------------
(***************************************************************************)
(* NetworkWriter on small trees.                                           *)
(***************************************************************************)
EXTENDS NetworkWriter

\* ::ffff:0:0/96 shrunk to two bits
MCV4Prefix == <<0, 1>>

\* Networks inside each other, side by side, and one far below a node that may or
\* may not hold a network
MCPrefixes == {<<>>, <<1>>, <<1, 0>>, <<1, 1>>, <<0, 1, 1>>}
=============================================================================

--------------------------- MODULE MCDatabaseFile ---------------------------
(***************************************************************************)
(* DatabaseFile with small sections, some of them empty, and none, one or  *)
(* two private keys.                                                       *)
(***************************************************************************)
EXTENDS DatabaseFile

CONSTANTS ours, next, other

MCContents == {<<0, 1, 0, 0, 1>>, <<1, 2, 1, 1, 3>>, <<0, 5, 0, 2, 1>>}
MCKeyPairs == {<<NoKey, NoKey>>, <<ours, NoKey>>, <<ours, next>>}
=============================================================================

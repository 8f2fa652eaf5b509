------------------------ MODULE MCDatabaseSections ------------------------
(***************************************************************************)
(* DatabaseSections with strings of one and two bytes and codes of which   *)
(* one is no country's.                                                    *)
(***************************************************************************)
EXTENDS DatabaseSections, TLC

CONSTANTS a, b

MCStrings == {EmptyString, a, b}
MCLength == EmptyString :> 0 @@ a :> 1 @@ b :> 2
=============================================================================

------------------------- MODULE MCDatabaseSearch -------------------------
(***************************************************************************)
(* DatabaseSearch on every section of up to five objects.                   *)
(***************************************************************************)
EXTENDS DatabaseSearch

CONSTANT MaxCount

\* Every ascending section, and the ones of up to three objects in any order
\* without duplicates
MCSections ==
    {s \in UNION {[1..n -> Keys] : n \in 0..MaxCount} :
        \A i, j \in 1..Len(s) : i < j => IF Len(s) <= 3 THEN s[i] # s[j] ELSE s[i] < s[j]}
=============================================================================

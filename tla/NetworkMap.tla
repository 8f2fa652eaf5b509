----------------------------- MODULE NetworkMap -----------------------------
(***************************************************************************)
(* What the writer promises its caller (man/libloc.txt, the loc_writer_*   *)
(* functions), with no tree, object or file: a map from networks to        *)
(* attributes that only grows, and a database that holds, in one step, all *)
(* of the map as it was when it was written.                               *)
(***************************************************************************)
EXTENDS DatabaseFormat

VARIABLES contents,   \* network -> attributes
          published   \* the map the last complete database holds

vars == <<contents, published>>

EmptyMap == [p \in {} |-> NoAttributes]

Init == contents = EmptyMap /\ published = EmptyMap

\* A network is added once; adding it again changes nothing.
Add(p) ==
    /\ p \notin DOMAIN contents
    /\ contents' = [q \in DOMAIN contents \cup {p} |->
                       IF q = p THEN NoAttributes ELSE contents[q]]
    /\ UNCHANGED published

\* Country and ASN are replaced; a flag, once set, stays set.
Update(p, a) ==
    /\ contents[p].flags \subseteq a.flags
    /\ contents' = [contents EXCEPT ![p] = a]
    /\ UNCHANGED published

Publish == published' = contents /\ UNCHANGED contents

Next ==
    \/ \E p \in Path : Add(p)
    \/ \E p \in DOMAIN contents, a \in Attributes : Update(p, a)
    \/ Publish

Spec == Init /\ [][Next]_vars
=============================================================================

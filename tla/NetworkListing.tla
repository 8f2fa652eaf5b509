--------------------------- MODULE NetworkListing ---------------------------
(***************************************************************************)
(* What an enumerator promises: call by call, the networks of the database *)
(* that match come once each, in the order of loc_network_cmp, with the    *)
(* attributes the database has for them; then there is no other one.       *)
(***************************************************************************)
EXTENDS DatabaseFormat

VARIABLES irregular,  \* whether it is a database that may be listed in part only
          unread,     \* the networks still to come
          calling,    \* whether a call is under way
          current,    \* the network returned last, {} before the first
          outcome     \* how the last call ended

vars == <<irregular, unread, calling, current, outcome>>

Init ==
    /\ irregular \in BOOLEAN
    /\ unread \subseteq Found
    /\ ~calling
    /\ current = {}
    /\ outcome = "none"

Call ==
    /\ ~calling
    /\ outcome # "end"
    /\ calling' = TRUE
    /\ UNCHANGED <<irregular, unread, current, outcome>>

Before(m, n) == NetworkLess(m.path, n.path)

\* None is passed over, but in an irregular database.
Return ==
    /\ calling
    /\ \E n \in unread :
          /\ \A former \in current : Before(former, n)
          /\ irregular \/ \A m \in unread \ {n} : Before(n, m)
          /\ unread' = unread \ {n}
          /\ current' = {n}
    /\ calling' = FALSE
    /\ outcome' = "network"
    /\ UNCHANGED irregular

End ==
    /\ calling
    /\ irregular \/ unread = {}
    /\ calling' = FALSE
    /\ outcome' = "end"
    /\ UNCHANGED <<irregular, unread, current>>

\* A call may fail, and lose a network, in an irregular database only.
Fail ==
    /\ calling
    /\ irregular
    /\ \/ unread' = unread
       \/ \E n \in unread : unread' = unread \ {n}
    /\ calling' = FALSE
    /\ outcome' = "error"
    /\ UNCHANGED <<irregular, current>>

Next == Call \/ Return \/ End \/ Fail

Spec == Init /\ [][Next]_vars
=============================================================================

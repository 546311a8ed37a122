----------------------------- MODULE NameRegistry -----------------------------
(***************************************************************************)
(* What the nickname index promises, without records, locks or goroutines: *)
(* a name has at most one holder, a holder has at most one name, and a     *)
(* name changes hands only through being free.                             *)
(***************************************************************************)
CONSTANTS Holders, Keys, Nobody   \* Nobody is not one of the Holders

VARIABLE holder     \* who holds each name, or Nobody

Free(k) == holder[k] = Nobody
Holds(u, k) == holder[k] = u

Init == holder = [k \in Keys |-> Nobody]

Claim(u, k) ==
    /\ Free(k)
    /\ \A j \in Keys : ~ Holds(u, j)
    /\ holder' = [holder EXCEPT ![k] = u]

Move(u, j, k) ==
    /\ Holds(u, j)
    /\ Free(k)
    /\ holder' = [holder EXCEPT ![j] = Nobody, ![k] = u]

Release(u, k) ==
    /\ Holds(u, k)
    /\ holder' = [holder EXCEPT ![k] = Nobody]

Next ==
    \E u \in Holders, k \in Keys :
        \/ Claim(u, k)
        \/ Release(u, k)
        \/ \E j \in Keys : Move(u, j, k)

Spec == Init /\ [][Next]_holder
=============================================================================

---------------------------- MODULE MCFederation ----------------------------
(* Federation for TLC. *)
EXTENDS Federation
CONSTANTS a, b, c, x, y
MCHomes == x :> a @@ y :> b
\* Nobody is connected at the start.
MCNoHomes == [k \in Nicks |-> None]
=============================================================================

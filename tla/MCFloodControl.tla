--------------------------- MODULE MCFloodControl ---------------------------
(* FloodControl with the violations counted only as far as they matter; and *)
(* the delivery of what flood control lets pass.                            *)
EXTENDS FloodControl, MCDelivery

\* Bound: nothing tells further messages or violations apart.
Bounded == taken <= 8 /\ violations <= ToKick
=============================================================================

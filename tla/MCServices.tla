----------------------------- MODULE MCServices -----------------------------
(* Services for TLC. *)
EXTENDS Services

CONSTANTS a, b, n1, n2

\* One nickname is registered, by the first user.
MCFirst == [n \in {n1, n2} |-> IF n = n1 THEN a ELSE None]
=============================================================================

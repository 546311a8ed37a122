------------------------------- MODULE MCLink -------------------------------
(* Finite instances of Link: a peer that is dialled again, and one behind it. *)
EXTENDS Link, TLC

CONSTANTS p1, p2, c1, c2

Usual == <<"SERVER", "SVINFO", "NICK">>

\* Connections to p1 in turn.
OnePeerOf == [l \in Links |-> p1]
OneStream == [p \in {p1} |-> Usual]

\* The same, and p1 reports that it lost p2.
LossStream == [p \in {p1, p2} |-> Append(Usual, "SQUIT")]
=============================================================================

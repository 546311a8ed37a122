------------------------------- MODULE MCWorld -------------------------------
(* Finite instances of World.  Nicknames are case variants over two letters. *)
EXTENDS World, TLC

CONSTANTS c1, c2, c3

MCNicks == {"a", "A", "b"}
MCKeys == {"a", "b"}
MCFold == [n \in MCNicks |-> IF n = "b" THEN "b" ELSE "a"]

\* One spelling each: the channel runs do not depend on nicknames.
PlainNicks == {"a", "b"}
PlainFold == [n \in PlainNicks |-> n]

\* Connections are interchangeable: nothing in World tells them apart.
Symmetry == Permutations(Conns)
=============================================================================

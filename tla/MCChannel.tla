------------------------------ MODULE MCChannel ------------------------------
(* Channel for TLC. *)
EXTENDS Channel, MCSafeNames

CONSTANTS u1, u2, m1, k1

MCMaskText == [m \in {m1} |-> <<"*", "!", "B", "?", "[", "*">>]
MCHostmask ==
  [u \in {u1, u2} |-> IF u = u2 THEN <<"n", "!", "b", "a", "{", "@", "h">>
                                ELSE <<"n", "!", "b", "{", "@", "h">>]
\* Both directions for a ban and +i, so that one that a JOIN has met can go.  An
\* exception that goes leaves what was there before it came: one direction.
MCChanges ==
  [mode : {"b"}, on : BOOLEAN, arg : {m1}]
    \cup [mode : {"e", "I"}, on : {TRUE}, arg : {m1}]
    \cup [mode : {"i"}, on : BOOLEAN, arg : {None}]
    \cup [mode : {"k"}, on : {TRUE}, arg : {k1}]
    \cup [mode : {"l"}, on : {TRUE}, arg : {1}]
    \cup [mode : {"o"}, on : {TRUE}, arg : {u2}]

\* The matcher agrees with the meaning of a mask on every short pattern and
\* text, a text having no star of its own (channel.go:685).
Short(letters, n) == UNION {[1..k -> letters] : k \in 0..n}
ASSUME GlobMatchesMeaning ==
  \A p \in Short({"a", "b", "*", "?"}, 4), s \in Short({"a", "b"}, 4) :
    GlobMatch(p, s) = Means(p, s)
\* Folding is idempotent and equates what the mapping says.
ASSUME FoldIsCanonical ==
  \A s \in Short({"A", "a", "[", "{", "^"}, 3), mapping \in {"ascii", "rfc1459"} :
    Fold(mapping, Fold(mapping, s)) = Fold(mapping, s)
=============================================================================

----------------------------- MODULE MCSafeNames -----------------------------
(* The properties of SafeNames, evaluated for identifiers of two characters. *)
EXTENDS Naturals, Sequences, FiniteSets

Safe == INSTANCE SafeNames WITH IDLen <- 2, Alphabet <- {"A", "B"}

Strings(letters, n) == UNION {[1..k -> letters] : k \in 1..n}
Shorts == Strings({"A", "x", "!"}, 4)
Listed ==
  SUBSET {<<"!", "A", "A", "x">>, <<"!", "B", "A", "x">>, <<"!", "A", "B", "x", "x">>,
          <<"!", "B", "B", "A", "A", "x">>, <<"#", "x">>}

\* "!!short" never leads into a channel that exists, nor does its name take an
\* identifier from one.
ASSUME FreshIsNew ==
  \A s \in Shorts, taken \in Listed :
    \A n \in Safe!ResolveSafeChannel(<<"!", "!">> \o s, taken) :
      n \notin taken /\ \A m \in taken : Safe!HasID(m) => Safe!ID(m) # Safe!ID(n)

\* The short name of a channel just made leads to it, unless the short name
\* looks like a canonical name itself, or starts with "!": then it cannot.
ASSUME ShortFindsIt ==
  \A s \in Shorts, taken \in Listed :
    \A n \in Safe!ResolveSafeChannel(<<"!", "!">> \o s, taken) :
      LET found == Safe!ResolveSafeChannel(<<"!">> \o s, taken \cup {n})
      IN n \in found <=> ~(s[1] = "!" \/ (Len(s) > 2 /\ s[1] = "A" /\ s[2] = "A"))
=============================================================================

-------------------------------- MODULE Glob --------------------------------
(***************************************************************************)
(* Masks of internal/state: the case mappings of casemap.go and the        *)
(* wildcard matcher globMatch of channel.go.  A string is a sequence of    *)
(* characters; the letters are those the callers use.                      *)
(***************************************************************************)
EXTENDS Naturals, Sequences, TLC

Lower == [A |-> "a", B |-> "b"]
Brackets == ("[" :> "{") @@ ("]" :> "}") @@ ("\\" :> "|") @@ ("^" :> "~")

\* CaseMapping.foldByte: the letters, and under "rfc1459" the four brackets.
FoldByte(mapping, c) ==
  IF c \in DOMAIN Lower THEN Lower[c]
  ELSE IF mapping = "rfc1459" /\ c \in DOMAIN Brackets THEN Brackets[c]
  ELSE c

Fold(mapping, s) == [i \in DOMAIN s |-> FoldByte(mapping, s[i])]

\* Only stars are left of the pattern after its first p characters.
StarsFrom(pattern, p) == \A i \in p + 1..Len(pattern) : pattern[i] = "*"

\* globMatch's loop: p and s characters are used up; star is how many were
\* when the last "*" was met (0: none yet), tried how much it has swallowed up
\* to now.  A mismatch goes back to the last star and lets it swallow one more.
Turns == [p : Nat, s : Nat, star : Nat, tried : Nat]
Turn(p, s, star, tried) == [p |-> p, s |-> s, star |-> star, tried |-> tried]
GlobMatch(pattern, text) ==
  LET Run[x \in Turns] ==
        IF x.s >= Len(text) THEN StarsFrom(pattern, x.p)
        ELSE IF x.p < Len(pattern) /\ pattern[x.p + 1] \in {text[x.s + 1], "?"}
        THEN Run[Turn(x.p + 1, x.s + 1, x.star, x.tried)]
        ELSE IF x.p < Len(pattern) /\ pattern[x.p + 1] = "*"
        THEN Run[Turn(x.p + 1, x.s, x.p + 1, x.s)]
        ELSE x.star > 0 /\ Run[Turn(x.star, x.tried + 1, x.star, x.tried + 1)]
  IN Run[Turn(0, 0, 0, 0)]

\* What a mask means: the text can be cut into pieces, one for each character of
\* the mask.  A star stands for any piece, a question mark for any character,
\* anything else for itself.
Means(pattern, text) ==
  \E cut \in [0..Len(pattern) -> 0..Len(text)] :
    /\ cut[0] = 0 /\ cut[Len(pattern)] = Len(text)
    /\ \A i \in 1..Len(pattern) :
         IF pattern[i] = "*" THEN cut[i - 1] <= cut[i]
         ELSE cut[i] = cut[i - 1] + 1 /\ pattern[i] \in {text[cut[i]], "?"}
=============================================================================

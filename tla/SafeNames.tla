------------------------------ MODULE SafeNames ------------------------------
(***************************************************************************)
(* Channel names (handler_channels.go, newSafeChannelID in server.go): the *)
(* grammar of a name, and the "!" channels, whose short name a client      *)
(* knows and whose identifier the server draws.  A name is a sequence of   *)
(* characters; Taken is the set of names the world lists.                  *)
(***************************************************************************)
EXTENDS Naturals, Sequences, FiniteSets

CONSTANTS
  IDLen,       \* safeChannelIDLen
  Alphabet     \* safeChannelIDAlphabet

Forbidden == {" ", ",", "BEL", "\r", "\n", "NUL"}

\* validChannelName; a limit that is not positive counts as fifty.
ValidChannelName(s, maxLen) ==
  /\ Len(s) >= 2 /\ Len(s) <= (IF maxLen <= 0 THEN 50 ELSE maxLen)
  /\ s[1] \in {"#", "&", "+", "!"}
  /\ \A i \in 2..Len(s) : s[i] \notin Forbidden

IsSafeChannel(s) == s # <<>> /\ s[1] = "!"
IsModelessChannel(s) == s # <<>> /\ s[1] = "+"
IsSafeChannelID(s) == Len(s) = IDLen /\ \A i \in DOMAIN s : s[i] \in Alphabet

\* isChannelName: what PRIVMSG takes for a channel.
IsChannelName(s) ==
  s # <<>> /\ (s[1] \in {"#", "&"} \/ (s[1] \in {"+", "!"} /\ Len(s) > 1))

\* A listed safe channel: "!", an identifier and a short name.
HasID(s) == IsSafeChannel(s) /\ Len(s) > 1 + IDLen
ID(s) == SubSeq(s, 2, 1 + IDLen)
Short(s) == SubSeq(s, 2 + IDLen, Len(s))

\* newSafeChannelID: any identifier no listed channel has; after eight
\* draws that clash the code takes "AAAAA", which is left out.
NewSafeChannelIDs(Taken) ==
  {id \in [1..IDLen -> Alphabet] : \A n \in Taken : HasID(n) => ID(n) # id}

\* resolveSafeChannel: the names "!..." may stand for, none when it fails.
ResolveSafeChannel(name, Taken) ==
  IF Len(name) >= 2 /\ name[2] = "!"
  THEN IF Len(name) = 2 THEN {}
       ELSE {<<"!">> \o id \o SubSeq(name, 3, Len(name)) : id \in NewSafeChannelIDs(Taken)}
  ELSE IF HasID(name) /\ IsSafeChannelID(ID(name)) THEN {name}
  ELSE {n \in Taken : HasID(n) /\ Short(n) = Tail(name)}
=============================================================================

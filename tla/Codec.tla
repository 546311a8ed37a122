-------------------------------- MODULE Codec --------------------------------
(***************************************************************************)
(* The wire format of internal/protocol: Parse and Message.Bytes.  A line  *)
(* is a sequence of characters; a message is a record of its tags (a       *)
(* function from keys to values), prefix, command and parameters, with an  *)
(* empty error; a call that fails returns a record of its error alone.     *)
(***************************************************************************)
EXTENDS Naturals, Sequences, FiniteSets, TLC

CONSTANTS
  MaxMessageBytes,   \* the limit of a line, its CR LF included
  MaxParams          \* fourteen middle parameters and the trailing one

LOCAL INSTANCE SequencesExt
LOCAL INSTANCE Functions

CR == "\r"
LF == "\n"
NUL == "NUL"
Digits == {"0", "1"}
\* The letters lines are made of, each with its upper case.
Upper == [a |-> "A", b |-> "B", A |-> "A", B |-> "B"]

Fails(e) == [error |-> e]

-----------------------------------------------------------------------------
(* Words of a line. *)
Places(s, c) == {i \in DOMAIN s : s[i] = c}
Chars(s) == Range(s)

\* The text before the first c, and what follows it.
Cut(s, c) == IF Places(s, c) = {} THEN Len(s) + 1 ELSE SelectInSeq(s, LAMBDA x : x = c)
First(s, c) == SubSeq(s, 1, Cut(s, c) - 1)
After(s, c) == SubSeq(s, Cut(s, c) + 1, Len(s))

\* strings.TrimLeft(s[sp+1:], " ")
NextWord(s) ==
  LET rest == After(s, " ")
      ink == DOMAIN rest \ Places(rest, " ")
  IN IF ink = {} THEN <<>>
     ELSE SubSeq(rest, CHOOSE i \in ink : \A j \in ink : i <= j, Len(rest))

\* strings.TrimSuffix
TrimSuffix(s, c) == IF s # <<>> /\ Last(s) = c THEN Front(s) ELSE s

\* strings.Split: the pieces between the places of c.
Split(s, c) ==
  LET ends == SetToSortSeq(Places(s, c) \cup {Len(s) + 1}, LAMBDA i, j : i < j)
  IN [k \in DOMAIN ends |-> SubSeq(s, IF k = 1 THEN 1 ELSE ends[k - 1] + 1, ends[k] - 1)]

-----------------------------------------------------------------------------
(* Commands. *)
IsAllDigits(s) == s # <<>> /\ Chars(s) \subseteq Digits

ValidCommand(s) ==
  IF IsAllDigits(s) THEN Len(s) = 3
  ELSE s # <<>> /\ Chars(s) \subseteq DOMAIN Upper

\* Numerics keep their digits, letters become upper case.
Canonical(cmd) == IF IsAllDigits(cmd) THEN cmd ELSE [i \in DOMAIN cmd |-> Upper[cmd[i]]]

Numeric(m) == Len(m.command) = 3 /\ Chars(m.command) \subseteq Digits

\* The value and whether there is one.
Trailing(m) == IF m.params = <<>> THEN <<"", FALSE>> ELSE <<Last(m.params), TRUE>>

WithTag(m, key, value) == [m EXCEPT !.tags = (key :> value) @@ @]

-----------------------------------------------------------------------------
(* Tags. *)
Escaped == (";" :> ":") @@ (" " :> "s") @@ ("\\" :> "\\") @@ (CR :> "r") @@ (LF :> "n")
Unescaped == [c \in Range(Escaped) |-> CHOOSE d \in DOMAIN Escaped : Escaped[d] = c]

EscapeTagValue(v) ==
  FlattenSeq([i \in DOMAIN v |->
                IF v[i] \in DOMAIN Escaped THEN <<"\\", Escaped[v[i]]>> ELSE <<v[i]>>])

\* A backslash takes the next character with it; one at the end, or before a
\* character without a meaning of its own, is dropped.
UnescapeTagValue(v) ==
  LET From[i \in Nat] ==
        IF i > Len(v) THEN <<>>
        ELSE IF v[i] # "\\" THEN <<v[i]>> \o From[i + 1]
        ELSE IF i = Len(v) THEN <<>>
        ELSE <<IF v[i + 1] \in DOMAIN Unescaped THEN Unescaped[v[i + 1]] ELSE v[i + 1]>>
             \o From[i + 2]
  IN From[1]

BadTags(body) == \E tag \in Chars(Split(body, ";")) : First(tag, "=") = <<>>

\* The last of several tags with one key counts.
ParseTags(body) ==
  LET tags == Split(body, ";")
      Key(k) == First(tags[k], "=")
      LastOf(key) == CHOOSE k \in DOMAIN tags :
                       Key(k) = key /\ \A l \in DOMAIN tags : Key(l) = key => l <= k
  IN [key \in {Key(k) : k \in DOMAIN tags} |->
             UnescapeTagValue(After(tags[LastOf(key)], "="))]

-----------------------------------------------------------------------------
(* Parse. *)
\* Middle parameters up to a colon, a last word, or the room for them.
ParamsOf(line) ==
  LET Rest[s \in Seq(Chars(line)), room \in Nat] ==
        IF s = <<>> THEN <<>>
        ELSE IF s[1] = ":" THEN <<Tail(s)>>
        ELSE IF room = 0 \/ Places(s, " ") = {} THEN <<s>>
        ELSE <<First(s, " ")>> \o Rest[NextWord(s), room - 1]
  IN Rest[line, MaxParams - 1]

ParseCommand(s, tags, prefix) ==
  IF ~ValidCommand(First(s, " ")) THEN Fails("ErrBadCommand")
  ELSE [error |-> "", tags |-> tags, prefix |-> prefix,
        command |-> Canonical(First(s, " ")), params |-> ParamsOf(NextWord(s))]

ParsePrefix(s, tags) ==
  IF s[1] # ":" THEN ParseCommand(s, tags, <<>>)
  ELSE IF NextWord(s) = <<>> THEN Fails("ErrEmpty")
  ELSE ParseCommand(NextWord(s), tags, Tail(First(s, " ")))

Parse(line) ==
  LET s == TrimSuffix(TrimSuffix(line, LF), CR)
      tags == Tail(First(s, " "))
  IN IF Len(line) > MaxMessageBytes THEN Fails("ErrTooLong")
     ELSE IF s = <<>> THEN Fails("ErrEmpty")
     ELSE IF s[1] # "@" THEN ParsePrefix(s, <<>>)
     ELSE IF Places(s, " ") = {} \/ BadTags(tags) THEN Fails("ErrBadTags")
     ELSE IF NextWord(s) = <<>> THEN Fails("ErrEmpty")
     ELSE ParsePrefix(NextWord(s), ParseTags(tags))

-----------------------------------------------------------------------------
(* Message.Bytes. *)
IsTrailing(p) == Chars(p) \cap {CR, LF, NUL} = {}
IsMiddle(p) == p # <<>> /\ p[1] # ":" /\ IsTrailing(p) /\ " " \notin Chars(p)

\* The keys are sorted, so that the form is determined; here in some fixed order.
TagBytes(tags) ==
  LET keys == SetToSeq(DOMAIN tags)
      One(k) == (IF k > 1 THEN <<";">> ELSE <<>>) \o keys[k]
                \o (IF tags[keys[k]] = <<>> THEN <<>>
                    ELSE <<"=">> \o EscapeTagValue(tags[keys[k]]))
  IN IF keys = <<>> THEN <<>>
     ELSE <<"@">> \o FlattenSeq([k \in DOMAIN keys |-> One(k)]) \o <<" ">>

\* The last parameter always has its colon.
ParamBytes(params) ==
  FlattenSeq([i \in DOMAIN params |->
                (IF i = Len(params) THEN <<" ", ":">> ELSE <<" ">>) \o params[i]])

Bytes(m) ==
  LET wire == TagBytes(m.tags)
              \o (IF m.prefix = <<>> THEN <<>> ELSE <<":">> \o m.prefix \o <<" ">>)
              \o Canonical(m.command) \o ParamBytes(m.params) \o <<CR, LF>>
  IN IF ~ValidCommand(m.command) THEN Fails("ErrBadCommand")
     ELSE IF Len(m.params) > MaxParams THEN Fails("ErrTooManyParams")
     ELSE IF \/ m.params # <<>> /\ ~IsTrailing(Last(m.params))
             \/ \E i \in 1..Len(m.params) - 1 : ~IsMiddle(m.params[i])
          THEN Fails("ErrBadCommand")
     ELSE IF Len(wire) > MaxMessageBytes THEN Fails("ErrTooLong")
     ELSE [error |-> "", wire |-> wire]
=============================================================================

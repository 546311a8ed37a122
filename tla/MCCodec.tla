------------------------------ MODULE MCCodec ------------------------------
(* The properties of Codec, evaluated over every short line of each kind. *)
EXTENDS Naturals, Sequences, FiniteSets

Wire == INSTANCE Codec WITH MaxMessageBytes <- 11, MaxParams <- 2

\* Lines with a command and words, with tags, and with prefixes and line ends.
Texts(letters, n) == UNION {[1..k -> letters] : k \in 0..n}
ParamLines == {<<"a">> \o s : s \in Texts({" ", ":", "a"}, 6)}
TagLines == {<<"@">> \o s \o <<" ", "A">> : s \in Texts({"a", "=", ";", "\\", ":", "s"}, 4)}
OtherLines == Texts({":", " ", "b", "1", "\r", "\n"}, 5)
Values == Texts({"a", ";", " ", "\\", "\r", "\n", ":", "s"}, 4)
WireMessages ==
  [error : {""}, tags : {<<>>}, prefix : {<<>>, <<"b">>}, command : {<<"A">>},
   params : Texts(Texts({"a", ":", " "}, 2), 2)]

\* What Parse accepts is what it reads again from the canonical form, unless a
\* carriage return, a line feed or the length keeps the message off the wire.
ASSUME ReparseIsStable ==
  \A line \in ParamLines \cup TagLines \cup OtherLines :
    LET m == Wire!Parse(line)
        b == Wire!Bytes(m)
    IN m.error = "" =>
         IF b.error = "" THEN Wire!Parse(b.wire) = m
         ELSE b.error = "ErrTooLong" \/ \E i \in DOMAIN line : line[i] \in {"\r", "\n"}

\* What Bytes puts on the wire is read back as it was: empty, spaced and
\* coloned trailing parameters included.
ASSUME BytesAreRead ==
  \A m \in WireMessages :
    LET b == Wire!Bytes(m)
    IN b.error = "" => Wire!Parse(b.wire) = m

\* The escapes lose nothing and leave nothing that ends a tag or a line.
ASSUME EscapesAreUndone ==
  \A v \in Values :
    LET e == Wire!EscapeTagValue(v)
    IN /\ Wire!UnescapeTagValue(e) = v
       /\ \A i \in DOMAIN e : e[i] \notin {";", " ", "\r", "\n"}

\* A client's line never becomes more parameters than the protocol allows, and
\* only the last of them has a space or a leading colon.
ASSUME MiddlesAreWords ==
  \A line \in ParamLines :
    LET m == Wire!Parse(line)
    IN m.error = "" =>
         /\ Len(m.params) <= 2
         /\ \A i \in 1..Len(m.params) - 1 : Wire!IsMiddle(m.params[i])

\* A tag set on a message is the one a receiver reads, whatever was there.
ASSUME TagIsRead ==
  \A v \in Texts({"a", ";", "\\"}, 2) :
    LET m == Wire!Parse(<<"@", "a", " ", "B">>)
        tagged == Wire!WithTag(m, <<"a">>, v)
    IN Wire!Bytes(tagged).error = ""
         => Wire!Parse(Wire!Bytes(tagged).wire).tags[<<"a">>] = v
=============================================================================

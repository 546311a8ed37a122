----------------------------- MODULE MCDelivery -----------------------------
(* The properties of Delivery, evaluated for every channel of three users: a *)
(* client, a bot and a user of another server, and a name nobody has.        *)
EXTENDS Naturals, Sequences, FiniteSets

People == {"me", "you", "bot", "far"}
Chat == INSTANCE Delivery WITH Users <- People, Conns <- {"me", "you"}, Bots <- {"bot"}

\* Operators and voices are members (OpsAreMembers of module World).
Channels ==
  UNION {[members : {m}, ops : SUBSET (m \ {"far"}), voices : SUBSET (m \cap {"me"}),
          flags : SUBSET {"n", "m"}, quieted : SUBSET {"me"}] : m \in SUBSET People}
Commands == {"PRIVMSG", "NOTICE"}
Errors == {"401", "404", "408", "481"}
Modes == {"fanout", "subscription"}

Targets ==
  [kind : {"channel"}, ch : Channels, mode : Modes]
    \cup [kind : {"user"}, user : People \cup {"nobody"}, away : SUBSET {"you", "far"}]
    \cup [kind : {"mask"}, matches : SUBSET People]
    \cup [kind : {"unknown channel"}]
Outcomes(s, command) == {Chat!DeliverOneTarget(s, t, command) : t \in Targets}

\* A NOTICE never gets a reply, not even that its receiver is away: two programs
\* that answer what they are told do not answer each other for ever.
ASSUME NoticeIsSilent ==
  \A s \in Chat!Senders : \A o \in Outcomes(s, "NOTICE") : o.replies = {}

\* What is refused goes nowhere, what goes anywhere is not refused; and a
\* PRIVMSG to a user is one or the other.
ASSUME RefusedOrHeard ==
  \A s \in Chat!Senders, command \in Commands :
    /\ \A o \in Outcomes(s, command) :
         o.replies \cap Errors # {} => o.heard = {} /\ o.links = "none"
    /\ \A u \in People \cup {"nobody"}, away \in SUBSET {"you", "far"} :
         LET o == Chat!DeliverToUser(s, u, away, "PRIVMSG")
         IN o.heard = {} <=> o.replies \cap Errors # {}

\* Of those a channel has here, each but the sender hears whoever may speak, and
\* operators and voices always may: no gate stops them, a quiet included.
ASSUME VoicesAreHeard ==
  \A s \in Chat!Senders, ch \in Channels, mode \in Modes :
    s.user \in ch.ops \cup ch.voices =>
      ch.members \ {"far", s.user}
        \subseteq Chat!DeliverToChannel(s, ch, "PRIVMSG", mode).heard

\* A sender sees its own line when it negotiated echo-message and is a member: a
\* stranger to the channel who may speak there does not.
ASSUME EchoNeedsMembership ==
  \A s \in Chat!Senders, ch \in Channels, mode \in Modes :
    s.user \in Chat!DeliverToChannel(s, ch, "PRIVMSG", mode).heard
      <=> s.echo /\ s.user \in ch.members /\ Chat!MaySpeak(ch, s.user)

\* Nobody outside the channel hears it, and the quieted without rank reach no
\* one and no link, whether they are members or not.
ASSUME QuietReachesNobody ==
  \A s \in Chat!Senders, ch \in Channels, mode \in Modes :
    LET o == Chat!DeliverToChannel(s, ch, "NOTICE", mode)
    IN /\ o.heard \subseteq ch.members
       /\ s.user \in ch.quieted \ (ch.ops \cup ch.voices) => o = Chat!Nothing

\* NAMES loses nobody and keeps the order, and a line is over the cap only for
\* an entry that alone is.
Tokens == UNION {[1..n -> [who : {"a", "b"}, length : {1, 3, 6}]] : n \in 0..4}
RECURSIVE Joined(_), Length(_)
Joined(lines) == IF lines = <<>> THEN <<>> ELSE Head(lines) \o Joined(Tail(lines))
Length(line) ==
  IF Len(line) = 1 THEN line[1].length ELSE line[1].length + 1 + Length(Tail(line))

ASSUME NamesAreComplete ==
  \A tokens \in Tokens :
    LET lines == Chat!SendNamesReply(tokens, 5, FALSE)
    IN /\ Joined(lines) = tokens
       /\ \A i \in DOMAIN lines : Length(lines[i]) <= 5 \/ Len(lines[i]) = 1
=============================================================================

------------------------------ MODULE Delivery ------------------------------
(***************************************************************************)
(* Who gets a message: PRIVMSG and NOTICE (handler_message.go), SQUERY     *)
(* (handler_squery.go) and the fan-out of a channel (server.go).  What a   *)
(* call does is a record of the users that hear the message, the numeric   *)
(* replies to its sender, and the links it is forwarded to.                *)
(***************************************************************************)
EXTENDS Naturals, Sequences, FiniteSets

CONSTANTS
  Users,   \* the users of the world
  Conns,   \* those connFor finds,
  Bots     \* and those botFor finds, none of them both; the others are remote

\* A sender's situation: its rights and what it negotiated.
Senders == [user : Conns, oper : BOOLEAN, echo : BOOLEAN]

Nothing == [heard |-> {}, replies |-> {}, links |-> "none"]
Reply(numeric) == [Nothing EXCEPT !.replies = {numeric}]
\* NOTICE gets no ERR_ reply.
Refuse(command, numeric) == IF command = "PRIVMSG" THEN Reply(numeric) ELSE Nothing

-----------------------------------------------------------------------------
(* Channels: [members, ops, voices, flags, quieted]; quieted holds the     *)
(* users whom a mask of +q matches.                                        *)
Heard(u) == u \in Conns \cup Bots

\* broadcastToChannel: connections first, then the hooks of bots.
BroadcastToChannel(ch, except, includeSelf) ==
  {u \in ch.members : Heard(u) /\ (includeSelf \/ u # except)}

Overrides(ch, u) == u \in ch.ops \cup ch.voices

\* The three gates of a channel, in the order they are asked.
MaySpeak(ch, u) ==
  /\ "n" \in ch.flags => u \in ch.members
  /\ "m" \in ch.flags => Overrides(ch, u)
  /\ Overrides(ch, u) \/ u \notin ch.quieted

\* Subscribed peers, or all of them in fanout mode.
DeliverToChannel(s, ch, command, mode) ==
  IF ~MaySpeak(ch, s.user) THEN Refuse(command, "404")
  ELSE [heard |-> BroadcastToChannel(ch, s.user, s.echo), replies |-> {},
        links |-> IF mode = "fanout" THEN "all" ELSE "subscribed"]

\* The prefix the members see.
Prefix(s, ch) == IF "a" \in ch.flags THEN "anonymous" ELSE s.user

-----------------------------------------------------------------------------
(* Users.  away is the set of those who are away. *)
DeliverToUser(s, u, away, command) ==
  LET told == IF command = "PRIVMSG" /\ u \in away THEN {"301"} ELSE {}
  IN IF u \notin Users THEN Refuse(command, "401")
     ELSE IF Heard(u)
     THEN [heard |-> {u} \cup (IF s.echo THEN {s.user} ELSE {}),
           replies |-> told, links |-> "none"]
     ELSE [Nothing EXCEPT !.replies = told \cup Refuse(command, "401").replies]

\* SQUERY: to services only; it is not a NOTICE, it is always answered.
DeliverToService(u, services) ==
  IF u \in services /\ Heard(u) THEN [Nothing EXCEPT !.heard = {u}] ELSE Reply("408")

\* "$mask" and "#host.mask": matches holds the users whom the mask means.  The
\* local ones with a connection hear it, bots do not, and every link gets it.
DeliverMaskBroadcast(s, matches, command) ==
  IF ~s.oper THEN Refuse(command, "481")
  ELSE [heard |-> matches \cap Conns, replies |-> {}, links |-> "all"]

\* deliverOneTarget: what a target of the list is, by its first characters.
DeliverOneTarget(s, target, command) ==
  CASE target.kind = "mask" -> DeliverMaskBroadcast(s, target.matches, command)
    [] target.kind = "unknown channel" -> Refuse(command, "401")
    [] target.kind = "channel" -> DeliverToChannel(s, target.ch, command, target.mode)
    [] target.kind = "user" -> DeliverToUser(s, target.user, target.away, command)

-----------------------------------------------------------------------------
(* NAMES: tokens are the visible members' entries, each with its length;   *)
(* a line takes entries while it stays within the soft cap.                *)
RECURSIVE Pack(_, _, _, _)
Pack(tokens, cap, line, length) ==
  LET wide == tokens[1].length
      fits == length + 1 + wide <= cap
  IN IF tokens = <<>> THEN (IF line = <<>> THEN <<>> ELSE <<line>>)
     ELSE IF fits \/ line = <<>>
     THEN Pack(Tail(tokens), cap, Append(line, tokens[1]),
               length + wide + IF line = <<>> THEN 0 ELSE 1)
     ELSE <<line>> \o Pack(Tail(tokens), cap, <<tokens[1]>>, wide)

SendNamesReply(tokens, cap, anonymous) ==
  IF anonymous THEN <<<<[who |-> "anonymous", length |-> 9]>>>>
  ELSE Pack(tokens, cap, <<>>, 0)

\* Services and members whose record is gone are left out.
NamesEntries(ch, services) == {u \in ch.members : u \in Users \ services}
=============================================================================

----------------------------- MODULE Federation -----------------------------
(***************************************************************************)
(* A mesh of nodes that tell each other of their users: the runtime        *)
(* messages, the burst and the loss of a link (internal/federation,        *)
(* internal/server/federation.go).                                         *)
(*                                                                         *)
(* Module Link models the life of one link in detail; here a link is up or *)
(* down, its two directions are queues in order, and every node holds a    *)
(* world of its own.  A handler is one step: module World has the          *)
(* interleavings inside a node.  There is one channel.  Messages name      *)
(* users by nick, while records and connections are told apart by the TS   *)
(* of their registration.  Nodes tell only of their own users and relay    *)
(* nothing but SQUIT, so the links form a full mesh.                       *)
(*                                                                         *)
(* Operator status, topics and modes are left out, and with them who may   *)
(* kick: any member does.                                                  *)
(***************************************************************************)
EXTENDS Integers, Sequences, FiniteSets, SequencesExt

CONSTANTS Nodes,      \* servers
          Nicks,
          None,       \* no record
          Homes,      \* where users are connected at the start, by nick
          MaxOps      \* bound: what users do, a lost link counting for two

TS == 1..(Cardinality(Nicks) + MaxOps)
Record == [home : Nodes, ts : TS, in : BOOLEAN]

ASSUME FederationAssumption ==
  /\ IsFiniteSet(Nodes) /\ IsFiniteSet(Nicks) /\ None \notin Nicks \cup Nodes \cup Record
  /\ Homes \in [Nicks -> Nodes \cup {None}]
  /\ MaxOps \in Nat

VARIABLES
  world,    \* each node's records by nick: home, TS, member of the channel
  conns,    \* each node's client connections
  queue,    \* messages under way, from and to
  stage,    \* each node's view of its links
  subs,     \* fedSubs: peers told about the channel
  seen,     \* squitSeen
  ops,
  spoilt,   \* history: something happened that the rules do not converge after
  missed    \* history: TS of connections that lost a collision when they were
            \* not in the registry yet, or another one was with their nick

vars == <<world, conns, queue, stage, subs, seen, ops, spoilt, missed>>

\* The users of the start have the lowest TS, in some order.
Oldest == CHOOSE f \in [Nicks -> 1..Cardinality(Nicks)] :
            \A k, l \in Nicks : f[k] = f[l] => k = l
Now == Cardinality(Nicks) + ops + 1
\* A connection enters the registry (listed) after its user is in the world, and
\* one that was told to go ends in a step of its own.
Conn == {c \in [nick : Nicks, ts : TS, listed : BOOLEAN, announced : BOOLEAN, told : BOOLEAN] :
           c.announced => c.listed}
Stages == {"up", "lost", "down", "linked", "burst"}

\* The mesh is linked and everybody knows everybody.
Init ==
  \E present \in SUBSET {k \in Nicks : Homes[k] # None} :
    /\ world = [n \in Nodes |-> [k \in Nicks |->
         IF Homes[k] = None THEN None
         ELSE [home |-> Homes[k], ts |-> Oldest[k], in |-> k \in present]]]
    /\ conns = [n \in Nodes |->
         {[nick |-> k, ts |-> Oldest[k], listed |-> TRUE, announced |-> TRUE,
           told |-> FALSE] : k \in {l \in Nicks : Homes[l] = n}}]
    /\ subs = [n \in Nodes |->
         UNION {IF Homes[k] = n THEN Nodes \ {n} ELSE {Homes[k]} : k \in present}]
    /\ queue = [n \in Nodes |-> [m \in Nodes |-> <<>>]]
    /\ stage = [n \in Nodes |-> [m \in Nodes \ {n} |-> "up"]]
    /\ seen = [n \in Nodes |-> {}]
    /\ ops = 0 /\ spoilt = FALSE /\ missed = {}

\* The peers in fedLinks.
Registered(n) == {m \in Nodes \ {n} : stage[n][m] = "up"}
Local(n, k) == world[n][k] # None /\ world[n][k].home = n
Remote(n, k) == world[n][k] # None /\ world[n][k].home # n

Message(cmd, k, to, ts) == [cmd |-> cmd, nick |-> k, to |-> to, ts |-> ts]
\* What the queues are after n sent the messages ms to every peer of a set.
Told(q, n, peers, ms) ==
  [q EXCEPT ![n] = [m \in Nodes |-> IF m \in peers THEN @[m] \o ms ELSE @[m]]]
Removed(w, k) == [w EXCEPT ![k] = None]

-----------------------------------------------------------------------------
(* What has no remedy.  Messages name nicks and cross on their way. *)

UnderWay == UNION {ToSet(queue[n][m]) : n, m \in Nodes}
\* Some trace of a nick is left, at a node other than n or under way.
Trace(n, k) ==
  \/ \E m \in UnderWay : m.nick = k \/ m.to = k
  \/ \E m \in Nodes \ {n} : world[m][k] # None
  \/ \E m \in Nodes : \E c \in conns[m] : c.nick = k /\ c.told
\* Orders about another node's user are not settled yet.
Orders == \/ \E m \in UnderWay : m.cmd \in {"KICK", "KILL"}
          \/ \E n \in Nodes : \E c \in conns[n] : c.told
Bursting(n) == \E m \in Nodes \ {n} : stage[n][m] = "burst"

Spoil(cause) == spoilt' = (spoilt \/ cause)
\* What a user of n does may fall between a burst and the registration of its
\* link, or cross an order.
ActsAt(n) == Bursting(n) \/ Orders
\* An order that may cross something or does not reach every node.
OrderAt(n) == UnderWay # {} \/ Registered(n) # Nodes \ {n}

-----------------------------------------------------------------------------
(* What the users of a node do. *)

Act == ops < MaxOps /\ ops' = ops + 1
\* The record of a connection: AddUser made it, under this TS.
Owns(n, c) == Local(n, c.nick) /\ world[n][c.nick].ts = c.ts
\* Clients that act.  One that lost its record without being told to go is left
\* out from then on.
Users(n) == {c \in conns[n] : c.announced /\ ~c.told /\ Owns(n, c)}

\* tryCompleteRegistration: AddUser, ...
Connect(n, k) ==
  /\ Act /\ world[n][k] = None
  /\ world' = [world EXCEPT ![n][k] = [home |-> n, ts |-> Now, in |-> FALSE]]
  /\ conns' = [conns EXCEPT ![n] = @ \cup
       {[nick |-> k, ts |-> Now, listed |-> FALSE, announced |-> FALSE, told |-> FALSE]}]
  /\ Spoil(ActsAt(n) \/ Trace(n, k))
  /\ UNCHANGED <<queue, stage, subs, seen, missed>>

\* ... registerConn ...
RegisterConn(n, c) ==
  /\ c \in conns[n] /\ ~c.listed
  /\ conns' = [conns EXCEPT ![n] = (@ \ {c}) \cup {[c EXCEPT !.listed = TRUE]}]
  /\ UNCHANGED <<world, queue, stage, subs, seen, ops, spoilt, missed>>

\* ... and announceUserToFederation.
Announce(n, c) ==
  /\ c \in conns[n] /\ c.listed /\ ~c.announced
  /\ conns' = [conns EXCEPT ![n] = (@ \ {c}) \cup {[c EXCEPT !.announced = TRUE]}]
  /\ queue' = Told(queue, n, Registered(n), <<Message("NICK", c.nick, None, c.ts)>>)
  /\ Spoil(ActsAt(n))
  /\ UNCHANGED <<world, stage, subs, seen, ops, missed>>

\* handleNick after registration.
Rename(n, c, k) ==
  /\ Act /\ c \in Users(n) /\ world[n][k] = None
  /\ world' = [world EXCEPT ![n][k] = world[n][c.nick], ![n][c.nick] = None]
  /\ conns' = [conns EXCEPT ![n] = (@ \ {c}) \cup {[c EXCEPT !.nick = k]}]
  /\ queue' = Told(queue, n, Registered(n), <<Message("RENAME", c.nick, k, 0)>>)
  /\ Spoil(ActsAt(n) \/ Trace(n, k))
  /\ UNCHANGED <<stage, subs, seen, missed>>

\* Mutant: the peers a JOIN goes to are not subscribed.
JoinUnsubscribed(n, c) ==
  /\ Act /\ c \in Users(n) /\ ~world[n][c.nick].in
  /\ world' = [world EXCEPT ![n][c.nick].in = TRUE]
  /\ queue' = Told(queue, n, Registered(n), <<Message("JOIN", c.nick, None, 0)>>)
  /\ Spoil(ActsAt(n))
  /\ UNCHANGED <<conns, stage, subs, seen, missed>>

\* JOIN goes to every peer and subscribes it (forwardJoinToFederation).
Join(n, c) ==
  /\ Act /\ c \in Users(n) /\ ~world[n][c.nick].in
  /\ world' = [world EXCEPT ![n][c.nick].in = TRUE]
  /\ subs' = [subs EXCEPT ![n] = @ \cup Registered(n)]
  /\ queue' = Told(queue, n, Registered(n), <<Message("JOIN", c.nick, None, 0)>>)
  /\ Spoil(ActsAt(n))
  /\ UNCHANGED <<conns, stage, seen, missed>>

\* PART and KICK go to the peers that are subscribed (forwardChannelToSubscribed).
Subscribed(n) == subs[n] \cap Registered(n)
Part(n, c) ==
  /\ Act /\ c \in Users(n) /\ world[n][c.nick].in
  /\ world' = [world EXCEPT ![n][c.nick].in = FALSE]
  /\ queue' = Told(queue, n, Subscribed(n), <<Message("PART", c.nick, None, 0)>>)
  /\ Spoil(ActsAt(n))
  /\ UNCHANGED <<conns, stage, subs, seen, missed>>

Kick(n, c, k) ==
  /\ Act /\ c \in Users(n) /\ world[n][c.nick].in
  /\ world[n][k] # None /\ world[n][k].in
  /\ world' = [world EXCEPT ![n][k].in = FALSE]
  /\ queue' = Told(queue, n, Subscribed(n), <<Message("KICK", k, None, 0)>>)
  /\ Spoil(ActsAt(n) \/ OrderAt(n))
  /\ UNCHANGED <<conns, stage, subs, seen, missed>>

\* DropLocalUser: some connection of that nick in the registry is told to go.
Dropped(cs, k) ==
  LET found == {c \in cs : c.listed /\ c.nick = k}
  IN IF found = {} THEN {cs} ELSE {(cs \ {c}) \cup {[c EXCEPT !.told = TRUE]} : c \in found}

\* handleKill by an operator of n; KickUser finds the connection by the record,
\* in the registry too.
Kill(n, c, k) ==
  /\ Act /\ c \in Users(n) /\ world[n][k] # None
  /\ queue' = Told(queue, n, Registered(n), <<Message("KILL", k, None, 0)>>)
  /\ IF Remote(n, k)
     THEN world' = [world EXCEPT ![n] = Removed(@, k)] /\ conns' = conns
     ELSE /\ conns' = [conns EXCEPT ![n] =
               {[d EXCEPT !.told = @ \/ (d.listed /\ d.nick = k /\ d.ts = world[n][k].ts)] : d \in @}]
          /\ world' = world
  /\ Spoil(ActsAt(n) \/ OrderAt(n))
  /\ UNCHANGED <<stage, subs, seen, missed>>

\* close, of a client that leaves or was told to: QUIT under the nick of its
\* record, which may have left the world before.
CloseOf(n, c) ==
  /\ world' = [world EXCEPT ![n] = IF Local(n, c.nick) /\ @[c.nick].ts = c.ts
                                   THEN Removed(@, c.nick) ELSE @]
  /\ conns' = [conns EXCEPT ![n] = @ \ {c}]
  /\ queue' = Told(queue, n, Registered(n), <<Message("QUIT", c.nick, None, 0)>>)
Quit(n, c) ==
  /\ Act /\ c \in Users(n) /\ CloseOf(n, c) /\ Spoil(ActsAt(n))
  /\ UNCHANGED <<stage, subs, seen, missed>>
Close(n, c) ==
  /\ c \in conns[n] /\ c.told /\ c.announced /\ CloseOf(n, c)
  /\ Spoil(Bursting(n))
  /\ UNCHANGED <<stage, subs, seen, ops, missed>>

-----------------------------------------------------------------------------
(* Losing and making a link. *)

\* Mutant: what was seen before is passed on again.
SquitAgain(n, p, q) ==
  /\ world' = [world EXCEPT ![n] =
        [k \in Nicks |-> IF @[k] # None /\ @[k].home = p THEN None ELSE @[k]]]
  /\ seen' = seen
  /\ queue' = Told(q, n, Registered(n) \ {p}, <<Message("SQUIT", None, p, 0)>>)

\* HandleSquit at n: the users of p leave the world, and the other peers are
\* told, unless the same was seen within squitSeenTTL, which does not pass here.
Squit(n, p, q) ==
  IF p \in seen[n]
  THEN world' = world /\ seen' = seen /\ queue' = q
  ELSE /\ world' = [world EXCEPT ![n] =
              [k \in Nicks |-> IF @[k] # None /\ @[k].home = p THEN None ELSE @[k]]]
       /\ seen' = [seen EXCEPT ![n] = @ \cup {p}]
       /\ queue' = Told(q, n, Registered(n) \ {p}, <<Message("SQUIT", None, p, 0)>>)

\* Both ends lose the connection and what is on it.
LinkDown(n, m) ==
  /\ ops + 2 <= MaxOps /\ ops' = ops + 2
  /\ stage[n][m] = "up" /\ stage[m][n] = "up"
  /\ stage' = [stage EXCEPT ![n][m] = "lost", ![m][n] = "lost"]
  /\ queue' = [queue EXCEPT ![n][m] = <<>>, ![m][n] = <<>>]
  /\ Spoil(Orders)
  /\ UNCHANGED <<world, conns, subs, seen, missed>>

\* OnClosed: UnregisterLink and HandleSquit.
OnClosed(n, m) ==
  /\ stage[n][m] = "lost"
  /\ stage' = [stage EXCEPT ![n][m] = "down"]
  /\ subs' = [subs EXCEPT ![n] = @ \ {m}]
  /\ Squit(n, m, queue)
  /\ Spoil(m \in seen[n])
  /\ UNCHANGED <<conns, ops, missed>>

\* The supervisor redials and the handshake succeeds.
LinkUp(n, m) ==
  /\ stage[n][m] = "down" /\ stage[m][n] = "down"
  /\ stage' = [stage EXCEPT ![n][m] = "linked", ![m][n] = "linked"]
  /\ UNCHANGED <<world, conns, queue, subs, seen, ops, spoilt, missed>>

\* sendBurst: n's own users, then its own members of the channel.
Burst(n, m) ==
  LET mine == SetToSeq({k \in Nicks : Local(n, k)})
      members == SetToSeq({k \in Nicks : Local(n, k) /\ world[n][k].in})
  IN /\ stage[n][m] = "linked"
     /\ stage' = [stage EXCEPT ![n][m] = "burst"]
     /\ queue' = Told(queue, n, {m},
          [i \in DOMAIN mine |-> Message("NICK", mine[i], None, world[n][mine[i]].ts)]
          \o [i \in DOMAIN members |-> Message("JOIN", members[i], None, 0)])
     /\ subs' = [subs EXCEPT ![n] = IF members = <<>> THEN @ ELSE @ \cup {m}]
     /\ Spoil(Orders \/ \E c \in conns[n] : ~c.announced)
     /\ UNCHANGED <<world, conns, seen, ops, missed>>

\* OnActive: RegisterLink.
Register(n, m) ==
  /\ stage[n][m] = "burst"
  /\ stage' = [stage EXCEPT ![n][m] = "up"]
  /\ UNCHANGED <<world, conns, queue, subs, seen, ops, spoilt, missed>>

-----------------------------------------------------------------------------
(* A message arrives: dispatch. *)

\* The first message from m to n, and the queues without it.
First(n, m) == Head(queue[m][n])
Rest(n, m) == [queue EXCEPT ![m][n] = Tail(@)]
Arrives(n, m, cmd) ==
  /\ queue[m][n] # <<>> /\ stage[n][m] \in {"linked", "burst", "up"}
  /\ First(n, m).cmd = cmd

\* handleRemoteNick without a user of that nick.
NickArrives(n, m) ==
  /\ Arrives(n, m, "NICK") /\ world[n][First(n, m).nick] = None
  /\ world' = [world EXCEPT ![n][First(n, m).nick] =
                 [home |-> m, ts |-> First(n, m).ts, in |-> FALSE]]
  /\ queue' = Rest(n, m)
  /\ UNCHANGED <<conns, stage, subs, seen, ops, spoilt, missed>>

\* Mutant: the loser's record goes and its connection is not told.
NickCollidesSilently(n, m) ==
  /\ Arrives(n, m, "NICK") /\ world[n][First(n, m).nick] # None
  /\ LET k == First(n, m).nick
         mine == world[n][k].ts
         kill == Told(Rest(n, m), n, {m}, <<Message("KILL", k, None, 0)>>)
     IN /\ world' = [world EXCEPT ![n][k] =
             IF First(n, m).ts > mine THEN @
             ELSE IF First(n, m).ts = mine THEN None
             ELSE [home |-> m, ts |-> First(n, m).ts, in |-> FALSE]]
        /\ queue' = IF First(n, m).ts >= mine THEN kill ELSE Rest(n, m)
        /\ conns' = conns
  /\ Spoil(TRUE)
  /\ UNCHANGED <<stage, subs, seen, ops, missed>>

\* The user of a nick, when DropLocalUser may pass it over: its connection is not
\* in the registry yet, or another one of the nick is, that is closing.
Missable(n, k) ==
  {c.ts : c \in {d \in conns[n] : /\ d.nick = k /\ Owns(n, d)
                                /\ \/ ~d.listed
                                   \/ \E e \in conns[n] \ {d} : e.listed /\ e.nick = k}}

\* handleRemoteNick with one: the lower TS stays.  The loser's node is sent a
\* KILL, for both when the TS are equal; a local loser is disconnected.
NickCollides(n, m) ==
  /\ Arrives(n, m, "NICK") /\ world[n][First(n, m).nick] # None
  /\ LET k == First(n, m).nick
         ts == First(n, m).ts
         mine == world[n][k].ts
         kill == Told(Rest(n, m), n, {m}, <<Message("KILL", k, None, 0)>>)
         loses == IF Local(n, k) THEN Dropped(conns[n], k) ELSE {conns[n]}
     IN \/ /\ ts > mine /\ queue' = kill
           /\ UNCHANGED <<world, conns, missed>>
        \/ /\ ts <= mine
           /\ queue' = IF ts = mine THEN kill ELSE Rest(n, m)
           /\ \E cs \in loses : conns' = [conns EXCEPT ![n] = cs]
           /\ world' = [world EXCEPT ![n][k] =
                IF ts = mine THEN None ELSE [home |-> m, ts |-> ts, in |-> FALSE]]
           /\ missed' = missed \cup Missable(n, k)
  /\ Spoil(TRUE)
  /\ UNCHANGED <<stage, subs, seen, ops>>

\* handleRemoteNick of a known remote user: a taken nick leaves it as it was.
RenameArrives(n, m) ==
  /\ Arrives(n, m, "RENAME")
  /\ LET k == First(n, m).nick
         to == First(n, m).to
     IN IF Remote(n, k) /\ world[n][to] = None
        THEN /\ world' = [world EXCEPT ![n][to] = world[n][k], ![n][k] = None]
             /\ spoilt' = spoilt
        ELSE world' = world /\ Spoil(Remote(n, k))
  /\ queue' = Rest(n, m)
  /\ UNCHANGED <<conns, stage, subs, seen, ops, missed>>

\* Mutant: a QUIT removes whoever has the nick.
QuitArrivesForAnyone(n, m) ==
  /\ Arrives(n, m, "QUIT")
  /\ world' = [world EXCEPT ![n] = Removed(@, First(n, m).nick)]
  /\ queue' = Rest(n, m)
  /\ UNCHANGED <<conns, stage, subs, seen, ops, spoilt, missed>>

\* handleRemoteQuit: of remote users only.
QuitArrives(n, m) ==
  /\ Arrives(n, m, "QUIT")
  /\ LET k == First(n, m).nick IN
     world' = IF Remote(n, k) THEN [world EXCEPT ![n] = Removed(@, k)] ELSE world
  /\ queue' = Rest(n, m)
  /\ UNCHANGED <<conns, stage, subs, seen, ops, spoilt, missed>>

\* handleRemoteJoin and handleRemotePart: of remote users only.  A JOIN
\* subscribes the peer that sent it.
JoinArrives(n, m) ==
  /\ Arrives(n, m, "JOIN")
  /\ LET k == First(n, m).nick IN
     IF Remote(n, k)
     THEN /\ world' = [world EXCEPT ![n][k].in = TRUE]
          /\ subs' = [subs EXCEPT ![n] = @ \cup {m}]
     ELSE UNCHANGED <<world, subs>>
  /\ queue' = Rest(n, m)
  /\ UNCHANGED <<conns, stage, seen, ops, spoilt, missed>>

PartArrives(n, m) ==
  /\ Arrives(n, m, "PART")
  /\ LET k == First(n, m).nick IN
     world' = IF Remote(n, k) THEN [world EXCEPT ![n][k].in = FALSE] ELSE world
  /\ queue' = Rest(n, m)
  /\ UNCHANGED <<conns, stage, subs, seen, ops, spoilt, missed>>

\* handleRemoteKick: the victim may be of any node.
KickArrives(n, m) ==
  /\ Arrives(n, m, "KICK")
  /\ LET k == First(n, m).nick IN
     world' = IF world[n][k] # None THEN [world EXCEPT ![n][k].in = FALSE] ELSE world
  /\ queue' = Rest(n, m)
  /\ UNCHANGED <<conns, stage, subs, seen, ops, spoilt, missed>>

\* handleRemoteKill: a remote record goes, a local user is disconnected.
KillArrives(n, m) ==
  /\ Arrives(n, m, "KILL")
  /\ LET k == First(n, m).nick IN
     IF Local(n, k)
     THEN /\ \E cs \in Dropped(conns[n], k) : conns' = [conns EXCEPT ![n] = cs]
          /\ world' = world
     ELSE world' = [world EXCEPT ![n] = Removed(@, k)] /\ conns' = conns
  /\ queue' = Rest(n, m)
  /\ UNCHANGED <<stage, subs, seen, ops, spoilt, missed>>

\* handleRemoteSquit.  The server named may be linked to this node all the same.
SquitArrives(n, m) ==
  /\ Arrives(n, m, "SQUIT")
  /\ LET p == First(n, m).to IN
     /\ p # n /\ Squit(n, p, Rest(n, m))
     /\ Spoil(p \notin seen[n] /\ stage[n][p] # "down")
  /\ UNCHANGED <<conns, stage, subs, ops, missed>>

Deliver(n, m) ==
  \/ NickArrives(n, m) \/ NickCollides(n, m) \/ RenameArrives(n, m)
  \/ QuitArrives(n, m) \/ JoinArrives(n, m) \/ PartArrives(n, m)
  \/ KickArrives(n, m) \/ KillArrives(n, m) \/ SquitArrives(n, m)
Links(n, m) == OnClosed(n, m) \/ Burst(n, m) \/ Register(n, m)

Next ==
  \/ \E n \in Nodes :
       \/ \E k \in Nicks : Connect(n, k)
       \/ \E c \in conns[n] :
            \/ RegisterConn(n, c) \/ Announce(n, c) \/ Close(n, c)
            \/ Join(n, c) \/ Part(n, c) \/ Quit(n, c)
            \/ \E k \in Nicks : Rename(n, c, k) \/ Kick(n, c, k) \/ Kill(n, c, k)
  \/ \E n \in Nodes, m \in Nodes :
       n # m /\ (Deliver(n, m) \/ Links(n, m) \/ LinkDown(n, m) \/ LinkUp(n, m))

\* The goroutines of the links run, and connections close.
Fairness ==
  /\ \A n \in Nodes, m \in Nodes :
       n # m => WF_vars(Deliver(n, m)) /\ WF_vars(Links(n, m))
  /\ \A n \in Nodes : WF_vars(\E c \in conns[n] :
                             RegisterConn(n, c) \/ Announce(n, c) \/ Close(n, c))

Spec == Init /\ [][Next]_vars /\ Fairness

-----------------------------------------------------------------------------
(* Properties. *)

Settled ==
  /\ UnderWay = {}
  /\ \A n \in Nodes : \A c \in conns[n] : c.announced /\ ~c.told

\* When nothing is under way, nodes that are linked agree on each other's users:
\* who there is, under which nick, and who is in the channel.  So it is after any
\* joins, parts, renames, quits, kicks, kills and netsplits, unless something
\* spoilt it that the rules have no remedy for.
Mirrored ==
  Settled /\ ~spoilt =>
    \A n \in Nodes : \A m \in Registered(n) : n \in Registered(m) =>
      \A k \in Nicks : Local(m, k) \/ (Remote(n, k) /\ world[n][k].home = m)
                         => world[n][k] = world[m][k]

\* Whatever crosses or collides, no client is forgotten: a connection that was
\* not told to go has its user in its node's world (the guards on remote users,
\* and DropLocalUser when a collision is lost).  DropLocalUser walks the registry
\* by nick, hence two exceptions, of users that lose a collision: between AddUser
\* and registerConn (server/welcome.go:70, 86) no connection is found, and while
\* an earlier connection of the nick has not closed, that one may be told once
\* more (server/federation.go:90).
NobodyForgotten ==
  \A n \in Nodes : \A c \in conns[n] : c.told \/ Owns(n, c) \/ c.ts \in missed

\* What the comment of DropLocalUser says of a lost collision: the walk by nick
\* "is safe even when the world record has already been removed"
\* (server/federation.go:80).  The walk may find another connection of the nick,
\* or none.
LosersAreTold ==
  \A n \in Nodes : \A c \in conns[n] : c.told \/ Owns(n, c)

\* No message makes others for ever: SQUIT is passed on, KILL answers NICK and
\* QUIT follows KILL, and all the same the queues run empty.
MessagesEnd == []<>(UnderWay = {})
=============================================================================

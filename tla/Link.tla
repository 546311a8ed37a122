-------------------------------- MODULE Link --------------------------------
(***************************************************************************)
(* The federation links of one ircat node: the lifecycle of each           *)
(* federation.Link (handshake, burst, active, closed), its send queue and  *)
(* two goroutines, the supervisor of cmd/ircat that dials, accepts and     *)
(* redials, and the registry of internal/server that links share under     *)
(* fedMu with the goroutines of local clients.                             *)
(*                                                                         *)
(* Every section under fedMu.Lock is one action.  A loop of Sends under    *)
(* fedMu.RLock is one action too, because nothing that takes the lock can  *)
(* come between two of its iterations - except that a Send may find its    *)
(* queue full and call Close, whose callback wants fedMu.Lock itself.      *)
(*                                                                         *)
(* The world is reduced to what the links exchange: the local users, who   *)
(* of them is in the one channel, and one user on each peer.               *)
(***************************************************************************)
EXTENDS Naturals, Sequences

CONSTANTS
    Peers,      \* names of the configured peers
    MaxLinks,   \* bound: connections opened in one behaviour
    PeerOf,     \* the LinkConfig.PeerName of each connection
    Inbound,    \* the connections that were accepted; the others are dialled
    Stream,     \* what a peer sends over a new connection, in order
    Clients,    \* local clients
    QueueSize,  \* capacity of Link.send
    Nobody      \* filler for a peer or a user

Links == 1..MaxLinks

ASSUME PeerOfAssumption == PeerOf \in [Links -> Peers]
ASSUME InboundAssumption == Inbound \subseteq Links
ASSUME QueueSizeAssumption == QueueSize \in Nat \ {0}
ASSUME StreamAssumption ==
    Stream \in [Peers -> Seq({"SERVER", "SVINFO", "NICK", "SQUIT"})]
\* A peer keeps to the order of a handshake: SERVER, SVINFO, then its burst.
ASSUME StreamOrderAssumption ==
    \A p \in Peers : \A i \in DOMAIN Stream[p] :
        (Stream[p][i] = "SERVER" <=> i = 1) /\ (Stream[p][i] = "SVINFO" <=> i = 2)
ASSUME NobodyAssumption == Nobody \notin Peers \cup Clients

VARIABLES
    state,      \* Link.state
    closed,     \* Link.closed, as a closed channel
    out,        \* every message put on Link.send
    written,    \* how many of them the writer has taken off
    heard,      \* how many messages of Stream the link has dispatched
    fedLinks,   \* Server.fedLinks: the link of each peer, or 0
    fedSubs,    \* Server.fedSubs: the peers subscribed to the channel
    squitSeen,  \* Server.squitSeen: the peers whose entry is fresh
    local,      \* local users with a record
    channel,    \* the local users in the channel
    remote,     \* the peers whose user has a record here
    cancelled,  \* the supervisor's context
    wedged,     \* a goroutine waits for fedMu.Lock while it holds fedMu.RLock
    task        \* what each goroutine is doing

linkVars == <<state, closed>>
pipeVars == <<out, written, heard>>
fedVars == <<fedLinks, fedSubs, squitSeen>>
worldVars == <<local, channel, remote>>
vars == <<linkVars, pipeVars, fedVars, worldVars, cancelled, wedged, task>>

Run(l) == <<"run", l>>
Writer(l) == <<"write", l>>
Client(c) == <<"client", c>>
Goroutines == {Run(l) : l \in Links} \cup {Writer(l) : l \in Links}
                  \cup {Client(c) : c \in Clients}

Places == {"off", "select", "users", "channels", "subscribe", "activate", "register", "ended",
           "writing", "done",
           "unregister", "squit", "purge", "forward",
           "new", "announce", "idle", "peers", "joining", "join", "joined", "stuck"}

\* The peer that is being squit, where to go then, and the peers a JOIN read.
Doing(place, p, back, ps) == [at |-> place, peer |-> p, then |-> back, todo |-> ps]
At(place) == Doing(place, Nobody, place, {})
Goto(g, t) == task' = [task EXCEPT ![g] = t]

\* A message is a kind and the users or the peer it names; the NICK lines of a
\* burst count as one message.
Message(kind, names) == [kind |-> kind, names |-> names]
Kinds == {"SERVER", "SVINFO", "BURST", "BURST JOIN", "NICK", "JOIN", "EVENT", "SQUIT", "KILL"}
Messages == [kind : Kinds, names : (SUBSET Clients) \cup {{p} : p \in Peers}]

\* Mutant: one message more than the queue holds.
RoomForOneMore(l) == Len(out[l]) - written[l] <= QueueSize

Room(l) == Len(out[l]) - written[l] < QueueSize

\* fedMu: a goroutine that waits for the lock behind its own read lock also
\* keeps everybody else from either lock.
Unlocked == ~ wedged

-----------------------------------------------------------------------------
(* Close and Send.                                                         *)

\* Close: once by state; then OnClosed, whose four steps follow below.
Close(g, l, back) ==
    IF state[l] = "closed"
    THEN Goto(g, At(back)) /\ UNCHANGED linkVars
    ELSE /\ state' = [state EXCEPT ![l] = "closed"]
         /\ closed' = [closed EXCEPT ![l] = TRUE]
         /\ Goto(g, Doing("unregister", PeerOf[l], back, {}))

\* Send by a goroutine that holds no lock.  What is put on the queue of a link
\* that is closed need never be written, and is left out.
Send(g, l, m, back) ==
    \/ /\ closed[l]
       /\ Goto(g, At(back))
       /\ UNCHANGED <<out, linkVars>>
    \/ /\ ~ closed[l] /\ Room(l)
       /\ out' = [out EXCEPT ![l] = Append(@, m)]
       /\ Goto(g, At(back))
       /\ UNCHANGED linkVars
    \/ /\ ~ closed[l] /\ ~ Room(l)
       /\ Close(g, l, back)
       /\ UNCHANGED out

\* A loop of Sends under fedMu.RLock.  When one of them closes its link, the
\* callback's UnregisterLink waits for this goroutine's own read lock.
SendAll(g, ls, m, back) ==
    /\ Unlocked
    /\ \/ /\ \A l \in ls : Room(l) \/ closed[l]
          /\ out' = [l \in Links |-> IF l \in ls /\ ~ closed[l] THEN Append(out[l], m) ELSE out[l]]
          /\ Goto(g, At(back))
          /\ UNCHANGED <<linkVars, wedged>>
       \/ \E l \in ls :
             /\ ~ Room(l) /\ ~ closed[l]
             /\ state' = [state EXCEPT ![l] = "closed"]
             /\ closed' = [closed EXCEPT ![l] = TRUE]
             /\ wedged' = TRUE
             /\ Goto(g, Doing("stuck", PeerOf[l], back, {}))
             /\ UNCHANGED out

Registered == {fedLinks[p] : p \in Peers} \ {0}

-----------------------------------------------------------------------------
(* OnClosed: UnregisterLink, then HandleSquit.                             *)

UnregisterLink(g) ==
    /\ task[g].at = "unregister"
    /\ Unlocked
    /\ fedLinks' = [fedLinks EXCEPT ![task[g].peer] = 0]
    /\ fedSubs' = fedSubs \ {task[g].peer}
    /\ Goto(g, [task[g] EXCEPT !.at = "squit"])
    /\ UNCHANGED <<linkVars, pipeVars, squitSeen, worldVars, cancelled, wedged>>

\* squitSeenRecently: a fresh entry ends HandleSquit at once.
SquitSeen(g) ==
    /\ task[g].at = "squit"
    /\ Unlocked
    /\ squitSeen' = squitSeen \cup {task[g].peer}
    /\ Goto(g, IF task[g].peer \in squitSeen THEN At(task[g].then)
               ELSE [task[g] EXCEPT !.at = "purge"])
    /\ UNCHANGED <<linkVars, pipeVars, fedLinks, fedSubs, worldVars, cancelled, wedged>>

\* Every user of the peer loses its record.
Purge(g) ==
    /\ task[g].at = "purge"
    /\ remote' = remote \ {task[g].peer}
    /\ Goto(g, [task[g] EXCEPT !.at = "forward"])
    /\ UNCHANGED <<linkVars, pipeVars, fedVars, local, channel, cancelled, wedged>>

ForwardSquit(g) ==
    /\ task[g].at = "forward"
    /\ SendAll(g, Registered \ {fedLinks[task[g].peer]}, Message("SQUIT", {task[g].peer}), task[g].then)
    /\ UNCHANGED <<written, heard, fedVars, worldVars, cancelled>>

\* squitSeenTTL has passed.
Expire(p) ==
    /\ p \in squitSeen
    /\ squitSeen' = squitSeen \ {p}
    /\ UNCHANGED <<linkVars, pipeVars, fedLinks, fedSubs, worldVars, cancelled, wedged, task>>

-----------------------------------------------------------------------------
(* The supervisor and Link.Run.                                            *)

Shutdown ==
    /\ ~ cancelled
    /\ cancelled' = TRUE
    /\ UNCHANGED <<linkVars, pipeVars, fedVars, worldVars, wedged, task>>

\* Mutant: the supervisor redials without waiting for runLink to return.
StartEarly(l) ==
    /\ task[Run(l)].at = "off"
    /\ ~ cancelled
    /\ out' = [out EXCEPT ![l] = <<Message("SERVER", {})>>]
    /\ task' = [task EXCEPT ![Run(l)] = At("select"), ![Writer(l)] = At("writing")]
    /\ UNCHANGED <<linkVars, written, heard, fedVars, worldVars, cancelled, wedged>>

\* runLink up to Run.  A dialled link starts when the one before it has ended;
\* an accepted one whenever the peer connects.
Start(l) ==
    /\ task[Run(l)].at = "off"
    /\ ~ cancelled
    /\ l \notin Inbound =>
         \A k \in 1..(l - 1) : PeerOf[k] = PeerOf[l] /\ k \notin Inbound => task[Run(k)].at = "ended"
    /\ out' = [out EXCEPT ![l] = <<Message("SERVER", {})>>]
    /\ task' = [task EXCEPT ![Run(l)] = At("select"), ![Writer(l)] = At("writing")]
    /\ UNCHANGED <<linkVars, written, heard, fedVars, worldVars, cancelled, wedged>>

Write(l) ==
    /\ task[Writer(l)].at = "writing"
    /\ written[l] < Len(out[l])
    /\ written' = [written EXCEPT ![l] = @ + 1]
    /\ UNCHANGED <<linkVars, out, heard, fedVars, worldVars, cancelled, wedged, task>>

\* The message did not reach the peer, and nothing after it will.
WriteFails(l) ==
    /\ task[Writer(l)].at = "writing"
    /\ written[l] < Len(out[l])
    /\ Close(Writer(l), l, "done")
    /\ UNCHANGED <<pipeVars, fedVars, worldVars, cancelled, wedged>>

\* Mutant: the writer looks at closed only when it has a message in hand.
WriterStopsOnMessage(l) ==
    /\ task[Writer(l)].at = "writing"
    /\ closed[l]
    /\ written[l] < Len(out[l])
    /\ Goto(Writer(l), At("done"))
    /\ UNCHANGED <<linkVars, pipeVars, fedVars, worldVars, cancelled, wedged>>

WriterStops(l) ==
    /\ task[Writer(l)].at = "writing"
    /\ closed[l]
    /\ Goto(Writer(l), At("done"))
    /\ UNCHANGED <<linkVars, pipeVars, fedVars, worldVars, cancelled, wedged>>

\* The select of Run: the context, ...
RunCancelled(l) ==
    /\ task[Run(l)].at = "select"
    /\ cancelled
    /\ Close(Run(l), l, "select")
    /\ UNCHANGED <<pipeVars, fedVars, worldVars, cancelled, wedged>>

\* ... the end of the inbound stream, after any prefix of it, ...
EndOfStream(l) == Len(Stream[PeerOf[l]]) + 1

RunEOF(l) ==
    /\ task[Run(l)].at = "select"
    /\ heard' = [heard EXCEPT ![l] = EndOfStream(l)]
    /\ Close(Run(l), l, "select")
    /\ UNCHANGED <<out, written, fedVars, worldVars, cancelled, wedged>>

\* ... the closed channel, after which Run waits for the writer and the pipe is
\* gone, ...
RunStops(l) ==
    /\ task[Run(l)].at = "select"
    /\ closed[l]
    /\ task[Writer(l)].at = "done"
    /\ Goto(Run(l), At("ended"))
    /\ out' = [out EXCEPT ![l] = << >>]
    /\ written' = [written EXCEPT ![l] = 0]
    /\ heard' = [heard EXCEPT ![l] = 0]
    /\ UNCHANGED <<linkVars, fedVars, worldVars, cancelled, wedged>>

\* ... and a message.  The peer answers SERVER with SVINFO, and bursts when it
\* has ours; what it has sent stays readable after Close.
Receive(l, m) ==
    /\ task[Run(l)].at = "select"
    /\ heard[l] < Len(Stream[PeerOf[l]])
    /\ heard[l] < 3 => heard[l] <= written[l]
    /\ Stream[PeerOf[l]][heard[l] + 1] = m
    /\ heard' = [heard EXCEPT ![l] = @ + 1]

-----------------------------------------------------------------------------
(* dispatch.                                                               *)

\* handlePass and handleServer: our SVINFO, or a refusal.
HandleServer(l) ==
    /\ Receive(l, "SERVER")
    /\ \/ Send(Run(l), l, Message("SVINFO", {}), "select")
       \/ Close(Run(l), l, "select") /\ UNCHANGED out
    /\ UNCHANGED <<written, fedVars, worldVars, cancelled, wedged>>

\* Mutant: the link is registered, and so reachable, before its burst.
HandleSvinfoRegistersFirst(l) ==
    /\ Receive(l, "SVINFO")
    /\ state' = [state EXCEPT ![l] = "bursting"]
    /\ fedLinks' = [fedLinks EXCEPT ![PeerOf[l]] = l]
    /\ Goto(Run(l), At("users"))
    /\ UNCHANGED <<closed, out, written, fedSubs, squitSeen, worldVars, cancelled, wedged>>

\* handleSvinfo, in steps: Bursting, ...
HandleSvinfo(l) ==
    /\ Receive(l, "SVINFO")
    /\ state' = [state EXCEPT ![l] = "bursting"]
    /\ Goto(Run(l), At("users"))
    /\ UNCHANGED <<closed, out, written, fedVars, worldVars, cancelled, wedged>>

\* ... world.Snapshot() and a NICK for every local user in it, ...
BurstUsers(l) ==
    /\ task[Run(l)].at = "users"
    /\ Send(Run(l), l, Message("BURST", local), "channels")
    /\ UNCHANGED <<written, heard, fedVars, worldVars, cancelled, wedged>>

\* ... a JOIN for every local member of the channel, which subscribes the peer
\* even when the JOIN found the queue full, ...
BurstChannels(l) ==
    /\ task[Run(l)].at = "channels"
    /\ IF channel = {}
       THEN Goto(Run(l), At("activate")) /\ UNCHANGED <<out, linkVars>>
       ELSE Send(Run(l), l, Message("BURST JOIN", {}), "subscribe")
    /\ UNCHANGED <<written, heard, fedVars, worldVars, cancelled, wedged>>

BurstSubscribe(l) ==
    /\ task[Run(l)].at = "subscribe"
    /\ Unlocked
    /\ fedSubs' = fedSubs \cup {PeerOf[l]}
    /\ Goto(Run(l), At("activate"))
    /\ UNCHANGED <<linkVars, pipeVars, fedLinks, squitSeen, worldVars, cancelled, wedged>>

\* ... Active, whatever became of the link meanwhile, ...
Activate(l) ==
    /\ task[Run(l)].at = "activate"
    /\ state' = [state EXCEPT ![l] = "active"]
    /\ Goto(Run(l), At("register"))
    /\ UNCHANGED <<closed, pipeVars, fedVars, worldVars, cancelled, wedged>>

\* Mutant: registering gives the peer a clean slate, after its burst.
RegisterLinkClearsSubs(l) ==
    /\ task[Run(l)].at = "register"
    /\ Unlocked
    /\ fedLinks' = [fedLinks EXCEPT ![PeerOf[l]] = l]
    /\ fedSubs' = fedSubs \ {PeerOf[l]}
    /\ Goto(Run(l), At("select"))
    /\ UNCHANGED <<linkVars, pipeVars, squitSeen, worldVars, cancelled, wedged>>

\* ... and OnActive.
RegisterLink(l) ==
    /\ task[Run(l)].at = "register"
    /\ Unlocked
    /\ fedLinks' = [fedLinks EXCEPT ![PeerOf[l]] = l]
    /\ Goto(Run(l), At("select"))
    /\ UNCHANGED <<linkVars, pipeVars, fedSubs, squitSeen, worldVars, cancelled, wedged>>

\* The peer bursts its user.  A record that is still here carries the same TS,
\* and of two equal TSes both lose.
HandleNick(l) ==
    /\ Receive(l, "NICK")
    /\ \/ /\ PeerOf[l] \notin remote
          /\ remote' = remote \cup {PeerOf[l]}
          /\ Goto(Run(l), At("select"))
          /\ UNCHANGED <<out, linkVars>>
       \/ /\ PeerOf[l] \in remote
          /\ remote' = remote \ {PeerOf[l]}
          /\ Send(Run(l), l, Message("KILL", {}), "select")
    /\ UNCHANGED <<written, fedVars, local, channel, cancelled, wedged>>

\* A peer reports the loss of another one: HandleSquit without UnregisterLink.
HandleRemoteSquit(l) ==
    /\ Receive(l, "SQUIT")
    /\ \E p \in Peers \ {PeerOf[l]} : Goto(Run(l), Doing("squit", p, "select", {}))
    /\ UNCHANGED <<linkVars, out, written, fedVars, worldVars, cancelled, wedged>>

-----------------------------------------------------------------------------
(* Local clients: registration, JOIN, and an event in the channel.         *)

AddUser(c) ==
    /\ task[Client(c)].at = "new"
    /\ local' = local \cup {c}
    /\ Goto(Client(c), At("announce"))
    /\ UNCHANGED <<linkVars, pipeVars, fedVars, channel, remote, cancelled, wedged>>

\* announceUserToFederation, the last step of a registration.
Announce(c) ==
    /\ task[Client(c)].at = "announce"
    /\ SendAll(Client(c), Registered, Message("NICK", {c}), "idle")
    /\ UNCHANGED <<written, heard, fedVars, worldVars, cancelled>>

Join(c) ==
    /\ task[Client(c)].at = "idle"
    /\ channel' = channel \cup {c}
    /\ Goto(Client(c), At("peers"))
    /\ UNCHANGED <<linkVars, pipeVars, fedVars, local, remote, cancelled, wedged>>

\* broadcastToChannelFederated of a JOIN: the registered peers, read first, ...
ReadPeers(c) ==
    /\ task[Client(c)].at = "peers"
    /\ Unlocked
    /\ Goto(Client(c), Doing("joining", Nobody, "join", {p \in Peers : fedLinks[p] # 0}))
    /\ UNCHANGED <<linkVars, pipeVars, fedVars, worldVars, cancelled, wedged>>

\* ... are subscribed ...
Subscribe(c) ==
    /\ task[Client(c)].at = "joining"
    /\ Unlocked
    /\ fedSubs' = fedSubs \cup task[Client(c)].todo
    /\ Goto(Client(c), At("join"))
    /\ UNCHANGED <<linkVars, pipeVars, fedLinks, squitSeen, worldVars, cancelled, wedged>>

\* ... and the JOIN goes to the peers registered by now.
ForwardJoin(c) ==
    /\ task[Client(c)].at = "join"
    /\ SendAll(Client(c), Registered, Message("JOIN", {c}), "joined")
    /\ UNCHANGED <<written, heard, fedVars, worldVars, cancelled>>

\* forwardChannelToSubscribed: PRIVMSG, TOPIC, MODE, ... once per client.
Event(c) ==
    /\ task[Client(c)].at = "joined"
    /\ SendAll(Client(c), {fedLinks[p] : p \in fedSubs} \ {0}, Message("EVENT", {c}), "done")
    /\ UNCHANGED <<written, heard, fedVars, worldVars, cancelled>>

-----------------------------------------------------------------------------
Init ==
    /\ state = [l \in Links |-> "handshaking"]
    /\ closed = [l \in Links |-> FALSE]
    /\ out = [l \in Links |-> << >>]
    /\ written = [l \in Links |-> 0]
    /\ heard = [l \in Links |-> 0]
    /\ fedLinks = [p \in Peers |-> 0]
    /\ fedSubs = {} /\ squitSeen = {}
    /\ local = {} /\ channel = {} /\ remote = {}
    /\ cancelled = FALSE /\ wedged = FALSE
    /\ task = [g \in Goroutines |-> At(IF \E c \in Clients : g = Client(c) THEN "new" ELSE "off")]

Closing(g) ==
    \/ UnregisterLink(g) \/ SquitSeen(g) \/ Purge(g) \/ ForwardSquit(g)

LinkStep(l) ==
    \/ Write(l) \/ WriteFails(l) \/ WriterStops(l)
    \/ RunCancelled(l) \/ RunEOF(l) \/ RunStops(l)
    \/ HandleServer(l) \/ HandleSvinfo(l) \/ HandleNick(l) \/ HandleRemoteSquit(l)
    \/ BurstUsers(l) \/ BurstChannels(l) \/ BurstSubscribe(l) \/ Activate(l) \/ RegisterLink(l)

ClientStep(c) ==
    \/ AddUser(c) \/ Announce(c) \/ Join(c)
    \/ ReadPeers(c) \/ Subscribe(c) \/ ForwardJoin(c) \/ Event(c)

Next ==
    \/ Shutdown
    \/ \E l \in Links : Start(l) \/ LinkStep(l)
    \/ \E g \in Goroutines : Closing(g)
    \/ \E c \in Clients : ClientStep(c)
    \/ \E p \in Peers : Expire(p)

Spec == Init /\ [][Next]_vars

\* Runnable goroutines run.  A select with several ready cases picks one at
\* random, so a case that stays ready is not passed over for ever.
FairSpec ==
    /\ Spec
    /\ \A l \in Links :
          /\ WF_vars(WriterStops(l)) /\ WF_vars(RunCancelled(l)) /\ SF_vars(RunStops(l))
          /\ WF_vars(BurstUsers(l)) /\ WF_vars(BurstChannels(l)) /\ WF_vars(BurstSubscribe(l))
          /\ WF_vars(Activate(l)) /\ WF_vars(RegisterLink(l))
    /\ \A g \in Goroutines : WF_vars(Closing(g))

-----------------------------------------------------------------------------
(* Properties.                                                             *)

TypeOK ==
    /\ state \in [Links -> {"handshaking", "bursting", "active", "closed"}]
    /\ closed \in [Links -> BOOLEAN]
    /\ out \in [Links -> Seq(Messages)]
    /\ written \in [Links -> Nat]
    /\ heard \in [Links -> Nat]
    /\ fedLinks \in [Peers -> Links \cup {0}]
    /\ fedSubs \subseteq Peers /\ squitSeen \subseteq Peers
    /\ local \subseteq Clients /\ channel \subseteq local /\ remote \subseteq Peers
    /\ cancelled \in BOOLEAN /\ wedged \in BOOLEAN
    /\ task \in [Goroutines -> [at : Places, peer : Peers \cup {Nobody},
                                then : Places, todo : SUBSET Peers]]
    /\ \A l \in Links : written[l] <= Len(out[l]) /\ Len(out[l]) - written[l] <= QueueSize

Rank(m) ==
    CASE m.kind = "SERVER" -> 0
      [] m.kind = "SVINFO" -> 1
      [] m.kind = "BURST" -> 2
      [] m.kind = "BURST JOIN" -> 3
      [] OTHER -> 4

\* Whatever clients and other links do meanwhile, a peer reads the handshake,
\* then the users, then the channels, and only then events that refer to them.
BurstPrecedesEvents ==
    \A l \in Links : \A i, j \in DOMAIN out[l] :
        i < j => Rank(out[l][i]) <= Rank(out[l][j])

Up(l) == state[l] = "active" /\ ~ closed[l] /\ task[Run(l)].at = "select"
Sent(l, kind) == \E i \in DOMAIN out[l] : out[l][i].kind = kind

\* A link that is up is the one the broadcast path finds for its peer.
UpIsRegistered == \A l \in Links : Up(l) => fedLinks[PeerOf[l]] = l

\* A peer that learned of the channel from our burst gets the channel's events.
BurstIsSubscribed == \A l \in Links : Up(l) /\ Sent(l, "BURST JOIN") => PeerOf[l] \in fedSubs

\* After a shutdown every runLink returns, so that the supervisor's wait ends.
ShutdownDrains ==
    cancelled ~> \A l \in Links : task[Run(l)].at \in {"off", "ended"}

-----------------------------------------------------------------------------
(* What comments of the code say and its interleavings refute.             *)

\* A peer that learned of the channel from a JOIN gets the channel's events.
JoinIsSubscribed == \A l \in Links : Up(l) /\ Sent(l, "JOIN") => PeerOf[l] \in fedSubs

\* A goroutine never waits for fedMu behind its own read lock: Send does not
\* block its caller.
SendNeverBlocks == ~ wedged

\* The registry holds no link that has run to its end.
RegisteredIsAlive == \A l \in Registered : task[Run(l)].at # "ended"

\* A user who has registered and been announced is known to every peer.
EveryoneIsTold ==
    \A l \in Links, c \in Clients :
        /\ Up(l)
        /\ task[Client(c)].at \notin {"new", "announce", "stuck"}
        => \E i \in DOMAIN out[l] :
              out[l][i].kind \in {"BURST", "NICK"} /\ c \in out[l][i].names

\* When the last link of a peer has ended, none of its users is left.
SquitLeavesNobody ==
    \A p \in Peers :
        /\ \A l \in Links : PeerOf[l] = p => task[Run(l)].at \in {"off", "ended"}
        /\ \A g \in Goroutines : task[g].peer = p => task[g].at = "stuck"
        => p \notin remote

\* No user of a peer is killed for a collision with its own stale record.
ReturningUserLives == \A l \in Links : ~ Sent(l, "KILL")
=============================================================================

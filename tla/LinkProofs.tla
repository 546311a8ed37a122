------------------------------ MODULE LinkProofs ------------------------------
(***************************************************************************)
(* What holds of every number of links, clients and peers, and of queues   *)
(* of any size: the types, with the queue of each link within its size;    *)
(* the order in which a peer reads handshake, burst and events; and, for a *)
(* peer that is only dialled, its registration and its subscriptions.      *)
(***************************************************************************)
EXTENDS Link, TLAPS

Tasks == [at : Places, peer : Peers \cup {Nobody}, then : Places, todo : SUBSET Peers]

ClosingPlaces == {"unregister", "squit", "purge", "forward"}

\* The steps of OnClosed know whose link it was, and where the goroutine was.
InHand(t) ==
    t.at \in ClosingPlaces => t.peer \in Peers /\ t.then \notin ClosingPlaces \cup {"off", "ended"}

LinkOK ==
    /\ state \in [Links -> {"handshaking", "bursting", "active", "closed"}]
    /\ closed \in [Links -> BOOLEAN]

PipeOK ==
    /\ out \in [Links -> Seq(Messages)]
    /\ written \in [Links -> Nat]
    /\ heard \in [Links -> Nat]
    /\ \A l \in Links : written[l] <= Len(out[l]) /\ Len(out[l]) - written[l] <= QueueSize

FedOK ==
    /\ fedLinks \in [Peers -> Links \cup {0}]
    /\ fedSubs \subseteq Peers /\ squitSeen \subseteq Peers

LocalOK == local \subseteq Clients /\ channel \subseteq local /\ remote \subseteq Peers

FlagOK == cancelled \in BOOLEAN /\ wedged \in BOOLEAN

\* A link that has not started has no writer and has written nothing, and a
\* client that is not new has a record.
TaskOK ==
    /\ task \in [Goroutines -> Tasks]
    /\ \A g \in Goroutines : InHand(task[g])
    /\ \A l \in Links : task[Run(l)].at = "off" => task[Writer(l)].at = "off" /\ written[l] = 0
    /\ \A c \in Clients : task[Client(c)].at # "new" => c \in local

TypeInv == LinkOK /\ PipeOK /\ FedOK /\ LocalOK /\ FlagOK /\ TaskOK

-----------------------------------------------------------------------------
\* The goroutines of links and clients are told apart.
LEMMA GoroutineFacts ==
    /\ \A l \in Links : Run(l) \in Goroutines /\ Writer(l) \in Goroutines
    /\ \A c \in Clients : Client(c) \in Goroutines
    /\ \A l, k : Run(l) # Writer(k) /\ Run(l) # Client(k) /\ Writer(l) # Client(k)
    /\ \A l, k : Run(l) = Run(k) => l = k
    /\ \A l, k : Writer(l) = Writer(k) => l = k
    /\ \A l, k : Client(l) = Client(k) => l = k
    /\ \A l \in Links : l # 0 /\ PeerOf[l] \in Peers
BY PeerOfAssumption DEF Goroutines, Run, Writer, Client, Links

LEMMA TaskFacts ==
    /\ \A p \in Places : At(p) \in Tasks
    /\ \A p, b \in Places, q \in Peers \cup {Nobody}, s \in SUBSET Peers :
          Doing(p, q, b, s) \in Tasks
    /\ \A p \in Places \ ClosingPlaces : InHand(At(p))
    /\ \A p, b, s : \A q \in Peers :
          b \notin ClosingPlaces \cup {"off", "ended"} => InHand(Doing(p, q, b, s))
    /\ \A p, b, s, q : p \notin ClosingPlaces => InHand(Doing(p, q, b, s))
    /\ \A p : At(p).at = p
    /\ \A p, q, b, s : Doing(p, q, b, s).at = p
BY DEF At, Doing, Tasks, InHand

\* A goroutine that goes on keeps the tasks of the right shape.
LEMMA GotoTypes ==
    ASSUME TaskOK, NEW g \in Goroutines, NEW t \in Tasks, Goto(g, t), InHand(t),
           task[g].at # "off", t.at # "off",
           task[g].at # "new" \/ \A c \in Clients : g = Client(c) => c \in local',
           \A k \in Links : written[k] = 0 => written'[k] = 0, local \subseteq local'
    PROVE  TaskOK'
<1>1. task' \in [Goroutines -> Tasks]
  BY DEF Goto, TaskOK
<1>2. task'[g] = t /\ \A h \in Goroutines : h # g => task'[h] = task[h]
  BY DEF Goto, TaskOK
<1>3. \A h \in Goroutines : InHand(task'[h])
  BY <1>2 DEF TaskOK
<1>4. ASSUME NEW l \in Links, task'[Run(l)].at = "off"
      PROVE  task'[Writer(l)].at = "off" /\ written'[l] = 0
  <2>1. Run(l) # g
    BY <1>2, <1>4
  <2>2. task[Run(l)].at = "off" /\ task[Writer(l)].at = "off" /\ written[l] = 0
    BY <1>2, <1>4, <2>1, GoroutineFacts DEF TaskOK
  <2> QED BY <1>2, <2>2, GoroutineFacts
<1>5. ASSUME NEW c \in Clients, task'[Client(c)].at # "new"
      PROVE  c \in local'
  BY <1>2, <1>5, GoroutineFacts DEF TaskOK
<1> QED BY <1>1, <1>3, <1>4, <1>5 DEF TaskOK

\* Close leaves the link closed and its goroutine with the peer in hand.
LEMMA CloseTypes ==
    ASSUME TypeInv, NEW g \in Goroutines, NEW l \in Links,
           NEW back \in Places \ (ClosingPlaces \cup {"off", "ended"}),
           Close(g, l, back), task[g].at \notin {"off", "new"}, UNCHANGED <<written, local>>
    PROVE  LinkOK' /\ TaskOK'
<1>0. PeerOf[l] \in Peers
  BY GoroutineFacts
<1>1. CASE state[l] = "closed"
  <2>1. Goto(g, At(back)) /\ UNCHANGED linkVars
    BY <1>1 DEF Close
  <2>2. LinkOK'
    BY <2>1 DEF TypeInv, LinkOK, linkVars
  <2>3. At(back) \in Tasks /\ InHand(At(back)) /\ At(back).at # "off"
    BY TaskFacts
  <2> QED BY <2>1, <2>2, <2>3, GotoTypes DEF TypeInv
<1>2. CASE state[l] # "closed"
  <2>1. /\ Goto(g, Doing("unregister", PeerOf[l], back, {}))
        /\ state' = [state EXCEPT ![l] = "closed"] /\ closed' = [closed EXCEPT ![l] = TRUE]
    BY <1>2 DEF Close
  <2>2. LinkOK'
    BY <2>1 DEF TypeInv, LinkOK
  <2> DEFINE t == Doing("unregister", PeerOf[l], back, {})
  <2>3. t \in Tasks /\ InHand(t) /\ t.at # "off"
    BY <1>0, TaskFacts DEF Places
  <2>4. Goto(g, t)
    BY <2>1
  <2> HIDE DEF t
  <2> QED BY <2>2, <2>3, <2>4, GotoTypes DEF TypeInv
<1> QED BY <1>1, <1>2

\* A message put where there is room leaves the queue within its size.
LEMMA AppendTypes ==
    ASSUME NEW s \in Seq(Messages), NEW m \in Messages, NEW n \in Nat,
           n <= Len(s), Len(s) - n < QueueSize
    PROVE  /\ Append(s, m) \in Seq(Messages)
           /\ n <= Len(Append(s, m)) /\ Len(Append(s, m)) - n <= QueueSize
BY QueueSizeAssumption

LEMMA SendTypes ==
    ASSUME TypeInv, NEW g \in Goroutines, NEW l \in Links, NEW m \in Messages,
           NEW back \in Places \ (ClosingPlaces \cup {"off", "ended"}),
           Send(g, l, m, back), task[g].at \notin {"off", "new"}, UNCHANGED <<written, local>>
    PROVE  /\ LinkOK' /\ TaskOK'
           /\ out' \in [Links -> Seq(Messages)]
           /\ \A k \in Links : written'[k] <= Len(out'[k]) /\ Len(out'[k]) - written'[k] <= QueueSize
<1>a. At(back) \in Tasks /\ InHand(At(back)) /\ At(back).at # "off"
  BY TaskFacts
<1>1. CASE closed[l] /\ Goto(g, At(back)) /\ UNCHANGED <<out, linkVars>>
  <2>1. LinkOK'
    BY <1>1 DEF TypeInv, LinkOK, linkVars
  <2>2. TaskOK'
    BY <1>1, <1>a, GotoTypes DEF TypeInv
  <2> QED BY <1>1, <2>1, <2>2 DEF TypeInv, PipeOK
<1>2. CASE /\ ~ closed[l] /\ Room(l)
           /\ out' = [out EXCEPT ![l] = Append(@, m)] /\ Goto(g, At(back)) /\ UNCHANGED linkVars
  <2>1. LinkOK'
    BY <1>2 DEF TypeInv, LinkOK, linkVars
  <2>2. TaskOK'
    BY <1>2, <1>a, GotoTypes DEF TypeInv
  <2>3. /\ out[l] \in Seq(Messages) /\ written[l] \in Nat
        /\ written[l] <= Len(out[l]) /\ Len(out[l]) - written[l] < QueueSize
    BY <1>2 DEF TypeInv, PipeOK, Room
  <2>4. /\ Append(out[l], m) \in Seq(Messages)
        /\ written[l] <= Len(Append(out[l], m)) /\ Len(Append(out[l], m)) - written[l] <= QueueSize
    BY <2>3, AppendTypes
  <2>5. /\ out' \in [Links -> Seq(Messages)] /\ out'[l] = Append(out[l], m)
        /\ \A k \in Links : k # l => out'[k] = out[k]
    BY <1>2, <2>4 DEF TypeInv, PipeOK
  <2>6. ASSUME NEW k \in Links
        PROVE  written'[k] <= Len(out'[k]) /\ Len(out'[k]) - written'[k] <= QueueSize
    BY <2>4, <2>5 DEF TypeInv, PipeOK
  <2> QED BY <2>1, <2>2, <2>5, <2>6
<1>3. CASE Close(g, l, back) /\ UNCHANGED out
  BY <1>3, CloseTypes DEF TypeInv, PipeOK
<1> QED BY <1>1, <1>2, <1>3 DEF Send

LEMMA SendAllTypes ==
    ASSUME TypeInv, NEW g \in Goroutines, NEW ls \in SUBSET Links, NEW m \in Messages,
           NEW back \in Places \ (ClosingPlaces \cup {"off", "ended"}),
           SendAll(g, ls, m, back), task[g].at \notin {"off", "new"},
           UNCHANGED <<written, heard, fedVars, worldVars, cancelled>>
    PROVE  TypeInv'
<1>0. FedOK' /\ LocalOK'
  BY DEF TypeInv, FedOK, LocalOK, fedVars, worldVars
<1>1. CASE /\ \A l \in ls : Room(l) \/ closed[l]
           /\ out' = [l \in Links |-> IF l \in ls /\ ~ closed[l] THEN Append(out[l], m) ELSE out[l]]
           /\ Goto(g, At(back)) /\ UNCHANGED <<linkVars, wedged>>
  <2>1. LinkOK' /\ FlagOK'
    BY <1>1 DEF TypeInv, LinkOK, FlagOK, linkVars
  <2>2. At(back) \in Tasks /\ InHand(At(back)) /\ At(back).at # "off"
    BY TaskFacts
  <2>3. TaskOK'
    BY <1>1, <2>2, GotoTypes DEF TypeInv, worldVars
  <2>4. ASSUME NEW l \in Links
        PROVE  /\ out'[l] \in Seq(Messages)
               /\ written'[l] <= Len(out'[l]) /\ Len(out'[l]) - written'[l] <= QueueSize
    <3>1. /\ out[l] \in Seq(Messages) /\ written[l] \in Nat /\ written'[l] = written[l]
          /\ written[l] <= Len(out[l]) /\ Len(out[l]) - written[l] <= QueueSize
      BY DEF TypeInv, PipeOK
    <3>2. CASE l \in ls /\ ~ closed[l]
      <4>1. Len(out[l]) - written[l] < QueueSize /\ out'[l] = Append(out[l], m)
        BY <1>1, <3>2 DEF Room
      <4> QED BY <3>1, <4>1, AppendTypes
    <3>3. CASE ~ (l \in ls /\ ~ closed[l])
      <4>1. out'[l] = out[l]
        BY <1>1, <3>3
      <4> QED BY <3>1, <4>1
    <3> QED BY <3>2, <3>3
  <2>5. out' \in [Links -> Seq(Messages)]
    BY <1>1, <2>4
  <2>6. PipeOK'
    BY <2>4, <2>5 DEF TypeInv, PipeOK
  <2> QED BY <1>0, <2>1, <2>3, <2>6 DEF TypeInv
<1>2. ASSUME NEW l \in ls, state' = [state EXCEPT ![l] = "closed"],
             closed' = [closed EXCEPT ![l] = TRUE], wedged' = TRUE,
             Goto(g, Doing("stuck", PeerOf[l], back, {})), UNCHANGED out
      PROVE  TypeInv'
  <2>1. LinkOK' /\ FlagOK'
    BY <1>2 DEF TypeInv, LinkOK, FlagOK
  <2>2. PipeOK'
    BY <1>2 DEF TypeInv, PipeOK
  <2> DEFINE t == Doing("stuck", PeerOf[l], back, {})
  <2>3. t \in Tasks /\ InHand(t) /\ t.at # "off"
    BY GoroutineFacts, TaskFacts DEF Places
  <2>4. Goto(g, t)
    BY <1>2
  <2> HIDE DEF t
  <2>5. TaskOK'
    BY <2>3, <2>4, GotoTypes DEF TypeInv, worldVars
  <2> QED BY <1>0, <2>1, <2>2, <2>5 DEF TypeInv
<1> QED BY <1>1, <1>2 DEF SendAll

\* What a step leaves alone keeps its type.
LEMMA Untouched ==
    ASSUME TypeInv
    PROVE  /\ UNCHANGED linkVars => LinkOK'
           /\ UNCHANGED pipeVars => PipeOK'
           /\ UNCHANGED fedVars => FedOK'
           /\ UNCHANGED worldVars => LocalOK'
           /\ UNCHANGED <<cancelled, wedged>> => FlagOK'
<1>1. UNCHANGED linkVars => LinkOK'
  BY DEF TypeInv, LinkOK, linkVars
<1>2. UNCHANGED pipeVars => PipeOK'
  BY DEF TypeInv, PipeOK, pipeVars
<1>3. UNCHANGED fedVars => FedOK'
  BY DEF TypeInv, FedOK, fedVars
<1>4. UNCHANGED worldVars => LocalOK'
  BY DEF TypeInv, LocalOK, worldVars
<1>5. UNCHANGED <<cancelled, wedged>> => FlagOK'
  BY DEF TypeInv, FlagOK
<1> QED BY <1>1, <1>2, <1>3, <1>4, <1>5

\* The links a broadcast reaches, and the messages it may carry.
LEMMA ReachFacts ==
    ASSUME TypeInv
    PROVE  /\ Registered \subseteq Links
           /\ \A S \in SUBSET Peers : {fedLinks[p] : p \in S} \ {0} \subseteq Registered
           /\ \A p \in Peers : fedLinks[p] # 0 => fedLinks[p] \in Registered
BY DEF TypeInv, FedOK, Registered

LEMMA MessageFacts ==
    /\ \A k \in Kinds, ns \in SUBSET Clients : Message(k, ns) \in Messages
    /\ \A k \in Kinds, p \in Peers : Message(k, {p}) \in Messages
    /\ \A k, ns : Message(k, ns).kind = k
<1>1. \A k \in Kinds, ns \in SUBSET Clients : Message(k, ns) \in Messages
  BY DEF Message, Messages
<1>2. \A k \in Kinds, p \in Peers : Message(k, {p}) \in Messages
  BY DEF Message, Messages
<1>3. \A k, ns : Message(k, ns).kind = k
  BY DEF Message
<1> QED BY <1>1, <1>2, <1>3

\* The callback of Close.
LEMMA ClosingTypes ==
    ASSUME TypeInv, NEW g \in Goroutines, Closing(g)
    PROVE  TypeInv'
<1>0. /\ TaskOK /\ task[g] \in Tasks
      /\ task[g].at \in ClosingPlaces /\ task[g].peer \in Peers
      /\ task[g].then \in Places \ (ClosingPlaces \cup {"off", "ended"})
  <2>1. TaskOK /\ task[g] \in Tasks /\ InHand(task[g])
    BY DEF TypeInv, TaskOK
  <2>2. task[g].at \in ClosingPlaces
    BY DEF Closing, UnregisterLink, SquitSeen, Purge, ForwardSquit, ClosingPlaces
  <2> QED BY <2>1, <2>2 DEF InHand, Tasks
<1>a. /\ [task[g] EXCEPT !.at = "squit"] \in Tasks /\ InHand([task[g] EXCEPT !.at = "squit"])
      /\ [task[g] EXCEPT !.at = "squit"].at # "off"
  BY <1>0 DEF Tasks, InHand, Places
<1>b. /\ [task[g] EXCEPT !.at = "purge"] \in Tasks /\ InHand([task[g] EXCEPT !.at = "purge"])
      /\ [task[g] EXCEPT !.at = "purge"].at # "off"
  BY <1>0 DEF Tasks, InHand, Places
<1>c. /\ [task[g] EXCEPT !.at = "forward"] \in Tasks /\ InHand([task[g] EXCEPT !.at = "forward"])
      /\ [task[g] EXCEPT !.at = "forward"].at # "off"
  BY <1>0 DEF Tasks, InHand, Places
<1>d. task[g].at \notin {"off", "new"}
  BY <1>0 DEF ClosingPlaces
<1>1. CASE UnregisterLink(g)
  <2>1. TaskOK'
    BY <1>0, <1>1, <1>a, <1>d, GotoTypes DEF UnregisterLink, pipeVars, worldVars
  <2>2. FedOK'
    BY <1>0, <1>1 DEF UnregisterLink, TypeInv, FedOK
  <2> QED BY <1>1, <2>1, <2>2, Untouched DEF UnregisterLink, TypeInv
<1>2. CASE SquitSeen(g)
  <2>1. FedOK'
    BY <1>0, <1>2 DEF SquitSeen, TypeInv, FedOK
  <2>2. TaskOK'
    <3>1. CASE task[g].peer \notin squitSeen
      BY <1>0, <1>2, <1>b, <1>d, <3>1, GotoTypes DEF SquitSeen, pipeVars, worldVars
    <3>2. CASE task[g].peer \in squitSeen
      <4>1. Goto(g, At(task[g].then))
        BY <1>2, <3>2 DEF SquitSeen
      <4>2. At(task[g].then) \in Tasks /\ InHand(At(task[g].then)) /\ At(task[g].then).at # "off"
        BY <1>0, TaskFacts
      <4> QED BY <1>0, <1>2, <1>d, <4>1, <4>2, GotoTypes DEF SquitSeen, pipeVars, worldVars
    <3> QED BY <3>1, <3>2
  <2> QED BY <1>2, <2>1, <2>2, Untouched DEF SquitSeen, TypeInv
<1>3. CASE Purge(g)
  <2>1. TaskOK'
    BY <1>0, <1>3, <1>c, <1>d, GotoTypes DEF Purge, pipeVars
  <2>2. LocalOK'
    BY <1>3 DEF Purge, TypeInv, LocalOK
  <2> QED BY <1>3, <2>1, <2>2, Untouched DEF Purge, TypeInv
<1>4. CASE ForwardSquit(g)
  <2>1. Registered \ {fedLinks[task[g].peer]} \in SUBSET Links
    BY ReachFacts
  <2>2. Message("SQUIT", {task[g].peer}) \in Messages
    BY <1>0, MessageFacts DEF Kinds
  <2> QED BY <1>0, <1>4, <1>d, <2>1, <2>2, SendAllTypes DEF ForwardSquit
<1> QED BY <1>1, <1>2, <1>3, <1>4 DEF Closing

\* A goroutine of the link goes on, or closes the link, and the pipe is as it was.
LEMMA MoveTypes ==
    ASSUME TypeInv, NEW g \in Goroutines, NEW place \in Places \ (ClosingPlaces \cup {"off", "ended"}),
           Goto(g, At(place)), task[g].at \notin {"off", "new"},
           UNCHANGED <<written, local>>
    PROVE  TaskOK'
<1>1. At(place) \in Tasks /\ InHand(At(place)) /\ At(place).at # "off"
  BY TaskFacts
<1> QED BY <1>1, GotoTypes DEF TypeInv

\* What dispatching the next message of a peer says of it.
LEMMA ReceiveFacts ==
    ASSUME TypeInv, NEW l \in Links, NEW m, Receive(l, m)
    PROVE  /\ heard' \in [Links -> Nat] /\ heard'[l] = heard[l] + 1
           /\ \A k \in Links : k # l => heard'[k] = heard[k]
           /\ task[Run(l)].at = "select" /\ task[Run(l)].at \notin {"off", "new"}
           /\ m = "SERVER" <=> heard[l] = 0
           /\ m = "SVINFO" <=> heard[l] = 1
<1>1. heard \in [Links -> Nat] /\ heard[l] \in Nat /\ heard[l] + 1 # 0
  BY DEF TypeInv, PipeOK
<1>2. /\ heard' \in [Links -> Nat] /\ heard'[l] = heard[l] + 1
      /\ \A k \in Links : k # l => heard'[k] = heard[k]
  BY <1>1 DEF Receive
<1>3. PeerOf[l] \in Peers /\ heard[l] + 1 \in DOMAIN Stream[PeerOf[l]]
      /\ Stream[PeerOf[l]][heard[l] + 1] = m
  BY <1>1, GoroutineFacts, StreamAssumption DEF Receive
<1>4. (m = "SERVER" <=> heard[l] + 1 = 1) /\ (m = "SVINFO" <=> heard[l] + 1 = 2)
  BY <1>3, StreamOrderAssumption
<1> QED BY <1>1, <1>2, <1>4 DEF Receive

\* runLink, the writer and the ends of Run.
LEMMA LifeTypes ==
    ASSUME TypeInv, NEW l \in Links,
           \/ Start(l) \/ Write(l) \/ WriteFails(l) \/ WriterStops(l)
           \/ RunCancelled(l) \/ RunEOF(l) \/ RunStops(l)
    PROVE  TypeInv'
<1>0. Run(l) \in Goroutines /\ Writer(l) \in Goroutines /\ Run(l) # Writer(l)
  BY GoroutineFacts
<1>1. CASE Start(l)
  <2>1. At("select") \in Tasks /\ At("writing") \in Tasks /\ InHand(At("select"))
        /\ InHand(At("writing")) /\ At("select").at = "select" /\ At("writing").at = "writing"
    BY TaskFacts DEF Places, ClosingPlaces
  <2>2. /\ task' \in [Goroutines -> Tasks] /\ task'[Run(l)] = At("select")
        /\ task'[Writer(l)] = At("writing")
        /\ \A h \in Goroutines : h \notin {Run(l), Writer(l)} => task'[h] = task[h]
    BY <1>0, <1>1, <2>1 DEF Start, TypeInv, TaskOK
  <2>3. \A h \in Goroutines : InHand(task'[h])
    BY <2>1, <2>2 DEF TypeInv, TaskOK
  <2>4. ASSUME NEW k \in Links, task'[Run(k)].at = "off"
        PROVE  task'[Writer(k)].at = "off" /\ written'[k] = 0
    <3>1. k # l
      BY <2>1, <2>2, <2>4
    <3>2. task'[Run(k)] = task[Run(k)] /\ task'[Writer(k)] = task[Writer(k)]
      BY <2>2, <3>1, GoroutineFacts
    <3> QED BY <1>1, <2>4, <3>2 DEF Start, TypeInv, TaskOK
  <2>5. ASSUME NEW c \in Clients, task'[Client(c)].at # "new" PROVE c \in local'
    <3>1. task'[Client(c)] = task[Client(c)]
      BY <2>2, GoroutineFacts
    <3> QED BY <1>1, <2>5, <3>1 DEF Start, TypeInv, TaskOK, worldVars
  <2>6. TaskOK'
    BY <2>2, <2>3, <2>4, <2>5 DEF TaskOK
  <2>7. Message("SERVER", {}) \in Messages
    BY MessageFacts DEF Kinds
  <2>8. /\ <<Message("SERVER", {})>> \in Seq(Messages)
        /\ Len(<<Message("SERVER", {})>>) = 1
    BY <2>7
  <2>9. PipeOK'
    <3>1. written'[l] = 0 /\ written' = written
      BY <1>1 DEF Start, TypeInv, TaskOK
    <3>2. out' \in [Links -> Seq(Messages)]
      BY <1>1, <2>8 DEF Start, TypeInv, PipeOK
    <3>3. Len(out'[l]) = 1 /\ \A k \in Links : k # l => out'[k] = out[k]
      BY <1>1, <2>8 DEF Start, TypeInv, PipeOK
    <3>4. ASSUME NEW k \in Links
          PROVE  written'[k] <= Len(out'[k]) /\ Len(out'[k]) - written'[k] <= QueueSize
      <4>1. CASE k = l
        <5>1. written'[k] = 0 /\ Len(out'[k]) = 1
          BY <3>1, <3>3, <4>1
        <5> QED BY <5>1, QueueSizeAssumption
      <4>2. CASE k # l
        <5>1. out'[k] = out[k] /\ written'[k] = written[k]
          BY <3>1, <3>3, <4>2
        <5> QED BY <5>1 DEF TypeInv, PipeOK
      <4> QED BY <4>1, <4>2
    <3>5. heard' \in [Links -> Nat] /\ written' \in [Links -> Nat]
      BY <1>1 DEF Start, TypeInv, PipeOK
    <3> QED BY <3>2, <3>4, <3>5 DEF PipeOK
  <2> QED BY <1>1, <2>6, <2>9, Untouched DEF Start, TypeInv
<1>2. CASE Write(l)
  <2>1. /\ written' \in [Links -> Nat] /\ written'[l] = written[l] + 1
        /\ \A k \in Links : k # l => written'[k] = written[k]
    BY <1>2 DEF Write, TypeInv, PipeOK
  <2>2. ASSUME NEW k \in Links
        PROVE  written'[k] <= Len(out[k]) /\ Len(out[k]) - written'[k] <= QueueSize
    <3>1. /\ Len(out[k]) \in Nat /\ written[k] \in Nat
          /\ written[k] <= Len(out[k]) /\ Len(out[k]) - written[k] <= QueueSize
      BY DEF TypeInv, PipeOK
    <3>2. k = l => written[k] < Len(out[k])
      BY <1>2 DEF Write
    <3> QED BY <2>1, <3>1, <3>2, QueueSizeAssumption
  <2>3. PipeOK'
    <3>1. out' = out /\ heard' = heard
      BY <1>2 DEF Write
    <3> QED BY <2>1, <2>2, <3>1 DEF TypeInv, PipeOK
  <2>4. task[Run(l)].at # "off"
    BY <1>2 DEF Write, TypeInv, TaskOK
  <2>5. TaskOK'
    BY <1>2, <2>1, <2>4 DEF Write, TypeInv, TaskOK, worldVars
  <2> QED BY <1>2, <2>3, <2>5, Untouched DEF Write, TypeInv
<1>3. CASE WriteFails(l)
  <2>1. LinkOK' /\ TaskOK'
    BY <1>0, <1>3, CloseTypes DEF WriteFails, pipeVars, worldVars, Places, ClosingPlaces
  <2> QED BY <1>3, <2>1, Untouched DEF WriteFails, TypeInv
<1>4. CASE WriterStops(l)
  <2>1. TaskOK'
    BY <1>0, <1>4, MoveTypes DEF WriterStops, pipeVars, worldVars, Places, ClosingPlaces
  <2> QED BY <1>4, <2>1, Untouched DEF WriterStops, TypeInv
<1>5. CASE RunCancelled(l)
  <2>1. LinkOK' /\ TaskOK'
    BY <1>0, <1>5, CloseTypes DEF RunCancelled, pipeVars, worldVars, Places, ClosingPlaces
  <2> QED BY <1>5, <2>1, Untouched DEF RunCancelled, TypeInv
<1>6. CASE RunEOF(l)
  <2>1. LinkOK' /\ TaskOK'
    BY <1>0, <1>6, CloseTypes DEF RunEOF, worldVars, Places, ClosingPlaces
  <2>2. EndOfStream(l) \in Nat
    BY GoroutineFacts, StreamAssumption DEF EndOfStream
  <2>3. PipeOK'
    BY <1>6, <2>2 DEF RunEOF, TypeInv, PipeOK
  <2> QED BY <1>6, <2>1, <2>3, Untouched DEF RunEOF, TypeInv
<1>7. CASE RunStops(l)
  <2>1. \A k \in Links : written[k] = 0 => written'[k] = 0
    BY <1>7 DEF RunStops, TypeInv, PipeOK
  <2>2. At("ended") \in Tasks /\ InHand(At("ended")) /\ At("ended").at # "off"
    BY TaskFacts DEF Places, ClosingPlaces
  <2>3. TaskOK'
    BY <1>0, <1>7, <2>1, <2>2, GotoTypes DEF RunStops, TypeInv, worldVars
  <2>4. /\ out' \in [Links -> Seq(Messages)] /\ out'[l] = << >> /\ Len(out'[l]) = 0
        /\ \A k \in Links : k # l => out'[k] = out[k]
    BY <1>7 DEF RunStops, TypeInv, PipeOK
  <2>5. /\ written' \in [Links -> Nat] /\ heard' \in [Links -> Nat] /\ written'[l] = 0
        /\ \A k \in Links : k # l => written'[k] = written[k]
    BY <1>7 DEF RunStops, TypeInv, PipeOK
  <2>6. ASSUME NEW k \in Links
        PROVE  written'[k] <= Len(out'[k]) /\ Len(out'[k]) - written'[k] <= QueueSize
    <3>1. CASE k = l
      BY <2>4, <2>5, <3>1, QueueSizeAssumption
    <3>2. CASE k # l
      BY <2>4, <2>5, <3>2 DEF TypeInv, PipeOK
    <3> QED BY <3>1, <3>2
  <2>7. PipeOK'
    BY <2>4, <2>5, <2>6 DEF PipeOK
  <2> QED BY <1>7, <2>3, <2>7, Untouched DEF RunStops, TypeInv
<1> QED BY <1>1, <1>2, <1>3, <1>4, <1>5, <1>6, <1>7

\* dispatch, in the steps of a link that has a message from its peer.
LEMMA HandlerTypes ==
    ASSUME TypeInv, NEW l \in Links,
           HandleServer(l) \/ HandleSvinfo(l) \/ HandleNick(l) \/ HandleRemoteSquit(l)
    PROVE  TypeInv'
<1>0. Run(l) \in Goroutines /\ "select" \in Places \ (ClosingPlaces \cup {"off", "ended"})
      /\ "users" \in Places \ (ClosingPlaces \cup {"off", "ended"})
  BY GoroutineFacts DEF Places, ClosingPlaces
<1>1. CASE HandleServer(l)
  <2>1. heard' \in [Links -> Nat] /\ task[Run(l)].at \notin {"off", "new"}
    BY <1>1, ReceiveFacts DEF HandleServer
  <2>2. UNCHANGED <<written, local>> /\ UNCHANGED fedVars /\ UNCHANGED worldVars
        /\ UNCHANGED <<cancelled, wedged>>
    BY <1>1 DEF HandleServer, worldVars
  <2>3. CASE Send(Run(l), l, Message("SVINFO", {}), "select")
    <3>1. Message("SVINFO", {}) \in Messages
      BY MessageFacts DEF Kinds
    <3>2. /\ LinkOK' /\ TaskOK' /\ out' \in [Links -> Seq(Messages)]
          /\ \A k \in Links : written'[k] <= Len(out'[k]) /\ Len(out'[k]) - written'[k] <= QueueSize
      BY <1>0, <2>1, <2>2, <2>3, <3>1, SendTypes
    <3>3. PipeOK'
      BY <2>1, <2>2, <3>2 DEF TypeInv, PipeOK
    <3> QED BY <2>2, <3>2, <3>3, Untouched DEF TypeInv
  <2>4. CASE Close(Run(l), l, "select") /\ UNCHANGED out
    <3>1. LinkOK' /\ TaskOK'
      BY <1>0, <2>1, <2>2, <2>4, CloseTypes
    <3>2. PipeOK'
      BY <2>1, <2>2, <2>4 DEF TypeInv, PipeOK
    <3> QED BY <2>2, <3>1, <3>2, Untouched DEF TypeInv
  <2> QED BY <1>1, <2>3, <2>4 DEF HandleServer
<1>2. CASE HandleSvinfo(l)
  <2>1. heard' \in [Links -> Nat] /\ task[Run(l)].at \notin {"off", "new"}
    BY <1>2, ReceiveFacts DEF HandleSvinfo
  <2>2. LinkOK'
    BY <1>2 DEF HandleSvinfo, TypeInv, LinkOK
  <2>3. PipeOK'
    BY <1>2, <2>1 DEF HandleSvinfo, TypeInv, PipeOK
  <2>4. TaskOK'
    BY <1>0, <1>2, <2>1, MoveTypes DEF HandleSvinfo, worldVars
  <2> QED BY <1>2, <2>2, <2>3, <2>4, Untouched DEF HandleSvinfo, TypeInv
<1>3. CASE HandleNick(l)
  <2>1. heard' \in [Links -> Nat] /\ task[Run(l)].at \notin {"off", "new"} /\ PeerOf[l] \in Peers
    BY <1>3, ReceiveFacts, GoroutineFacts DEF HandleNick
  <2>2. UNCHANGED <<written, local>> /\ UNCHANGED fedVars /\ UNCHANGED <<cancelled, wedged>>
    BY <1>3 DEF HandleNick
  <2>3. LocalOK'
    BY <1>3, <2>1 DEF HandleNick, TypeInv, LocalOK
  <2>4. CASE Goto(Run(l), At("select")) /\ UNCHANGED <<out, linkVars>>
    <3>1. TaskOK'
      BY <1>0, <2>1, <2>2, <2>4, MoveTypes
    <3>2. PipeOK'
      BY <2>1, <2>2, <2>4 DEF TypeInv, PipeOK
    <3> QED BY <2>2, <2>3, <2>4, <3>1, <3>2, Untouched DEF TypeInv
  <2>5. CASE Send(Run(l), l, Message("KILL", {}), "select")
    <3>1. Message("KILL", {}) \in Messages
      BY MessageFacts DEF Kinds
    <3>2. /\ LinkOK' /\ TaskOK' /\ out' \in [Links -> Seq(Messages)]
          /\ \A k \in Links : written'[k] <= Len(out'[k]) /\ Len(out'[k]) - written'[k] <= QueueSize
      BY <1>0, <2>1, <2>2, <2>5, <3>1, SendTypes
    <3>3. PipeOK'
      BY <2>1, <2>2, <3>2 DEF TypeInv, PipeOK
    <3> QED BY <2>2, <2>3, <3>2, <3>3, Untouched DEF TypeInv
  <2> QED BY <1>3, <2>4, <2>5 DEF HandleNick
<1>4. CASE HandleRemoteSquit(l)
  <2>1. heard' \in [Links -> Nat] /\ task[Run(l)].at \notin {"off", "new"}
    BY <1>4, ReceiveFacts DEF HandleRemoteSquit
  <2>2. PICK p \in Peers : Goto(Run(l), Doing("squit", p, "select", {}))
    BY <1>4 DEF HandleRemoteSquit
  <2> DEFINE t == Doing("squit", p, "select", {})
  <2>3. t \in Tasks /\ InHand(t) /\ t.at # "off"
    BY <1>0, TaskFacts DEF Places
  <2>4. Goto(Run(l), t)
    BY <2>2
  <2> HIDE DEF t
  <2>5. TaskOK'
    BY <1>0, <1>4, <2>1, <2>3, <2>4, GotoTypes DEF HandleRemoteSquit, TypeInv, worldVars
  <2>6. PipeOK'
    BY <1>4, <2>1 DEF HandleRemoteSquit, TypeInv, PipeOK
  <2> QED BY <1>4, <2>5, <2>6, Untouched DEF HandleRemoteSquit, TypeInv
<1> QED BY <1>1, <1>2, <1>3, <1>4

\* The burst, which follows SVINFO.
LEMMA BurstTypes ==
    ASSUME TypeInv, NEW l \in Links,
           \/ BurstUsers(l) \/ BurstChannels(l) \/ BurstSubscribe(l)
           \/ Activate(l) \/ RegisterLink(l)
    PROVE  TypeInv'
<1>0. /\ Run(l) \in Goroutines /\ PeerOf[l] \in Peers /\ task[Run(l)].at \notin {"off", "new"}
      /\ \A p \in {"channels", "activate", "subscribe", "register", "select"} :
            p \in Places \ (ClosingPlaces \cup {"off", "ended"})
  BY GoroutineFacts
     DEF Places, ClosingPlaces, BurstUsers, BurstChannels, BurstSubscribe, Activate, RegisterLink
<1>1. ASSUME UNCHANGED <<written, heard, fedVars, worldVars, cancelled, wedged>>,
             NEW m \in Messages, NEW back \in {"channels", "subscribe"},
             Send(Run(l), l, m, back)
      PROVE  TypeInv'
  <2>1. UNCHANGED <<written, local>>
    BY <1>1 DEF worldVars
  <2>2. /\ LinkOK' /\ TaskOK' /\ out' \in [Links -> Seq(Messages)]
        /\ \A k \in Links : written'[k] <= Len(out'[k]) /\ Len(out'[k]) - written'[k] <= QueueSize
    BY <1>0, <1>1, <2>1, SendTypes
  <2>3. PipeOK'
    BY <1>1, <2>2 DEF TypeInv, PipeOK
  <2> QED BY <1>1, <2>2, <2>3, Untouched DEF TypeInv
<1>2. CASE BurstUsers(l)
  <2>1. Message("BURST", local) \in Messages
    BY MessageFacts DEF TypeInv, LocalOK, Kinds
  <2> QED BY <1>1, <1>2, <2>1 DEF BurstUsers
<1>3. CASE BurstChannels(l) /\ channel # {}
  <2>1. Message("BURST JOIN", {}) \in Messages
    BY MessageFacts DEF Kinds
  <2> QED BY <1>1, <1>3, <2>1 DEF BurstChannels
<1>4. CASE BurstChannels(l) /\ channel = {}
  <2>1. Goto(Run(l), At("activate")) /\ UNCHANGED pipeVars
    BY <1>4 DEF BurstChannels, pipeVars
  <2>2. TaskOK'
    BY <1>0, <1>4, <2>1, MoveTypes DEF BurstChannels, pipeVars, worldVars
  <2> QED BY <1>4, <2>1, <2>2, Untouched DEF BurstChannels, TypeInv
<1>5. CASE BurstSubscribe(l)
  <2>1. TaskOK'
    BY <1>0, <1>5, MoveTypes DEF BurstSubscribe, pipeVars, worldVars
  <2>2. FedOK'
    BY <1>0, <1>5 DEF BurstSubscribe, TypeInv, FedOK
  <2> QED BY <1>5, <2>1, <2>2, Untouched DEF BurstSubscribe, TypeInv
<1>6. CASE Activate(l)
  <2>1. TaskOK'
    BY <1>0, <1>6, MoveTypes DEF Activate, pipeVars, worldVars
  <2>2. LinkOK'
    BY <1>6 DEF Activate, TypeInv, LinkOK
  <2> QED BY <1>6, <2>1, <2>2, Untouched DEF Activate, TypeInv
<1>7. CASE RegisterLink(l)
  <2>1. TaskOK'
    BY <1>0, <1>7, MoveTypes DEF RegisterLink, pipeVars, worldVars
  <2>2. FedOK'
    BY <1>0, <1>7 DEF RegisterLink, TypeInv, FedOK
  <2> QED BY <1>7, <2>1, <2>2, Untouched DEF RegisterLink, TypeInv
<1> QED BY <1>2, <1>3, <1>4, <1>5, <1>6, <1>7

\* Local clients.
LEMMA ClientTypes ==
    ASSUME TypeInv, NEW c \in Clients, ClientStep(c)
    PROVE  TypeInv'
<1>0. /\ Client(c) \in Goroutines /\ task[Client(c)] \in Tasks
      /\ \A k \in Clients : Client(c) = Client(k) => c = k
  BY GoroutineFacts DEF TypeInv, TaskOK
<1>1. \A p \in {"announce", "idle", "peers", "join", "joined", "done"} :
         p \in Places \ (ClosingPlaces \cup {"off", "ended"})
  BY DEF Places, ClosingPlaces
<1>2. CASE AddUser(c)
  <2>1. At("announce") \in Tasks /\ InHand(At("announce")) /\ At("announce").at # "off"
    BY <1>1, TaskFacts
  <2>2. TaskOK'
    BY <1>0, <1>2, <2>1, GotoTypes DEF AddUser, TypeInv, pipeVars
  <2>3. LocalOK'
    BY <1>2 DEF AddUser, TypeInv, LocalOK
  <2> QED BY <1>2, <2>2, <2>3, Untouched DEF AddUser, TypeInv
<1>3. CASE Announce(c)
  <2>1. Message("NICK", {c}) \in Messages
    BY MessageFacts DEF Kinds
  <2>2. task[Client(c)].at \notin {"off", "new"}
    BY <1>3 DEF Announce
  <2> QED BY <1>0, <1>1, <1>3, <2>1, <2>2, ReachFacts, SendAllTypes DEF Announce
<1>4. CASE Join(c)
  <2>1. task[Client(c)].at \notin {"off", "new"}
    BY <1>4 DEF Join
  <2>2. TaskOK'
    BY <1>0, <1>1, <1>4, <2>1, MoveTypes DEF Join, pipeVars
  <2>3. LocalOK'
    BY <1>0, <1>4 DEF Join, TypeInv, LocalOK, TaskOK
  <2> QED BY <1>4, <2>2, <2>3, Untouched DEF Join, TypeInv
<1>5. CASE ReadPeers(c)
  <2> DEFINE t == Doing("joining", Nobody, "join", {p \in Peers : fedLinks[p] # 0})
  <2>1. t \in Tasks /\ InHand(t) /\ t.at # "off"
    BY TaskFacts DEF Places, ClosingPlaces
  <2>2. Goto(Client(c), t)
    BY <1>5 DEF ReadPeers
  <2> HIDE DEF t
  <2>3. task[Client(c)].at \notin {"off", "new"}
    BY <1>5 DEF ReadPeers
  <2>4. TaskOK'
    BY <1>0, <1>5, <2>1, <2>2, <2>3, GotoTypes DEF ReadPeers, TypeInv, pipeVars, worldVars
  <2> QED BY <1>5, <2>4, Untouched DEF ReadPeers, TypeInv
<1>6. CASE Subscribe(c)
  <2>1. task[Client(c)].at \notin {"off", "new"}
    BY <1>6 DEF Subscribe
  <2>2. TaskOK'
    BY <1>0, <1>1, <1>6, <2>1, MoveTypes DEF Subscribe, pipeVars, worldVars
  <2>3. FedOK'
    BY <1>0, <1>6 DEF Subscribe, TypeInv, FedOK, Tasks
  <2> QED BY <1>6, <2>2, <2>3, Untouched DEF Subscribe, TypeInv
<1>7. CASE ForwardJoin(c)
  <2>1. Message("JOIN", {c}) \in Messages
    BY MessageFacts DEF Kinds
  <2>2. task[Client(c)].at \notin {"off", "new"}
    BY <1>7 DEF ForwardJoin
  <2> QED BY <1>0, <1>1, <1>7, <2>1, <2>2, ReachFacts, SendAllTypes DEF ForwardJoin
<1>8. CASE Event(c)
  <2>1. Message("EVENT", {c}) \in Messages
    BY MessageFacts DEF Kinds
  <2>2. task[Client(c)].at \notin {"off", "new"}
    BY <1>8 DEF Event
  <2>3. {fedLinks[p] : p \in fedSubs} \ {0} \in SUBSET Links
    BY DEF TypeInv, FedOK
  <2> QED BY <1>0, <1>1, <1>8, <2>1, <2>2, <2>3, SendAllTypes DEF Event
<1> QED BY <1>2, <1>3, <1>4, <1>5, <1>6, <1>7, <1>8 DEF ClientStep

LEMMA InitTypes == Init => TypeInv
<1> SUFFICES ASSUME Init PROVE TypeInv
  OBVIOUS
<1>1. At("new") \in Tasks /\ At("off") \in Tasks /\ InHand(At("new")) /\ InHand(At("off"))
      /\ At("new").at = "new" /\ At("off").at = "off"
  BY TaskFacts DEF Places, ClosingPlaces
<1>2. \A g \in Goroutines : /\ (\E c \in Clients : g = Client(c)) => task[g] = At("new")
                            /\ ~ (\E c \in Clients : g = Client(c)) => task[g] = At("off")
  BY DEF Init
<1>3. task \in [Goroutines -> Tasks]
  BY <1>1 DEF Init
<1>4. \A l \in Links : task[Run(l)] = At("off") /\ task[Writer(l)] = At("off") /\ written[l] = 0
  BY <1>2, GoroutineFacts DEF Init
<1>5. \A c \in Clients : task[Client(c)].at = "new"
  BY <1>1, <1>2, GoroutineFacts
<1>6. TaskOK
  BY <1>1, <1>2, <1>3, <1>4, <1>5 DEF TaskOK
<1>7. /\ out \in [Links -> Seq(Messages)] /\ written \in [Links -> Nat] /\ heard \in [Links -> Nat]
      /\ \A l \in Links : written[l] = 0 /\ Len(out[l]) = 0
  BY DEF Init
<1>8. PipeOK
  BY <1>7, QueueSizeAssumption DEF PipeOK
<1> QED BY <1>6, <1>8 DEF Init, TypeInv, LinkOK, FedOK, LocalOK, FlagOK

LEMMA NextTypes == TypeInv /\ [Next]_vars => TypeInv'
<1> SUFFICES ASSUME TypeInv, [Next]_vars PROVE TypeInv'
  OBVIOUS
<1>1. CASE UNCHANGED vars
  <2>1. TaskOK'
    BY <1>1 DEF vars, pipeVars, worldVars, TypeInv, TaskOK
  <2> QED BY <1>1, <2>1, Untouched DEF vars, TypeInv
<1>2. CASE Shutdown
  <2>1. TaskOK'
    BY <1>2 DEF Shutdown, pipeVars, worldVars, TypeInv, TaskOK
  <2>2. FlagOK'
    BY <1>2 DEF Shutdown, TypeInv, FlagOK
  <2> QED BY <1>2, <2>1, <2>2, Untouched DEF Shutdown, TypeInv
<1>3. CASE \E l \in Links : Start(l) \/ LinkStep(l)
  BY <1>3, LifeTypes, HandlerTypes, BurstTypes DEF LinkStep
<1>4. CASE \E g \in Goroutines : Closing(g)
  BY <1>4, ClosingTypes
<1>5. CASE \E c \in Clients : ClientStep(c)
  BY <1>5, ClientTypes
<1>6. ASSUME NEW p \in Peers, Expire(p) PROVE TypeInv'
  <2>1. TaskOK'
    BY <1>6 DEF Expire, pipeVars, worldVars, TypeInv, TaskOK
  <2>2. FedOK'
    BY <1>6 DEF Expire, TypeInv, FedOK
  <2> QED BY <1>6, <2>1, <2>2, Untouched DEF Expire, TypeInv
<1> QED BY <1>1, <1>2, <1>3, <1>4, <1>5, <1>6 DEF Next

\* Whatever peers send and in whatever order goroutines run, the state keeps
\* its types, and no queue exceeds its size: Send of internal/federation/link.go
\* closes the link rather than wait.
THEOREM TypeCorrect == Spec => []TypeOK
<1>1. TypeInv => TypeOK
  BY DEF TypeInv, LinkOK, PipeOK, FedOK, LocalOK, FlagOK, TaskOK, TypeOK, Tasks
<1> QED BY <1>1, InitTypes, NextTypes, PTL DEF Spec

-----------------------------------------------------------------------------
(* The order on the wire.                                                  *)

BurstPlaces == {"users", "channels", "subscribe", "activate", "register"}

\* The highest rank a link has sent when its run loop is at a place after so
\* many messages from the peer, and the lowest it will send from there.
Level(at, h) ==
    IF h = 0 THEN 0
    ELSE IF h = 1 \/ at = "users" THEN 1
    ELSE IF at = "channels" THEN 2
    ELSE IF at \in {"subscribe", "activate", "register"} THEN 3
    ELSE 4

Sorted(s) == \A i, j \in DOMAIN s : i < j => Rank(s[i]) <= Rank(s[j])
UpTo(s, n) == \A i \in DOMAIN s : Rank(s[i]) <= n

\* The burst and what follows it come after the handshake; a run loop that is
\* not closing its own link comes back to its select.
Ordered(t, h) ==
    /\ t.at \in BurstPlaces => h >= 2
    /\ t.at \in ClosingPlaces => h >= 2 /\ t.then = "select"

\* The broadcast path finds a link only after its burst.
Tidy(l) ==
    /\ Sorted(out[l])
    /\ state[l] = "closed" => closed[l]
    /\ ~ closed[l] =>
         /\ UpTo(out[l], Level(task[Run(l)].at, heard[l]))
         /\ Ordered(task[Run(l)], heard[l])
         /\ l \in Registered => heard[l] >= 2 /\ task[Run(l)].at \notin BurstPlaces

BurstInv == TypeInv /\ \A l \in Links : Tidy(l)

LEMMA RankFacts ==
    /\ \A m : Rank(m) \in Nat
    /\ \A ns : Rank(Message("SERVER", ns)) = 0 /\ Rank(Message("SVINFO", ns)) = 1
    /\ \A ns : Rank(Message("BURST", ns)) = 2 /\ Rank(Message("BURST JOIN", ns)) = 3
    /\ \A k \in {"NICK", "JOIN", "EVENT", "SQUIT", "KILL"} : \A ns : Rank(Message(k, ns)) = 4
BY DEF Rank, Message

LEMMA LevelFacts ==
    /\ \A at : \A h \in Nat : Level(at, h) \in 0..4
    /\ \A at : \A h \in Nat : h >= 2 /\ at \notin BurstPlaces => Level(at, h) = 4
BY DEF Level, BurstPlaces

\* A message of no lower rank than the last keeps the order.
LEMMA SortedAppend ==
    ASSUME NEW s \in Seq(Messages), NEW m \in Messages, NEW n \in Nat, NEW k \in Nat,
           Sorted(s), UpTo(s, n), n <= Rank(m), Rank(m) <= k
    PROVE  Sorted(Append(s, m)) /\ UpTo(Append(s, m), k)
<1>1. /\ DOMAIN s = 1..Len(s) /\ Len(s) \in Nat /\ DOMAIN Append(s, m) = 1..(Len(s) + 1)
      /\ \A i \in 1..Len(s) : Append(s, m)[i] = s[i]
      /\ Append(s, m)[Len(s) + 1] = m
  OBVIOUS
<1>2. Rank(m) \in Nat /\ \A i \in 1..Len(s) : Rank(s[i]) \in Nat /\ Rank(s[i]) <= n
  <2>1. \A e : Rank(e) \in Nat
    BY RankFacts
  <2>2. \A i \in 1..Len(s) : Rank(s[i]) <= n
    BY <1>1 DEF UpTo
  <2> QED BY <2>1, <2>2
<1>3. \A i \in 1..(Len(s) + 1) : i \in 1..Len(s) \/ i = Len(s) + 1
  BY <1>1
<1>4. ASSUME NEW i \in 1..(Len(s) + 1), NEW j \in 1..(Len(s) + 1), i < j
      PROVE  Rank(Append(s, m)[i]) <= Rank(Append(s, m)[j])
  <2>1. i \in 1..Len(s) /\ Rank(Append(s, m)[i]) = Rank(s[i])
    BY <1>1, <1>4
  <2>2. CASE j = Len(s) + 1
    <3>1. Rank(Append(s, m)[j]) = Rank(m)
      BY <1>1, <2>2
    <3> QED BY <1>2, <2>1, <3>1
  <2>3. CASE j \in 1..Len(s)
    <3>1. Rank(Append(s, m)[j]) = Rank(s[j])
      BY <1>1, <2>3
    <3> QED BY <1>1, <1>4, <2>1, <2>3, <3>1 DEF Sorted
  <2> QED BY <1>3, <2>2, <2>3
<1>5. ASSUME NEW i \in 1..(Len(s) + 1)
      PROVE  Rank(Append(s, m)[i]) <= k
  <2>1. CASE i = Len(s) + 1
    <3>1. Rank(Append(s, m)[i]) = Rank(m)
      BY <1>1, <2>1
    <3> QED BY <3>1
  <2>2. CASE i \in 1..Len(s)
    <3>1. Rank(Append(s, m)[i]) = Rank(s[i])
      BY <1>1, <2>2
    <3> QED BY <1>2, <2>2, <3>1
  <2> QED BY <1>3, <2>1, <2>2
<1> QED BY <1>1, <1>4, <1>5 DEF Sorted, UpTo

\* A link that is closed has nothing more to keep than the order of its queue.
LEMMA ClosedTidy ==
    ASSUME NEW l \in Links, Tidy(l), closed'[l], out'[l] = out[l] \/ out'[l] = << >>
    PROVE  Tidy(l)'
BY DEF Tidy, Sorted

\* A link that sends nothing, and whose run loop stays where it is or moves
\* outside the burst.
Stays(l) ==
    /\ out'[l] = out[l] /\ heard'[l] = heard[l]
    /\ task'[Run(l)] = task[Run(l)]
       \/ /\ heard[l] >= 2
          /\ task[Run(l)].at \notin BurstPlaces /\ task'[Run(l)].at \notin BurstPlaces
          /\ task'[Run(l)].at \in ClosingPlaces => task'[Run(l)].then = "select"
    /\ closed'[l] = closed[l] /\ state'[l] = state[l]
    /\ l \in Registered' => l \in Registered

LEMMA StaysTidy ==
    ASSUME BurstInv, NEW l \in Links, ~ closed[l] => Stays(l),
           out'[l] = out[l], closed'[l] = closed[l]
    PROVE  Tidy(l)'
<1>0. Tidy(l) /\ heard[l] \in Nat
  BY DEF BurstInv, TypeInv, PipeOK
<1>1. CASE closed[l]
  BY <1>0, <1>1, ClosedTidy
<1>2. CASE ~ closed[l]
  <2>1. Sorted(out'[l]) /\ (state'[l] = "closed" => closed'[l])
    BY <1>0, <1>2 DEF Tidy, Stays
  <2>2. CASE task'[Run(l)] = task[Run(l)]
    BY <1>0, <1>2, <2>1, <2>2 DEF Tidy, Stays
  <2>3. CASE task'[Run(l)] # task[Run(l)]
    <3>1. /\ heard[l] >= 2 /\ task[Run(l)].at \notin BurstPlaces /\ task'[Run(l)].at \notin BurstPlaces
          /\ task'[Run(l)].at \in ClosingPlaces => task'[Run(l)].then = "select"
          /\ heard'[l] = heard[l]
      BY <1>2, <2>3 DEF Stays
    <3>2. Level(task'[Run(l)].at, heard'[l]) = Level(task[Run(l)].at, heard[l])
      BY <1>0, <3>1, LevelFacts
    <3>3. UpTo(out'[l], Level(task'[Run(l)].at, heard'[l]))
      BY <1>0, <1>2, <3>2 DEF Tidy, Stays
    <3>4. Ordered(task'[Run(l)], heard'[l])
      BY <3>1 DEF Ordered
    <3> QED BY <2>1, <3>1, <3>3, <3>4 DEF Tidy
  <2> QED BY <2>2, <2>3
<1> QED BY <1>1, <1>2

\* Goto moves one goroutine.
LEMMA GotoFacts ==
    ASSUME TypeInv, NEW g \in Goroutines, NEW t, Goto(g, t)
    PROVE  task'[g] = t /\ \A h \in Goroutines : h # g => task'[h] = task[h]
BY DEF Goto, TypeInv, TaskOK

\* Registering is the only step that makes a link one the broadcast path finds.
LEMMA RegisteredFacts == UNCHANGED fedLinks => Registered' = Registered
BY DEF Registered

\* The other links when the goroutine of one moves.
LEMMA OtherTidy ==
    ASSUME BurstInv, NEW l \in Links, NEW k \in Links,
           out'[k] = out[k], heard'[k] = heard[k], closed'[k] = closed[k], state'[k] = state[k],
           task'[Run(k)] = task[Run(k)], k \in Registered' => k \in Registered
    PROVE  Tidy(k)'
BY StaysTidy DEF Stays

\* Closing a link, by its own goroutines.
LEMMA CloseTidy ==
    ASSUME BurstInv, NEW l \in Links, NEW g \in {Run(l), Writer(l)}, NEW back,
           Close(g, l, back), UNCHANGED <<out, fedLinks>>,
           \A k \in Links : k # l => heard'[k] = heard[k]
    PROVE  \A k \in Links : Tidy(k)'
<1>0. TypeInv /\ Tidy(l) /\ g \in Goroutines
  BY GoroutineFacts DEF BurstInv
<1>1. closed'[l] /\ \A k \in Links : k # l => closed'[k] = closed[k] /\ state'[k] = state[k]
  <2>1. CASE state[l] = "closed"
    BY <1>0, <2>1 DEF Close, linkVars, Tidy
  <2>2. CASE state[l] # "closed"
    BY <1>0, <2>2 DEF Close, TypeInv, LinkOK
  <2> QED BY <2>1, <2>2
<1>2. PICK t : Goto(g, t)
  BY DEF Close
<1>3. \A k \in Links : k # l => task'[Run(k)] = task[Run(k)]
  BY <1>0, <1>2, GotoFacts, GoroutineFacts
<1>4. ASSUME NEW k \in Links PROVE Tidy(k)'
  <2>1. CASE k = l
    BY <1>0, <1>1, <2>1, ClosedTidy
  <2>2. CASE k # l
    BY <1>1, <1>3, <2>2, OtherTidy, RegisteredFacts
  <2> QED BY <2>1, <2>2
<1> QED BY <1>4

\* A link's own run loop sends a message of its rank, or closes the link.
LEMMA SendTidy ==
    ASSUME BurstInv, NEW l \in Links, NEW m \in Messages,
           NEW back \in Places \ ClosingPlaces, Send(Run(l), l, m, back),
           UNCHANGED fedLinks, heard'[l] \in Nat,
           \A k \in Links : k # l => heard'[k] = heard[k],
           ~ closed[l] => /\ Level(task[Run(l)].at, heard[l]) <= Rank(m)
                          /\ Rank(m) <= Level(back, heard'[l])
                          /\ back \in BurstPlaces => heard'[l] >= 2
                          /\ l \in Registered => heard'[l] >= 2 /\ back \notin BurstPlaces
    PROVE  \A k \in Links : Tidy(k)'
<1>0. TypeInv /\ Tidy(l) /\ Run(l) \in Goroutines /\ heard[l] \in Nat /\ out[l] \in Seq(Messages)
  BY GoroutineFacts DEF BurstInv, TypeInv, PipeOK
<1>1. CASE Close(Run(l), l, back) /\ UNCHANGED out
  BY <1>1, CloseTidy
<1>2. CASE /\ closed[l] /\ Goto(Run(l), At(back)) /\ UNCHANGED <<out, linkVars>>
  <2>1. \A k \in Links : k # l => task'[Run(k)] = task[Run(k)]
    BY <1>0, <1>2, GotoFacts, GoroutineFacts
  <2>2. ASSUME NEW k \in Links PROVE Tidy(k)'
    <3>1. CASE k = l
      BY <1>0, <1>2, <3>1, ClosedTidy DEF linkVars
    <3>2. CASE k # l
      BY <1>2, <2>1, <3>2, OtherTidy, RegisteredFacts DEF linkVars
    <3> QED BY <3>1, <3>2
  <2> QED BY <2>2
<1>3. CASE /\ ~ closed[l] /\ out' = [out EXCEPT ![l] = Append(@, m)]
           /\ Goto(Run(l), At(back)) /\ UNCHANGED linkVars
  <2>1. /\ task'[Run(l)] = At(back)
        /\ \A k \in Links : k # l => task'[Run(k)] = task[Run(k)]
    BY <1>0, <1>3, GotoFacts, GoroutineFacts
  <2>2. out'[l] = Append(out[l], m) /\ \A k \in Links : k # l => out'[k] = out[k]
    BY <1>3 DEF BurstInv, TypeInv, PipeOK
  <2>3. closed' = closed /\ state' = state
    BY <1>3 DEF linkVars
  <2>4. /\ Level(task[Run(l)].at, heard[l]) \in Nat /\ Level(back, heard'[l]) \in Nat
    BY <1>0, LevelFacts
  <2>5. Sorted(out[l]) /\ UpTo(out[l], Level(task[Run(l)].at, heard[l]))
    BY <1>0, <1>3 DEF Tidy
  <2>6. Sorted(out'[l]) /\ UpTo(out'[l], Level(back, heard'[l]))
    BY <1>0, <1>3, <2>2, <2>4, <2>5, SortedAppend
  <2>7. At(back).at = back /\ Ordered(At(back), heard'[l])
    BY <1>3, TaskFacts DEF Ordered
  <2>8. Tidy(l)'
    BY <1>0, <1>3, <2>1, <2>3, <2>6, <2>7, RegisteredFacts DEF Tidy
  <2>9. ASSUME NEW k \in Links, k # l PROVE Tidy(k)'
    BY <2>1, <2>2, <2>3, <2>9, OtherTidy, RegisteredFacts
  <2> QED BY <2>8, <2>9
<1> QED BY <1>1, <1>2, <1>3 DEF Send

\* A broadcast finds links that are past their burst only.
LEMMA SendAllTidy ==
    ASSUME BurstInv, NEW g \in Goroutines, NEW ls \in SUBSET Registered, NEW m \in Messages,
           NEW back \in Places \ ClosingPlaces, SendAll(g, ls, m, back),
           Rank(m) = 4, UNCHANGED <<heard, fedLinks>>,
           \A k \in Links : g = Run(k) /\ ~ closed[k] =>
              heard[k] >= 2 /\ task[g].at \notin BurstPlaces /\ back \notin BurstPlaces
    PROVE  \A k \in Links : Tidy(k)'
<1>0. TypeInv /\ \A k \in Links : Tidy(k) /\ heard[k] \in Nat /\ out[k] \in Seq(Messages)
  BY DEF BurstInv, TypeInv, PipeOK
<1>1. ASSUME NEW t, Goto(g, t), t.at \notin ClosingPlaces, t.at = back \/ t.at = "stuck",
             NEW k \in Links, ~ closed[k]
      PROVE  \/ task'[Run(k)] = task[Run(k)]
             \/ /\ heard[k] >= 2
                /\ task[Run(k)].at \notin BurstPlaces /\ task'[Run(k)].at \notin BurstPlaces
                /\ task'[Run(k)].at \notin ClosingPlaces
  <2>1. CASE g = Run(k)
    BY <1>0, <1>1, <2>1, GotoFacts DEF BurstPlaces
  <2>2. CASE g # Run(k)
    BY <1>0, <1>1, <2>2, GotoFacts, GoroutineFacts
  <2> QED BY <2>1, <2>2
<1>2. CASE /\ out' = [l \in Links |-> IF l \in ls /\ ~ closed[l] THEN Append(out[l], m) ELSE out[l]]
           /\ Goto(g, At(back)) /\ UNCHANGED linkVars
  <2>1. At(back).at = back /\ back \notin ClosingPlaces
    BY TaskFacts
  <2>2. closed' = closed /\ state' = state
    BY <1>2 DEF linkVars
  <2>3. ASSUME NEW k \in Links, k \in ls /\ ~ closed[k] PROVE Tidy(k)'
    <3>1. out'[k] = Append(out[k], m)
      BY <1>2, <2>3
    <3>2. heard[k] >= 2 /\ task[Run(k)].at \notin BurstPlaces /\ Ordered(task[Run(k)], heard[k])
          /\ Sorted(out[k]) /\ UpTo(out[k], Level(task[Run(k)].at, heard[k]))
          /\ (state[k] = "closed" => closed[k])
      BY <1>0, <2>3 DEF Tidy
    <3>3. Level(task[Run(k)].at, heard[k]) = 4
      BY <1>0, <3>2, LevelFacts
    <3>4. Sorted(out'[k]) /\ UpTo(out'[k], 4)
      BY <1>0, <3>1, <3>2, <3>3, SortedAppend
    <3>5. \/ task'[Run(k)] = task[Run(k)]
          \/ task'[Run(k)].at \notin BurstPlaces /\ task'[Run(k)].at \notin ClosingPlaces
      BY <1>1, <1>2, <2>1, <2>3
    <3>6. task'[Run(k)].at \notin BurstPlaces /\ Ordered(task'[Run(k)], heard[k])
      BY <3>2, <3>5 DEF Ordered
    <3>7. Level(task'[Run(k)].at, heard[k]) = 4 /\ heard'[k] = heard[k]
      BY <1>0, <3>2, <3>6, LevelFacts
    <3> QED BY <2>2, <3>2, <3>4, <3>6, <3>7 DEF Tidy
  <2>4. ASSUME NEW k \in Links, ~ (k \in ls /\ ~ closed[k]) PROVE Tidy(k)'
    <3>1. out'[k] = out[k] /\ closed'[k] = closed[k] /\ state'[k] = state[k] /\ heard'[k] = heard[k]
      BY <1>2, <2>2, <2>4
    <3>2. ~ closed[k] => Stays(k)
      BY <1>1, <1>2, <2>1, <3>1, RegisteredFacts DEF Stays
    <3> QED BY <3>1, <3>2, StaysTidy
  <2> QED BY <2>3, <2>4
<1>3. ASSUME NEW l \in ls, ~ closed[l], state' = [state EXCEPT ![l] = "closed"],
             closed' = [closed EXCEPT ![l] = TRUE], UNCHANGED out,
             Goto(g, Doing("stuck", PeerOf[l], back, {}))
      PROVE  \A k \in Links : Tidy(k)'
  <2>1. l \in Links /\ closed'[l]
        /\ \A k \in Links : k # l => closed'[k] = closed[k] /\ state'[k] = state[k]
    BY <1>0, <1>3, ReachFacts DEF TypeInv, LinkOK
  <2> DEFINE t == Doing("stuck", PeerOf[l], back, {})
  <2>2. t.at = "stuck" /\ t.at \notin ClosingPlaces /\ Goto(g, t)
    BY <1>3, TaskFacts DEF ClosingPlaces
  <2> HIDE DEF t
  <2>3. ASSUME NEW k \in Links PROVE Tidy(k)'
    <3>1. CASE k = l
      BY <1>0, <1>3, <2>1, <3>1, ClosedTidy
    <3>2. CASE k # l
      <4>1. out'[k] = out[k] /\ closed'[k] = closed[k] /\ state'[k] = state[k] /\ heard'[k] = heard[k]
        BY <1>3, <2>1, <3>2
      <4>2. ~ closed[k] => Stays(k)
        BY <1>1, <2>2, <4>1, RegisteredFacts DEF Stays
      <4> QED BY <4>1, <4>2, StaysTidy
    <3> QED BY <3>1, <3>2
  <2> QED BY <2>3
<1> QED BY <1>2, <1>3 DEF SendAll

\* Steps of goroutines that are not a run loop, or of no goroutine.
LEMMA ElsewhereTidy ==
    ASSUME BurstInv, UNCHANGED <<out, heard, linkVars, fedLinks>>,
           \A k \in Links : task'[Run(k)] = task[Run(k)]
    PROVE  \A k \in Links : Tidy(k)'
BY OtherTidy, RegisteredFacts DEF linkVars

\* The callback of Close, whichever goroutine runs it.
LEMMA ClosingTidy ==
    ASSUME BurstInv, NEW g \in Goroutines, Closing(g)
    PROVE  \A k \in Links : Tidy(k)'
<1>0. TypeInv /\ \A k \in Links : Tidy(k) /\ heard[k] \in Nat
  BY DEF BurstInv, TypeInv, PipeOK
<1>1. /\ task[g] \in Tasks /\ task[g].at \in ClosingPlaces /\ task[g].peer \in Peers
      /\ task[g].then \in Places \ (ClosingPlaces \cup {"off", "ended"})
  <2>1. task[g] \in Tasks /\ InHand(task[g])
    BY <1>0 DEF TypeInv, TaskOK
  <2>2. task[g].at \in ClosingPlaces
    BY DEF Closing, UnregisterLink, SquitSeen, Purge, ForwardSquit, ClosingPlaces
  <2> QED BY <2>1, <2>2 DEF InHand, Tasks
<1>2. \A k \in Links : g = Run(k) /\ ~ closed[k] => heard[k] >= 2 /\ task[g].then = "select"
  BY <1>0, <1>1 DEF Tidy, Ordered
<1>3. task[g].at \notin BurstPlaces /\ "select" \notin BurstPlaces /\ "select" \notin ClosingPlaces
  BY <1>1 DEF ClosingPlaces, BurstPlaces
<1>4. ASSUME NEW t, Goto(g, t), t.at \notin BurstPlaces \/ t.at = task[g].then,
             t.at \in ClosingPlaces => t.then = task[g].then,
             UNCHANGED <<out, heard, linkVars>>, Registered' \subseteq Registered
      PROVE  \A k \in Links : Tidy(k)'
  <2>1. ASSUME NEW k \in Links PROVE Tidy(k)'
    <3>1. out'[k] = out[k] /\ closed'[k] = closed[k] /\ state'[k] = state[k] /\ heard'[k] = heard[k]
      BY <1>4 DEF linkVars
    <3>2. CASE g = Run(k) /\ ~ closed[k]
      <4>1. task'[Run(k)] = t /\ heard[k] >= 2 /\ t.at \notin BurstPlaces
            /\ (t.at \in ClosingPlaces => t.then = "select")
        BY <1>0, <1>2, <1>3, <1>4, <3>2, GotoFacts
      <4>2. Stays(k)
        BY <1>3, <1>4, <3>1, <3>2, <4>1 DEF Stays
      <4> QED BY <3>1, <4>2, StaysTidy
    <3>3. CASE g # Run(k)
      <4>1. task'[Run(k)] = task[Run(k)]
        BY <1>0, <1>4, <3>3, GotoFacts, GoroutineFacts
      <4>2. Stays(k)
        BY <1>4, <3>1, <4>1 DEF Stays
      <4> QED BY <3>1, <4>2, StaysTidy
    <3>4. CASE closed[k]
      BY <3>1, <3>4, StaysTidy
    <3> QED BY <3>2, <3>3, <3>4
  <2> QED BY <2>1
<1>5. CASE UnregisterLink(g)
  <2> DEFINE t == [task[g] EXCEPT !.at = "squit"]
  <2>1. t.at = "squit" /\ t.then = task[g].then /\ Goto(g, t)
    BY <1>1, <1>5 DEF UnregisterLink, Tasks
  <2>2. Registered' \subseteq Registered
    BY <1>0, <1>1, <1>5 DEF UnregisterLink, Registered, TypeInv, FedOK
  <2> HIDE DEF t
  <2> QED BY <1>4, <1>5, <2>1, <2>2 DEF UnregisterLink, pipeVars, BurstPlaces
<1>6. CASE SquitSeen(g)
  <2>1. CASE task[g].peer \in squitSeen
    <3>1. Goto(g, At(task[g].then)) /\ At(task[g].then).at = task[g].then
      BY <1>6, <2>1, TaskFacts DEF SquitSeen
    <3> QED BY <1>1, <1>4, <1>6, <3>1, RegisteredFacts DEF SquitSeen, pipeVars
  <2>2. CASE task[g].peer \notin squitSeen
    <3> DEFINE t == [task[g] EXCEPT !.at = "purge"]
    <3>1. t.at = "purge" /\ t.then = task[g].then /\ Goto(g, t)
      BY <1>1, <1>6, <2>2 DEF SquitSeen, Tasks
    <3> HIDE DEF t
    <3> QED BY <1>4, <1>6, <3>1, RegisteredFacts DEF SquitSeen, pipeVars, BurstPlaces
  <2> QED BY <2>1, <2>2
<1>7. CASE Purge(g)
  <2> DEFINE t == [task[g] EXCEPT !.at = "forward"]
  <2>1. t.at = "forward" /\ t.then = task[g].then /\ Goto(g, t)
    BY <1>1, <1>7 DEF Purge, Tasks
  <2> HIDE DEF t
  <2> QED BY <1>4, <1>7, <2>1, RegisteredFacts DEF Purge, pipeVars, fedVars, BurstPlaces
<1>8. CASE ForwardSquit(g)
  <2>1. Message("SQUIT", {task[g].peer}) \in Messages
        /\ Rank(Message("SQUIT", {task[g].peer})) = 4
    BY <1>1, MessageFacts, RankFacts DEF Kinds
  <2>2. Registered \ {fedLinks[task[g].peer]} \in SUBSET Registered
    OBVIOUS
  <2>3. UNCHANGED <<heard, fedLinks>>
    BY <1>8 DEF ForwardSquit, fedVars
  <2> QED BY <1>1, <1>2, <1>3, <1>8, <2>1, <2>2, <2>3, SendAllTidy DEF ForwardSquit
<1> QED BY <1>5, <1>6, <1>7, <1>8 DEF Closing

\* A run loop that goes on and sends nothing.
LEMMA RunTidy ==
    ASSUME BurstInv, NEW l \in Links, NEW t, Goto(Run(l), t),
           UNCHANGED <<out, closed>>, heard'[l] \in Nat,
           \A k \in Links : k # l => heard'[k] = heard[k] /\ state'[k] = state[k],
           state'[l] = "closed" => state[l] = "closed",
           Registered' \subseteq Registered \cup {l},
           ~ closed[l] => /\ Level(task[Run(l)].at, heard[l]) <= Level(t.at, heard'[l])
                          /\ Ordered(t, heard'[l])
                          /\ l \in Registered' => heard'[l] >= 2 /\ t.at \notin BurstPlaces
    PROVE  \A k \in Links : Tidy(k)'
<1>0. TypeInv /\ Tidy(l) /\ Run(l) \in Goroutines /\ heard[l] \in Nat
  BY GoroutineFacts DEF BurstInv, TypeInv, PipeOK
<1>1. task'[Run(l)] = t /\ \A k \in Links : k # l => task'[Run(k)] = task[Run(k)]
  BY <1>0, GotoFacts, GoroutineFacts
<1>2. ASSUME NEW k \in Links, k # l PROVE Tidy(k)'
  BY <1>1, <1>2, OtherTidy
<1>a. closed'[l] = closed[l] /\ out'[l] = out[l]
  OBVIOUS
<1>3. ASSUME closed[l] PROVE Tidy(l)'
  BY <1>0, <1>a, <1>3, ClosedTidy
<1>4. ASSUME ~ closed[l] PROVE Tidy(l)'
  <2>1. Sorted(out[l]) /\ UpTo(out[l], Level(task[Run(l)].at, heard[l]))
        /\ (state[l] = "closed" => closed[l])
    BY <1>0, <1>4 DEF Tidy
  <2> DEFINE old == Level(task[Run(l)].at, heard[l])
             new == Level(t.at, heard'[l])
  <2>2. old \in 0..4 /\ new \in 0..4 /\ old <= new
    BY <1>0, <1>4, LevelFacts
  <2> HIDE DEF old
  <2>3. ASSUME NEW i \in DOMAIN out[l] PROVE Rank(out[l][i]) <= new
    <3>1. Rank(out[l][i]) <= old
      BY <2>1 DEF UpTo, old
    <3>2. Rank(out[l][i]) \in Nat
      BY RankFacts
    <3> HIDE DEF new
    <3> QED BY <2>2, <3>1, <3>2
  <2>4. UpTo(out'[l], new)
    BY <1>a, <2>3 DEF UpTo
  <2>5. l \in Registered' => heard'[l] >= 2 /\ t.at \notin BurstPlaces
    BY <1>4
  <2>6. Sorted(out'[l]) /\ (state'[l] = "closed" => closed'[l]) /\ ~ closed'[l]
    BY <1>4, <1>a, <2>1
  <2> QED BY <1>1, <1>4, <2>4, <2>5, <2>6 DEF Tidy
<1> QED BY <1>2, <1>3, <1>4

LEMMA LifeTidy ==
    ASSUME BurstInv, NEW l \in Links,
           \/ Start(l) \/ Write(l) \/ WriteFails(l) \/ WriterStops(l)
           \/ RunCancelled(l) \/ RunEOF(l) \/ RunStops(l)
    PROVE  \A k \in Links : Tidy(k)'
<1>0. /\ TypeInv /\ \A k \in Links : Tidy(k) /\ heard[k] \in Nat
      /\ Run(l) \in Goroutines /\ Writer(l) \in Goroutines /\ Run(l) # Writer(l)
  BY GoroutineFacts DEF BurstInv, TypeInv, PipeOK
<1>1. CASE Start(l)
  <2> DEFINE s == <<Message("SERVER", {})>>
  <2>1. /\ out' = [out EXCEPT ![l] = s]
        /\ task' = [task EXCEPT ![Run(l)] = At("select"), ![Writer(l)] = At("writing")]
        /\ closed' = closed /\ state' = state /\ heard' = heard /\ fedLinks' = fedLinks
    BY <1>1 DEF Start, linkVars, fedVars
  <2>2. DOMAIN s = 1..1 /\ Rank(s[1]) = 0
    <3>1. s[1] = Message("SERVER", {})
      OBVIOUS
    <3>2. DOMAIN s = 1..1
      OBVIOUS
    <3> QED BY <3>1, <3>2, RankFacts
  <2> HIDE DEF s
  <2>3. /\ out'[l] = s /\ \A k \in Links : k # l => out'[k] = out[k]
    BY <2>1 DEF BurstInv, TypeInv, PipeOK
  <2>4. /\ task'[Run(l)] = At("select")
        /\ \A k \in Links : k # l => task'[Run(k)] = task[Run(k)]
    BY <1>0, <2>1, GoroutineFacts DEF TypeInv, TaskOK
  <2>5. ASSUME NEW k \in Links, k # l PROVE Tidy(k)'
    BY <2>1, <2>3, <2>4, <2>5, OtherTidy, RegisteredFacts
  <2>6. At("select").at = "select" /\ "select" \notin BurstPlaces \cup ClosingPlaces
    BY TaskFacts DEF BurstPlaces, ClosingPlaces
  <2>7. Ordered(At("select"), heard[l])
    BY <2>6 DEF Ordered
  <2>8. Sorted(s) /\ UpTo(s, Level("select", heard[l]))
    <3>1. Level("select", heard[l]) \in 0..4
      BY <1>0, LevelFacts
    <3> QED BY <2>2, <3>1 DEF Sorted, UpTo
  <2>9. Tidy(l)'
    BY <1>0, <2>1, <2>3, <2>4, <2>6, <2>7, <2>8, RegisteredFacts DEF Tidy
  <2> QED BY <2>5, <2>9
<1>2. CASE Write(l)
  BY <1>2, ElsewhereTidy DEF Write, fedVars
<1>3. CASE WriteFails(l)
  BY <1>3, CloseTidy DEF WriteFails, pipeVars, fedVars
<1>4. CASE WriterStops(l)
  <2>1. \A k \in Links : task'[Run(k)] = task[Run(k)]
    BY <1>0, <1>4, GotoFacts, GoroutineFacts DEF WriterStops
  <2> QED BY <1>4, <2>1, ElsewhereTidy DEF WriterStops, pipeVars, fedVars
<1>5. CASE RunCancelled(l)
  BY <1>5, CloseTidy DEF RunCancelled, pipeVars, fedVars
<1>6. CASE RunEOF(l)
  <2>1. \A k \in Links : k # l => heard'[k] = heard[k]
    BY <1>6 DEF RunEOF, TypeInv, PipeOK
  <2> QED BY <1>6, <2>1, CloseTidy DEF RunEOF, fedVars
<1>7. CASE RunStops(l)
  <2>1. /\ closed[l] /\ closed' = closed /\ state' = state /\ fedLinks' = fedLinks
        /\ Goto(Run(l), At("ended"))
    BY <1>7 DEF RunStops, linkVars, fedVars
  <2>2. /\ out'[l] = << >>
        /\ \A k \in Links : k # l => out'[k] = out[k] /\ heard'[k] = heard[k]
    BY <1>7 DEF RunStops, BurstInv, TypeInv, PipeOK
  <2>3. \A k \in Links : k # l => task'[Run(k)] = task[Run(k)]
    BY <1>0, <2>1, GotoFacts, GoroutineFacts
  <2>4. ASSUME NEW k \in Links PROVE Tidy(k)'
    <3>1. CASE k = l
      BY <1>0, <2>1, <2>2, <3>1, ClosedTidy
    <3>2. CASE k # l
      BY <2>1, <2>2, <2>3, <3>2, OtherTidy, RegisteredFacts
    <3> QED BY <3>1, <3>2
  <2> QED BY <2>4
<1> QED BY <1>1, <1>2, <1>3, <1>4, <1>5, <1>6, <1>7

LEMMA HandlerTidy ==
    ASSUME BurstInv, NEW l \in Links,
           HandleServer(l) \/ HandleSvinfo(l) \/ HandleNick(l) \/ HandleRemoteSquit(l)
    PROVE  \A k \in Links : Tidy(k)'
<1>0. TypeInv /\ Tidy(l) /\ heard[l] \in Nat
  BY DEF BurstInv, TypeInv, PipeOK
<1>1. "select" \in Places \ ClosingPlaces /\ "select" \notin BurstPlaces
  BY DEF Places, ClosingPlaces, BurstPlaces
<1>2. CASE HandleServer(l)
  <2>1. /\ heard[l] = 0 /\ heard'[l] = 1 /\ \A k \in Links : k # l => heard'[k] = heard[k]
        /\ fedLinks' = fedLinks
    BY <1>0, <1>2, ReceiveFacts DEF HandleServer, fedVars
  <2>2. CASE Send(Run(l), l, Message("SVINFO", {}), "select")
    <3>1. Message("SVINFO", {}) \in Messages /\ Rank(Message("SVINFO", {})) = 1
      BY MessageFacts, RankFacts DEF Kinds
    <3>2. Level(task[Run(l)].at, heard[l]) = 0 /\ Level("select", heard'[l]) = 1
      BY <2>1 DEF Level
    <3>3. ~ closed[l] => l \notin Registered
      BY <1>0, <2>1 DEF Tidy
    <3> QED BY <1>1, <2>1, <2>2, <3>1, <3>2, <3>3, SendTidy
  <2>3. CASE Close(Run(l), l, "select") /\ UNCHANGED out
    BY <2>1, <2>3, CloseTidy
  <2> QED BY <1>2, <2>2, <2>3 DEF HandleServer
<1>3. CASE HandleSvinfo(l)
  <2>1. /\ heard[l] = 1 /\ heard'[l] = 2 /\ \A k \in Links : k # l => heard'[k] = heard[k]
        /\ fedLinks' = fedLinks /\ out' = out /\ closed' = closed
        /\ Goto(Run(l), At("users"))
    BY <1>0, <1>3, ReceiveFacts DEF HandleSvinfo, fedVars
  <2>2. state'[l] = "bursting" /\ \A k \in Links : k # l => state'[k] = state[k]
    BY <1>0, <1>3 DEF HandleSvinfo, TypeInv, LinkOK
  <2>3. At("users").at = "users"
    BY TaskFacts
  <2>4. Level(task[Run(l)].at, heard[l]) = 1 /\ Level("users", heard'[l]) = 1
    BY <2>1 DEF Level
  <2>5. Ordered(At("users"), heard'[l])
    BY <2>1, <2>3 DEF Ordered, ClosingPlaces
  <2>6. ~ closed[l] => l \notin Registered
    BY <1>0, <2>1 DEF Tidy
  <2> QED BY <2>1, <2>2, <2>3, <2>4, <2>5, <2>6, RegisteredFacts, RunTidy
<1>4. ASSUME NEW m, Receive(l, m), m \in {"NICK", "SQUIT"}
      PROVE  /\ heard'[l] \in Nat /\ heard'[l] >= 2
             /\ \A k \in Links : k # l => heard'[k] = heard[k]
             /\ Level(task[Run(l)].at, heard[l]) = 4
             /\ \A at : at \notin BurstPlaces => Level(at, heard'[l]) = 4
  <2>1. heard[l] # 0 /\ heard[l] # 1 /\ heard'[l] = heard[l] + 1 /\ task[Run(l)].at = "select"
        /\ \A k \in Links : k # l => heard'[k] = heard[k]
    BY <1>0, <1>4, ReceiveFacts
  <2> QED BY <1>0, <1>1, <2>1, LevelFacts
<1>5. CASE HandleNick(l)
  <2>1. Receive(l, "NICK") /\ fedLinks' = fedLinks
    BY <1>5 DEF HandleNick, fedVars
  <2>2. /\ heard'[l] \in Nat /\ heard'[l] >= 2 /\ \A k \in Links : k # l => heard'[k] = heard[k]
        /\ Level(task[Run(l)].at, heard[l]) = 4 /\ Level("select", heard'[l]) = 4
    BY <1>1, <1>4, <2>1
  <2>3. CASE Goto(Run(l), At("select")) /\ UNCHANGED <<out, linkVars>>
    <3>1. At("select").at = "select" /\ Ordered(At("select"), heard'[l])
      BY <1>1, TaskFacts DEF Ordered
    <3>2. UNCHANGED <<out, closed, state>>
      BY <2>3 DEF linkVars
    <3> QED BY <1>1, <2>1, <2>2, <2>3, <3>1, <3>2, RegisteredFacts, RunTidy
  <2>4. CASE Send(Run(l), l, Message("KILL", {}), "select")
    <3>1. Message("KILL", {}) \in Messages /\ Rank(Message("KILL", {})) = 4
      BY MessageFacts, RankFacts DEF Kinds
    <3> QED BY <1>1, <2>1, <2>2, <2>4, <3>1, SendTidy
  <2> QED BY <1>5, <2>3, <2>4 DEF HandleNick
<1>6. CASE HandleRemoteSquit(l)
  <2>1. Receive(l, "SQUIT") /\ UNCHANGED <<out, closed, state, fedLinks>>
    BY <1>6 DEF HandleRemoteSquit, fedVars, linkVars
  <2>2. PICK p \in Peers : Goto(Run(l), Doing("squit", p, "select", {}))
    BY <1>6 DEF HandleRemoteSquit
  <2> DEFINE t == Doing("squit", p, "select", {})
  <2>3. t.at = "squit" /\ t.then = "select" /\ t.at \notin BurstPlaces /\ Goto(Run(l), t)
    BY <2>2 DEF Doing, BurstPlaces
  <2> HIDE DEF t
  <2>4. /\ heard'[l] \in Nat /\ heard'[l] >= 2 /\ \A k \in Links : k # l => heard'[k] = heard[k]
        /\ Level(task[Run(l)].at, heard[l]) = 4 /\ Level(t.at, heard'[l]) = 4
    BY <1>4, <2>1, <2>3
  <2>5. Ordered(t, heard'[l])
    BY <2>3, <2>4 DEF Ordered
  <2> QED BY <2>1, <2>3, <2>4, <2>5, RegisteredFacts, RunTidy
<1> QED BY <1>2, <1>3, <1>5, <1>6

LEMMA BurstTidy ==
    ASSUME BurstInv, NEW l \in Links,
           \/ BurstUsers(l) \/ BurstChannels(l) \/ BurstSubscribe(l)
           \/ Activate(l) \/ RegisterLink(l)
    PROVE  \A k \in Links : Tidy(k)'
<1>0. TypeInv /\ Tidy(l) /\ heard[l] \in Nat /\ PeerOf[l] \in Peers
  BY GoroutineFacts DEF BurstInv, TypeInv, PipeOK
<1>1. task[Run(l)].at \in BurstPlaces
  BY DEF BurstUsers, BurstChannels, BurstSubscribe, Activate, RegisterLink, BurstPlaces
<1>2. ~ closed[l] => heard[l] >= 2 /\ l \notin Registered
  BY <1>0, <1>1 DEF Tidy, Ordered
<1>3. /\ \A p : At(p).at = p
      /\ \A p \in {"channels", "subscribe", "activate", "register", "select"} :
            p \in Places \ ClosingPlaces /\ (heard[l] >= 2 => Ordered(At(p), heard[l]))
  BY TaskFacts DEF Places, ClosingPlaces, Ordered
<1>4. heard[l] >= 2 =>
        /\ Level("users", heard[l]) = 1 /\ Level("channels", heard[l]) = 2
        /\ Level("subscribe", heard[l]) = 3 /\ Level("activate", heard[l]) = 3
        /\ Level("register", heard[l]) = 3 /\ Level("select", heard[l]) = 4
  BY DEF Level
<1>5. CASE BurstUsers(l)
  <2>1. Message("BURST", local) \in Messages /\ Rank(Message("BURST", local)) = 2
    BY <1>0, MessageFacts, RankFacts DEF TypeInv, LocalOK, Kinds
  <2>2. /\ task[Run(l)].at = "users" /\ heard' = heard /\ fedLinks' = fedLinks
        /\ Send(Run(l), l, Message("BURST", local), "channels")
    BY <1>5 DEF BurstUsers, fedVars
  <2> QED BY <1>0, <1>2, <1>3, <1>4, <2>1, <2>2, SendTidy
<1>6. CASE BurstChannels(l) /\ channel # {}
  <2> DEFINE m == Message("BURST JOIN", {})
  <2>1. m \in Messages /\ Rank(m) = 3
    BY MessageFacts, RankFacts DEF Kinds
  <2>2. /\ task[Run(l)].at = "channels" /\ heard' = heard /\ fedLinks' = fedLinks
        /\ Send(Run(l), l, m, "subscribe")
    BY <1>6 DEF BurstChannels, fedVars
  <2> HIDE DEF m
  <2>3. "subscribe" \in Places \ ClosingPlaces
    BY <1>3
  <2>4. ~ closed[l] => /\ Level(task[Run(l)].at, heard[l]) = 2
                       /\ Level("subscribe", heard'[l]) = 3
                       /\ heard'[l] >= 2 /\ l \notin Registered
    BY <1>2, <1>4, <2>2
  <2>5. heard'[l] \in Nat /\ (\A k \in Links : k # l => heard'[k] = heard[k])
        /\ UNCHANGED fedLinks /\ Send(Run(l), l, m, "subscribe")
    BY <1>0, <2>2
  <2>6. ~ closed[l] => /\ Level(task[Run(l)].at, heard[l]) <= Rank(m)
                       /\ Rank(m) <= Level("subscribe", heard'[l])
    BY <2>1, <2>4
  <2> QED BY <2>1, <2>3, <2>4, <2>5, <2>6, SendTidy
<1>7. CASE BurstChannels(l) /\ channel = {}
  <2>1. /\ task[Run(l)].at = "channels" /\ heard' = heard /\ Goto(Run(l), At("activate"))
        /\ UNCHANGED <<out, closed, state, fedLinks>>
    BY <1>7 DEF BurstChannels, fedVars, linkVars
  <2> QED BY <1>0, <1>2, <1>3, <1>4, <2>1, RegisteredFacts, RunTidy
<1>8. CASE BurstSubscribe(l)
  <2>1. /\ task[Run(l)].at = "subscribe" /\ heard' = heard /\ Goto(Run(l), At("activate"))
        /\ UNCHANGED <<out, closed, state, fedLinks>>
    BY <1>8 DEF BurstSubscribe, pipeVars, linkVars
  <2> QED BY <1>0, <1>2, <1>3, <1>4, <2>1, RegisteredFacts, RunTidy
<1>9. CASE Activate(l)
  <2>1. /\ task[Run(l)].at = "activate" /\ heard' = heard /\ Goto(Run(l), At("register"))
        /\ UNCHANGED <<out, closed, fedLinks>>
        /\ state'[l] = "active" /\ \A k \in Links : k # l => state'[k] = state[k]
    BY <1>0, <1>9 DEF Activate, pipeVars, fedVars, TypeInv, LinkOK
  <2> QED BY <1>0, <1>2, <1>3, <1>4, <2>1, RegisteredFacts, RunTidy
<1>10. CASE RegisterLink(l)
  <2>1. /\ task[Run(l)].at = "register" /\ heard' = heard /\ Goto(Run(l), At("select"))
        /\ UNCHANGED <<out, closed, state>>
    BY <1>10 DEF RegisterLink, pipeVars, linkVars
  <2>2. Registered' \subseteq Registered \cup {l}
    BY <1>0, <1>10 DEF RegisterLink, Registered, TypeInv, FedOK
  <2>3. "select" \notin BurstPlaces
    BY DEF BurstPlaces
  <2> QED BY <1>0, <1>2, <1>3, <1>4, <2>1, <2>2, <2>3, RunTidy
<1> QED BY <1>5, <1>6, <1>7, <1>8, <1>9, <1>10

LEMMA ClientTidy ==
    ASSUME BurstInv, NEW c \in Clients, ClientStep(c)
    PROVE  \A k \in Links : Tidy(k)'
<1>0. TypeInv /\ Client(c) \in Goroutines /\ \A k \in Links : Client(c) # Run(k)
  BY GoroutineFacts DEF BurstInv
<1>1. ASSUME NEW t, Goto(Client(c), t), UNCHANGED <<linkVars, pipeVars, fedLinks>>
      PROVE  \A k \in Links : Tidy(k)'
  <2>1. \A k \in Links : task'[Run(k)] = task[Run(k)]
    BY <1>0, <1>1, GotoFacts, GoroutineFacts
  <2> QED BY <1>1, <2>1, ElsewhereTidy DEF pipeVars
<1>2. ASSUME NEW kind \in {"NICK", "JOIN", "EVENT"}, NEW ls \in SUBSET Registered,
             NEW back \in {"idle", "joined", "done"},
             SendAll(Client(c), ls, Message(kind, {c}), back), UNCHANGED <<heard, fedLinks>>
      PROVE  \A k \in Links : Tidy(k)'
  <2>1. Message(kind, {c}) \in Messages /\ Rank(Message(kind, {c})) = 4
    BY MessageFacts, RankFacts DEF Kinds
  <2>2. back \in Places \ ClosingPlaces
    BY DEF Places, ClosingPlaces
  <2> QED BY <1>0, <1>2, <2>1, <2>2, SendAllTidy
<1>3. CASE AddUser(c) \/ Join(c)
  BY <1>1, <1>3 DEF AddUser, Join, fedVars
<1>4. CASE ReadPeers(c) \/ Subscribe(c)
  BY <1>1, <1>4 DEF ReadPeers, Subscribe, fedVars
<1>5. CASE Announce(c)
  BY <1>2, <1>5 DEF Announce, fedVars
<1>6. CASE ForwardJoin(c)
  BY <1>2, <1>6 DEF ForwardJoin, fedVars
<1>7. CASE Event(c)
  <2>1. {fedLinks[p] : p \in fedSubs} \ {0} \in SUBSET Registered
    BY <1>0, ReachFacts DEF TypeInv, FedOK
  <2> QED BY <1>2, <1>7, <2>1 DEF Event, fedVars
<1> QED BY <1>3, <1>4, <1>5, <1>6, <1>7 DEF ClientStep

LEMMA InitTidy == Init => BurstInv
<1> SUFFICES ASSUME Init PROVE \A l \in Links : Tidy(l)
  BY InitTypes DEF BurstInv
<1> TAKE l \in Links
<1>1. out[l] = << >> /\ state[l] = "handshaking" /\ l \notin Registered
  BY DEF Init, Registered
<1>2. task[Run(l)].at = "off"
  BY GoroutineFacts, TaskFacts DEF Init
<1>3. Sorted(out[l]) /\ \A n : UpTo(out[l], n)
  BY <1>1 DEF Sorted, UpTo
<1> QED BY <1>1, <1>2, <1>3 DEF Tidy, Ordered, BurstPlaces, ClosingPlaces

LEMMA BurstStep == BurstInv /\ [Next]_vars => BurstInv'
<1> SUFFICES ASSUME BurstInv, [Next]_vars PROVE \A k \in Links : Tidy(k)'
  BY NextTypes DEF BurstInv
<1>1. CASE UNCHANGED vars
  BY <1>1, ElsewhereTidy DEF vars, pipeVars, fedVars
<1>2. CASE Shutdown
  BY <1>2, ElsewhereTidy DEF Shutdown, pipeVars, fedVars
<1>3. CASE \E l \in Links : Start(l) \/ LinkStep(l)
  BY <1>3, LifeTidy, HandlerTidy, BurstTidy DEF LinkStep
<1>4. CASE \E g \in Goroutines : Closing(g)
  BY <1>4, ClosingTidy
<1>5. CASE \E c \in Clients : ClientStep(c)
  BY <1>5, ClientTidy
<1>6. CASE \E p \in Peers : Expire(p)
  BY <1>6, ElsewhereTidy DEF Expire, pipeVars
<1> QED BY <1>1, <1>2, <1>3, <1>4, <1>5, <1>6 DEF Next

\* Whatever clients and other links do while a link bursts, and for queues of
\* any size, the peer reads handshake, users, channels and events in this
\* order: handleSvinfo of internal/federation/federation.go registers the link
\* only after sendBurst, and the broadcast path looks for it in fedLinks.
THEOREM BurstComesFirst == Spec => []BurstPrecedesEvents
<1>1. BurstInv => BurstPrecedesEvents
  BY DEF BurstInv, Tidy, Sorted, BurstPrecedesEvents
<1> QED BY <1>1, BurstStep, InitTidy, PTL DEF Spec

-----------------------------------------------------------------------------
(* The registry and the subscriptions of a peer that is only dialled: its  *)
(* connections come one after the other, so that none undoes what another  *)
(* one entered.  (With accepted connections they overlap, and it does.)    *)

\* The goroutines of a link.
Its(l) == {Run(l), Writer(l)}

\* Whoever is about to unregister a peer belongs to a link of it that has closed.
Unregistering(g) ==
    task[g].at = "unregister" =>
        \E l \in Links : g \in Its(l) /\ task[g].peer = PeerOf[l] /\ closed[l]

\* A link that has not started has nothing; one that has ended has closed, and
\* its writer is done.
Whole(l) ==
    /\ task[Run(l)].at = "off" =>
         state[l] = "handshaking" /\ heard[l] = 0 /\ out[l] = << >> /\ ~ closed[l]
    /\ task[Run(l)].at = "ended" => closed[l] /\ task[Writer(l)].at = "done"

\* Of two connections of a peer the later waits for the end of the earlier.
InTurn(k, l) ==
    PeerOf[k] = PeerOf[l] /\ k < l /\ task[Run(l)].at # "off" => task[Run(k)].at = "ended"

\* A link that has gone active is registered, and one that has sent a channel
\* is subscribed to it, until it closes.
Entered(l) ==
    ~ closed[l] =>
        /\ state[l] = "active" /\ task[Run(l)].at # "register" => fedLinks[PeerOf[l]] = l
        /\ Sent(l, "BURST JOIN") /\ task[Run(l)].at # "subscribe" => PeerOf[l] \in fedSubs

TurnInv ==
    /\ \A g \in Goroutines : Unregistering(g)
    /\ \A l \in Links : Whole(l)
    /\ \A k, l \in Links : InTurn(k, l)

DialInv == BurstInv /\ TurnInv /\ \A l \in Links : Entered(l)

-----------------------------------------------------------------------------
(* Whose turn it is.                                                       *)

\* Closing is for good, and a link that has not started is left alone.
ClosesOnly == \A l \in Links : closed[l] => closed'[l]
OffStays ==
    \A l \in Links : task[Run(l)].at = "off" =>
        /\ state'[l] = state[l] /\ heard'[l] = heard[l] /\ out'[l] = out[l]
        /\ closed'[l] => closed[l]

LEMMA StillTurn ==
    ASSUME TurnInv, ClosesOnly, OffStays, UNCHANGED task
    PROVE  TurnInv'
<1>1. \A g \in Goroutines : Unregistering(g)'
  BY DEF TurnInv, Unregistering, ClosesOnly
<1>2. \A l \in Links : Whole(l)'
  BY DEF TurnInv, Whole, ClosesOnly, OffStays
<1>3. \A k, l \in Links : InTurn(k, l)'
  BY DEF TurnInv, InTurn
<1> QED BY <1>1, <1>2, <1>3 DEF TurnInv

\* What has started stays started, and what has ended stays so.
LEMMA GotoTurn ==
    ASSUME TypeInv, TurnInv, ClosesOnly, OffStays,
           NEW g \in Goroutines, NEW t, Goto(g, t),
           task[g].at \notin {"off", "ended", "done"}, t.at # "off",
           t.at = "unregister" => \E l \in Links : g \in Its(l) /\ t.peer = PeerOf[l] /\ closed'[l],
           \A l \in Links : g = Run(l) /\ t.at = "ended" => closed[l] /\ task[Writer(l)].at = "done"
    PROVE  TurnInv'
<1>0. task'[g] = t /\ \A h \in Goroutines : h # g => task'[h] = task[h]
  BY GotoFacts
<1>1. ASSUME NEW h \in Goroutines PROVE Unregistering(h)'
  <2>1. CASE h = g
    BY <1>0, <2>1 DEF Unregistering
  <2>2. CASE h # g
    BY <1>0, <2>2 DEF TurnInv, Unregistering, ClosesOnly
  <2> QED BY <2>1, <2>2
<1>2. ASSUME NEW l \in Links PROVE Whole(l)'
  <2>1. task'[Run(l)].at = "off" => task[Run(l)].at = "off"
    BY <1>0, GoroutineFacts
  <2>2. task[Writer(l)].at = "done" => task'[Writer(l)].at = "done"
    BY <1>0, GoroutineFacts
  <2>3. task'[Run(l)].at = "ended" => closed[l] /\ task[Writer(l)].at = "done"
    <3>1. CASE g = Run(l)
      BY <1>0, <3>1
    <3>2. CASE g # Run(l)
      BY <1>0, <3>2, GoroutineFacts DEF TurnInv, Whole
    <3> QED BY <3>1, <3>2
  <2> QED BY <2>1, <2>2, <2>3 DEF TurnInv, Whole, ClosesOnly, OffStays
<1>3. ASSUME NEW k \in Links, NEW l \in Links PROVE InTurn(k, l)'
  <2>1. task'[Run(l)].at # "off" => task[Run(l)].at # "off"
    BY <1>0, GoroutineFacts
  <2>2. task[Run(k)].at = "ended" => task'[Run(k)].at = "ended"
    BY <1>0, GoroutineFacts
  <2> QED BY <2>1, <2>2 DEF TurnInv, InTurn
<1> QED BY <1>1, <1>2, <1>3 DEF TurnInv

\* A goroutine that is not about to unregister, nor at its end.
Plain(t) == t.at \notin {"off", "ended", "unregister"}

LEMMA MoveTurn ==
    ASSUME TypeInv, TurnInv, NEW g \in Goroutines, NEW t, Goto(g, t), Plain(t),
           task[g].at \notin {"off", "ended", "done"},
           UNCHANGED <<state, closed>>,
           \A l \in Links : g # Run(l) => heard'[l] = heard[l] /\ out'[l] = out[l]
    PROVE  TurnInv'
<1>1. ClosesOnly
  BY DEF ClosesOnly
<1>2. OffStays
  BY DEF OffStays
<1> QED BY <1>1, <1>2, GotoTurn DEF Plain

LEMMA CloseTurn ==
    ASSUME TypeInv, TurnInv, NEW l \in Links, NEW g \in Its(l),
           NEW back \in {"select", "channels", "subscribe", "done"}, Close(g, l, back),
           task[g].at \notin {"off", "ended", "done"},
           UNCHANGED out, \A k \in Links : k # l => heard'[k] = heard[k]
    PROVE  TurnInv'
<1>0. g \in Goroutines /\ task[Run(l)].at # "off"
  BY GoroutineFacts DEF Its, TypeInv, TaskOK
<1>1. CASE state[l] = "closed"
  <2>1. Goto(g, At(back)) /\ UNCHANGED <<state, closed>> /\ At(back).at = back
    BY <1>1, TaskFacts DEF Close, linkVars
  <2>2. ClosesOnly
    BY <2>1 DEF ClosesOnly
  <2>3. OffStays
    BY <1>0, <2>1 DEF OffStays
  <2> QED BY <1>0, <2>1, <2>2, <2>3, GotoTurn
<1>2. CASE state[l] # "closed"
  <2> DEFINE t == Doing("unregister", PeerOf[l], back, {})
  <2>1. Goto(g, t) /\ t.at = "unregister" /\ t.peer = PeerOf[l]
    BY <1>2 DEF Close, Doing
  <2> HIDE DEF t
  <2>2. /\ closed'[l]
        /\ \A k \in Links : k # l => (closed'[k] <=> closed[k]) /\ state'[k] = state[k]
    BY <1>2 DEF Close, TypeInv, LinkOK
  <2>3. ClosesOnly
    BY <2>2 DEF ClosesOnly
  <2>4. OffStays
    BY <1>0, <2>2 DEF OffStays
  <2> QED BY <1>0, <2>1, <2>2, <2>3, <2>4, GotoTurn
<1> QED BY <1>1, <1>2

LEMMA SendTurn ==
    ASSUME TypeInv, TurnInv, NEW l \in Links, NEW m,
           NEW back \in {"select", "channels", "subscribe"}, Send(Run(l), l, m, back),
           task[Run(l)].at \notin {"off", "ended", "done"},
           \A k \in Links : k # l => heard'[k] = heard[k]
    PROVE  TurnInv'
<1>0. Run(l) \in Goroutines /\ Plain(At(back)) /\ \A k \in Links : k # l => Run(k) # Run(l)
  BY GoroutineFacts, TaskFacts DEF Plain
<1>1. CASE Goto(Run(l), At(back)) /\ UNCHANGED <<out, linkVars>>
  BY <1>0, <1>1, MoveTurn DEF linkVars
<1>2. CASE out' = [out EXCEPT ![l] = Append(@, m)] /\ Goto(Run(l), At(back)) /\ UNCHANGED linkVars
  <2>1. \A k \in Links : k # l => out'[k] = out[k]
    BY <1>2 DEF TypeInv, PipeOK
  <2> QED BY <1>0, <1>2, <2>1, MoveTurn DEF linkVars
<1>3. CASE Close(Run(l), l, back) /\ UNCHANGED out
  BY <1>3, CloseTurn DEF Its
<1> QED BY <1>1, <1>2, <1>3 DEF Send

\* The broadcast path does not find a link that has not started.
LEMMA SendAllTurn ==
    ASSUME BurstInv, TurnInv, NEW g \in Goroutines, NEW ls \in SUBSET Registered, NEW m,
           NEW back, SendAll(g, ls, m, back), back \notin {"off", "ended", "unregister"},
           task[g].at \notin {"off", "ended", "done"}, UNCHANGED heard
    PROVE  TurnInv'
<1>0. TypeInv /\ ls \subseteq Links
  BY ReachFacts DEF BurstInv
<1>1. \A l \in ls : ~ closed[l] => task[Run(l)].at # "off"
  BY <1>0 DEF BurstInv, Tidy, TurnInv, Whole
<1>2. CASE /\ out' = [l \in Links |-> IF l \in ls /\ ~ closed[l] THEN Append(out[l], m) ELSE out[l]]
           /\ Goto(g, At(back)) /\ UNCHANGED linkVars
  <2>1. At(back).at = back
    BY TaskFacts
  <2>2. ClosesOnly
    BY <1>2 DEF ClosesOnly, linkVars
  <2>3. \A l \in Links : task[Run(l)].at = "off" => out'[l] = out[l]
    BY <1>1, <1>2
  <2>4. OffStays
    BY <1>2, <2>3 DEF OffStays, linkVars
  <2> QED BY <1>0, <1>2, <2>1, <2>2, <2>4, GotoTurn
<1>3. ASSUME NEW l \in ls, ~ closed[l], state' = [state EXCEPT ![l] = "closed"],
             closed' = [closed EXCEPT ![l] = TRUE], UNCHANGED out,
             Goto(g, Doing("stuck", PeerOf[l], back, {}))
      PROVE  TurnInv'
  <2> DEFINE t == Doing("stuck", PeerOf[l], back, {})
  <2>1. t.at = "stuck" /\ Goto(g, t)
    BY <1>3 DEF Doing
  <2> HIDE DEF t
  <2>2. /\ l \in Links /\ closed'[l]
        /\ \A k \in Links : k # l => (closed'[k] <=> closed[k]) /\ state'[k] = state[k]
    BY <1>0, <1>3 DEF TypeInv, LinkOK
  <2>3. ClosesOnly
    BY <2>2 DEF ClosesOnly
  <2>4. OffStays
    BY <1>1, <1>3, <2>2 DEF OffStays
  <2> QED BY <1>0, <2>1, <2>3, <2>4, GotoTurn
<1> QED BY <1>2, <1>3 DEF SendAll

LEMMA StartTurn ==
    ASSUME TypeInv, TurnInv, Inbound = {}, NEW l \in Links, Start(l)
    PROVE  TurnInv'
<1>1. /\ \A k \in 1..(l - 1) : PeerOf[k] = PeerOf[l] => task[Run(k)].at = "ended"
      /\ task[Run(l)].at = "off"
      /\ UNCHANGED <<state, closed, heard>> /\ \A k \in Links : k # l => out'[k] = out[k]
  BY DEF Start, linkVars, TypeInv, PipeOK
<1>2. /\ task'[Run(l)] = At("select") /\ task'[Writer(l)] = At("writing")
      /\ \A h \in Goroutines : h \notin Its(l) => task'[h] = task[h]
  BY GoroutineFacts DEF Start, TypeInv, TaskOK, Its
<1>3. At("select").at = "select" /\ At("writing").at = "writing"
  BY TaskFacts
<1>4. \A k \in Links : k # l => task'[Run(k)] = task[Run(k)] /\ task'[Writer(k)] = task[Writer(k)]
  BY <1>2, GoroutineFacts DEF Its
<1>5. ASSUME NEW h \in Goroutines PROVE Unregistering(h)'
  <2>1. CASE h \in Its(l)
    BY <1>2, <1>3, <2>1 DEF Its, Unregistering
  <2>2. CASE h \notin Its(l)
    BY <1>1, <1>2, <2>2 DEF TurnInv, Unregistering
  <2> QED BY <2>1, <2>2
<1>6. ASSUME NEW k \in Links PROVE Whole(k)'
  <2>1. CASE k = l
    BY <1>2, <1>3, <2>1 DEF Whole
  <2>2. CASE k # l
    BY <1>1, <1>4, <2>2 DEF TurnInv, Whole
  <2> QED BY <2>1, <2>2
<1>7. ASSUME NEW k \in Links, NEW j \in Links PROVE InTurn(k, j)'
  <2> SUFFICES ASSUME PeerOf[k] = PeerOf[j], k < j, task'[Run(j)].at # "off"
               PROVE  task'[Run(k)].at = "ended"
    BY DEF InTurn
  <2>1. CASE j = l
    <3>1. k \in 1..(l - 1)
      BY <2>1 DEF Links
    <3>2. k # l
      BY <3>1 DEF Links
    <3> QED BY <1>1, <1>4, <2>1, <3>1, <3>2
  <2>2. CASE j # l
    <3>1. task[Run(k)].at = "ended"
      BY <1>4, <2>2 DEF TurnInv, InTurn
    <3>2. k # l
      BY <1>1, <3>1
    <3> QED BY <1>4, <3>1, <3>2
  <2> QED BY <2>1, <2>2
<1> QED BY <1>5, <1>6, <1>7 DEF TurnInv

LEMMA LifeTurn ==
    ASSUME TypeInv, TurnInv, NEW l \in Links,
           \/ Write(l) \/ WriteFails(l) \/ WriterStops(l)
           \/ RunCancelled(l) \/ RunEOF(l) \/ RunStops(l)
    PROVE  TurnInv'
<1>0. /\ Run(l) \in Goroutines /\ Writer(l) \in Goroutines
      /\ Run(l) \in Its(l) /\ Writer(l) \in Its(l)
      /\ \A k \in Links : Writer(l) # Run(k) /\ (Run(l) = Run(k) => l = k)
  BY GoroutineFacts DEF Its
<1>1. CASE Write(l)
  <2>1. ClosesOnly
    BY <1>1 DEF Write, linkVars, ClosesOnly
  <2>2. OffStays
    BY <1>1 DEF Write, linkVars, OffStays
  <2> QED BY <1>1, <2>1, <2>2, StillTurn DEF Write
<1>2. CASE WriteFails(l)
  BY <1>0, <1>2, CloseTurn DEF WriteFails, pipeVars
<1>3. CASE WriterStops(l)
  <2>1. Plain(At("done"))
    BY TaskFacts DEF Plain
  <2> QED BY <1>0, <1>3, <2>1, MoveTurn DEF WriterStops, linkVars, pipeVars
<1>4. CASE RunCancelled(l)
  BY <1>0, <1>4, CloseTurn DEF RunCancelled, pipeVars
<1>5. CASE RunEOF(l)
  <2>1. \A k \in Links : k # l => heard'[k] = heard[k]
    BY <1>5 DEF RunEOF, TypeInv, PipeOK
  <2> QED BY <1>0, <1>5, <2>1, CloseTurn DEF RunEOF
<1>6. CASE RunStops(l)
  <2>1. At("ended").at = "ended"
    BY TaskFacts
  <2>2. ClosesOnly
    BY <1>6 DEF RunStops, linkVars, ClosesOnly
  <2>3. \A k \in Links : k # l => out'[k] = out[k] /\ heard'[k] = heard[k]
    BY <1>6 DEF RunStops, TypeInv, PipeOK
  <2>4. OffStays
    BY <1>6, <2>3 DEF RunStops, linkVars, OffStays
  <2> QED BY <1>0, <1>6, <2>1, <2>2, <2>4, GotoTurn DEF RunStops
<1> QED BY <1>1, <1>2, <1>3, <1>4, <1>5, <1>6

LEMMA HandlerTurn ==
    ASSUME TypeInv, TurnInv, NEW l \in Links,
           HandleServer(l) \/ HandleSvinfo(l) \/ HandleNick(l) \/ HandleRemoteSquit(l)
    PROVE  TurnInv'
<1>0. /\ Run(l) \in Goroutines /\ Run(l) \in Its(l)
      /\ \A k \in Links : k # l => Run(k) # Run(l)
      /\ Plain(At("select")) /\ Plain(At("users"))
      /\ \A p : Plain(Doing("squit", p, "select", {}))
  BY GoroutineFacts, TaskFacts DEF Its, Plain
<1>1. /\ task[Run(l)].at \notin {"off", "ended", "done"}
      /\ \A k \in Links : k # l => heard'[k] = heard[k]
  <2>1. task[Run(l)].at = "select"
    BY DEF HandleServer, HandleSvinfo, HandleNick, HandleRemoteSquit, Receive
  <2>2. \A k \in Links : k # l => heard'[k] = heard[k]
    BY DEF HandleServer, HandleSvinfo, HandleNick, HandleRemoteSquit, Receive, TypeInv, PipeOK
  <2> QED BY <2>1, <2>2
<1>2. CASE HandleServer(l)
  <2>1. CASE Send(Run(l), l, Message("SVINFO", {}), "select")
    BY <1>1, <2>1, SendTurn
  <2>2. CASE Close(Run(l), l, "select") /\ UNCHANGED out
    BY <1>0, <1>1, <2>2, CloseTurn
  <2> QED BY <1>2, <2>1, <2>2 DEF HandleServer
<1>3. CASE HandleSvinfo(l)
  <2>1. Goto(Run(l), At("users")) /\ At("users").at = "users"
    BY <1>3, TaskFacts DEF HandleSvinfo
  <2>2. ClosesOnly
    BY <1>3 DEF HandleSvinfo, ClosesOnly
  <2>3. \A k \in Links : k # l => state'[k] = state[k]
    BY <1>3 DEF HandleSvinfo, TypeInv, LinkOK
  <2>4. OffStays
    BY <1>1, <1>3, <2>3 DEF HandleSvinfo, OffStays
  <2> QED BY <1>0, <1>1, <2>1, <2>2, <2>4, GotoTurn
<1>4. CASE HandleNick(l)
  <2>1. CASE Goto(Run(l), At("select")) /\ UNCHANGED <<out, linkVars>>
    BY <1>0, <1>1, <2>1, MoveTurn DEF linkVars
  <2>2. CASE Send(Run(l), l, Message("KILL", {}), "select")
    BY <1>1, <2>2, SendTurn
  <2> QED BY <1>4, <2>1, <2>2 DEF HandleNick
<1>5. CASE HandleRemoteSquit(l)
  BY <1>0, <1>1, <1>5, MoveTurn DEF HandleRemoteSquit, linkVars
<1> QED BY <1>2, <1>3, <1>4, <1>5

LEMMA BurstTurn ==
    ASSUME TypeInv, TurnInv, NEW l \in Links,
           \/ BurstUsers(l) \/ BurstChannels(l) \/ BurstSubscribe(l)
           \/ Activate(l) \/ RegisterLink(l)
    PROVE  TurnInv'
<1>0. /\ Run(l) \in Goroutines /\ \A k \in Links : k # l => Run(k) # Run(l)
      /\ Plain(At("activate")) /\ Plain(At("select"))
      /\ At("register").at = "register"
      /\ task[Run(l)].at \notin {"off", "ended", "done"}
  BY GoroutineFacts, TaskFacts
     DEF Plain, BurstUsers, BurstChannels, BurstSubscribe, Activate, RegisterLink
<1>1. CASE BurstUsers(l)
  BY <1>0, <1>1, SendTurn DEF BurstUsers
<1>2. CASE BurstChannels(l)
  <2>1. CASE Goto(Run(l), At("activate")) /\ UNCHANGED <<out, linkVars>>
    BY <1>0, <1>2, <2>1, MoveTurn DEF BurstChannels, linkVars
  <2>2. CASE Send(Run(l), l, Message("BURST JOIN", {}), "subscribe")
    BY <1>0, <1>2, <2>2, SendTurn DEF BurstChannels
  <2> QED BY <1>2, <2>1, <2>2 DEF BurstChannels
<1>3. CASE BurstSubscribe(l)
  BY <1>0, <1>3, MoveTurn DEF BurstSubscribe, linkVars, pipeVars
<1>4. CASE Activate(l)
  <2>1. ClosesOnly
    BY <1>4 DEF Activate, ClosesOnly
  <2>2. \A k \in Links : k # l => state'[k] = state[k]
    BY <1>4 DEF Activate, TypeInv, LinkOK
  <2>3. OffStays
    BY <1>0, <1>4, <2>2 DEF Activate, pipeVars, OffStays
  <2> QED BY <1>0, <1>4, <2>1, <2>3, GotoTurn DEF Activate
<1>5. CASE RegisterLink(l)
  BY <1>0, <1>5, MoveTurn DEF RegisterLink, linkVars, pipeVars
<1> QED BY <1>1, <1>2, <1>3, <1>4, <1>5

LEMMA ClosingTurn ==
    ASSUME BurstInv, TurnInv, NEW g \in Goroutines, Closing(g)
    PROVE  TurnInv'
<1>0. TypeInv /\ task[g] \in Tasks /\ InHand(task[g])
  BY DEF BurstInv, TypeInv, TaskOK
<1>1. task[g].at \in ClosingPlaces /\ task[g].at \notin {"off", "ended", "done"}
  BY DEF Closing, UnregisterLink, SquitSeen, Purge, ForwardSquit, ClosingPlaces
<1>2. Plain(At(task[g].then)) /\ task[g].then \notin {"off", "ended", "unregister"}
  BY <1>0, <1>1, TaskFacts DEF InHand, ClosingPlaces, Plain
<1>3. \A p \in {"squit", "purge", "forward"} : Plain([task[g] EXCEPT !.at = p])
  BY <1>0 DEF Tasks, Plain
<1>4. CASE UnregisterLink(g) \/ SquitSeen(g) \/ Purge(g)
  <2>1. /\ UNCHANGED <<state, closed, heard, out>>
        /\ \E t : Goto(g, t) /\ Plain(t)
    BY <1>2, <1>3, <1>4 DEF UnregisterLink, SquitSeen, Purge, linkVars, pipeVars
  <2> QED BY <1>0, <1>1, <2>1, MoveTurn
<1>5. CASE ForwardSquit(g)
  <2>1. Registered \ {fedLinks[task[g].peer]} \in SUBSET Registered
    OBVIOUS
  <2> QED BY <1>1, <1>2, <1>5, <2>1, SendAllTurn DEF ForwardSquit
<1> QED BY <1>4, <1>5 DEF Closing

LEMMA ClientTurn ==
    ASSUME BurstInv, TurnInv, NEW c \in Clients, ClientStep(c)
    PROVE  TurnInv'
<1>0. /\ TypeInv /\ Client(c) \in Goroutines
      /\ \A l \in Links : Client(c) # Run(l)
      /\ Plain(At("announce")) /\ Plain(At("peers")) /\ Plain(At("join"))
      /\ \A s : Plain(Doing("joining", Nobody, "join", s))
  BY GoroutineFacts, TaskFacts DEF BurstInv, Plain
<1>1. task[Client(c)].at \notin {"off", "ended", "done"}
  BY DEF ClientStep, AddUser, Announce, Join, ReadPeers, Subscribe, ForwardJoin, Event
<1>2. CASE AddUser(c) \/ Join(c) \/ ReadPeers(c) \/ Subscribe(c)
  <2>1. /\ UNCHANGED <<state, closed, heard, out>>
        /\ \E t : Goto(Client(c), t) /\ Plain(t)
    BY <1>0, <1>2 DEF AddUser, Join, ReadPeers, Subscribe, linkVars, pipeVars
  <2> QED BY <1>0, <1>1, <2>1, MoveTurn
<1>3. CASE Announce(c)
  BY <1>0, <1>1, <1>3, SendAllTurn DEF Announce
<1>4. CASE ForwardJoin(c)
  BY <1>0, <1>1, <1>4, SendAllTurn DEF ForwardJoin
<1>5. CASE Event(c)
  <2>1. {fedLinks[p] : p \in fedSubs} \ {0} \in SUBSET Registered
    BY <1>0, ReachFacts DEF TypeInv, FedOK
  <2> QED BY <1>0, <1>1, <1>5, <2>1, SendAllTurn DEF Event
<1> QED BY <1>2, <1>3, <1>4, <1>5 DEF ClientStep

LEMMA InitTurn == Init => TurnInv
<1> SUFFICES ASSUME Init PROVE TurnInv
  OBVIOUS
<1>1. \A g \in Goroutines : task[g].at \in {"new", "off"}
  BY TaskFacts DEF Init
<1>2. \A l \in Links : task[Run(l)].at = "off"
  BY GoroutineFacts, TaskFacts DEF Init
<1>3. \A g \in Goroutines : Unregistering(g)
  BY <1>1 DEF Unregistering
<1>4. \A l \in Links : Whole(l)
  BY <1>2 DEF Init, Whole
<1>5. \A k, l \in Links : InTurn(k, l)
  BY <1>2 DEF InTurn
<1> QED BY <1>3, <1>4, <1>5 DEF TurnInv

LEMMA NextTurn ==
    ASSUME BurstInv, TurnInv, Inbound = {}, [Next]_vars
    PROVE  TurnInv'
<1>0. TypeInv
  BY DEF BurstInv
<1>1. ASSUME UNCHANGED <<linkVars, pipeVars, task>> PROVE TurnInv'
  <2>1. ClosesOnly
    BY <1>1 DEF ClosesOnly, linkVars
  <2>2. OffStays
    BY <1>1 DEF OffStays, linkVars, pipeVars
  <2> QED BY <1>1, <2>1, <2>2, StillTurn
<1>2. CASE UNCHANGED vars
  BY <1>1, <1>2 DEF vars
<1>3. CASE Shutdown
  BY <1>1, <1>3 DEF Shutdown
<1>4. CASE \E p \in Peers : Expire(p)
  BY <1>1, <1>4 DEF Expire
<1>5. CASE \E l \in Links : Start(l) \/ LinkStep(l)
  BY <1>0, <1>5, StartTurn, LifeTurn, HandlerTurn, BurstTurn DEF LinkStep
<1>6. CASE \E g \in Goroutines : Closing(g)
  BY <1>6, ClosingTurn
<1>7. CASE \E c \in Clients : ClientStep(c)
  BY <1>7, ClientTurn
<1> QED BY <1>2, <1>3, <1>4, <1>5, <1>6, <1>7 DEF Next

-----------------------------------------------------------------------------
(* What a link has entered stays.                                          *)

\* Another connection of the peer is not at work beside one that is.
LEMMA Alone ==
    ASSUME TurnInv, NEW k \in Links, NEW l \in Links, k # l, PeerOf[k] = PeerOf[l],
           task[Run(l)].at # "off", ~ closed[l], task[Run(k)].at # "off"
    PROVE  task[Run(k)].at = "ended" /\ task[Writer(k)].at = "done"
<1>1. k < l \/ l < k
  BY DEF Links
<1>2. InTurn(k, l) /\ InTurn(l, k) /\ Whole(k) /\ Whole(l)
  BY DEF TurnInv
<1>3. ~ (l < k)
  BY <1>2 DEF InTurn, Whole
<1>4. task[Run(k)].at = "ended"
  BY <1>1, <1>2, <1>3 DEF InTurn
<1> QED BY <1>2, <1>4 DEF Whole

\* What a step may change of a link without a claim on the registry.
Keeps(l) ==
    ~ closed'[l] =>
        /\ ~ closed[l]
        /\ state'[l] = "active" /\ task'[Run(l)].at # "register" =>
             state[l] = "active" /\ task[Run(l)].at # "register"
        /\ Sent(l, "BURST JOIN")' /\ task'[Run(l)].at # "subscribe" =>
             Sent(l, "BURST JOIN") /\ task[Run(l)].at # "subscribe"

LEMMA KeepsEntered ==
    ASSUME NEW l \in Links, Entered(l), Keeps(l),
           fedLinks'[PeerOf[l]] = fedLinks[PeerOf[l]],
           PeerOf[l] \in fedSubs => PeerOf[l] \in fedSubs'
    PROVE  Entered(l)'
BY DEF Entered, Keeps

\* A message of another kind does not count.
LEMMA KindAppend ==
    ASSUME NEW s \in Seq(Messages), NEW m \in Messages, NEW kind, m.kind # kind,
           \E i \in DOMAIN Append(s, m) : Append(s, m)[i].kind = kind
    PROVE  \E i \in DOMAIN s : s[i].kind = kind
<1>1. /\ DOMAIN s = 1..Len(s) /\ DOMAIN Append(s, m) = 1..(Len(s) + 1) /\ Len(s) \in Nat
      /\ \A i \in 1..Len(s) : Append(s, m)[i] = s[i]
      /\ Append(s, m)[Len(s) + 1] = m
  OBVIOUS
<1>2. PICK i \in 1..(Len(s) + 1) : Append(s, m)[i].kind = kind
  BY <1>1
<1>3. i # Len(s) + 1
  BY <1>1, <1>2
<1>4. i \in 1..Len(s) /\ s[i].kind = kind
  BY <1>1, <1>2, <1>3
<1> QED BY <1>1, <1>4

LEMMA SentAppend ==
    ASSUME TypeInv, NEW l \in Links, NEW m \in Messages, m.kind # "BURST JOIN",
           out'[l] = Append(out[l], m)
    PROVE  Sent(l, "BURST JOIN")' => Sent(l, "BURST JOIN")
<1>1. out[l] \in Seq(Messages)
  BY DEF TypeInv, PipeOK
<1> SUFFICES ASSUME Sent(l, "BURST JOIN")' PROVE Sent(l, "BURST JOIN")
  OBVIOUS
<1>2. \E i \in DOMAIN Append(out[l], m) : Append(out[l], m)[i].kind = "BURST JOIN"
  BY DEF Sent
<1>3. \E i \in DOMAIN out[l] : out[l][i].kind = "BURST JOIN"
  BY <1>1, <1>2, KindAppend
<1> QED BY <1>3 DEF Sent

LEMMA NothingSent ==
    ASSUME NEW l \in Links, out'[l] = << >> \/ out'[l] = <<Message("SERVER", {})>>
    PROVE  ~ Sent(l, "BURST JOIN")'
<1>1. \A i \in DOMAIN out'[l] : out'[l][i].kind = "SERVER"
  <2>1. CASE out'[l] = << >>
    BY <2>1
  <2>2. CASE out'[l] = <<Message("SERVER", {})>>
    <3> DEFINE m == Message("SERVER", {})
    <3>1. m.kind = "SERVER"
      BY MessageFacts
    <3> HIDE DEF m
    <3>2. out'[l] = <<m>>
      BY <2>2 DEF m
    <3> QED BY <3>1, <3>2
  <2> QED BY <2>1, <2>2
<1> QED BY <1>1 DEF Sent

LEMMA SameKeeps ==
    ASSUME NEW l \in Links, closed'[l] = closed[l], state'[l] = state[l], out'[l] = out[l],
           task[Run(l)].at \notin {"register", "subscribe"} \/ task'[Run(l)] = task[Run(l)]
    PROVE  Keeps(l)
BY DEF Keeps, Sent

LEMMA MoveKeeps ==
    ASSUME TypeInv, NEW g \in Goroutines, NEW t, Goto(g, t),
           task[g].at \notin {"register", "subscribe"}, UNCHANGED <<state, closed, out>>
    PROVE  \A l \in Links : Keeps(l)
<1>1. \A l \in Links : g = Run(l) \/ task'[Run(l)] = task[Run(l)]
  BY GotoFacts, GoroutineFacts
<1>2. ASSUME NEW l \in Links PROVE Keeps(l)
  BY <1>1, SameKeeps
<1> QED BY <1>2

LEMMA CloseKeeps ==
    ASSUME BurstInv, NEW l \in Links, NEW g \in Its(l), NEW back, Close(g, l, back),
           UNCHANGED out
    PROVE  \A k \in Links : Keeps(k)
<1>0. TypeInv /\ Tidy(l) /\ g \in Goroutines
  BY GoroutineFacts DEF BurstInv, Its
<1>1. closed'[l] /\ \A k \in Links : k # l => closed'[k] = closed[k] /\ state'[k] = state[k]
  <2>1. CASE state[l] = "closed"
    BY <1>0, <2>1 DEF Close, linkVars, Tidy
  <2>2. CASE state[l] # "closed"
    BY <1>0, <2>2 DEF Close, TypeInv, LinkOK
  <2> QED BY <2>1, <2>2
<1>2. \A k \in Links : k # l => task'[Run(k)] = task[Run(k)]
  <2>1. PICK t : Goto(g, t)
    BY DEF Close
  <2> QED BY <1>0, <2>1, GotoFacts, GoroutineFacts DEF Its
<1>3. ASSUME NEW k \in Links PROVE Keeps(k)
  <2>1. CASE k = l
    BY <1>1, <2>1 DEF Keeps
  <2>2. CASE k # l
    BY <1>1, <1>2, <2>2, SameKeeps
  <2> QED BY <2>1, <2>2
<1> QED BY <1>3

LEMMA SendKeeps ==
    ASSUME BurstInv, NEW l \in Links, NEW m \in Messages, NEW back, Send(Run(l), l, m, back),
           task[Run(l)].at \notin {"register", "subscribe"},
           m.kind # "BURST JOIN" \/ back = "subscribe"
    PROVE  \A k \in Links : Keeps(k)
<1>0. TypeInv /\ Run(l) \in Goroutines
  BY GoroutineFacts DEF BurstInv
<1>1. CASE Goto(Run(l), At(back)) /\ UNCHANGED <<out, linkVars>>
  BY <1>0, <1>1, MoveKeeps DEF linkVars
<1>2. CASE Close(Run(l), l, back) /\ UNCHANGED out
  BY <1>2, CloseKeeps DEF Its
<1>3. CASE out' = [out EXCEPT ![l] = Append(@, m)] /\ Goto(Run(l), At(back)) /\ UNCHANGED linkVars
  <2>1. /\ out'[l] = Append(out[l], m) /\ \A k \in Links : k # l => out'[k] = out[k]
        /\ closed' = closed /\ state' = state
    BY <1>0, <1>3 DEF TypeInv, PipeOK, linkVars
  <2>a. At(back).at = back
    BY TaskFacts
  <2>b. task'[Run(l)] = At(back) /\ \A h \in Goroutines : h # Run(l) => task'[h] = task[h]
    BY <1>0, <1>3, GotoFacts
  <2>2. /\ task'[Run(l)].at = back
        /\ \A k \in Links : k # l => task'[Run(k)] = task[Run(k)]
    <3>1. \A k \in Links : Run(k) \in Goroutines /\ (k # l => Run(k) # Run(l))
      BY GoroutineFacts
    <3> QED BY <2>a, <2>b, <3>1
  <2>3. m.kind # "BURST JOIN" => (Sent(l, "BURST JOIN")' => Sent(l, "BURST JOIN"))
    BY <1>0, <2>1, SentAppend
  <2>4. Keeps(l)
    BY <2>1, <2>2, <2>3 DEF Keeps
  <2>5. ASSUME NEW k \in Links, k # l PROVE Keeps(k)
    BY <2>1, <2>2, <2>5, SameKeeps
  <2> QED BY <2>4, <2>5
<1> QED BY <1>1, <1>2, <1>3 DEF Send

LEMMA SendAllKeeps ==
    ASSUME BurstInv, NEW g \in Goroutines, NEW ls \in SUBSET Registered, NEW m \in Messages,
           NEW back, SendAll(g, ls, m, back), m.kind # "BURST JOIN",
           task[g].at \notin {"register", "subscribe"}
    PROVE  \A k \in Links : Keeps(k)
<1>0. TypeInv /\ ls \subseteq Links
  BY ReachFacts DEF BurstInv
<1>1. \A k \in Links : task[Run(k)].at \notin {"register", "subscribe"} \/ task'[Run(k)] = task[Run(k)]
  <2>1. PICK t : Goto(g, t)
    BY DEF SendAll
  <2>2. ASSUME NEW k \in Links
        PROVE  task[Run(k)].at \notin {"register", "subscribe"} \/ task'[Run(k)] = task[Run(k)]
    BY <1>0, <2>1, GotoFacts, GoroutineFacts
  <2> QED BY <2>2
<1>2. CASE /\ out' = [l \in Links |-> IF l \in ls /\ ~ closed[l] THEN Append(out[l], m) ELSE out[l]]
           /\ UNCHANGED linkVars
  <2>1. ASSUME NEW k \in Links PROVE Keeps(k)
    <3>0. closed'[k] = closed[k] /\ state'[k] = state[k]
      BY <1>2 DEF linkVars
    <3>1. CASE k \in ls /\ ~ closed[k]
      <4>1. out'[k] = Append(out[k], m)
        BY <1>2, <3>1
      <4>2. Sent(k, "BURST JOIN")' => Sent(k, "BURST JOIN")
        BY <1>0, <4>1, SentAppend
      <4> QED BY <1>1, <3>0, <4>2 DEF Keeps
    <3>2. CASE ~ (k \in ls /\ ~ closed[k])
      <4>1. out'[k] = out[k]
        BY <1>2, <3>2
      <4> QED BY <1>1, <3>0, <4>1, SameKeeps
    <3> QED BY <3>1, <3>2
  <2> QED BY <2>1
<1>3. ASSUME NEW l \in ls, state' = [state EXCEPT ![l] = "closed"],
             closed' = [closed EXCEPT ![l] = TRUE], UNCHANGED out
      PROVE  \A k \in Links : Keeps(k)
  <2>1. /\ l \in Links /\ closed'[l]
        /\ \A k \in Links : k # l => closed'[k] = closed[k] /\ state'[k] = state[k]
    BY <1>0, <1>3 DEF TypeInv, LinkOK
  <2>2. ASSUME NEW k \in Links PROVE Keeps(k)
    <3>1. CASE k = l
      BY <2>1, <3>1 DEF Keeps
    <3>2. CASE k # l
      BY <1>1, <1>3, <2>1, <3>2, SameKeeps
    <3> QED BY <3>1, <3>2
  <2> QED BY <2>2
<1> QED BY <1>2, <1>3 DEF SendAll

LEMMA AllKept ==
    ASSUME TypeInv, \A l \in Links : Entered(l), \A l \in Links : Keeps(l),
           fedLinks' = fedLinks, fedSubs \subseteq fedSubs'
    PROVE  \A l \in Links : Entered(l)'
<1>1. ASSUME NEW l \in Links PROVE Entered(l)'
  BY KeepsEntered
<1> QED BY <1>1

\* The one step that takes away: by then the link whose entry it may be has
\* closed, and no other of its peer has started.
LEMMA UnregisterEntered ==
    ASSUME BurstInv, TurnInv, \A l \in Links : Entered(l),
           NEW g \in Goroutines, UnregisterLink(g)
    PROVE  \A l \in Links : Entered(l)'
<1>0. TypeInv /\ task[g] \in Tasks /\ task[g].at = "unregister"
  BY DEF BurstInv, TypeInv, TaskOK, UnregisterLink
<1>1. PICK k \in Links : g \in Its(k) /\ task[g].peer = PeerOf[k] /\ closed[k]
  BY <1>0 DEF TurnInv, Unregistering
<1>2. task[Run(k)].at # "off" /\ ~ (task[Run(k)].at = "ended" /\ task[Writer(k)].at = "done")
  BY <1>0, <1>1 DEF Its, TypeInv, TaskOK
<1>3. PeerOf[k] \in Peers
  BY GoroutineFacts
<1>4. /\ UNCHANGED <<state, closed, out>>
      /\ \A p \in Peers : p # PeerOf[k] => fedLinks'[p] = fedLinks[p] /\ (p \in fedSubs => p \in fedSubs')
  BY <1>0, <1>1 DEF UnregisterLink, linkVars, pipeVars, TypeInv, FedOK
<1>5. \A l \in Links : Keeps(l)
  BY <1>0, <1>4, MoveKeeps DEF UnregisterLink
<1>6. ASSUME NEW l \in Links PROVE Entered(l)'
  <2>0. PeerOf[l] \in Peers
    BY GoroutineFacts
  <2>1. CASE closed[l]
    BY <1>4, <2>1 DEF Entered
  <2>2. CASE task[Run(l)].at = "off"
    <3>1. state'[l] = "handshaking" /\ out'[l] = << >>
      BY <1>4, <2>2 DEF TurnInv, Whole
    <3>2. ~ Sent(l, "BURST JOIN")'
      BY <3>1, NothingSent
    <3> QED BY <3>1, <3>2 DEF Entered
  <2>3. CASE ~ closed[l] /\ task[Run(l)].at # "off"
    <3>1. PeerOf[l] # PeerOf[k]
      BY <1>1, <1>2, <2>3, Alone
    <3> QED BY <1>4, <1>5, <2>0, <3>1, KeepsEntered
  <2> QED BY <2>1, <2>2, <2>3
<1> QED BY <1>6

LEMMA RegisterEntered ==
    ASSUME BurstInv, TurnInv, \A l \in Links : Entered(l), NEW k \in Links, RegisterLink(k)
    PROVE  \A l \in Links : Entered(l)'
<1>0. /\ TypeInv /\ Run(k) \in Goroutines /\ PeerOf[k] \in Peers
      /\ task[Run(k)].at = "register" /\ UNCHANGED <<state, closed, out, fedSubs>>
  BY GoroutineFacts DEF BurstInv, RegisterLink, linkVars, pipeVars
<1>1. /\ fedLinks'[PeerOf[k]] = k
      /\ \A p \in Peers : p # PeerOf[k] => fedLinks'[p] = fedLinks[p]
  BY <1>0 DEF RegisterLink, TypeInv, FedOK
<1>2. \A l \in Links : l # k => task'[Run(l)] = task[Run(l)]
  BY <1>0, GotoFacts, GoroutineFacts DEF RegisterLink
<1>3. ASSUME NEW l \in Links PROVE Entered(l)'
  <2>0. PeerOf[l] \in Peers /\ Entered(l)
    BY GoroutineFacts
  <2>1. CASE l = k
    BY <1>0, <1>1, <2>0, <2>1 DEF Entered, Sent
  <2>2. CASE closed[l]
    BY <1>0, <2>2 DEF Entered
  <2>3. CASE task[Run(l)].at = "off"
    <3>1. state'[l] = "handshaking" /\ out'[l] = << >>
      BY <1>0, <2>3 DEF TurnInv, Whole
    <3>2. ~ Sent(l, "BURST JOIN")'
      BY <3>1, NothingSent
    <3> QED BY <3>1, <3>2 DEF Entered
  <2>4. CASE l # k /\ ~ closed[l] /\ task[Run(l)].at # "off"
    <3>1. PeerOf[l] # PeerOf[k]
      BY <1>0, <2>4, Alone
    <3>2. Keeps(l)
      BY <1>0, <1>2, <2>4, SameKeeps
    <3> QED BY <1>0, <1>1, <2>0, <3>1, <3>2, KeepsEntered
  <2> QED BY <2>1, <2>2, <2>3, <2>4
<1> QED BY <1>3

LEMMA SubscribeEntered ==
    ASSUME BurstInv, \A l \in Links : Entered(l), NEW k \in Links, BurstSubscribe(k)
    PROVE  \A l \in Links : Entered(l)'
<1>0. /\ TypeInv /\ Run(k) \in Goroutines
      /\ task[Run(k)].at = "subscribe" /\ UNCHANGED <<state, closed, out, fedLinks>>
      /\ fedSubs' = fedSubs \cup {PeerOf[k]}
  BY GoroutineFacts DEF BurstInv, BurstSubscribe, linkVars, pipeVars
<1>1. \A l \in Links : l # k => task'[Run(l)] = task[Run(l)]
  BY <1>0, GotoFacts, GoroutineFacts DEF BurstSubscribe
<1>2. ASSUME NEW l \in Links PROVE Entered(l)'
  <2>1. CASE l = k
    BY <1>0, <2>1 DEF Entered, Sent
  <2>2. CASE l # k
    <3>1. Keeps(l)
      BY <1>0, <1>1, <2>2, SameKeeps
    <3> QED BY <1>0, <3>1, KeepsEntered
  <2> QED BY <2>1, <2>2
<1> QED BY <1>2

LEMMA LinkKeeps ==
    ASSUME BurstInv, TurnInv, NEW l \in Links,
           \/ Start(l) \/ Write(l) \/ WriteFails(l) \/ WriterStops(l)
           \/ RunCancelled(l) \/ RunEOF(l) \/ RunStops(l)
           \/ HandleServer(l) \/ HandleSvinfo(l) \/ HandleNick(l) \/ HandleRemoteSquit(l)
           \/ BurstUsers(l) \/ BurstChannels(l) \/ Activate(l)
    PROVE  (\A k \in Links : Keeps(k)) /\ UNCHANGED <<fedLinks, fedSubs>>
<1>0. /\ TypeInv /\ Run(l) \in Goroutines /\ Writer(l) \in Goroutines
      /\ Run(l) \in Its(l) /\ Writer(l) \in Its(l)
      /\ \A k \in Links : Run(k) \in Goroutines /\ Writer(l) # Run(k) /\ (Run(l) = Run(k) => l = k)
  BY GoroutineFacts DEF BurstInv, Its
<1>a. UNCHANGED <<fedLinks, fedSubs>>
  BY DEF Start, Write, WriteFails, WriterStops, RunCancelled, RunEOF, RunStops, HandleServer,
         HandleSvinfo, HandleNick, HandleRemoteSquit, BurstUsers, BurstChannels, Activate, fedVars
<1>b. SUFFICES \A k \in Links : Keeps(k)
  BY <1>a
<1>1. CASE Start(l)
  <2>1. /\ UNCHANGED <<state, closed>> /\ out'[l] = <<Message("SERVER", {})>>
        /\ \A k \in Links : k # l => out'[k] = out[k]
    BY <1>0, <1>1 DEF Start, linkVars, TypeInv, PipeOK
  <2>2. \A k \in Links : k # l => task'[Run(k)] = task[Run(k)]
    BY <1>0, <1>1, GoroutineFacts DEF Start, TypeInv, TaskOK
  <2>3. state'[l] = "handshaking"
    BY <1>1, <2>1 DEF Start, TurnInv, Whole
  <2>4. ~ Sent(l, "BURST JOIN")'
    BY <2>1, NothingSent
  <2>5. ASSUME NEW k \in Links PROVE Keeps(k)
    <3>1. CASE k = l
      BY <2>1, <2>3, <2>4, <3>1 DEF Keeps
    <3>2. CASE k # l
      BY <2>1, <2>2, <3>2, SameKeeps
    <3> QED BY <3>1, <3>2
  <2> QED BY <2>5
<1>2. CASE Write(l)
  <2>1. ASSUME NEW k \in Links PROVE Keeps(k)
    BY <1>2, SameKeeps DEF Write, linkVars
  <2> QED BY <2>1
<1>3. CASE WriteFails(l)
  BY <1>0, <1>3, CloseKeeps DEF WriteFails, pipeVars
<1>4. CASE WriterStops(l)
  BY <1>0, <1>4, MoveKeeps DEF WriterStops, linkVars, pipeVars
<1>5. CASE RunCancelled(l)
  BY <1>0, <1>5, CloseKeeps DEF RunCancelled, pipeVars
<1>6. CASE RunEOF(l)
  BY <1>0, <1>6, CloseKeeps DEF RunEOF
<1>7. CASE RunStops(l)
  <2>1. /\ closed[l] /\ UNCHANGED <<state, closed>>
        /\ \A k \in Links : k # l => out'[k] = out[k]
    BY <1>0, <1>7 DEF RunStops, linkVars, TypeInv, PipeOK
  <2>2. \A k \in Links : k # l => task'[Run(k)] = task[Run(k)]
    BY <1>0, <1>7, GotoFacts DEF RunStops
  <2>3. ASSUME NEW k \in Links PROVE Keeps(k)
    <3>1. CASE k = l
      BY <2>1, <3>1 DEF Keeps
    <3>2. CASE k # l
      BY <2>1, <2>2, <3>2, SameKeeps
    <3> QED BY <3>1, <3>2
  <2> QED BY <2>3
<1>8. CASE HandleServer(l)
  <2>1. task[Run(l)].at = "select"
    BY <1>8 DEF HandleServer, Receive
  <2> DEFINE m == Message("SVINFO", {})
  <2>2. m \in Messages /\ m.kind # "BURST JOIN"
    <3>1. m \in Messages
      BY MessageFacts DEF Kinds
    <3> QED BY <3>1 DEF Message
  <2>3. Send(Run(l), l, m, "select") \/ (Close(Run(l), l, "select") /\ UNCHANGED out)
    BY <1>8 DEF HandleServer
  <2> HIDE DEF m
  <2>4. CASE Send(Run(l), l, m, "select")
    BY <2>1, <2>2, <2>4, SendKeeps
  <2>5. CASE Close(Run(l), l, "select") /\ UNCHANGED out
    BY <1>0, <2>5, CloseKeeps
  <2> QED BY <2>3, <2>4, <2>5
<1>9. CASE HandleSvinfo(l)
  <2>1. /\ task[Run(l)].at = "select" /\ UNCHANGED <<closed, out>>
        /\ state'[l] = "bursting" /\ \A k \in Links : k # l => state'[k] = state[k]
    BY <1>0, <1>9 DEF HandleSvinfo, Receive, TypeInv, LinkOK
  <2>2. \A k \in Links : k # l => task'[Run(k)] = task[Run(k)]
    BY <1>0, <1>9, GotoFacts DEF HandleSvinfo
  <2>3. ASSUME NEW k \in Links PROVE Keeps(k)
    <3>1. CASE k = l
      BY <2>1, <3>1 DEF Keeps, Sent
    <3>2. CASE k # l
      BY <2>1, <2>2, <3>2, SameKeeps
    <3> QED BY <3>1, <3>2
  <2> QED BY <2>3
<1>10. CASE HandleNick(l)
  <2>1. task[Run(l)].at = "select"
    BY <1>10 DEF HandleNick, Receive
  <2> DEFINE m == Message("KILL", {})
  <2>2. m \in Messages /\ m.kind # "BURST JOIN"
    <3>1. m \in Messages
      BY MessageFacts DEF Kinds
    <3> QED BY <3>1 DEF Message
  <2>3. \/ Send(Run(l), l, m, "select")
        \/ Goto(Run(l), At("select")) /\ UNCHANGED <<state, closed, out>>
    BY <1>10 DEF HandleNick, linkVars
  <2> HIDE DEF m
  <2>4. CASE Send(Run(l), l, m, "select")
    BY <2>1, <2>2, <2>4, SendKeeps
  <2>5. CASE Goto(Run(l), At("select")) /\ UNCHANGED <<state, closed, out>>
    BY <1>0, <2>1, <2>5, MoveKeeps
  <2> QED BY <2>3, <2>4, <2>5
<1>11. CASE HandleRemoteSquit(l)
  <2>1. task[Run(l)].at = "select" /\ UNCHANGED <<state, closed, out>>
    BY <1>11 DEF HandleRemoteSquit, Receive, linkVars
  <2> QED BY <1>0, <1>11, <2>1, MoveKeeps DEF HandleRemoteSquit
<1>12. CASE BurstUsers(l)
  <2> DEFINE m == Message("BURST", local)
  <2>1. m \in Messages /\ m.kind # "BURST JOIN"
    <3>1. m \in Messages
      BY <1>0, MessageFacts DEF Kinds, TypeInv, LocalOK
    <3> QED BY <3>1 DEF Message
  <2>2. task[Run(l)].at = "users" /\ Send(Run(l), l, m, "channels")
    BY <1>12 DEF BurstUsers
  <2> HIDE DEF m
  <2> QED BY <2>1, <2>2, SendKeeps
<1>13. CASE BurstChannels(l)
  <2> DEFINE m == Message("BURST JOIN", {})
  <2>1. m \in Messages
    BY MessageFacts DEF Kinds
  <2>2. /\ task[Run(l)].at = "channels"
        /\ \/ Goto(Run(l), At("activate")) /\ UNCHANGED <<state, closed, out>>
           \/ Send(Run(l), l, m, "subscribe")
    BY <1>13 DEF BurstChannels, linkVars
  <2> HIDE DEF m
  <2>3. CASE Send(Run(l), l, m, "subscribe")
    BY <2>1, <2>2, <2>3, SendKeeps
  <2>4. CASE Goto(Run(l), At("activate")) /\ UNCHANGED <<state, closed, out>>
    BY <1>0, <2>2, <2>4, MoveKeeps
  <2> QED BY <2>2, <2>3, <2>4
<1>14. CASE Activate(l)
  <2>1. /\ task[Run(l)].at = "activate" /\ UNCHANGED <<closed, out>>
        /\ \A k \in Links : k # l => state'[k] = state[k]
    BY <1>0, <1>14 DEF Activate, pipeVars, TypeInv, LinkOK
  <2>2. /\ task'[Run(l)].at = "register"
        /\ \A k \in Links : k # l => task'[Run(k)] = task[Run(k)]
    BY <1>0, <1>14, GotoFacts, TaskFacts DEF Activate
  <2>3. ASSUME NEW k \in Links PROVE Keeps(k)
    <3>1. CASE k = l
      BY <2>1, <2>2, <3>1 DEF Keeps, Sent
    <3>2. CASE k # l
      BY <2>1, <2>2, <3>2, SameKeeps
    <3> QED BY <3>1, <3>2
  <2> QED BY <2>3
<1> QED BY <1>1, <1>2, <1>3, <1>4, <1>5, <1>6, <1>7, <1>8, <1>9, <1>10, <1>11, <1>12,
           <1>13, <1>14

LEMMA ClosingEntered ==
    ASSUME BurstInv, TurnInv, \A l \in Links : Entered(l), NEW g \in Goroutines, Closing(g)
    PROVE  \A l \in Links : Entered(l)'
<1>0. TypeInv /\ task[g] \in Tasks /\ InHand(task[g])
  BY DEF BurstInv, TypeInv, TaskOK
<1>1. task[g].at \in ClosingPlaces /\ task[g].at \notin {"register", "subscribe"}
  BY DEF Closing, UnregisterLink, SquitSeen, Purge, ForwardSquit, ClosingPlaces
<1>2. CASE UnregisterLink(g)
  BY <1>2, UnregisterEntered
<1>3. CASE SquitSeen(g) \/ Purge(g)
  <2>1. /\ UNCHANGED <<state, closed, out, fedLinks, fedSubs>>
        /\ \E t : Goto(g, t)
    BY <1>3 DEF SquitSeen, Purge, linkVars, pipeVars, fedVars
  <2>2. \A l \in Links : Keeps(l)
    BY <1>0, <1>1, <2>1, MoveKeeps
  <2> QED BY <1>0, <2>1, <2>2, AllKept
<1>4. CASE ForwardSquit(g)
  <2> DEFINE m == Message("SQUIT", {task[g].peer})
  <2>1. m \in Messages /\ m.kind # "BURST JOIN"
    <3>1. m \in Messages
      BY <1>0, <1>1, MessageFacts DEF Kinds, InHand
    <3> QED BY <3>1 DEF Message
  <2>2. SendAll(g, Registered \ {fedLinks[task[g].peer]}, m, task[g].then)
        /\ UNCHANGED <<fedLinks, fedSubs>>
    BY <1>4 DEF ForwardSquit, fedVars
  <2>3. Registered \ {fedLinks[task[g].peer]} \in SUBSET Registered
    OBVIOUS
  <2> HIDE DEF m
  <2>4. \A l \in Links : Keeps(l)
    BY <1>1, <2>1, <2>2, <2>3, SendAllKeeps
  <2> QED BY <1>0, <2>2, <2>4, AllKept
<1> QED BY <1>2, <1>3, <1>4 DEF Closing

LEMMA ClientEntered ==
    ASSUME BurstInv, \A l \in Links : Entered(l), NEW c \in Clients, ClientStep(c)
    PROVE  \A l \in Links : Entered(l)'
<1>0. TypeInv /\ Client(c) \in Goroutines
  BY GoroutineFacts DEF BurstInv
<1>1. task[Client(c)].at \notin {"register", "subscribe"}
  BY DEF ClientStep, AddUser, Announce, Join, ReadPeers, Subscribe, ForwardJoin, Event
<1>2. fedLinks' = fedLinks /\ fedSubs \subseteq fedSubs'
  BY DEF ClientStep, AddUser, Announce, Join, ReadPeers, Subscribe, ForwardJoin, Event, fedVars
<1>3. CASE AddUser(c) \/ Join(c) \/ ReadPeers(c) \/ Subscribe(c)
  <2>1. /\ UNCHANGED <<state, closed, out>>
        /\ \E t : Goto(Client(c), t)
    BY <1>3 DEF AddUser, Join, ReadPeers, Subscribe, linkVars, pipeVars
  <2>2. \A l \in Links : Keeps(l)
    BY <1>0, <1>1, <2>1, MoveKeeps
  <2> QED BY <1>0, <1>2, <2>2, AllKept
<1>4. CASE Announce(c) \/ ForwardJoin(c) \/ Event(c)
  <2>1. PICK kind \in {"NICK", "JOIN", "EVENT"}, ls \in SUBSET Registered,
             back \in {"idle", "joined", "done"} :
               SendAll(Client(c), ls, Message(kind, {c}), back)
    <3>1. {fedLinks[p] : p \in fedSubs} \ {0} \in SUBSET Registered
      BY <1>0, ReachFacts DEF TypeInv, FedOK
    <3>2. Registered \in SUBSET Registered
      OBVIOUS
    <3> QED BY <1>4, <3>1, <3>2 DEF Announce, ForwardJoin, Event
  <2> DEFINE m == Message(kind, {c})
  <2>2. m \in Messages /\ m.kind # "BURST JOIN"
    <3>1. m \in Messages
      BY MessageFacts DEF Kinds
    <3> QED BY <3>1 DEF Message
  <2>3. SendAll(Client(c), ls, m, back)
    BY <2>1
  <2> HIDE DEF m
  <2>4. \A l \in Links : Keeps(l)
    BY <1>0, <1>1, <2>2, <2>3, SendAllKeeps
  <2> QED BY <1>0, <1>2, <2>4, AllKept
<1> QED BY <1>3, <1>4 DEF ClientStep

LEMMA NextEntered ==
    ASSUME BurstInv, TurnInv, \A l \in Links : Entered(l), [Next]_vars
    PROVE  \A l \in Links : Entered(l)'
<1>0. TypeInv
  BY DEF BurstInv
<1>1. ASSUME UNCHANGED <<linkVars, pipeVars, task, fedLinks, fedSubs>>
      PROVE  \A l \in Links : Entered(l)'
  <2>1. ASSUME NEW l \in Links PROVE Keeps(l)
    BY <1>1, SameKeeps DEF linkVars, pipeVars
  <2> QED BY <1>0, <1>1, <2>1, AllKept
<1>2. CASE UNCHANGED vars
  BY <1>1, <1>2 DEF vars, fedVars
<1>3. CASE Shutdown
  BY <1>1, <1>3 DEF Shutdown, fedVars
<1>4. CASE \E p \in Peers : Expire(p)
  BY <1>1, <1>4 DEF Expire
<1>5. CASE \E l \in Links : Start(l) \/ LinkStep(l)
  <2>1. PICK l \in Links : Start(l) \/ LinkStep(l)
    BY <1>5
  <2>2. CASE BurstSubscribe(l)
    BY <2>2, SubscribeEntered
  <2>3. CASE RegisterLink(l)
    BY <2>3, RegisterEntered
  <2>4. CASE ~ BurstSubscribe(l) /\ ~ RegisterLink(l)
    <3>1. (\A k \in Links : Keeps(k)) /\ UNCHANGED <<fedLinks, fedSubs>>
      BY <2>1, <2>4, LinkKeeps DEF LinkStep
    <3> QED BY <1>0, <3>1, AllKept
  <2> QED BY <2>2, <2>3, <2>4
<1>6. CASE \E g \in Goroutines : Closing(g)
  BY <1>6, ClosingEntered
<1>7. CASE \E c \in Clients : ClientStep(c)
  BY <1>7, ClientEntered
<1> QED BY <1>2, <1>3, <1>4, <1>5, <1>6, <1>7 DEF Next

LEMMA InitEntered == Init => \A l \in Links : Entered(l)
BY DEF Init, Entered, Sent

LEMMA DialledInvariant ==
    ASSUME Inbound = {}
    PROVE  Spec => []DialInv
<1>1. Init => DialInv
  BY InitTidy, InitTurn, InitEntered DEF DialInv
<1>2. DialInv /\ [Next]_vars => DialInv'
  BY BurstStep, NextTurn, NextEntered DEF DialInv
<1> QED BY <1>1, <1>2, PTL DEF Spec

\* For every number of connections and peers, a dialled link that is up is the
\* one the broadcast path finds: RegisterLink and UnregisterLink go by the
\* peer's name, and the supervisor redials only when runLink has returned.
THEOREM DialledIsRegistered ==
    ASSUME Inbound = {}
    PROVE  Spec => []UpIsRegistered
<1>1. DialInv => UpIsRegistered
  BY DEF DialInv, Entered, UpIsRegistered, Up
<1>2. Spec => []DialInv
  BY DialledInvariant
<1> QED BY <1>1, <1>2, PTL

\* A peer that learned of the channel from the burst of a dialled link stays
\* subscribed while the link is up: sendBurst subscribes it, and only the
\* closing of a link takes the subscription away.
THEOREM DialledIsSubscribed ==
    ASSUME Inbound = {}
    PROVE  Spec => []BurstIsSubscribed
<1>1. DialInv => BurstIsSubscribed
  BY DEF DialInv, Entered, BurstIsSubscribed, Up
<1>2. Spec => []DialInv
  BY DialledInvariant
<1> QED BY <1>1, <1>2, PTL
=============================================================================

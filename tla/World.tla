-------------------------------- MODULE World --------------------------------
(***************************************************************************)
(* The in-memory IRC state of one ircat node (internal/state) as the       *)
(* goroutines of internal/server drive it.                                 *)
(*                                                                         *)
(* Two kinds of lock protect it.  World.mu guards the three indexes byNick,*)
(* byID and byChannel; every Channel has a mutex of its own.  The          *)
(* composite operations JoinChannel and PartChannel take them one after    *)
(* the other and hold none in between, so an action below is one critical  *)
(* section, and task[c] says where the goroutine of connection c is        *)
(* between two of them.                                                    *)
(*                                                                         *)
(* A connection registers at most one user, so a connection and the        *)
(* UserID it was given share one identity here.                            *)
(***************************************************************************)
EXTENDS Naturals, FiniteSets

CONSTANTS
    Conns,      \* client connections, and the users they become
    Nicks,      \* nicknames as typed
    Keys,       \* nicknames as folded by the case mapping
    Fold,       \* [Nicks -> Keys]
    Names,      \* channel names
    Safe,       \* the names that start with '!'
    Limits,     \* the values MODE +l and -l may store; 0 is "no limit"
    MaxObjects, \* bound: Channel objects allocated in one behaviour
    Targets,    \* bound: the users NickServ or a link may pick out; Conns is all
    Nobody,     \* the nil *User
    NoName      \* filler for the name of a task that has none

ASSUME FoldAssumption == Fold \in [Nicks -> Keys]
ASSUME SafeAssumption == Safe \subseteq Names
ASSUME LimitsAssumption == Limits \subseteq Nat
ASSUME MaxObjectsAssumption == MaxObjects \in Nat
ASSUME NobodyAssumption == Nobody \notin Conns
ASSUME NoNameAssumption == NoName \notin Names

VARIABLES
    byNick,     \* World.byNick: the holder of each folded nick, or Nobody
    byID,       \* World.byID: the users with a record
    nick,       \* User.Nick of each user
    byChannel,  \* World.byChannel: the Channel object of each name, or 0
    allocated,  \* Channel objects are numbered 1..allocated
    members,    \* Channel.members of each object: who is in it,
    ops,        \* who of them IsOp(),
    creators,   \* and who carries MemberCreator
    reop,       \* Channel.modes.serverReop (+r)
    limit,      \* Channel.limit (+l)
    registry,   \* Server.conns: the connections a broadcast can reach
    cancelled,  \* connections whose context has been cancelled
    task,       \* what the goroutine of each connection is doing
    link,       \* the user a federation link has removed and must still drop
    service     \* the user NickServ looked up and is about to rename

userVars == <<byNick, byID, nick>>
chanVars == <<byChannel, allocated, members, ops, creators, reop, limit>>
connVars == <<registry, cancelled>>
vars == <<userVars, chanVars, connVars, task, link, service>>

Objects == 1..MaxObjects

Places == {"new", "registering", "idle",
           "ensure", "count", "add", "reop",
           "part", "remove", "recount", "drop",
           "mode", "closing", "unregister", "forget", "closed"}

Tasks == [at : Places, name : Names \cup {NoName}, obj : Objects \cup {0},
          who : Conns \cup {Nobody}, flag : BOOLEAN, todo : SUBSET Names]

\* A goroutine at a place, with the locals the rest of its operation uses.
Doing(place, n, o, v, f, s) ==
    [at |-> place, name |-> n, obj |-> o, who |-> v, flag |-> f, todo |-> s]
At(place, s) == Doing(place, NoName, 0, Nobody, FALSE, s)
Idle == At("idle", {})

\* PartChannel returns either to the read loop or to the loop of broadcastQuit.
Return(c) ==
    IF task[c].flag THEN At("closing", task[c].todo) ELSE Idle

\* The next place of PartChannel, with everything else in hand kept.
Proceed(c, place, o) ==
    Doing(place, task[c].name, o, task[c].who, task[c].flag, task[c].todo)

Goto(c, t) == task' = [task EXCEPT ![c] = t]

-----------------------------------------------------------------------------
(* Users and the nickname index.  Every operation holds World.mu.          *)

\* AddUser, the end of tryCompleteRegistration; ErrNickInUse changes nothing.
AddUser(c, n) ==
    /\ task[c].at = "new"
    /\ byNick[Fold[n]] = Nobody
    /\ byNick' = [byNick EXCEPT ![Fold[n]] = c]
    /\ byID' = byID \cup {c}
    /\ nick' = [nick EXCEPT ![c] = n]
    /\ Goto(c, At("registering", {}))
    /\ UNCHANGED <<chanVars, connVars, link, service>>

RegisterConn(c) ==
    /\ task[c].at = "registering"
    /\ registry' = registry \cup {c}
    /\ Goto(c, Idle)
    /\ UNCHANGED <<userVars, chanVars, cancelled, link, service>>

\* Mutant: the old key is left in the index.
RenameUserKeepsOldKey(u, n) ==
    /\ u \in byID
    /\ byNick[Fold[n]] \in {u, Nobody}
    /\ byNick' = [byNick EXCEPT ![Fold[n]] = u]
    /\ nick' = [nick EXCEPT ![u] = n]
    /\ UNCHANGED byID

\* Mutant: the taken test is missing.
RenameUserUnchecked(u, n) ==
    /\ u \in byID
    /\ byNick' = [byNick EXCEPT ![Fold[nick[u]]] = Nobody, ![Fold[n]] = u]
    /\ nick' = [nick EXCEPT ![u] = n]
    /\ UNCHANGED byID

\* Rename the record of u; a key held by another user is ErrNickInUse.
RenameUser(u, n) ==
    /\ u \in byID
    /\ byNick[Fold[n]] \in {u, Nobody}
    /\ byNick' = [byNick EXCEPT ![Fold[nick[u]]] = Nobody, ![Fold[n]] = u]
    /\ nick' = [nick EXCEPT ![u] = n]
    /\ UNCHANGED byID

\* Drop the record of u from both indexes; the channels are not visited.
RemoveUser(u) ==
    /\ byID' = byID \ {u}
    /\ byNick' = IF u \in byID THEN [byNick EXCEPT ![Fold[nick[u]]] = Nobody]
                               ELSE byNick
    /\ UNCHANGED nick

\* NICK from a registered client.
ChangeNick(c, n) ==
    /\ task[c].at = "idle"
    /\ RenameUser(c, n)
    /\ UNCHANGED <<chanVars, connVars, task, link, service>>

\* ForceNickChange, first half: NickServ's goroutine resolves the old nick.
ServiceFind(u) ==
    /\ service = Nobody
    /\ u \in byID \cap Targets
    /\ service' = u
    /\ UNCHANGED <<userVars, chanVars, connVars, task, link>>

\* ForceNickChange, second half: the rename, or one of its two errors.
ServiceRename(n) ==
    /\ service # Nobody
    /\ service' = Nobody
    /\ \/ RenameUser(service, n)
       \/ /\ service \notin byID \/ byNick[Fold[n]] \notin {service, Nobody}
          /\ UNCHANGED userVars
    /\ UNCHANGED <<chanVars, connVars, task, link>>

\* A lost nick collision: the link removes the local record ...
LinkRemove(u) ==
    /\ link = Nobody
    /\ u \in byID \cap Targets
    /\ RemoveUser(u)
    /\ link' = u
    /\ UNCHANGED <<chanVars, connVars, task, service>>

\* ... and then cancels the connection, when the registry has it.
DropLocalUser ==
    /\ link # Nobody
    /\ cancelled' = cancelled \cup (registry \cap {link})
    /\ link' = Nobody
    /\ UNCHANGED <<userVars, chanVars, registry, task, service>>

-----------------------------------------------------------------------------
(* JOIN: joinOne and World.JoinChannel.                                    *)

\* FindChannel and the +l part of checkJoinPolicy; a refusal changes nothing.
Knock(c, n) ==
    /\ task[c].at = "idle"
    /\ byChannel[n] # 0 =>
         limit[byChannel[n]] = 0 \/ Cardinality(members[byChannel[n]]) < limit[byChannel[n]]
    /\ Goto(c, Doing("ensure", n, 0, Nobody, FALSE, {}))
    /\ UNCHANGED <<userVars, chanVars, connVars, link, service>>

\* FindByID(id) = nil: JoinChannel returns ErrNoSuchUser.  Bound: so does a
\* JOIN that would have to create a Channel when no object is left for it.
JoinUnknown(c) ==
    /\ task[c].at = "ensure"
    /\ c \notin byID \/ (byChannel[task[c].name] = 0 /\ allocated = MaxObjects)
    /\ Goto(c, Idle)
    /\ UNCHANGED <<userVars, chanVars, connVars, link, service>>

\* Mutant: the new object is published without being allocated.
EnsureChannelReusesObject(c) ==
    /\ task[c].at = "ensure" /\ byChannel[task[c].name] = 0
    /\ allocated < MaxObjects
    /\ byChannel' = [byChannel EXCEPT ![task[c].name] = allocated + 1]
    /\ Goto(c, Doing("add", task[c].name, allocated + 1, Nobody, TRUE, {}))
    /\ UNCHANGED <<userVars, allocated, members, ops, creators, reop, limit, connVars, link, service>>

\* EnsureChannel finds the channel or creates it, under World.mu.
EnsureChannel(c) ==
    LET n == task[c].name IN
    /\ task[c].at = "ensure"
    /\ c \in byID
    /\ \/ /\ byChannel[n] # 0
          /\ Goto(c, Doing("count", n, byChannel[n], Nobody, FALSE, {}))
          /\ UNCHANGED chanVars
       \/ /\ byChannel[n] = 0
          /\ allocated < MaxObjects
          /\ allocated' = allocated + 1
          /\ byChannel' = [byChannel EXCEPT ![n] = allocated + 1]
          /\ Goto(c, Doing("add", n, allocated + 1, Nobody, TRUE, {}))
          /\ UNCHANGED <<members, ops, creators, reop, limit>>
    /\ UNCHANGED <<userVars, connVars, link, service>>

\* The resurrected test; who = c records that the answer was yes.
CountMembers(c) ==
    LET o == task[c].obj
        resurrected == members[o] = {} /\ task[c].name \in Safe /\ reop[o]
    IN
    /\ task[c].at = "count"
    /\ Goto(c, Doing("add", task[c].name, o, IF resurrected THEN c ELSE Nobody, FALSE, {}))
    /\ UNCHANGED <<userVars, chanVars, connVars, link, service>>

\* addMember: the creating joiner is founder ('!') or operator ('#', '&').
AddMember(c) ==
    LET o == task[c].obj
        added == c \notin members[o]
        created == task[c].flag
    IN
    /\ task[c].at = "add"
    /\ members' = [members EXCEPT ![o] = @ \cup {c}]
    /\ ops' = [ops EXCEPT ![o] = IF added /\ created THEN @ \cup {c} ELSE @]
    /\ creators' = [creators EXCEPT ![o] =
                      IF added /\ created /\ task[c].name \in Safe THEN @ \cup {c} ELSE @]
    /\ Goto(c, IF added /\ task[c].who = c
               THEN Doing("reop", task[c].name, o, Nobody, FALSE, {}) ELSE Idle)
    /\ UNCHANGED <<userVars, byChannel, allocated, reop, limit, connVars, link, service>>

\* Mutant: the joiner who resurrects the channel becomes its creator.
ReopMemberAsCreator(c) ==
    LET o == task[c].obj IN
    /\ task[c].at = "reop"
    /\ ops' = [ops EXCEPT ![o] = IF c \in members[o] THEN @ \cup {c} ELSE @]
    /\ creators' = [creators EXCEPT ![o] = IF c \in members[o] THEN @ \cup {c} ELSE @]
    /\ Goto(c, Idle)
    /\ UNCHANGED <<userVars, byChannel, allocated, members, reop, limit, connVars, link, service>>

\* AddMembership(MemberOp) for the joiner who resurrects a +r safe channel.
ReopMember(c) ==
    LET o == task[c].obj IN
    /\ task[c].at = "reop"
    /\ ops' = [ops EXCEPT ![o] = IF c \in members[o] THEN @ \cup {c} ELSE @]
    /\ Goto(c, Idle)
    /\ UNCHANGED <<userVars, byChannel, allocated, members, creators, reop, limit,
                   connVars, link, service>>

-----------------------------------------------------------------------------
(* PART, KICK and World.PartChannel.                                       *)

\* partOne: membership is checked and the PART broadcast; the removal is next.
Part(c, n) ==
    /\ task[c].at = "idle"
    /\ byChannel[n] # 0
    /\ c \in members[byChannel[n]]
    /\ Goto(c, Doing("part", n, 0, c, FALSE, {}))
    /\ UNCHANGED <<userVars, chanVars, connVars, link, service>>

\* kickOne: an operator of the channel names a member that FindByNick knows.
Kick(c, v, n) ==
    /\ task[c].at = "idle"
    /\ byChannel[n] # 0
    /\ c \in members[byChannel[n]] \cap ops[byChannel[n]]
    /\ v \in members[byChannel[n]] \cap byID
    /\ Goto(c, Doing("part", n, 0, v, FALSE, {}))
    /\ UNCHANGED <<userVars, chanVars, connVars, link, service>>

\* PartChannel's FindChannel, by name; nil is ErrNoSuchChannel.
PartFind(c) ==
    LET o == byChannel[task[c].name] IN
    /\ task[c].at = "part"
    /\ Goto(c, IF o = 0 THEN Return(c) ELSE Proceed(c, "remove", o))
    /\ UNCHANGED <<userVars, chanVars, connVars, link, service>>

\* removeMember; a user who is no longer there is ErrNoSuchUser.
RemoveMember(c) ==
    LET o == task[c].obj
        v == task[c].who
    IN
    /\ task[c].at = "remove"
    /\ members' = [members EXCEPT ![o] = @ \ {v}]
    /\ ops' = [ops EXCEPT ![o] = @ \ {v}]
    /\ creators' = [creators EXCEPT ![o] = @ \ {v}]
    /\ Goto(c, IF v \in members[o] THEN Proceed(c, "recount", task[c].obj) ELSE Return(c))
    /\ UNCHANGED <<userVars, byChannel, allocated, reop, limit, connVars, link, service>>

\* Mutant: the count is taken as it was before the removal.
RecountMembersOffByOne(c) ==
    LET o == task[c].obj
        drop == Cardinality(members[o]) = 1 /\ ~ (task[c].name \in Safe /\ reop[o])
    IN
    /\ task[c].at = "recount"
    /\ Goto(c, IF drop THEN Proceed(c, "drop", task[c].obj) ELSE Return(c))
    /\ UNCHANGED <<userVars, chanVars, connVars, link, service>>

\* MemberCount() = 0: an empty channel is dropped unless it is a +r safe one.
RecountMembers(c) ==
    LET o == task[c].obj
        drop == members[o] = {} /\ ~ (task[c].name \in Safe /\ reop[o])
    IN
    /\ task[c].at = "recount"
    /\ Goto(c, IF drop THEN Proceed(c, "drop", task[c].obj) ELSE Return(c))
    /\ UNCHANGED <<userVars, chanVars, connVars, link, service>>

\* dropChannel deletes the name, whatever object it stands for by now.
DropChannel(c) ==
    /\ task[c].at = "drop"
    /\ byChannel' = [byChannel EXCEPT ![task[c].name] = 0]
    /\ Goto(c, Return(c))
    /\ UNCHANGED <<userVars, allocated, members, ops, creators, reop, limit,
                   connVars, link, service>>

-----------------------------------------------------------------------------
(* MODE: the operator check and the change are separate critical sections. *)

ModeCheck(c, n) ==
    /\ task[c].at = "idle"
    /\ byChannel[n] # 0
    /\ c \in ops[byChannel[n]]
    /\ Goto(c, Doing("mode", n, byChannel[n], Nobody, FALSE, {}))
    /\ UNCHANGED <<userVars, chanVars, connVars, link, service>>

\* SetBoolMode('r'), refused on a channel that is not safe.
SetReop(c, on) ==
    /\ task[c].at = "mode"
    /\ task[c].name \in Safe
    /\ reop' = [reop EXCEPT ![task[c].obj] = on]
    /\ Goto(c, Idle)
    /\ UNCHANGED <<userVars, byChannel, allocated, members, ops, creators, limit,
                   connVars, link, service>>

SetLimit(c, l) ==
    /\ task[c].at = "mode"
    /\ limit' = [limit EXCEPT ![task[c].obj] = l]
    /\ Goto(c, Idle)
    /\ UNCHANGED <<userVars, byChannel, allocated, members, ops, creators, reop,
                   connVars, link, service>>

\* Mutant: the flag is stored without looking the member up again.
SetOpOnAnyone(c, v, on) ==
    LET o == task[c].obj IN
    /\ task[c].at = "mode"
    /\ v \in byID
    /\ ops' = [ops EXCEPT ![o] = IF on THEN @ \cup {v} ELSE @ \ ({v} \ creators[o])]
    /\ Goto(c, Idle)
    /\ UNCHANGED <<userVars, byChannel, allocated, members, creators, reop, limit,
                   connVars, link, service>>

\* MODE +o / -o on a member with a record; -o leaves a creator an operator.
SetOp(c, v, on) ==
    LET o == task[c].obj IN
    /\ task[c].at = "mode"
    /\ v \in members[o] \cap byID
    /\ ops' = [ops EXCEPT ![o] = IF on THEN @ \cup {v} ELSE @ \ ({v} \ creators[o])]
    /\ Goto(c, Idle)
    /\ UNCHANGED <<userVars, byChannel, allocated, members, creators, reop, limit,
                   connVars, link, service>>

-----------------------------------------------------------------------------
(* Conn.close, run once by serve() when the read loop has returned.        *)

\* A cancelled context, a QUIT or an EOF: DisconnectNick, DropLocalUser, ...
Cancel(c) ==
    /\ c \notin cancelled
    /\ task[c].at \notin {"closing", "unregister", "forget", "closed"}
    /\ cancelled' = cancelled \cup {c}
    /\ UNCHANGED <<userVars, chanVars, registry, task, link, service>>

\* Mutant: a user whose record a collision removed is taken to have no channels.
CloseConnOfRemovedUser(c) ==
    /\ c \in cancelled
    /\ \/ task[c].at = "new" /\ Goto(c, At("closed", {}))
       \/ /\ task[c].at = "idle"
          /\ Goto(c, At("closing", {n \in Names : /\ c \in byID
                                                 /\ byChannel[n] # 0
                                                 /\ c \in members[byChannel[n]]}))
    /\ UNCHANGED <<userVars, chanVars, connVars, link, service>>

\* An unregistered connection has nothing to undo; else UserChannels is read.
CloseConn(c) ==
    /\ c \in cancelled
    /\ \/ task[c].at = "new" /\ Goto(c, At("closed", {}))
       \/ /\ task[c].at = "idle"
          /\ Goto(c, At("closing", {n \in Names : byChannel[n] # 0 /\ c \in members[byChannel[n]]}))
    /\ UNCHANGED <<userVars, chanVars, connVars, link, service>>

\* Mutant: the cleanup gives up on a user without a record.
CloseNextNeedsRecord(c) ==
    /\ task[c].at = "closing"
    /\ c \in byID
    /\ Goto(c, At("unregister", {}))
    /\ UNCHANGED <<userVars, chanVars, connVars, link, service>>

\* The loop of broadcastQuit: PartChannel for each channel of the snapshot.
CloseNext(c) ==
    /\ task[c].at = "closing"
    /\ IF task[c].todo = {}
       THEN Goto(c, At("unregister", {}))
       ELSE \E n \in task[c].todo :
              Goto(c, Doing("part", n, 0, c, TRUE, task[c].todo \ {n}))
    /\ UNCHANGED <<userVars, chanVars, connVars, link, service>>

UnregisterConn(c) ==
    /\ task[c].at = "unregister"
    /\ registry' = registry \ {c}
    /\ Goto(c, At("forget", {}))
    /\ UNCHANGED <<userVars, chanVars, cancelled, link, service>>

ForgetUser(c) ==
    /\ task[c].at = "forget"
    /\ RemoveUser(c)
    /\ Goto(c, At("closed", {}))
    /\ UNCHANGED <<chanVars, connVars, link, service>>

-----------------------------------------------------------------------------
Init ==
    /\ byNick = [k \in Keys |-> Nobody]
    /\ byID = {}
    /\ nick \in [Conns -> Nicks]    \* meaningless until AddUser
    /\ byChannel = [n \in Names |-> 0]
    /\ allocated = 0
    /\ members = [o \in Objects |-> {}]
    /\ ops = [o \in Objects |-> {}]
    /\ creators = [o \in Objects |-> {}]
    /\ reop = [o \in Objects |-> FALSE]
    /\ limit = [o \in Objects |-> 0]
    /\ registry = {}
    /\ cancelled = {}
    /\ task = [c \in Conns |-> At("new", {})]
    /\ link = Nobody
    /\ service = Nobody

\* The steps a goroutine takes by itself once its command has started.
Continue(c) ==
    \/ RegisterConn(c) \/ JoinUnknown(c) \/ EnsureChannel(c) \/ CountMembers(c)
    \/ AddMember(c) \/ ReopMember(c) \/ PartFind(c) \/ RemoveMember(c)
    \/ RecountMembers(c) \/ DropChannel(c)
    \/ CloseConn(c) \/ CloseNext(c) \/ UnregisterConn(c) \/ ForgetUser(c)
    \/ \E on \in BOOLEAN : SetReop(c, on)
    \/ \E l \in Limits : SetLimit(c, l)
    \/ \E v \in Conns, on \in BOOLEAN : SetOp(c, v, on)

\* The commands a client may send, and the loss of its connection.
Command(c) ==
    \/ \E n \in Nicks : AddUser(c, n) \/ ChangeNick(c, n)
    \/ \E n \in Names : Knock(c, n) \/ Part(c, n) \/ ModeCheck(c, n)
    \/ \E n \in Names, v \in Conns : Kick(c, v, n)
    \/ Cancel(c)

Next ==
    \/ \E c \in Conns : Continue(c) \/ Command(c)
    \/ \E u \in Conns : ServiceFind(u) \/ LinkRemove(u)
    \/ \E n \in Nicks : ServiceRename(n)
    \/ DropLocalUser

Spec == Init /\ [][Next]_vars

\* The Go scheduler runs every runnable goroutine: a command that has started
\* finishes.  Nothing obliges a client to send one.
\* SF on CloseConn: once the context is cancelled writeLoop closes the socket,
\* so the read loop runs out of buffered commands between which it could close.
Fairness == \A c \in Conns : WF_vars(Continue(c)) /\ SF_vars(CloseConn(c))
FairSpec == Spec /\ Fairness

-----------------------------------------------------------------------------
\* An operation in progress has its channel, its object (one of k) and its
\* member in hand wherever it goes on to use them.
WellFormed(t, k) ==
    /\ t.at \in {"ensure", "count", "add", "reop",
                 "part", "remove", "recount", "drop", "mode"} => t.name \in Names
    /\ t.at \in {"count", "add", "reop", "remove", "recount", "mode"} => t.obj \in 1..k
    /\ t.at \in {"part", "remove", "recount", "drop"} => t.who \in Conns

(* Every map stays in its range, no name stands for an object that was     *)
(* never allocated, and every operation in progress is well-formed.        *)
TypeOK ==
    /\ byNick \in [Keys -> Conns \cup {Nobody}]
    /\ byID \subseteq Conns
    /\ nick \in [Conns -> Nicks]
    /\ byChannel \in [Names -> 0..allocated]
    /\ allocated \in 0..MaxObjects
    /\ members \in [Objects -> SUBSET Conns]
    /\ ops \in [Objects -> SUBSET Conns]
    /\ creators \in [Objects -> SUBSET Conns]
    /\ reop \in [Objects -> BOOLEAN]
    /\ limit \in [Objects -> Limits \cup {0}]
    /\ registry \subseteq Conns
    /\ cancelled \subseteq Conns
    /\ task \in [Conns -> Tasks]
    /\ \A c \in Conns : WellFormed(task[c], allocated)
    /\ link \in Conns \cup {Nobody}
    /\ service \in Conns \cup {Nobody}

(* The two user indexes agree: a record is found under the folded form of  *)
(* the nick it carries and under no other, through any order of AddUser,   *)
(* NICK, ForceNickChange, collision removal and close.                     *)
NickIndex ==
    /\ \A u \in byID : byNick[Fold[nick[u]]] = u
    /\ \A k \in Keys : byNick[k] # Nobody => byNick[k] \in byID /\ Fold[nick[byNick[k]]] = k

(* The nickname index implements the abstract registry: concurrent AddUser,*)
(* RenameUser and RemoveUser never hand a taken name over.                 *)
Registry == INSTANCE NameRegistry WITH Holders <- Conns, holder <- byNick
RegistrySpec == Registry!Spec

(* After Conn.close has returned nothing in the world refers to the user:  *)
(* no index entry, no registry entry, and no membership of a channel that  *)
(* the world can find, although close removes it channel by channel, by    *)
(* name, from a snapshot other goroutines make stale meanwhile.            *)
ClosedLeavesNothing ==
    \A c \in Conns : task[c].at = "closed" =>
        /\ c \notin byID \cup registry
        /\ \A k \in Keys : byNick[k] # c
        /\ \A n \in Names : byChannel[n] # 0 => c \notin members[byChannel[n]]

\* A goroutine that is about to put a member into object o, or to recount it,
\* or to drop the name n.
Serves(c, n, o) ==
    \/ task[c].at \in {"count", "add", "recount"} /\ task[c].obj = o
    \/ task[c].at = "drop" /\ task[c].name = n

(* No empty standard channel is left behind: one the world still lists is  *)
(* in the hands of a goroutine that will fill it or drop it, whatever the  *)
(* order in which joins, parts, kicks and closes interleave.               *)
EmptyChannelIsServed ==
    \A n \in Names \ Safe : byChannel[n] # 0 /\ members[byChannel[n]] = {} =>
        \E c \in Conns : Serves(c, n, byChannel[n])

(* One founder: of the goroutines that race to create a safe channel only  *)
(* one gets the creator status, and nobody gets it later.                  *)
OneCreator ==
    \A o \in Objects : \A c, d \in creators[o] : c = d

(* Operator rights die with the membership: a user who left or was removed *)
(* is not an operator, even when +o and the removal ran concurrently.      *)
OpsAreMembers ==
    \A o \in Objects : creators[o] \subseteq ops[o] /\ ops[o] \subseteq members[o]

-----------------------------------------------------------------------------
(* What comments of the code say and its interleavings refute.             *)

(* PartChannel "became empty and was dropped": no object that still has a  *)
(* member is out of the world's sight.                                     *)
MemberIsListed ==
    \A o \in Objects : members[o] # {} => \E n \in Names : byChannel[n] = o

(* joinOne "re-checks after the join": no JOIN takes a channel over +l.    *)
LimitRespected ==
    [][\A c \in Conns, o \in Objects :
         /\ c \in members'[o] \ members[o]
         /\ limit[o] # 0
         => Cardinality(members'[o]) <= limit[o]]_vars

(* PartChannel "safe channels without +r are dropped on empty".            *)
EmptySafeChannelIsServed ==
    \A n \in Safe : byChannel[n] # 0 /\ members[byChannel[n]] = {} =>
        reop[byChannel[n]] \/ \E c \in Conns : Serves(c, n, byChannel[n])

(* DropLocalUser "works regardless of world state": a registered client    *)
(* whose record a collision has removed is on its way out.                 *)
DroppedUserIsCancelled ==
    \A c \in registry : c \in byID \/ link = c \/ c \in cancelled

-----------------------------------------------------------------------------
(* An empty standard channel is eventually dropped or joined again.        *)
EmptyChannelGoes ==
    \A n \in Names \ Safe :
        (byChannel[n] # 0 /\ members[byChannel[n]] = {}) ~>
        (byChannel[n] = 0 \/ members[byChannel[n]] # {})

(* A cancelled connection is eventually closed, whatever its goroutine was *)
(* doing and whoever else touched its channels or its record.              *)
CancelledCloses ==
    \A c \in Conns : c \in cancelled ~> task[c].at = "closed"

=============================================================================

# A TLA+ development of ircat

ircat is an IRC server in Go: one process per node, nodes linked into a mesh.
This directory holds models of the parts of it where goroutines share state,
the TLC configurations that check them on small instances, and TLAPS proofs of
the properties that matter most for every value of the constants. Paths below
are relative to the repository (`src/` here).

1. [The system](#the-system) - inventory of components
2. [Modules and the code](#modules-and-the-code) - how state and actions correspond
3. [Runs](#runs) - what is checked, with which bounds and fairness
4. [Proofs](#proofs)
5. [Known disagreements](#known-disagreements) - what the models show the code doing otherwise than it says
6. [What is not modelled](#what-is-not-modelled) and [the plan](#plan)

## The system

| Component | State it keeps | Operations | Talks to |
|---|---|---|---|
| `internal/server` Conn | registration, send queue, context and its cause, idle time, token bucket | read, write and ping loops; one handler per command; `close` | World, other Conns' queues, Link (announcements) |
| `internal/server` Server | connection registry, link registry and subscriptions (`fedMu`), recently squit peers, bots and services | `registerConn`, `connFor`, broadcasts, `RegisterLink`, `HandleSquit`, actuator calls | all |
| `internal/state` World | `byNick`, `byID`, `byChannel` under one lock; each Channel its own | `AddUser`, `RenameUser`, `RemoveUser`, `JoinChannel`, `PartChannel`, modes, lists | called by Conn, Link, services, bots, API |
| `internal/federation` Link | handshake state, send queue, writer and run goroutines | handshake, burst, `Send`, `Close`, handlers of runtime messages | Server through the `Host` interface |
| `cmd/ircat` federation supervisor | one goroutine per dialled or accepted link | dial, redial with backoff, accept, shutdown | Link |
| `internal/events` | subscribers with bounded inboxes; JSONL file; webhook queue | `Subscribe`, `Publish`, `Close`; rotate; retry | written to by Server |
| `internal/bots` | running bots, inboxes, Lua runtimes | start, stop, update, dispatch | World, Server actuator, store |
| `internal/services` | enforcement timers; the rest is stored | NickServ, ChanServ, MemoServ commands | World, store, Server |
| `internal/storage` | SQLite or Postgres tables | CRUD per store | Server, services, bots, API |
| `internal/api`, `internal/dashboard` | sessions, rate counters | admin requests | everything above |
| `internal/config`, `logging`, `auth`, `protocol` | configuration; log ring; none; none | load and reload; append and tail; hash; parse and encode | |

What is hard about it, and what makes each component correct:

* **World.** A JOIN, a PART or a close is several critical sections. Between
  them another goroutine may rename, kick, drop, create, or close. Correct: the
  two user indexes agree; a channel that empties disappears (or is kept by +r);
  a closed connection leaves nothing; operator rights are members'; one founder.
* **Connection.** Three goroutines and anybody who sends share a queue and a
  context. Correct: each order of registration commands either completes once
  or ends; the ERROR that explains a disconnect gets out before the socket
  closes; a timeout is preceded by a PING; everything ends.
* **Flood control.** Lazy refill. Correct: no interval lets more through than a
  burst and its own refill, and a client that keeps to the rate loses nothing.
* **Links.** Handshake, burst, overflow, loss and redial race with local
  clients and with shutdown. Correct: a peer reads users before the events that
  name them; a link that is up is registered and subscribed; a shutdown drains.
* **Federation of worlds.** Timestamps must make nodes agree on nick and
  channel conflicts although messages cross.
* **Events, bots, services, persistence.** Close against publish; start against
  stop; timers that fire late; writes stored out of order; a partial failure.

Each hazard is listed with its line in `PROJECT.json`.

## Modules and the code

### World (`World.tla`), with `NameRegistry.tla` as its abstract index

One action is one critical section of `World.mu` or of a channel's mutex.
`task[c]` is the program counter of connection `c`'s read goroutine together
with the locals the rest of the operation uses (the name, the `*Channel`, the
member, the flag `created` or "called from close", the names still to part).

| Code | Actions |
|---|---|
| `tryCompleteRegistration` | `AddUser`, then `RegisterConn` |
| `NICK`; `ForceNickChange` | `ChangeNick`; `ServiceFind`, `ServiceRename` |
| a lost nick collision: `RemoveUser`, then `DropLocalUser` | `LinkRemove`, `DropLocalUser` |
| `joinOne` + `JoinChannel` | `Knock`, `EnsureChannel` (or `JoinUnknown`), `CountMembers`, `AddMember`, `ReopMember` |
| `partOne`, `kickOne` + `PartChannel` | `Part` or `Kick`, `PartFind`, `RemoveMember`, `RecountMembers`, `DropChannel` |
| `MODE` | `ModeCheck`, then `SetReop`, `SetLimit` or `SetOp` |
| a cancelled context and `close` | `Cancel`, `CloseConn`, `CloseNext`, `UnregisterConn`, `ForgetUser` |

Channel objects are numbered as they are allocated, so that the object an
operation holds and the object its name stands for by now can differ, as
pointers do. `NameRegistry` is the abstract promise of the nick index: names
are claimed, moved and released, never handed over. `World` implements it with
`holder <- byNick`.

Simplifications: a connection and the `UserID` it was given are one identity
(a connection registers at most one user: module Connection shows it).
`FindByID` is merged with `EnsureChannel`, the reads of the join policy with
each other, and `MemberCount` with `ServerReop`; each pair reads and does not
write. Channel names are standard ('#') or safe ('!'). Channels restored from
the store are in module Channel, users of other nodes in Federation. A cancelled
connection may still execute commands it has buffered, because `readLoop`
looks at the socket and not at the context.

### Connection (`Connection.tla`)

`place` holds the positions of the reader, writer and pinger and of the other
goroutines that call `send` on this connection; `due[a]` is a goroutine between
`sendError` and `cancel`. Each command of registration is an action; commands
that only answer are `HandleOther`. The writer is `WriterTakes`,
`WriterFlushes`, `WriterSeesCancel`, `WriterStops` and `WriteFails`, so that
the choice its `select` makes between a queued message and the cancelled
context is the model's. Of queued messages only the ERROR is told apart, and the
ERROR that `writeMessage` drops because it does not encode: the reason of a QUIT
or a kill is given by people, and a line with it may be too long or hold a line
break (the cause "unsayable"; the other reasons are the server's own words).
Whether `AddUser` succeeds is a choice; module World has its reasons. The ping
loop's lookup and send are one action, and a tick is dealt with before the next
second, since `send` does not block. `SERVICE` registers without looking at
`PASS`; the model has it as the code does and no property judges it.

### FloodControl (`FloodControl.tla`)

`tokenBucket.Take` and the policy of `deliverMessage`, in integers: the clock
ticks `Second` times a second and a token is `Second` units. Rounding of
float64 is left out. `since` and `taken` are an observer who starts counting at
any moment, `steady` records whether the client ever hurried. `FCInit`, `FCNext`
and `FCSpec` carry the prefix because the bucket is a connection's, and
ConnectionProofs extends both modules.

### Link (`Link.tla`)

One node's links with scripted peers (`Stream`, in the order the handshake
imposes on a peer). Goroutines are the run loop and the writer of each link and the
read loops of local clients; `task` is again program counter and locals.
Everything under `fedMu.Lock` is one action. So is a loop of `Send`s under
`fedMu.RLock`, because nothing that takes the lock can intervene, with one
exception that is modelled: a `Send` that finds the queue full closes the link,
and the callback of `Close` asks for `fedMu.Lock` while the caller holds the
read lock (`wedged`).

`HandleServer`, `HandleSvinfo`, `BurstUsers`, `BurstChannels`, `BurstSubscribe`,
`Activate` and `RegisterLink` are the steps of the handshake and the burst;
`Announce`, `Join`, `ReadPeers`, `Subscribe`, `ForwardJoin` and `Event` those of
a client; `Closing` the steps of `OnClosed` (unregister, squit, purge, forward);
`Start` and `Shutdown` the supervisor. `squitSeenTTL` expires at any time
(`Expire`). There is one channel and one user per peer, the NICK lines of a
burst are one message, and what is put on the queue of a closed link is
forgotten, since nobody reads it.

### Federation (`Federation.tla`)

A full mesh of nodes, each with a world of its own; a link is a pair of FIFO
queues and a stage (`stage[n][m]`: up, lost, down, linked, burst). One handler
is one step, since World has the interleavings inside a node.

| Code | Actions |
|---|---|
| `tryCompleteRegistration`: `AddUser`, `registerConn`, `announceUserToFederation` | `Connect`, `RegisterConn`, `Announce` |
| `NICK`, `JOIN`, `PART`, `KICK`, `KILL`, `QUIT`, `close` | `Rename`, `Join`, `Part`, `Kick`, `Kill`, `Quit`, `Close` |
| `dispatch` and the handlers it calls | `Deliver` with `NickArrives` (`NickCollides`, `RenameArrives`), `QuitArrives`, `JoinArrives`, `PartArrives`, `KickArrives`, `KillArrives`, `SquitArrives` |
| a lost connection, `OnClosed`, `HandleSquit` | `LinkDown`, `OnClosed`, `Squit` |
| redial, `sendBurst`, `RegisterLink` | `LinkUp`, `Burst`, `Register` |

A TS is the number of the registration, so equal TS mean one registration seen
twice. `spoilt` is a history variable: it becomes true when something happens
that the code has no remedy for (each `Spoil(...)` names its case), and
`Mirrored` claims agreement for the rest. `missed` is history too: the
registrations that lost a collision when `DropLocalUser` may pass their
connection over, because it was not in the registry yet or because another
connection of the nick on their node was still closing (`Missable`).
`NobodyForgotten` excepts these and `LosersAreTold` does not.

### Channel (`Channel.tla`, with `Glob.tla` and `SafeNames.tla`)

One '#' channel and its rows in the store. World folds names that differ in
case into one, while a row is found by its exact spelling: `Spelling` are the ways
to write the name, in the order of `List`. An object has the spelling of the JOIN
that made it (chosen in `Enter`, as no step before depends on it), `store` has a
row per spelling, and ChanServ finds the registration under its own spelling only.
One action is one access to the
channel: `Join`, `Door` (+i, exceptions and invitations), `Room` (+k and +l as
read at the start), `MatchesBan`, `MatchesException`, `Enter`; `CheckJoin`,
`KeepTopicLooks` and `KeepTopicSets` are ChanServ's part. `Mode` and `Topic`
change; `ReadModes` and `ReadRest` are the two readings of `persistChannel`, then
its `Upsert` and the announcement (`Tell`). `RemoteMode` and `RemoteTopic` are what peers send,
`SetOperator` ChanServ's OP and DEOP. `Restart` is a crash at any point and
`restorePersistentChannels`: the first row makes the object, and each row in turn
is restored into it, so the last stays. `Glob` has the masks (`globMatch`, the case
mappings), which the channel's lists are matched with; `SafeNames` the names of
"!" channels.

`shut` (the reasons that have kept a user out ever since its JOIN began) and
`told`, `loose`, `clean` (what the last announcement promised, and whether
changes overlapped) are history.

### Services (`Services.tla`)

The NickServ, ChanServ and MemoServ commands, authentication, the timers and
the HTTP operations on the same tables. `Deliver` runs on the goroutine of the
client that sent the message, so a command is one action per statement or
access to the world: `Register`, `CreateAccount`, `CreateOwner`; `Identify`,
`SetAccount`, `CancelEnforcement`; `Drop`, `DeleteAccount`, `DeleteNick`; and
so on. A timer is armed, fires (`Fire`), forgets its entry (`Forget`), looks
(`Look`) and renames (`RenameToGuest`). Deletions cascade as the schema of
`internal/storage/sqlite` says.

### Bots (`Bots.tla`)

`thread` is the program counter of each request and of the process's own
goroutine, `running` the supervisor's map, `inst` the instances ever made: their
user, hook, inbox, context and the place of their goroutine. `AddUser`,
`Compile`, `List` and `Launch` are `startBot`; `Unlist`, `Wait` and `Retire` are
`stopBot`; `Insert`, `Store` and `Erase` the record, which the store may refuse;
`Dispatch`, `HandlerEnds` and `LoopEnds` the loop; `Deliver` a message offered
to the inbox. Names fold to nicks (`Fold`), which clients, services and remote
users take and leave (`TakeNick`, `LeaveNick`); `held` has those. A script is
good, broken or endless at its top level, which has no deadline. `overlap`
remembers that two operations overlapped, `refused` the bots that are stored
but found their nick taken or were stopped for a deletion that failed.

### Events (`Events.tla`)

Producers (`emitAudit`, `Publish`), one worker per sink, the JSONL file with its
rotation and faults, the webhook with its attempts and dead-letter file,
`Close` in the order of shutdown, and crashes. A kill may fall between any two
of the removals and renames of a rotation (`Trimmed`, `Shifted`, `Cut`); `torn`
remembers one between two removals, which leaves older files behind a hole.
`offered` and `written` are history.

### Operators (`Codec.tla`, `Rings.tla`, `Delivery.tla`, `SafeNames.tla`, `Glob.tla`)

Code without state of its own, or with one lock around all of it, is modelled
by operators, and its properties are named assumptions that TLC evaluates over
all small inputs before the run that extends them:

| Operators | Code | Properties | Evaluated with |
|---|---|---|---|
| `Codec` | `protocol.Parse`, `Message.Bytes`, tags and escapes | `MCCodec`: `ReparseIsStable`, `BytesAreRead`, `EscapesAreUndone`, `MiddlesAreWords`, `TagIsRead` | `conn_register`, `conn_leave` |
| `Rings` | `logging.RingBuffer`, `botLogRing`, `state.Whowas` | `MCRings`: `SinceHolds`, `LookupHolds` | `events_bus` |
| `Delivery` | PRIVMSG, NOTICE, SQUERY, mask broadcasts, channel fan-out, NAMES | `MCDelivery`: `NoticeIsSilent`, `RefusedOrHeard`, `VoicesAreHeard`, `EchoNeedsMembership`, `QuietReachesNobody`, `NamesAreComplete` | `flood_bound` |
| `SafeNames` | `validChannelName`, `resolveSafeChannel`, `newSafeChannelID` | `MCSafeNames`: `FreshIsNew`, `ShortFindsIt` | `channel_policy` |
| `Glob` | `globMatch`, `CaseMapping.Fold` | `MCChannel`: `GlobMatchesMeaning`, `FoldIsCanonical` | `channel_policy` |

## Runs

Each run takes less than five minutes with two workers.

| Run | Shows | Instance |
|---|---|---|
| `world_safe` | `NickIndex`, `RegistrySpec`, `ClosedLeavesNothing`, `EmptyChannelIsServed`, `TypeOK` | two clients, a service and a link; three nicknames of which two are case variants; one standard channel, created at most twice |
| `world_live` | `OneCreator`, `OpsAreMembers`; `EmptyChannelGoes`, `CancelledCloses` under `FairSpec` | two clients, a standard and a safe channel, a service and a link that pick on one of them |
| `link_dial` | `UpIsRegistered`, `BurstIsSubscribed`, `BurstPrecedesEvents`, `TypeOK` | two connections to one peer in turn, queues of two messages, a client, a netsplit reported by the peer |
| `link_drain` | `ShutdownDrains` under `FairSpec` | the same without clients, a queue that does not overflow |
| `flood_bound` | `WindowBound`, `SteadyLosesNothing` | thirds of a second, burst 2, rate 2, three seconds |
| `conn_register` | `NothingPending`, `AddsOneUser`, `TypeOK` | any five of PASS, NICK, USER, SERVICE, CAP LS, CAP REQ, CAP END; queue of two; ping loop and one other goroutine |
| `conn_leave` | `ToldWhy`, `AskedBeforeTimeout`, `ComesToAnEnd` under `FairSpec` | three lines among registration, message, QUIT, flood, oversized, end of file; queue of two |
| `events_bus` | `EveryEventAccounted`, `LogKeepsNewest`, `InOrder`, `PanicsAreRecovered`, `CloseEnds` | a connection and an API request as producers, a log and a webhook in each combination, inbox of one, files of one event, "keep" 1 or 3, one disk fault, two starts |
| `bots_requests` | `OneLive`, `RunsWhatIsStored`, `OneAtATime`, `OperationsEnd` | one bot, two names, seven records, two requests at a time, two instances, a nick that others want, inbox of one |
| `federation_mesh` | `Mirrored`, `NobodyForgotten`, `MessagesEnd` | three nodes, two nicknames, three user actions or one of them and a lost link |
| `channel_policy` | `DoorsHold`, `AnnouncedHolds`, `TypeOK` | two users, one a founder and one without rights, one mask that matches by wildcard and case folding, a key, a topic, two objects and two spellings of the channel, five commands, one crash |
| `services_nicks` | `IdentityIsEarned`, `ImpostorsLeave`, `TypeOK` | two users, two nicknames, one of them registered, two timers, one memo, four commands |

**Why the bounds are enough.** The properties of World are about two parties
that disturb each other on one nick or channel: two clients, each of whom can be
the joiner, the leaver, the kicker or the one that closes, with a service and a link as third
and fourth party. A second object per name is what a stale drop needs. Channels
do not interact. In Connection five lines are what the longest minimal
registration needs (PASS, CAP LS, NICK, USER, CAP END), and a queue of two makes
it overflow before, at and after the ERROR. Link: two connections to a peer are
what a stale close needs; two messages let the burst itself overflow.
FloodControl: thirds of a second make refills that are no whole token.
Federation: the third node is what SQUIT can be relayed to and what an order
about another node's user can miss; three actions are a collision and what
crosses it. Channel: five commands are a change, a JOIN that began before it, and
a change that overlaps; a second object is what a handler with an old pointer
needs, and what a second spelling needs to leave a stale row (a TOPIC saved under one,
the last part, a JOIN and a MODE under the other, a restart). The mode changes are a
ban and +i in both directions, +e, +I, +k, +l and +o in one: an exception, a key or a
limit that is taken away leaves what was there before it came, and `DoorsHold`
speaks only of reasons that stood when the JOIN began. Services: a second timer is what replaces a fired one. Bots: with two
requests every pair of operations overlaps, and a hot reload needs two
instances. Events: one fault in a rotation and the start after it show what the
next rotation meets; three lines and a "keep" lowered from 3 to 1 are what a kill between two
removals needs, and six lines, four starts and "keep" 1 or 4, with the log alone, were checked too. Mutants in each module
(operators whose comment starts with "Mutant:") break every property within the same
bounds.

The bounds are named constants: `MaxObjects` (a JOIN that would need one more
Channel fails, like the JOIN of a user without a record), `Targets` (users a
service or a link may pick; all but in `world_live`), `MaxLinks`, `MaxLines`,
`MaxOutside`, `MaxTime`, `MaxOps`, `MaxCommands`, `MaxCrashes`, `MaxTimers`,
`MaxMemos`, `MaxInstances`, `Choices` (the records that come up), `Sought` (the
nicks others may take), `MaxEvents`, `MaxOffers`, `MaxFaults`, `MaxStarts`.
`MaxLines` and `MaxOutside` also carry meaning for
liveness: a connection that others never leave alone can keep its writer
draining for ever, so `ComesToAnEnd` is claimed for finite input only.
`ShutdownDrains` is claimed for queues that do not overflow, and
`UpIsRegistered` for a peer that is only dialled: for the rest see below.
Deadlock checking is off: a server in which everybody is gone has stopped.

**Fairness.** Go runs every runnable goroutine, so the steps a goroutine takes
by itself are weakly fair. Nothing is assumed of clients, peers, failures or
other connections' wishes. Strong fairness is used twice. `CloseConn`: a
cancelled reader may still find commands buffered, but the writer has closed the
socket and the buffer is finite. `RunStops`: Go's `select` picks at random among
ready cases, so a case that stays ready is taken in the end. In Connection time
passes (`Elapse`), which is what a silent client's timeout rests on. In
Federation a queue that is not empty is read (`Deliver`) and a connection told
to go closes; users owe nothing. In Services a command that has begun goes on
and a timer runs. In Bots the threads and the dispatch loops run, and a handler
ends because `callHandler` has a deadline; the top level of a script has none,
so `OperationsEnd` excepts an operation that waits for an endless one. In Events workers and `Close` run.

## Proofs

TLAPS checks these for all values of the constants, under the `ASSUME`s of the
modules, which are what configuration validation and the types guarantee, and
one thing about the other side: a peer sends SERVER, SVINFO and then its burst,
each handshake message once, as another ircat does (`StreamOrderAssumption` of
Link). Nothing is assumed beyond them.

| Theorem | Says | Rests on |
|---|---|---|
| `WorldProofs!TypeCorrect` | types, and each operation in progress has in hand what it goes on to use (`WellFormed`) | `TypeOK`, inductive |
| `WorldProofs!NickIndexCorrect` | `byNick` and `byID` agree | `IndexInv` = `TypeOK` and `NickIndex` and `NewHasNoRecord` |
| `WorldProofs!RegistryImplemented` | each step on the index is a step or a stutter of `NameRegistry` | `IndexInv` |
| `WorldProofs!EmptyChannelsAreServed` | an empty standard channel is always in the hands of a goroutine that fills or drops it | `EmptyInv` = `TypeOK` and `ObjectName` and the property |
| `WorldProofs!OperatorsAreMembers` | operators are members, creators are operators | `OpsInv` = `TypeOK` and the property |
| `WorldProofs!CreatorIsUnique` | an object has one creator at most | `FounderInv`: a new object has none, and one goroutine at most is about to become it |
| `WorldProofs!ClosedLeavesNothingHolds` | a closed connection has no record, no registration and no channel, whatever others did while `close` ran | `ClosingInv` = `TypeOK` and `FreshIsEmpty` and, per connection, `Stage` |
| `ConnectionProofs!BucketTypes`, `WindowBounded` | the window bound | `WindowInv`: passed and still available fit the bound together |
| `ConnectionProofs!SteadyServed` | a steady client loses nothing | `SteadyInv`: the last message left the bucket's time behind, or it is full |
| `ConnectionProofs!TypeCorrect` | types; the queue never exceeds its size | `TypeOK`, inductive |
| `ConnectionProofs!OneUserAdded` | one connection adds one user at most | `OneUserInv`: once added, the user is set or the reader is done |
| `ConnectionProofs!ToldWhyHolds` | an ERROR that encodes is written before the writer is done | `ToldInv`: whoever is about to cancel, or has been first to, has an ERROR queued, buffered or written |
| `ConnectionProofs!NothingPendingHolds` | every order of registration commands either completes or ends | `PendingInv` = `TypeOK` and: a complete registration has been acted on |
| `ConnectionProofs!AskedFirst` | if `Timeout >= Interval + Tick`: a ping timeout follows a PING | `AskedInv` = `TypeOK` and: a client not asked has been silent for less than the interval and the time since the last tick |
| `ChannelProofs!TypeCorrect` | types of the objects, the rows and the handlers; operators and voices are members, an object out of the table has no members; an INVITE, MODE or TOPIC under way has what it needs | `ShapeOK`, `RankInv` and `CountInv` |
| `ChannelProofs!DoorsHoldAlways` | nobody enters whom one reason (+i, +k, a ban) has kept out ever since the JOIN began | `DoorsInv` = `ShapeOK` and `Remembered` |
| `ChannelProofs!AnnouncedHoldsAlways` | what members were told survives a crash, unless changes overlapped or a row of a later spelling exists | `AnnouncedInv` = `WindowsOK` and `StoreOK` |
| `ChannelProofs!GlobFindsWhatMasksMean` | for every mask and every text without a star: `globMatch` finds a match exactly where the text can be cut into pieces as the mask says (`Means`) | `Finds`, for each turn of the loop |
| `ChannelProofs!FreshNamesAreNew`, `ShortNamesLead` | "!!short" makes a name and an identifier no listed channel has; "!short" leads to it, unless it starts with "!" or with an identifier that more characters follow | the parts of a concatenation (`NamedParts`) |
| `LinkProofs!TypeCorrect` | types; no send queue exceeds its size | `TypeInv` |
| `LinkProofs!BurstComesFirst` | a peer reads the handshake, then users, then channels, and only then events | `BurstInv` = `TypeInv` and, per link, `Tidy` |
| `LinkProofs!DialledIsRegistered`, `DialledIsSubscribed` | for a peer that is only dialled (`Inbound = {}`), a link that is up is registered, and subscribed to what it was sent | `DialInv` = `BurstInv` and `TurnInv` and, per link, `Entered` |
| `ServicesProofs!TablesAgree` | types of tables, sessions, handlers and timers; the rows refer to accounts and channels that exist, whatever was deleted between two statements; a command has the nickname, and past its check the row, that it goes on to use | `TablesInv` = `ShapeInv` (types, what each handler and timer has in hand) and `RefsOK` |
| `ServicesProofs!IdentityEarned` | a session has only an account whose password it gave itself, or for which another was identifying under the nick when the nick passed to it | `EarnedInv` = `TablesInv`, `NicksOK` (one session has a nick), per user `Vouches`, and the property |
| `BotsProofs!NeverTwice` | of the goroutines of a bot at most one has a context that is not cancelled | `LiveInv` = `TypeInv`, `OwnOK`, `LiveOK` |
| `BotsProofs!HandlersApart` | no handler runs beside the shutdown handler or in a closed Lua state, if no operations have overlapped | `ApartInv` = `TypeInv` and, while nothing has overlapped, at most one goroutine is busy (`Alone`) and instances keep to themselves (`Apart`) |
| `BotsProofs!WhatIsStoredRuns` | at rest, what runs is what is stored, if no operations have overlapped, the nick was free and no deletion failed halfway | `SerialInv` = `ApartInv` and `Serial` |
| `EventsProofs!NoPanicEscapes` | no connection sends on a closed inbox, only an API request can, whose panic is recovered | `GuardInv`: connections send only while the server runs, and inboxes close after |
| `EventsProofs!OrderIsKept` | each sink gets the events of a producer in their order, a log without repetition | `FlowInv` = `TypeInv`, `QuietOK` and, per sink, `SinkOK` |
| `EventsProofs!NothingGetsLost` | what was offered to a sink was dropped, waits, is in hand, or was settled, and each once | `FlowInv` |
| `EventsProofs!NewestAreKept` | the files of a log are the newest lines written, in order and without a hole, through rotations that fail or are killed and restarts with another "keep", unless a kill ever fell between two removals (`torn`) | `FlowInv` and `LogInv`: per log, numbers at which its files cut the lines (`Cuts`) |
| `EventsProofs!RingTellsTheRest`, `WhowasHoldsTheNewest` | after any number of entries, `Since` tells a reader exactly the kept entries it has not seen, and the WHOWAS buffer is the last entries recorded, newest first | `RingIs`, `WhowasIs`: the slot a step back stands for (`Back`) holds the entry that many steps back |
| `FederationProofs!MessagesFit` | the state and every message in flight have their types, through handlers that apply any of them to any world | `TypeInv`, inside `KeptInv` |
| `FederationProofs!NoClientForgotten` | a live connection has its record, or was told to go, or lost a collision before it was in the registry or while another of its nick was closing | `KeptInv` = `TypeInv` and, per connection, `Kept` |
| `FederationProofs!NodesAgree` | linked nodes know the same of each other's users when nothing is under way, if nothing spoilt it | `MirrorInv` = `KeptInv` and, unless `spoilt`, `Good` |

Why the strengthenings are needed. `NickIndex` alone is not inductive: `AddUser`
must know that a connection that is still new has no record under another nick.
`EmptyChannelIsServed` needs to know that an object a goroutine is about to
fill or recount carries the name the goroutine knows it by (`ObjectName`), or a
drop by name would be no service to that object. `OneCreator` must know who
still holds the `created` flag of `EnsureChannel` (`Founding`), because the
creator is entered a critical section later. `WindowBound` needs the
bucket's content: what was saved up before the window can be spent in it.
`ToldWhy` speaks of the end; the invariant follows the ERROR from the goroutine
that queues it through queue and buffer to the socket, and uses that the first
cancel decides the cause. `NothingPending` speaks of a reader at rest; between
two commands the invariant follows the handler that has completed a
registration until it has a user or a cause to end. `ClosedLeavesNothing`:
`close` works from a snapshot of channel names, and a name may go to another
object while it runs; `Stage` says that every channel that still lists the user
is in the snapshot, or being parted with that object in hand, and
`FreshIsEmpty` that the other object comes without the user. `DoorsHold`
compares a state with the beginning of a JOIN; `Remembered` says that the
reasons a handler remembers are still those of the channel in the table, and
that the ones it has looked for are gone. `AnnouncedHolds` speaks of a
crash; before it, at most one handler has its change to itself, what it has
read is what the object holds, the last row that a restart restores equals the last announcement until
an `Upsert` (`Back`), and handlers that overlapped do not end before they store. `globMatch` goes back to the
last star only; `Finds` says that from any turn of its loop it finds a match if the rest of the mask means the
rest of the text, or if the last star can take more. What an older star could take
adds nothing, since the pieces between two stars have the mask's length
(`PlainRest`), and the last star finds that too. The induction is on the stars left, on
what the last can still take and on the text left.
`BurstPrecedesEvents` speaks of one queue; `Tidy` says that what is on it is in order
and ranks no higher than the place of its link's run loop allows, and that the broadcast
path, which is other goroutines, finds no link that is still bursting.
`UpIsRegistered` is about a name and not about a connection. `TurnInv` says that
whoever is about to unregister a peer belongs to a connection of it that has
closed, and that a later connection starts when the earlier has ended, close
and all; it is false for accepted connections, and so is the property (see
below). `Entered` is the two properties with the steps between `Activate` and
`RegisterLink`, and between the JOIN of the burst and `BurstSubscribe`, taken
out. `AskedBeforeTimeout` is about a step; `AskedInv` says how far silence can
have gone when the ticker fires, and so that the tick between interval and
timeout, which the hypothesis provides, finds the client and asks. Validation
of the configuration does not provide it (see below).
`IdentityIsEarned` is about sessions, and its threat are
handlers that have verified a password and set the account of whoever holds the
nick by then; `Vouches` says what such a handler may still do. The references
of `RefsOK` rest on the cascades of the schema, and on what a handler read
being in the row only as long as the row is there (`HandsOK`). `OneLive`
needs that a bot's entry in the map is written and removed by whoever
made the instance (`OwnOK`). `RunsWhatIsStored` speaks of rest; `Serial` says,
step by step of the one operation in progress, how far the map, the row and the instances are
apart, and that a bot that is being started is not among the `refused`. `EveryEventAccounted` counts; the counts are equal because inbox,
hand and settled events are disjoint and all were offered (`WithinOK`,
`FreshOK`, `HandOK`, `GotOK`, `CountOK`), an event that comes again after a retry
included. `LogKeepsNewest` flattens the
files; `LogInv` says where each begins: there is a row of cuts, a file's size
apart, with each rotated file between two of them. The numbers of the files are 1 to N, or 1 to N + 1
without one of them where a rotation stopped; the renames of the next move
that gap down (`MovedFiles`), in an order in which no file meets another, and what falls off the end was
beyond what "keep" promises (`TrimAgain`). A `torn` log is left out of the theorem: what
`LogKeepsNewest` says of its files up to the hole is model-checked. `NobodyForgotten` needs that the registrations of a node's
connections differ, that only a connection's own steps and a lost
collision change its record, and that `DropLocalUser`, which takes one
registered connection of that nick, takes the loser's unless that is not registered or
there are two (`Missable`).
`Mirrored` speaks of empty queues; `Good` says what full ones amount to. In
`Calm` times, the messages from a to b, taken in their order, turn what b knows
of a's users into what they are: there is a row of views from the one to the
other, each made from the view before by one message (`Path`), so sending a message lengthens the row
by its last step, and delivering one takes its first step off. Nobody but one
node has claims to a nick (`OneOwner`), so messages of different nodes do not
touch; before a burst the peer knows of none (`Apart`), and the burst, which
names every user once and then every member, leads from there to all of them
(`BurstPath`). `AllSubscribed` says that a PART reaches whoever was told of the
JOIN. A KICK or KILL is the exception, since it speaks of another node's user:
while one is under way (`Kicking`, `Killing`) the views may differ about that
nick, and every node that still has it wrong has the order, or the QUIT it
causes, ahead of it; at its own node the nick's connection was told, or nobody
has heard of it yet (`Alone`). TLC checked `MirrorInv`, with a fold over the queue in the place of
the row of views, on the instance of `federation_mesh`.

Only model-checked are

* liveness (`EmptyChannelGoes`, `CancelledCloses`, `ShutdownDrains`,
  `ComesToAnEnd`, `MessagesEnd`, `ImpostorsLeave`, `OperationsEnd`, `CloseEnds`): the prover
  does not reach reasoning under fairness and ENABLED;
* `LogKeepsNewest` for a log that was torn;
* the assumptions about `Codec` and `Delivery`, `FoldIsCanonical`, and of `Rings`
  the choice of entries by a predicate (`Lookup`'s nickname, `BotSince`), over small
  inputs. NAMES packs its lines with a RECURSIVE operator, before which the prover
  gives up; no theorem speaks of the rest.

## Known disagreements

What a comment or document says, and what the code does instead. The first table
names the property that states the expectation and a configuration; put the
property in place of its INVARIANTS and PROPERTIES (drop SYMMETRY for an action
property), with the change given, and TLC prints an interleaving. The first four
configurations and `Federation_collide.cfg` serve for nothing else.

| Property | Configuration | What happens |
|---|---|---|
| `MemberIsListed` | `World_orphan.cfg` | a join lands between the recount and the drop of a part: the joiner sits in an object `byChannel` no longer holds |
| `SendNeverBlocks` | `Link_wedge.cfg` | a broadcast whose queue is full closes the link and waits for `fedMu.Lock` behind its own read lock; every other broadcast then waits too |
| `CapsAreSafe` | `Connection_caps.cfg` | `CAP REQ` of a registered client writes a map that `send` reads on other goroutines |
| `OverflowIsTold` | `Connection_sendq.cfg` | the client whose queue overflows gets no `ERROR :SendQ exceeded`, which `docs/ARCHITECTURE.md` promises |
| `ToldWhy`, with "unsayable" among `Spoken` | `Connection_leave.cfg` | the ERROR of a QUIT or kill whose reason does not encode is logged and dropped: the client is cut without a word |
| `LimitRespected` | `World_orphan.cfg` | two joiners pass +l before either has joined; `handler_channels.go` says it re-checks after the join |
| `EmptySafeChannelIsServed` | `World_live.cfg` | -r is applied after its sender's last part: an empty safe channel without +r stays |
| `DroppedUserIsCancelled` | `World_safe.cfg` | a collision hits a user between `AddUser` and `registerConn`: the record goes, the connection stays |
| `UpIsRegistered` | `Link_dial.cfg`, `Inbound = {2}` | the late close of an older connection unregisters its successor by name |
| `RegisteredIsAlive` | `Link_dial.cfg` | a link closed during its burst is set Active and registered afterwards |
| `EveryoneIsTold` | `Link_dial.cfg` | a user who registers between the burst and `RegisterLink` is never announced to the peer |
| `JoinIsSubscribed` | `Link_dial.cfg` | a JOIN reads the peers before `RegisterLink` and is forwarded after it: the peer is told but not subscribed |
| `SquitLeavesNobody` | `Link_dial.cfg` | a NICK dispatched after `Close` outlives the netsplit cleanup; so do users of a peer lost again within `squitSeenTTL` |
| `ReturningUserLives` | `Link_dial.cfg` | a user who returns with its peer collides, at equal timestamp, with its own stale record and is killed |
| `LosersAreTold` | `Federation_collide.cfg` | `DropLocalUser` cancels some connection of the nick that is in the registry: none if the collision falls between `AddUser` and `registerConn`, possibly one that is already closing after a second collision. The loser keeps its connection and has no record |
| `AskedBeforeTimeout` | `Connection_leave.cfg`, `Interval = 8`, `Timeout = 9` | ticks two seconds apart step over the one second between interval and timeout: no PING precedes the timeout |


The later modules describe the code as it is, and their properties name what
they except. What they had to except:

* **Federation** (each is a `Spoil(...)` of the module, after which `Mirrored`
  claims nothing)
  * The KILL that answers a losing NICK names the nick. If the loser's node has
    already replaced its user by the winner, it removes the winner
    (`federation.go:732`).
  * Equal TS kill both users; the comment at `federation.go:655` says the
    existing record is kept, and `docs/FEDERATION.md:45` speaks of user@host,
    which the code does not compare.
  * A change between the snapshot of a burst and `RegisterLink` reaches nobody.
  * KICK and KILL are not relayed, and a KICK that crosses a PART or JOIN leaves the
    nodes with different members; a JOIN carries no TS, so two nodes that create
    a channel at once each have an operator.
  * A SQUIT relayed by a third node drops users of a node that is still linked;
    a second netsplit within `squitSeenTTL` leaves ghosts.
  * A late QUIT of a collision's loser removes the winner elsewhere, and so does a
    QUIT that is under way when its nick is taken again.
  * SQUIT by an operator closes no link (`handler_fed_verbs.go:73`). The
    documents speak of a spanning tree; the code forwards only to its own
    peers, so the mesh must be full. A PRIVMSG to a remote nick is not routed.
* **Channel**
  * `joinOne` looks at the policy once, although its comment says it
    looks again after the join (`handler_channels.go:93`); +l is compared with a limit read
    before that. `DoorsHold` therefore speaks of what has held ever since the
    JOIN began.
  * Overlapping changes read and store in any order; the older reading may stay
    (`persistence.go:46`). A failed `Upsert` is logged and not repeated. Changes
    by peers, and the topic KEEPTOPIC brings back, are not stored.
  * Rows are keyed by the exact spelling of a name (`persistence.go:49`), channels
    by the folded one. A channel dropped and made anew in another case leaves its
    old row; a restart restores every row into one object in the order of their
    bytes, so the older one may undo what was announced since. `AnnouncedHolds`
    excepts this; without the exception TLC finds it within the bounds.
  * A channel that emptied keeps its row and returns after a restart; a restored
    channel has no operator until it empties, and with +i lets nobody in.
  * `ResetMembershipFlags` takes the creator's flag, which "cannot be removed by anyone".
  * `globMatch` compares literally before it looks for a star: a star in the
    text uses up a star of the mask.
* **Services**
  * IDENTIFY sets the account of whoever holds the nick once the password has
    been verified; any account counts as identified for any nick.
  * A timer acts on the nick and not on the user: it can rename a later
    holder, and deletes the entry of a newer timer, which RELEASE then cannot
    stop. A failed rename to a guest name is not tried again. Nicks added by
    GROUP are not guarded.
  * REGISTER may create the account and fail to store its primary nick; DROP then
    never deletes the account. GROUP and REGISTER can give a nick two owners.
    DROP leaves the account on the sessions, and a new registration revives it.
    An account with memos or a channel cannot be dropped (references without
    CASCADE).
  * ChanServ SET and the API's PUT read, change and write the row, so that one undoes
    the other, a change of founder included.
  * `docs/SERVICES.md` has ChanServ REGISTER require an operator, and SQUERYs
    processed one by one; the code does neither. A mode a service sets and a nick it
    forces are not sent to peers.
* **Bots**
  * A bot started by a request lives in the request's context and is cancelled
    with it. Update beside Delete leaves a running bot without a record. A
    start and a stop can miss each other between the listing and the goroutine.
    A bot whose nick a client holds is stored, enabled and not running, and
    nothing starts it later (`supervisor.go:186`); a deletion whose store fails
    leaves a stopped bot that is enabled (`supervisor.go:167`). A script with an
    endless top level hangs the request or the boot (`runtime.go:235`).
    A stopped bot's channels keep it; `Stop` runs no handler; `docs/BOTS.md`
    has an `on_tick`, the code none.
* **Events**
  * The files beyond a lowered "keep" are removed newest first; a kill between two
    removals leaves older files behind a hole (`jsonl.go:125`).
  * A webhook with `max_attempts` n is tried n + 1 times.
* **Operators**
  * A member hears its own line under echo-message, a speaker who is not a member
    does not (`handler_message.go:173`).
  * A short name that looks like an identifier creates the channel instead of
    answering 403 (`handler_channels.go:78`); a "!!" name may exceed
    `ChannelLength` by the four letters it gains.

## What is not modelled

* MODE, TOPIC, ranks and SERVICE between nodes: a node applies them as they
  come, and every conflict leaves the nodes different, so there is no
  agreement to check. What they do to one channel is in Channel (`RemoteMode`,
  `RemoteTopic`).
* The AUTHENTICATE exchange is a conversation of one goroutine with local
  state; its outcome is in Services. User modes, AWAY and WALLOPS change flags that no
  other step depends on.
* WHO, WHOIS, LIST, STATS, INFO, HELP and their like read and print.
* SQL drivers: the atomicity they give is the database's. The Lua interpreter,
  TLS and password hashing are libraries; what a script does is a choice.
* Dashboard pages and the API's request handling are presentation over the
  components above; the YAML parser and the checks of configuration are string
  work with one result, and reload swaps sections that nothing reads together.
  `cmd/ircat` is wiring, except the supervisor of links, which is in Link.
* Data races that Go leaves undefined on plain strings (`quitReason`, `Nick`):
  the models have no torn value. `quitReason` is written by whoever kills a
  client while its own QUIT may write it (`federation.go:100`); `DropLocalUser`
  reads `Nick` under another lock than `RenameUser` writes it.
* Order of what one client sees beyond the ERROR: others may address it between
  `registerConn` and its welcome (`welcome.go:82`).

## Plan

Done: every component with state of its own has a module, and World, Connection,
FloodControl, Channel, Link, Services, Bots, Events and Federation have their
proofs, in eight modules.

Left, in this order:

1. An abstract link as a module that Link implements and Federation uses
   (`BurstPrecedesEvents` as its promise), so that closing and bursting there
   are one refinement.
2. Channel with two channels, for what JOIN 0 and a netsplit do to several at once.

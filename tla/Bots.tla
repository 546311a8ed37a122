-------------------------------- MODULE Bots --------------------------------
(***************************************************************************)
(* The bot supervisor of internal/bots with the requests of the admin API  *)
(* and of the dashboard that drive it.                                     *)
(*                                                                         *)
(* A bot is a stored record and, while it runs, an instance: a user in the *)
(* world, a delivery hook in the server, a Lua state and a goroutine that  *)
(* runs the script's handlers one after another.  Requests create, change  *)
(* and delete bots, each on its own goroutine; the supervisor's mutex only *)
(* covers the map of running bots.  "main" is the goroutine of the process *)
(* that starts the stored bots and stops them all at the end.              *)
(*                                                                         *)
(* A context is a flag: an instance is cancelled by whoever stops it, and  *)
(* with the context it was derived from, which for a bot started by a      *)
(* request is the request's own.  Lua code is a handler that runs and then *)
(* ends: the deadline of callHandler and the cancelled context see to      *)
(* that.  The top level of a script has no deadline, and an endless one    *)
(* never ends.  What a message says, what a handler does to channels, and  *)
(* what others do to a bot's user (KILL, a collision) is left out.         *)
(***************************************************************************)
EXTENDS Integers, Sequences, FiniteSets

CONSTANTS Bots,          \* bot ids
          Names,         \* names of bots, which become their nicks
          Fold,          \* the key of a name in the nick table of the world
          Choices,       \* bound: the records that come up
          Sought,        \* bound: the nicks that others may take
          Requests,      \* requests of the API and the dashboard
          None,          \* no record, no instance
          InboxSize,     \* depth of a session's inbox
          MaxInstances   \* bound: instances prepared or about to be;
                         \* at most one deletion at a time

Threads == Requests \cup {"main"}
Instance == 1..MaxInstances
Nicks == {Fold[n] : n \in Names}

\* What NewRuntime makes of a source: it runs its top level, which may fail or
\* never end.
Scripts == {"good", "broken", "endless"}
\* storage.Bot
Record == [name : Names, script : Scripts, enabled : BOOLEAN, rev : Threads]

ASSUME BotsAssumption ==
  /\ None \notin Bots \cup Record \cup Nat /\ "main" \notin Requests
  /\ Choices \subseteq Record /\ Sought \subseteq Nicks
  /\ Fold \in [Names -> Nicks] /\ InboxSize \in Nat \ {0}
  /\ MaxInstances \in Nat /\ IsFiniteSet(Bots) /\ Cardinality(Bots) <= MaxInstances

VARIABLES
  phase,    \* "boot", "up", "stopping", "down" or "crashed"
  stored,   \* the bots table
  born,     \* ids ever given out
  thread,   \* each goroutine's place in its operation
  running,  \* Supervisor.running
  inst,     \* the instances
  made,     \* how many instances were prepared
  held,     \* nicks that clients, services and remote users have
  overlap,  \* history: two operations were under way at once
  refused   \* history: bots whose record stands although their last start met a
            \* taken nick or their row could not be deleted

others == <<held, overlap>>
vars == <<phase, stored, born, thread, running, inst, made, others, refused>>

Idle == [at |-> "idle", op |-> "none", bot |-> None, rec |-> None,
         own |-> None, todo |-> {}]
NoInstance ==
  [bot |-> None, rec |-> None, parent |-> None, user |-> FALSE, hook |-> FALSE,
   cancelled |-> FALSE, closed |-> FALSE, closing |-> FALSE,
   at |-> "none", inbox |-> 0]

\* The process starts with the bots of an earlier life in its store.
Init ==
  /\ phase = "boot"
  /\ stored \in [Bots -> {None} \cup {r \in Choices : r.rev = "main"}]
  /\ \A a, b \in Bots : a # b /\ stored[a] # None /\ stored[b] # None
                          => stored[a].name # stored[b].name
  /\ born = {b \in Bots : stored[b] # None}
  /\ thread = [t \in Threads |->
       IF t = "main"
       THEN [Idle EXCEPT !.at = "next", !.op = "boot",
                         !.todo = {b \in born : stored[b].enabled}]
       ELSE Idle]
  /\ running = [b \in Bots |-> None]
  /\ inst = [i \in Instance |-> NoInstance]
  /\ made = 0 /\ held = {} /\ overlap = FALSE /\ refused = {}

Alive == phase \in {"boot", "up", "stopping"}
Go(t, place) == thread' = [thread EXCEPT ![t].at = place]
\* The nick table is one for all users, and folds: a nick may be another bot's,
\* one that is being prepared included, or somebody else's.
NickTaken(n) ==
  \/ Fold[n] \in held
  \/ \E i \in Instance : inst[i].user /\ Fold[inst[i].rec.name] = Fold[n]
  \/ \E u \in Threads : thread[u].at = "compile" /\ Fold[thread[u].rec.name] = Fold[n]

\* The end of an operation: a request's context is cancelled with it, and so
\* are the contexts derived from it.
Ended(t, instances) ==
  [i \in Instance |-> IF t # "main" /\ instances[i].parent = t
                      THEN [instances[i] EXCEPT !.cancelled = TRUE]
                      ELSE instances[i]]
Return(t, instances) ==
  IF t = "main"
  THEN Go(t, "next") /\ inst' = instances
  ELSE /\ thread' = [thread EXCEPT ![t] = Idle]
       /\ inst' = Ended(t, instances)

-----------------------------------------------------------------------------
(* Requests begin. *)

\* Operations that may prepare an instance.
Changing == {u \in Requests : thread[u].rec # None}

Begin(t, op, b, r, place) ==
  /\ phase = "up" /\ thread[t] = Idle /\ r \in Choices \cup {None}
  /\ IF op = "delete" THEN \A u \in Requests : thread[u].op # "delete"
                      ELSE made + Cardinality(Changing) < MaxInstances
  /\ thread' = [thread EXCEPT ![t] =
                  [Idle EXCEPT !.at = place, !.op = op, !.bot = b, !.rec = r]]
  /\ overlap' = (overlap \/ \E u \in Threads \ {t} : thread[u] # Idle)
  /\ UNCHANGED <<phase, stored, born, running, inst, made, held, refused>>

\* handleCreateBot and handleBotsCreate: a new record under a new id.
RequestCreate(t, b, r) ==
  b \notin born /\ r.rev = t /\ Begin(t, "create", b, r, "insert")

\* handleUpdateBot replaces the whole record.
RequestUpdate(t, b, r) ==
  b \in born /\ r.rev = t /\ Begin(t, "update", b, r, "store")

\* handleBotSourcePost and handleBotTogglePost read the record, change one
\* field of their copy and hand the copy to UpdateBot.  A source that does
\* not parse is refused here.
RequestSource(t, b) ==
  /\ stored[b] # None
  /\ \E g \in Scripts :
       Begin(t, "update", b, [stored[b] EXCEPT !.script = g, !.rev = t], "store")
RequestToggle(t, b) ==
  /\ stored[b] # None
  /\ Begin(t, "update", b, [stored[b] EXCEPT !.enabled = ~@, !.rev = t], "store")

\* handleDeleteBot and handleBotDelete.
RequestDelete(t, b) == b \in born /\ Begin(t, "delete", b, None, "unlist")

-----------------------------------------------------------------------------
(* The store. *)

NameFree(b, n) == \A a \in Bots \ {b} : stored[a] # None => stored[a].name # n

\* CreateBot: insert the row, then start the bot if it is enabled.  The store
\* may fail, as in all of these.
Insert(t) ==
  /\ thread[t].at = "insert"
  /\ LET b == thread[t].bot
         r == thread[t].rec
     IN /\ born' = born \cup {b}
        /\ \/ /\ b \notin born /\ NameFree(b, r.name)
              /\ stored' = [stored EXCEPT ![b] = r]
              /\ IF r.enabled THEN Go(t, "prepare") /\ inst' = inst ELSE Return(t, inst)
           \/ stored' = stored /\ Return(t, inst)
  /\ UNCHANGED <<phase, running, made, others, refused>>

\* UpdateBot: the row is changed first; no row, or a name in use, is an error.
Store(t) ==
  /\ thread[t].at = "store"
  /\ LET b == thread[t].bot
         r == thread[t].rec
     IN \/ /\ stored[b] # None /\ NameFree(b, r.name)
           /\ stored' = [stored EXCEPT ![b] = r] /\ refused' = refused \ {b}
           /\ Go(t, "unlist") /\ inst' = inst
        \/ UNCHANGED <<stored, refused>> /\ Return(t, inst)
  /\ UNCHANGED <<phase, born, running, made, others>>

\* DeleteBot: the row goes last.
Erase(t) ==
  /\ thread[t].at = "erase"
  /\ LET b == thread[t].bot IN
     \/ stored' = [stored EXCEPT ![b] = None] /\ refused' = refused
     \/ stored' = stored /\ refused' = refused \cup {b}
  /\ Return(t, inst)
  /\ UNCHANGED <<phase, born, running, made, others>>

-----------------------------------------------------------------------------
(* startBot. *)

\* A new user for the bot, unless somebody has the nick.
AddUser(t) ==
  /\ thread[t].at = "prepare"
  /\ IF NickTaken(thread[t].rec.name)
     THEN Return(t, inst) /\ refused' = refused \cup {thread[t].bot}
     ELSE Go(t, "compile") /\ inst' = inst /\ refused' = refused
  /\ UNCHANGED <<phase, stored, born, running, made, others>>

\* The instance startBot prepares for t.
Prepared(t) ==
  [NoInstance EXCEPT !.bot = thread[t].bot, !.rec = thread[t].rec, !.parent = t,
                     !.user = TRUE, !.at = "made"]

\* Mutant: Compile that leaves the user of a failing script in the world.
CompileLeaving(t) ==
  /\ thread[t].at = "compile" /\ thread[t].rec.script # "endless"
  /\ made' = made + 1
  /\ IF thread[t].rec.script = "good"
     THEN /\ inst' = [inst EXCEPT ![made + 1] = Prepared(t)]
          /\ thread' = [thread EXCEPT ![t].at = "list", ![t].own = made + 1]
     ELSE Return(t, [inst EXCEPT ![made + 1] = Prepared(t)])
  /\ UNCHANGED <<phase, stored, born, running, others, refused>>

\* NewRuntime runs the top level of the script.  One that fails ends the
\* operation and leaves no user; one that does not end is waited for, since
\* only callHandler sets a deadline.
Compile(t) ==
  /\ thread[t].at = "compile" /\ thread[t].rec.script # "endless"
  /\ IF thread[t].rec.script = "good"
     THEN /\ made' = made + 1
          /\ inst' = [inst EXCEPT ![made + 1] = Prepared(t)]
          /\ thread' = [thread EXCEPT ![t].at = "list", ![t].own = made + 1]
     ELSE Return(t, inst) /\ made' = made
  /\ UNCHANGED <<phase, stored, born, running, others, refused>>

\* Mutant: List without the check for a handle that is listed.
ListBlindly(t) ==
  /\ thread[t].at = "list"
  /\ running' = [running EXCEPT ![thread[t].bot] = thread[t].own]
  /\ Go(t, "launch") /\ inst' = inst
  /\ UNCHANGED <<phase, stored, born, made, others, refused>>

\* Under the mutex: the handle is listed, unless one is listed already; then
\* that one is cancelled, and the new user stays behind.
List(t) ==
  /\ thread[t].at = "list"
  /\ LET b == thread[t].bot
         prev == running[b]
     IN IF prev # None
        THEN /\ Return(t, [inst EXCEPT ![prev].cancelled = TRUE])
             /\ running' = running
        ELSE /\ running' = [running EXCEPT ![b] = thread[t].own]
             /\ Go(t, "launch") /\ inst' = inst
  /\ UNCHANGED <<phase, stored, born, made, others, refused>>

\* OnBotStart registers the hook, and the instance's goroutine starts.
Launch(t) ==
  /\ thread[t].at = "launch"
  /\ inst' = [inst EXCEPT ![thread[t].own].hook = TRUE,
                          ![thread[t].own].at = "init"]
  /\ Go(t, "reply")
  /\ UNCHANGED <<phase, stored, born, running, made, others, refused>>

\* The handler writes its answer and returns; main goes on with the next bot.
Reply(t) ==
  /\ thread[t].at = "reply"
  /\ Return(t, inst)
  /\ UNCHANGED <<phase, stored, born, running, made, others, refused>>

-----------------------------------------------------------------------------
(* stopBot. *)

\* What follows stopBot in each operation.
Proceed(t, instances) ==
  IF thread[t].op = "delete" \/ (thread[t].op = "update" /\ thread[t].rec.enabled)
  THEN /\ thread' = [thread EXCEPT ![t].own = None,
            ![t].at = IF thread[t].op = "delete" THEN "erase" ELSE "prepare"]
       /\ inst' = instances
  ELSE Return(t, instances)

\* Take the handle off the map, unregister its hook and cancel it.
Unlist(t) ==
  /\ thread[t].at = "unlist"
  /\ LET b == thread[t].bot
         i == running[b]
     IN IF i = None
        THEN Proceed(t, inst) /\ running' = running
        ELSE /\ running' = [running EXCEPT ![b] = None]
             /\ inst' = [inst EXCEPT ![i].hook = FALSE, ![i].cancelled = TRUE]
             /\ thread' = [thread EXCEPT ![t].at = "wait", ![t].own = i]
  /\ UNCHANGED <<phase, stored, born, made, others, refused>>

\* Mutant: stopBot without wg.Wait.
WaitNot(t) ==
  /\ thread[t].at = "wait"
  /\ inst' = [inst EXCEPT ![thread[t].own].closing = TRUE]
  /\ Go(t, "close")
  /\ UNCHANGED <<phase, stored, born, running, made, others, refused>>

\* wg.Wait: the goroutine has ended, or was not added to the group yet.  Then
\* the shutdown handler runs on this goroutine.
Wait(t) ==
  /\ thread[t].at = "wait" /\ inst[thread[t].own].at \in {"made", "ended"}
  /\ inst' = [inst EXCEPT ![thread[t].own].closing = TRUE]
  /\ Go(t, "close")
  /\ UNCHANGED <<phase, stored, born, running, made, others, refused>>

\* The Lua state is closed and the user leaves the world; the channels it had
\* joined keep it.  Nobody uses its record any more.
Retire(t) ==
  /\ thread[t].at = "close"
  /\ Proceed(t, [inst EXCEPT ![thread[t].own].closed = TRUE,
                             ![thread[t].own].closing = FALSE,
                             ![thread[t].own].user = FALSE,
                             ![thread[t].own].rec = None])
  /\ UNCHANGED <<phase, stored, born, running, made, others, refused>>

-----------------------------------------------------------------------------
(* The main goroutine. *)

\* Start: the next enabled bot of the list, each as it was stored.
StartNext ==
  /\ phase = "boot" /\ thread["main"].at = "next" /\ thread["main"].todo # {}
  /\ \E b \in thread["main"].todo :
       thread' = [thread EXCEPT !["main"].at = "prepare", !["main"].bot = b,
                                !["main"].rec = stored[b], !["main"].todo = @ \ {b}]
  /\ UNCHANGED <<phase, stored, born, running, inst, made, others, refused>>

\* The server and its API serve requests.
Ready ==
  /\ phase = "boot" /\ thread["main"].at = "next" /\ thread["main"].todo = {}
  /\ phase' = "up" /\ thread' = [thread EXCEPT !["main"] = Idle]
  /\ UNCHANGED <<stored, born, running, inst, made, others, refused>>

\* Stop: the whole map is taken, every handle of it cancelled.  A request that
\* outlived the five seconds of its server may still be under way.
StopAll ==
  /\ phase = "up"
  /\ LET all == {running[b] : b \in Bots} \ {None} IN
     /\ inst' = [i \in Instance |-> IF i \in all \/ inst[i].parent = "main"
                                    THEN [inst[i] EXCEPT !.cancelled = TRUE] ELSE inst[i]]
     /\ thread' = [thread EXCEPT !["main"] = [Idle EXCEPT !.at = "next", !.op = "stop",
                                                          !.todo = all]]
  /\ running' = [b \in Bots |-> None]
  /\ phase' = "stopping"
  /\ overlap' = (overlap \/ \E t \in Requests : thread[t] # Idle)
  /\ UNCHANGED <<stored, born, made, held, refused>>

\* Stop, for each handle: wait, run the shutdown handler, close, remove.
StopNext ==
  /\ phase = "stopping" /\ thread["main"].at = "next"
  /\ IF thread["main"].todo = {}
     THEN phase' = "down" /\ thread' = thread
     ELSE /\ phase' = phase
          /\ \E i \in thread["main"].todo :
               thread' = [thread EXCEPT !["main"].at = "wait", !["main"].own = i,
                                        !["main"].todo = @ \ {i}]
  /\ UNCHANGED <<stored, born, running, inst, made, others, refused>>

-----------------------------------------------------------------------------
(* Other users of the world: NICK, a registration, a burst, a QUIT. *)

TakeNick(n) ==
  /\ n \notin held /\ \A m \in Names : Fold[m] = n => ~NickTaken(m)
  /\ held' = held \cup {n}
  /\ UNCHANGED <<phase, stored, born, thread, running, inst, made, overlap, refused>>

LeaveNick(n) ==
  /\ n \in held
  /\ held' = held \ {n}
  /\ UNCHANGED <<phase, stored, born, thread, running, inst, made, overlap, refused>>

-----------------------------------------------------------------------------
(* The instance's goroutine and the server's broadcasts. *)

\* Session.Deliver: a broadcast reaches the hook; a full inbox drops it, and
\* nobody reads what comes after the loop has ended.
Deliver(i) ==
  /\ inst[i].hook /\ inst[i].at # "ended" /\ inst[i].inbox < InboxSize
  /\ inst' = [inst EXCEPT ![i].inbox = @ + 1]
  /\ UNCHANGED <<phase, stored, born, thread, running, made, others, refused>>

\* callHandler begins: for init, or for the next message; select may choose a
\* message although the context is cancelled.  A closed Lua state is nil, and
\* using it ends the process.
Dispatch(i) ==
  /\ \/ inst[i].at = "init" /\ inst' = [inst EXCEPT ![i].at = "handler"]
     \/ /\ inst[i].at = "select" /\ inst[i].inbox > 0
        /\ inst' = [inst EXCEPT ![i].at = "handler", ![i].inbox = @ - 1]
  /\ phase' = IF inst[i].closed THEN "crashed" ELSE phase
  /\ UNCHANGED <<stored, born, thread, running, made, others, refused>>

\* The handler returns.
HandlerEnds(i) ==
  /\ inst[i].at = "handler"
  /\ inst' = [inst EXCEPT ![i].at = "select"]
  /\ UNCHANGED <<phase, stored, born, thread, running, made, others, refused>>

\* Mutant: A dispatch loop that ends only with an empty inbox.
LoopEndsEmpty(i) ==
  /\ inst[i].at = "select" /\ inst[i].cancelled /\ inst[i].inbox = 0
  /\ inst' = [inst EXCEPT ![i].at = "ended"]
  /\ UNCHANGED <<phase, stored, born, thread, running, made, others, refused>>

\* runDispatchLoop sees that the context is done; what is in the inbox is lost.
LoopEnds(i) ==
  /\ inst[i].at = "select" /\ inst[i].cancelled
  /\ inst' = [inst EXCEPT ![i].at = "ended", ![i].inbox = 0]
  /\ UNCHANGED <<phase, stored, born, thread, running, made, others, refused>>

Step(t) ==
  /\ Alive
  /\ \/ Insert(t) \/ Store(t) \/ Erase(t) \/ AddUser(t) \/ Compile(t) \/ List(t)
     \/ Launch(t) \/ Reply(t) \/ Unlist(t) \/ Wait(t) \/ Retire(t)
Run(i) == Alive /\ (Dispatch(i) \/ HandlerEnds(i) \/ LoopEnds(i))
Main == StartNext \/ Ready \/ StopNext

Next ==
  \/ \E t \in Requests, b \in Bots :
       \/ \E r \in Choices : RequestCreate(t, b, r) \/ RequestUpdate(t, b, r)
       \/ RequestSource(t, b) \/ RequestToggle(t, b) \/ RequestDelete(t, b)
  \/ \E t \in Threads : Step(t)
  \/ \E i \in Instance : Run(i) \/ (Alive /\ Deliver(i))
  \/ \E n \in Sought : phase \in {"up", "stopping"} /\ (TakeNick(n) \/ LeaveNick(n))
  \/ Main \/ StopAll

\* A goroutine that can run does run, a handler ends within its deadline, and
\* select does not pass over the same ready case for ever.
Fairness ==
  /\ \A t \in Requests : WF_vars(Step(t))
  /\ WF_vars(Step("main") \/ Main)
  /\ \A i \in Instance : WF_vars(Run(i)) /\ SF_vars(Alive /\ LoopEnds(i))

Spec == Init /\ [][Next]_vars /\ Fairness

-----------------------------------------------------------------------------
(* Properties. *)

Runs(i) == inst[i].at \in {"init", "handler", "select"}

\* Whatever requests overlap, a bot's scripts never answer twice: of the
\* goroutines of one bot at most one has a context that is not cancelled
\* (startBot's check for a listed handle under the mutex).
OneLive ==
  \A i, j \in Instance :
    /\ Runs(i) /\ ~inst[i].cancelled /\ inst[i].bot = inst[j].bot
    /\ Runs(j) /\ ~inst[j].cancelled
    => i = j

\* As long as operations did not overlap: between two of them what runs is what
\* is stored.  What is listed is an enabled bot as last stored, every enabled bot
\* with a good script is listed, and of all instances only listed ones keep a
\* user, a hook or an open Lua state (CreateBot, UpdateBot and DeleteBot put back
\* all they took).  The exceptions are in refused: a bot that found its nick taken
\* is stored, enabled and not running, and so is one that was stopped to be
\* deleted when its row could not be.
RunsWhatIsStored ==
  phase = "up" /\ ~overlap /\ (\A t \in Threads : thread[t] = Idle) =>
    /\ \A b \in Bots :
         LET wanted == stored[b] # None /\ stored[b].enabled /\ stored[b].script = "good"
         IN IF wanted /\ b \notin refused
            THEN running[b] # None /\ inst[running[b]].rec = stored[b]
            ELSE running[b] = None
    /\ \A i \in Instance :
         LET listed == running[inst[i].bot] = i IN
         i <= made => (inst[i].user <=> listed) /\ (inst[i].hook <=> listed)
                       /\ (listed \/ inst[i].closed)

\* As long as operations did not overlap, "the runtime never sees concurrent
\* dispatches" (supervisor.go:349-350): no handler runs while another goroutine
\* runs the shutdown handler or after the Lua state is closed.
OneAtATime ==
  ~overlap =>
    /\ phase # "crashed"
    /\ \A i \in Instance : inst[i].closing \/ inst[i].closed => ~Runs(i)

\* stopBot waits for the bot's goroutine and Stop for all of them; every
\* operation ends all the same (the context cuts the dispatch loop short, the
\* deadline of callHandler the handler), unless it starts a script whose own top
\* level never ends.
OperationsEnd ==
  \A t \in Threads :
    []<>(\/ thread[t] = Idle \/ phase \in {"down", "crashed"}
         \/ thread[t].at = "compile" /\ thread[t].rec.script = "endless")
=============================================================================

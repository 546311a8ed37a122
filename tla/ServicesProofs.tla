--------------------------- MODULE ServicesProofs ---------------------------
(***************************************************************************)
(* The tables of the services under any interleaving of commands, timers   *)
(* and requests of an administrator: the references between them hold, and *)
(* a session has only an account that somebody gave the password of under  *)
(* its nickname.                                                           *)
(***************************************************************************)
EXTENDS Services, TLAPS

SessOK == sess \in [Users -> Session]
TaskOK == task \in [Users -> Task]
RowsOK ==
  /\ accounts \in [Nicks -> Users \cup {None}]
  /\ owners \in [Nicks -> Ownership \cup {None}]
  /\ channel \in Row \cup {None} /\ access \in SUBSET Nicks /\ admin \in Row \cup {None}
  /\ memos \in [Memos -> Memo \cup {None}] /\ sent \in 0..MaxMemos
ClockOK ==
  /\ pending \in [Names -> Timers \cup {0}] /\ timer \in [Timers -> Clocks]
  /\ spent \in 0..MaxCommands
TypeInv == SessOK /\ TaskOK /\ RowsOK /\ ClockOK

\* The references between the tables.
RefsOK ==
  /\ \A n \in Nicks : owners[n] # None => Exists(owners[n].account)
  /\ channel # None => Exists(channel.founder)
  /\ access # {} => channel # None
  /\ \A n \in access : Exists(n)
  /\ \A m \in Memos : memos[m] # None => Exists(memos[m].from) /\ Exists(memos[m].to)

\* A handler has in hand what its place needs.
InHand(t) ==
  /\ t.at = "channel" => t.row \in Row
  /\ t.at # "idle" => t.nick \in Names
HandsOK == \A u \in Users : InHand(task[u])

\* A timer that runs has a nickname.
TimersOK == \A t \in Timers : timer[t].at # "off" => timer[t].nick \in Names

ShapeInv == TypeInv /\ HandsOK /\ TimersOK
TablesInv == ShapeInv /\ RefsOK

\* One session has a nickname.
NicksOK == \A u, v \in Users : sess[u].nick # None /\ Holds(v, sess[u].nick) => u = v

\* Who identifies vouches for whoever took the nickname over since the command
\* was sent; once the password was verified, for itself.
Vouches(u) ==
  /\ task[u].at = "set" => task[u].op = "IDENTIFY" /\ task[u].target \in sess[u].proven
  /\ task[u].op = "IDENTIFY" =>
       \A v \in Users \ {u} : Holds(v, task[u].nick) => task[u].target \in sess[v].lent
  /\ task[u].op = "IDENTIFY" => task[u].at # "idle"

EarnedInv == TablesInv /\ NicksOK /\ (\A u \in Users : Vouches(u)) /\ IdentityIsEarned

-----------------------------------------------------------------------------
(* Sessions, handlers and timers keep their types. *)

LEMMA OfflineShape == Offline \in Session /\ Idle \in Task /\ Off \in Clocks
BY DEF Offline, Session, Idle, Task, Place, Off, Clocks

\* A handler that ends or goes on.
LEMMA DoneShape ==
  ASSUME TaskOK, HandsOK, NEW u \in Users, Done(u)
  PROVE  TaskOK' /\ HandsOK'
<1>1. TaskOK'
  BY OfflineShape DEF TaskOK, Done
<1>2. InHand(Idle)
  BY DEF InHand, Idle
<1> QED BY <1>1, <1>2 DEF TaskOK, HandsOK, Done

LEMMA GoShape ==
  ASSUME TaskOK, HandsOK, NEW u \in Users, NEW p \in Place \ {"channel"}, Go(u, p),
         task[u].at # "idle"
  PROVE  TaskOK' /\ HandsOK'
<1>1. [task[u] EXCEPT !.at = p] \in Task /\ InHand([task[u] EXCEPT !.at = p])
  BY DEF TaskOK, HandsOK, InHand, Task
<1>2. task' = [task EXCEPT ![u] = [task[u] EXCEPT !.at = p]]
  BY DEF Go
<1> QED BY <1>1, <1>2 DEF TaskOK, HandsOK

LEMMA SameTasks ==
  ASSUME TaskOK, HandsOK, UNCHANGED task PROVE TaskOK' /\ HandsOK'
BY DEF TaskOK, HandsOK

\* A new handler.
LEMMA StartShape ==
  ASSUME TaskOK, HandsOK, NEW u \in Users, NEW t \in Task, InHand(t),
         task' = [task EXCEPT ![u] = t]
  PROVE  TaskOK' /\ HandsOK'
BY DEF TaskOK, HandsOK

\* Sessions whose fields change one by one.
LEMMA NamedShape ==
  ASSUME TypeInv, NEW u \in Users, NEW n \in Names
  PROVE  /\ Named(u, n) \in [Users -> Session]
         /\ \A v \in Users : v # u => Named(u, n)[v] = sess[v]
         /\ Named(u, n)[u] =
              [sess[u] EXCEPT !.nick = n, !.warned = FALSE,
                 !.lent = @ \cup {task[v].target : v \in
                    {w \in Users \ {u} : task[w].op = "IDENTIFY" /\ task[w].nick = n}}]
<1> DEFINE more == {task[v].target : v \in
              {w \in Users \ {u} : task[w].op = "IDENTIFY" /\ task[w].nick = n}}
           s == [sess[u] EXCEPT !.nick = n, !.warned = FALSE, !.lent = @ \cup more]
<1>1. more \subseteq Nicks \cup {None}
  BY DEF TypeInv, TaskOK, Task
<1>2. Named(u, n) = [sess EXCEPT ![u] = s]
  BY DEF Named, TypeInv, SessOK
<1> HIDE DEF more
<1>3. s \in Session
  BY <1>1 DEF TypeInv, SessOK, Session
<1> QED BY <1>2, <1>3 DEF more, TypeInv, SessOK

LEMMA CancelShape ==
  ASSUME TypeInv, NEW n, Cancel(n, sess)
  PROVE  /\ SessOK' /\ pending' \in [Names -> Timers \cup {0}] /\ timer' \in [Timers -> Clocks]
         /\ \A v \in Users : sess'[v] = sess[v] \/ sess'[v] = [sess[v] EXCEPT !.warned = FALSE]
<1>1. SessOK' /\ \A v \in Users : sess'[v] = sess[v] \/ sess'[v] = [sess[v] EXCEPT !.warned = FALSE]
  <2>1. sess \in [Users -> Session]
    BY DEF TypeInv, SessOK
  <2>2. \A v \in Users : [sess[v] EXCEPT !.warned = FALSE] \in Session
    BY <2>1 DEF Session
  <2>3. sess' = [v \in Users |-> IF Holds(v, n) THEN [sess[v] EXCEPT !.warned = FALSE] ELSE sess[v]]
    BY DEF Cancel
  <2> QED BY <2>1, <2>2, <2>3 DEF SessOK
<1>2. CASE UNCHANGED Clock
  BY <1>1, <1>2 DEF Clock, TypeInv, ClockOK
<1>3. CASE /\ pending' = [pending EXCEPT ![n] = 0]
           /\ timer' = [timer EXCEPT ![pending[n]] = IF @.at = "armed" THEN Off ELSE @]
  BY <1>1, <1>3, OfflineShape DEF TypeInv, ClockOK
<1> QED BY <1>2, <1>3, <1>1 DEF Cancel

LEMMA TimerShape ==
  ASSUME ShapeInv, NEW n, Cancel(n, sess)
  PROVE  TimersOK'
BY DEF Cancel, Clock, TimersOK, ShapeInv, TypeInv, ClockOK, Off

\* The rows that stay and the clock that stands still keep their types.
LEMMA SameRows == RowsOK /\ UNCHANGED Db => RowsOK'
BY DEF RowsOK, Db, Registration
LEMMA SameClock ==
  ClockOK /\ TimersOK /\ UNCHANGED Clock /\ (spent' = spent \/ Spend) => ClockOK' /\ TimersOK'
BY ServicesAssumption DEF ClockOK, TimersOK, Clock, Spend
LEMMA SameRefs == RefsOK /\ UNCHANGED Db => RefsOK'
BY DEF RefsOK, Db, Registration, Exists

\* Handlers that only look: the next step is all that changes.
Looks(u) ==
  \/ Sender(u) \/ Register(u) \/ Group(u) \/ Drop(u) \/ Ghost(u) \/ Release(u)
  \/ ChanCheck(u) \/ MemoLooks(u)
LEMMA LooksShape ==
  ASSUME ShapeInv, NEW u \in Users, Looks(u)
  PROVE  ShapeInv' /\ UNCHANGED <<sess, Db, Clock, spent>>
<1>1. UNCHANGED <<sess, Db, Clock, spent>>
  BY DEF Looks, Sender, Register, Group, Drop, Ghost, Release, ChanCheck, MemoLooks
<1>2. TaskOK /\ HandsOK /\ SessOK /\ RowsOK /\ ClockOK /\ TimersOK
  BY DEF ShapeInv, TypeInv
<1>3. TaskOK' /\ HandsOK'
  <2>1. CASE Sender(u)
    <3> DEFINE t == [task[u] EXCEPT !.at = "run", !.account = task'[u].account]
    <3>1. task'[u].account \in Nicks \cup {None}
      BY <1>2, <2>1 DEF Sender, TaskOK, SessOK, Session
    <3>2. task' = [task EXCEPT ![u] = t]
      BY <1>2, <2>1 DEF Sender, TaskOK, Task
    <3>3. t \in Task /\ InHand(t)
      BY <1>2, <2>1, <3>1 DEF Sender, At, TaskOK, HandsOK, InHand, Task, Place
    <3> QED BY <1>2, <3>2, <3>3, StartShape
  <2>2. CASE ChanCheck(u)
    <3>1. CASE Done(u)
      BY <1>2, <3>1, DoneShape
    <3>2. CASE /\ channel # None
               /\ task' = [task EXCEPT ![u].at = "channel", ![u].row = channel]
      <4> DEFINE t == [task[u] EXCEPT !.at = "channel", !.row = channel]
      <4>1. t \in Task /\ InHand(t)
        BY <1>2, <2>2, <3>2 DEF ChanCheck, At, TaskOK, HandsOK, InHand, Task, Place, RowsOK
      <4>2. task' = [task EXCEPT ![u] = t]
        BY <1>2, <3>2 DEF TaskOK
      <4> QED BY <1>2, <4>1, <4>2, StartShape
    <3> QED BY <2>2, <3>1, <3>2 DEF ChanCheck
  <2>3. CASE Register(u) \/ Group(u) \/ Drop(u) \/ Ghost(u) \/ Release(u) \/ MemoLooks(u)
    <3>1. task[u].at = "run"
      BY <2>3 DEF Register, Group, Drop, Ghost, Release, MemoLooks, On, At
    <3>2. Done(u) \/ \E p \in Place \ {"channel"} : Go(u, p)
      BY <2>3 DEF Register, Group, Drop, Ghost, Release, MemoLooks, DoneIf, Place
    <3> QED BY <1>2, <3>1, <3>2, DoneShape, GoShape
  <2> QED BY <2>1, <2>2, <2>3 DEF Looks
<1>4. SessOK' /\ RowsOK' /\ ClockOK' /\ TimersOK'
  BY <1>1, <1>2, SameRows, SameClock DEF SessOK
<1> QED BY <1>1, <1>3, <1>4 DEF ShapeInv, TypeInv

\* Handlers and users that change sessions or the clock.
LEMMA UserShape ==
  ASSUME ShapeInv, NEW u \in Users,
         \/ \E n \in Names : Nick(u, n)
         \/ \E n \in Nicks : Authenticate(u, n)
         \/ \E op \in Ops \cup OpsOnNick, n \in Nicks \cup {None} : Send(u, op, n)
         \/ Disconnect(u)
  PROVE  ShapeInv' /\ UNCHANGED Db
<1>0. TaskOK /\ HandsOK /\ SessOK /\ RowsOK /\ ClockOK /\ TimersOK
  BY DEF ShapeInv, TypeInv
<1>1. ASSUME NEW n \in Names, Nick(u, n) PROVE ShapeInv' /\ UNCHANGED Db
  <2> DEFINE t == [Idle EXCEPT !.at = "check", !.nick = n]
  <2>1. t \in Task /\ InHand(t)
    BY DEF Idle, Task, Place, InHand
  <2>2. TaskOK' /\ HandsOK'
    BY <1>0, <1>1, <2>1, StartShape DEF Nick
  <2>3. SessOK'
    BY <1>1, NamedShape DEF Nick, SessOK, ShapeInv
  <2> QED BY <1>0, <1>1, <2>2, <2>3, SameRows, SameClock DEF Nick, ShapeInv, TypeInv
<1>2. ASSUME NEW n \in Nicks, Authenticate(u, n) PROVE ShapeInv' /\ UNCHANGED Db
  <2>1. SessOK'
    BY <1>0, <1>2 DEF Authenticate, SessOK, Session
  <2> QED BY <1>0, <1>2, <2>1, SameTasks, SameRows, SameClock DEF Authenticate, ShapeInv, TypeInv
<1>3. ASSUME NEW op \in Ops \cup OpsOnNick, NEW n \in Nicks \cup {None}, Send(u, op, n)
      PROVE ShapeInv' /\ UNCHANGED Db
  <2> DEFINE t == [Idle EXCEPT !.at = "sender", !.op = op, !.nick = sess[u].nick, !.target = n]
  <2>1. sess[u].nick \in Names
    BY <1>0, <1>3 DEF Send, SessOK, Session
  <2>2. t \in Task /\ InHand(t)
    BY <2>1 DEF Idle, Task, Place, InHand
  <2>3. TaskOK' /\ HandsOK'
    BY <1>0, <1>3, <2>2, StartShape DEF Send
  <2> QED BY <1>0, <1>3, <2>3, SameRows, SameClock DEF Send, ShapeInv, TypeInv, SessOK
<1>4. CASE Disconnect(u)
  <2>1. SessOK'
    BY <1>0, <1>4, OfflineShape DEF Disconnect, SessOK
  <2> QED BY <1>0, <1>4, <2>1, SameTasks, SameRows, SameClock DEF Disconnect, ShapeInv, TypeInv
<1> QED BY <1>1, <1>2, <1>3, <1>4

LEMMA SessionShape ==
  ASSUME ShapeInv, NEW u \in Users,
         CheckNick(u) \/ Identify(u) \/ SetAccount(u) \/ CancelEnforcement(u) \/ DisconnectNick(u)
  PROVE  ShapeInv' /\ UNCHANGED Db
<1>0. TaskOK /\ HandsOK /\ SessOK /\ RowsOK /\ ClockOK /\ TimersOK /\ TypeInv
  BY DEF ShapeInv, TypeInv
<1>1. CASE CheckNick(u)
  <2>1. TaskOK' /\ HandsOK' /\ RowsOK' /\ spent' = spent /\ UNCHANGED Db
    BY <1>0, <1>1, DoneShape, SameRows DEF CheckNick
  <2>2. task[u].nick \in Names
    BY <1>0, <1>1 DEF CheckNick, At, HandsOK, InHand
  <2>3. CASE Cancel(task[u].nick, sess)
    BY <1>0, <2>1, <2>3, CancelShape, TimerShape DEF ShapeInv, TypeInv, ClockOK
  <2>4. CASE UNCHANGED <<sess, Clock>>
    BY <1>0, <2>1, <2>4, SameClock DEF ShapeInv, TypeInv, SessOK
  <2>5. ASSUME NEW t \in Timers,
               pending' = [pending EXCEPT ![task[u].nick] = t],
               timer' = [s \in Timers |->
                    IF s = t THEN [at |-> "armed", nick |-> task[u].nick]
                    ELSE IF s = pending[task[u].nick] /\ timer[s].at = "armed" THEN Off
                    ELSE timer[s]],
               sess' = [sess EXCEPT ![u].warned = Holds(u, task[u].nick)]
        PROVE  SessOK' /\ ClockOK' /\ TimersOK'
    <3>0. PICK b \in BOOLEAN : sess' = [sess EXCEPT ![u].warned = b]
      BY <2>5, Holds(u, task[u].nick) \in BOOLEAN DEF Holds
    <3>1. SessOK'
      BY <1>0, <3>0 DEF SessOK, Session
    <3>2. [at |-> "armed", nick |-> task[u].nick] \in Clocks
      BY <2>2 DEF Clocks
    <3>3. ClockOK'
      BY <1>0, <2>1, <2>2, <2>5, <3>2, OfflineShape DEF ClockOK
    <3>4. TimersOK'
      BY <1>0, <2>2, <2>5 DEF TimersOK, Off
    <3> QED BY <3>1, <3>3, <3>4
  <2> QED BY <1>1, <2>1, <2>3, <2>4, <2>5 DEF CheckNick, ShapeInv, TypeInv
<1>2. CASE Identify(u)
  <2>1. task[u].at = "run" /\ task[u].target \in Nicks \cup {None}
    BY <1>0, <1>2 DEF Identify, On, At, TaskOK, Task
  <2>2. TaskOK' /\ HandsOK'
    BY <1>0, <1>2, <2>1, DoneShape, GoShape DEF Identify, Place
  <2>3. SessOK'
    BY <1>0, <1>2, <2>1 DEF Identify, SessOK, Session
  <2> QED BY <1>0, <1>2, <2>2, <2>3, SameRows, SameClock DEF Identify, ShapeInv, TypeInv
<1>3. CASE SetAccount(u)
  <2>1. task[u].at = "set" /\ task[u].target \in Nicks \cup {None}
    BY <1>0, <1>3 DEF SetAccount, At, TaskOK, Task
  <2>2. TaskOK' /\ HandsOK'
    BY <1>0, <1>3, <2>1, GoShape DEF SetAccount, Place
  <2>3. SessOK'
    BY <1>0, <1>3, <2>1 DEF SetAccount, SessOK, Session
  <2> QED BY <1>0, <1>3, <2>2, <2>3, SameRows, SameClock DEF SetAccount, ShapeInv, TypeInv
<1>4. CASE CancelEnforcement(u)
  <2>1. TaskOK' /\ HandsOK' /\ RowsOK' /\ spent' = spent /\ UNCHANGED Db
    BY <1>0, <1>4, DoneShape, SameRows DEF CancelEnforcement
  <2>2. PICK n : Cancel(n, sess)
    BY <1>4 DEF CancelEnforcement
  <2> QED BY <1>0, <2>1, <2>2, CancelShape, TimerShape DEF ShapeInv, TypeInv, ClockOK
<1>5. CASE DisconnectNick(u)
  <2>1. TaskOK' /\ HandsOK'
    BY <1>0, <1>5, DoneShape DEF DisconnectNick
  <2>2. SessOK'
    <3>1. \A v \in Users : [sess[v] EXCEPT !.dead = TRUE] \in Session
      BY <1>0 DEF SessOK, Session
    <3>2. sess' = [v \in Users |-> IF Holds(v, task[u].target)
                    THEN [sess[v] EXCEPT !.dead = TRUE] ELSE sess[v]]
      BY <1>5 DEF DisconnectNick
    <3> QED BY <1>0, <3>1, <3>2 DEF SessOK
  <2> QED BY <1>0, <1>5, <2>1, <2>2, SameRows, SameClock DEF DisconnectNick, ShapeInv, TypeInv
<1> QED BY <1>1, <1>2, <1>3, <1>4, <1>5

LEMMA EnforceShape ==
  ASSUME ShapeInv, NEW t \in Timers, Enforce(t)
  PROVE  ShapeInv' /\ UNCHANGED <<task, Db>>
<1>0. TaskOK /\ HandsOK /\ SessOK /\ RowsOK /\ ClockOK /\ TimersOK /\ TypeInv
  BY DEF ShapeInv, TypeInv
<1>1. UNCHANGED <<task, Db, spent>>
  BY DEF Enforce, Fire, Forget, Look, RenameToGuest
<1>2. /\ timer' \in [Timers -> Clocks] /\ TimersOK'
      /\ pending' \in [Names -> Timers \cup {0}]
  <2>1. timer' = [timer EXCEPT ![t] = Off] \/
        \E p \in {"fired", "look", "rename"} :
          timer[t].at # "off" /\ timer' = [timer EXCEPT ![t] = [timer[t] EXCEPT !.at = p]]
    BY <1>0 DEF Enforce, Fire, Forget, Look, RenameToGuest, ClockOK
  <2>2. timer' \in [Timers -> Clocks] /\ TimersOK'
    BY <1>0, <2>1, OfflineShape DEF ClockOK, Clocks, TimersOK, Off
  <2>3. pending' \in [Names -> Timers \cup {0}]
    BY <1>0 DEF Enforce, Fire, Forget, Look, RenameToGuest, ClockOK
  <2> QED BY <2>2, <2>3
<1>3. SessOK'
  <2>1. CASE UNCHANGED sess
    BY <1>0, <2>1 DEF SessOK
  <2>2. ASSUME NEW g \in Guests, RenameToGuest(t, g) PROVE SessOK'
    <3>1. \A u \in Users : Named(u, g)[u] \in Session
      BY <1>0, NamedShape DEF Names
    <3>2. \A u \in Users : [sess[u] EXCEPT !.warned = FALSE] \in Session
      BY <1>0 DEF SessOK, Session
    <3>3. sess' = [u \in Users |->
                    IF ~Holds(u, timer[t].nick) THEN sess[u]
                    ELSE IF Taken(g) THEN [sess[u] EXCEPT !.warned = FALSE]
                    ELSE Named(u, g)[u]]
      BY <2>2 DEF RenameToGuest
    <3> QED BY <1>0, <3>1, <3>2, <3>3 DEF SessOK
  <2> QED BY <2>1, <2>2 DEF Enforce, Fire, Forget, Look
<1> QED BY <1>0, <1>1, <1>2, <1>3, SameTasks, SameRows DEF ShapeInv, TypeInv, ClockOK

-----------------------------------------------------------------------------
(* The tables.  An account that is referred to exists, so nothing may be    *)
(* entered without it, and it may not go without what refers to it.         *)

\* Accounts are only added to, so that what exists still does.
LEMMA InsertRefs ==
  ASSUME RowsOK, RefsOK, NEW n \in Nicks, NEW u \in Users, Insert(n, u),
         UNCHANGED <<owners, channel, access, admin, memos, sent>>
  PROVE  RowsOK' /\ RefsOK'
<1>1. accounts' \in [Nicks -> Users \cup {None}]
  BY DEF RowsOK, Insert
<1>2. \A m : Exists(m) => Exists(m)'
  BY ServicesAssumption DEF Exists, Insert, RowsOK
<1> QED BY <1>1, <1>2 DEF RowsOK, RefsOK

LEMMA OwnRefs ==
  ASSUME RowsOK, RefsOK, NEW n, NEW a, NEW b \in BOOLEAN, Own(n, a, b),
         UNCHANGED <<accounts, channel, access, admin, memos, sent>>
  PROVE  RowsOK' /\ RefsOK'
<1>1. RowsOK'
  BY DEF RowsOK, Own, Exists, Ownership
<1>2. \A m \in Nicks : owners'[m] # None => Exists(owners'[m].account)
  BY DEF RowsOK, RefsOK, Own
<1> QED BY <1>1, <1>2 DEF RefsOK, Exists

LEMMA DeleteRefs ==
  ASSUME RowsOK, RefsOK, NEW n, Delete(n), UNCHANGED <<channel, admin, memos, sent>>
  PROVE  RowsOK' /\ RefsOK'
<1>1. CASE Referred(n)
  BY <1>1 DEF Delete, RowsOK, RefsOK, Exists
<1>2. CASE ~ Referred(n)
  <2>1. /\ accounts' = [accounts EXCEPT ![n] = None]
        /\ owners' = [m \in Nicks |-> IF owners[m] # None /\ owners[m].account = n
                                      THEN None ELSE owners[m]]
        /\ access' = access \ {n}
    BY <1>2 DEF Delete
  <2>2. RowsOK'
    BY <2>1 DEF RowsOK
  <2>3. \A m : m # n /\ Exists(m) => Exists(m)'
    BY <2>1 DEF Exists, RowsOK
  <2>4. channel # None => channel.founder # n
    BY <1>2 DEF Referred
  <2>5. \A m \in Memos : memos[m] # None => memos[m].from # n /\ memos[m].to # n
    BY <1>2 DEF Referred
  <2> QED BY <2>1, <2>2, <2>3, <2>4, <2>5 DEF RowsOK, RefsOK
<1> QED BY <1>1, <1>2

LEMMA DeleteNickRefs ==
  ASSUME RowsOK, RefsOK, NEW n, owners' = [owners EXCEPT ![n] = None],
         UNCHANGED <<accounts, channel, access, admin, memos, sent>>
  PROVE  RowsOK' /\ RefsOK'
BY DEF RowsOK, RefsOK, Exists

LEMMA CreateRowRefs ==
  ASSUME RowsOK, RefsOK, NEW f, NEW b \in BOOLEAN,
         channel' = CreateRow(f) \/ (channel = None /\ Exists(f) /\
                                     channel' = [CreateRow(f) EXCEPT !.guard = b]),
         UNCHANGED <<accounts, owners, access, admin, memos, sent>>
  PROVE  RowsOK' /\ RefsOK'
<1>1. \/ channel' = channel
      \/ channel = None /\ Exists(f) /\ channel' \in [founder : {f}, guard : BOOLEAN]
  <2>1. CASE channel = None /\ Exists(f)
    <3>1. CreateRow(f) = [founder |-> f, guard |-> TRUE]
      BY <2>1 DEF CreateRow
    <3>2. [CreateRow(f) EXCEPT !.guard = b] = [founder |-> f, guard |-> b]
      BY <3>1
    <3>3. \E g \in BOOLEAN : channel' = [founder |-> f, guard |-> g]
      BY <3>1, <3>2
    <3> QED BY <2>1, <3>3
  <2>2. CASE ~ (channel = None /\ Exists(f))
    BY <2>2 DEF CreateRow
  <2> QED BY <2>1, <2>2
<1>2. RowsOK'
  BY <1>1 DEF RowsOK, Row, Exists
<1> QED BY <1>1, <1>2 DEF RefsOK, Exists, RowsOK

LEMMA UpdateRowRefs ==
  ASSUME RowsOK, RefsOK, NEW row \in Row, channel' = UpdateRow(row),
         admin' \in Row \cup {None}, UNCHANGED <<accounts, owners, access, memos, sent>>
  PROVE  RowsOK' /\ RefsOK'
BY ServicesAssumption DEF RowsOK, RefsOK, Exists, UpdateRow

LEMMA DeleteRowRefs ==
  ASSUME RowsOK, RefsOK, DeleteRow, UNCHANGED <<accounts, owners, admin, memos, sent>>
  PROVE  RowsOK' /\ RefsOK'
BY DEF RowsOK, RefsOK, Exists, DeleteRow

LEMMA AccessRefs ==
  ASSUME RowsOK, RefsOK, UNCHANGED <<accounts, owners, channel, admin, memos, sent>>,
         NEW n, access' = access \ {n} \/ (channel # None /\ Exists(n) /\ access' = access \cup {n})
  PROVE  RowsOK' /\ RefsOK'
BY DEF RowsOK, RefsOK, Exists

\* A memo is entered between accounts that exist, or is read, or goes.
LEMMA MemoRefs ==
  ASSUME RowsOK, RefsOK, UNCHANGED <<accounts, owners, channel, access, admin>>,
         sent' \in 0..MaxMemos,
         DOMAIN memos' = Memos, memos' = [m \in Memos |-> memos'[m]],
         \A m \in Memos :
            \/ memos'[m] \in {None, memos[m]}
            \/ memos[m] # None /\ memos'[m] = [memos[m] EXCEPT !.read = TRUE]
            \/ \E f, t : Exists(f) /\ Exists(t) /\ memos'[m] = [from |-> f, to |-> t, read |-> FALSE]
  PROVE  RowsOK' /\ RefsOK'
<1>1. ASSUME NEW m \in Memos
      PROVE  /\ memos'[m] \in Memo \cup {None}
             /\ memos'[m] # None => Exists(memos'[m].from) /\ Exists(memos'[m].to)
  <2>1. CASE memos'[m] \in {None, memos[m]}
    BY <2>1 DEF RowsOK, RefsOK
  <2>2. CASE memos[m] # None /\ memos'[m] = [memos[m] EXCEPT !.read = TRUE]
    <3>1. memos[m] \in Memo /\ Exists(memos[m].from) /\ Exists(memos[m].to)
      BY <2>2 DEF RowsOK, RefsOK
    <3>2. memos'[m] \in Memo /\ memos'[m].from = memos[m].from /\ memos'[m].to = memos[m].to
      BY <2>2, <3>1 DEF Memo
    <3> QED BY <3>1, <3>2
  <2>3. ASSUME NEW f, NEW t, Exists(f), Exists(t), memos'[m] = [from |-> f, to |-> t, read |-> FALSE]
        PROVE  memos'[m] \in Memo /\ Exists(memos'[m].from) /\ Exists(memos'[m].to)
    BY <2>3 DEF Memo, Exists
  <2> QED BY <2>1, <2>2, <2>3
<1>2. RowsOK'
  BY <1>1 DEF RowsOK
<1> QED BY <1>1, <1>2 DEF RefsOK, Exists

\* Handlers that write the tables.
Writes(u) ==
  \/ CreateAccount(u) \/ CreateOwner(u) \/ CreateGroup(u) \/ DeleteAccount(u) \/ DeleteNick(u)
  \/ ChanRegister(u) \/ ChanDrop(u) \/ ChanSet(u)
  \/ MemoSend(u) \/ MemoRead(u) \/ MemoDelete(u) \/ MemoPurge(u)

LEMMA WritesShape ==
  ASSUME ShapeInv, NEW u \in Users, Writes(u)
  PROVE  ShapeInv' <=> RowsOK'
<1>0. TaskOK /\ HandsOK /\ SessOK /\ RowsOK /\ ClockOK /\ TimersOK
  BY DEF ShapeInv, TypeInv
<1>1. UNCHANGED <<sess, Clock, spent>>
  BY DEF Writes, CreateAccount, CreateOwner, CreateGroup, DeleteAccount, DeleteNick,
         ChanRegister, ChanDrop, ChanSet, MemoSend, MemoRead, MemoDelete, MemoPurge
<1>2. Done(u) \/ (Go(u, "own") /\ task[u].at = "create")
  BY DEF Writes, CreateAccount, CreateOwner, CreateGroup, DeleteAccount, DeleteNick, At,
         ChanRegister, ChanDrop, ChanSet, MemoSend, MemoRead, MemoDelete, MemoPurge
<1>3. TaskOK' /\ HandsOK'
  BY <1>0, <1>2, DoneShape, GoShape DEF Place
<1> QED BY <1>0, <1>1, <1>3, SameClock DEF ShapeInv, TypeInv, SessOK

LEMMA WritesRefs ==
  ASSUME ShapeInv, RefsOK, NEW u \in Users, Writes(u)
  PROVE  RowsOK' /\ RefsOK'
<1>0. TaskOK /\ HandsOK /\ RowsOK
  BY DEF ShapeInv, TypeInv
<1>1. task[u] \in Task /\ InHand(task[u])
  BY <1>0 DEF TaskOK, HandsOK
<1>2. CASE CreateAccount(u)
  <2>1. CASE Exists(task[u].nick)
    BY <1>0, <1>2, <2>1, SameRefs, SameRows DEF CreateAccount, Db, Registration
  <2>2. CASE Insert(task[u].nick, u)
    <3>1. CASE task[u].nick \in Nicks
      BY <1>0, <1>2, <2>2, <3>1, InsertRefs DEF CreateAccount, Registration
    <3>2. CASE task[u].nick \notin Nicks
      <4>1. accounts' = accounts
        BY <1>0, <2>2, <3>2 DEF Insert, RowsOK
      <4> QED BY <1>0, <1>2, <4>1, SameRefs, SameRows DEF CreateAccount, Db, Registration
    <3> QED BY <3>1, <3>2
  <2> QED BY <1>2, <2>1, <2>2 DEF CreateAccount
<1>3. CASE CreateOwner(u) \/ CreateGroup(u)
  BY <1>0, <1>3, OwnRefs DEF CreateOwner, CreateGroup, Registration
<1>4. CASE DeleteAccount(u)
  BY <1>0, <1>4, DeleteRefs DEF DeleteAccount
<1>5. CASE DeleteNick(u)
  BY <1>0, <1>5, DeleteNickRefs DEF DeleteNick, Registration
<1>6. CASE ChanRegister(u)
  BY <1>0, <1>6, CreateRowRefs DEF ChanRegister
<1>7. CASE ChanDrop(u)
  BY <1>0, <1>7, DeleteRowRefs DEF ChanDrop
<1>8. CASE ChanSet(u)
  <2>1. PICK on \in BOOLEAN : channel' = UpdateRow([task[u].row EXCEPT !.guard = on])
    BY <1>8 DEF ChanSet
  <2>2. [task[u].row EXCEPT !.guard = on] \in Row
    BY <1>1, <1>8 DEF ChanSet, At, InHand, Row
  <2> QED BY <1>0, <1>8, <2>1, <2>2, UpdateRowRefs DEF ChanSet, RowsOK
<1>9. CASE MemoSend(u)
  <2>1. sent' \in 0..MaxMemos
    BY <1>0, <1>9, ServicesAssumption DEF MemoSend, RowsOK
  <2>2. CASE Exists(task[u].account) /\ Exists(task[u].target)
    <3>1. memos' = [memos EXCEPT ![sent + 1] =
                      [from |-> task[u].account, to |-> task[u].target, read |-> FALSE]]
      BY <1>9, <2>2 DEF MemoSend
    <3> QED BY <1>0, <1>9, <2>1, <2>2, <3>1, MemoRefs DEF MemoSend, Registration, RowsOK
  <2>3. CASE memos' = memos
    BY <1>0, <1>9, <2>1, <2>3, MemoRefs DEF MemoSend, Registration, RowsOK
  <2> QED BY <1>9, <2>2, <2>3 DEF MemoSend
<1>10. CASE MemoRead(u)
  <2>1. PICK m \in Memos : memos' = IF Mine(u, m) THEN [memos EXCEPT ![m].read = TRUE] ELSE memos
    BY <1>10 DEF MemoRead
  <2>2. CASE Mine(u, m)
    <3>1. memos' = [memos EXCEPT ![m] = [memos[m] EXCEPT !.read = TRUE]] /\ memos[m] # None
      BY <2>1, <2>2 DEF Mine
    <3> QED BY <1>0, <1>10, <3>1, MemoRefs DEF MemoRead, Registration, RowsOK
  <2>3. CASE memos' = memos
    BY <1>0, <1>10, <2>3, MemoRefs DEF MemoRead, Registration, RowsOK
  <2> QED BY <2>1, <2>2, <2>3
<1>11. CASE MemoDelete(u)
  <2>1. PICK m \in Memos : memos' = IF Mine(u, m) THEN [memos EXCEPT ![m] = None] ELSE memos
    BY <1>11 DEF MemoDelete
  <2> QED BY <1>0, <1>11, <2>1, MemoRefs DEF MemoDelete, Registration, RowsOK
<1>12. CASE MemoPurge(u)
  BY <1>0, <1>12, MemoRefs DEF MemoPurge, Registration, RowsOK
<1> QED BY <1>2, <1>3, <1>4, <1>5, <1>6, <1>7, <1>8, <1>9, <1>10, <1>11, <1>12 DEF Writes

\* The administrator and the retention of memos.
LEMMA ApiRefs ==
  ASSUME ShapeInv, RefsOK, Api \/ Retention
  PROVE  RowsOK' /\ RefsOK' /\ UNCHANGED <<sess, task, Clock>> /\ (spent' = spent \/ Spend)
<1>0. RowsOK
  BY DEF ShapeInv, TypeInv
<1>1. UNCHANGED <<sess, task, Clock>> /\ (spent' = spent \/ Spend)
  BY DEF Api, Retention, ApiCreateAccount, ApiResetPassword, ApiDeleteAccount, SetAccess,
         DeleteAccess, ApiRegister, ApiReads, ApiUpdate, ApiUnregister
<1>2. ASSUME NEW n \in Nicks, NEW u \in Users, ApiCreateAccount(n, u) \/ ApiResetPassword(n, u)
      PROVE  RowsOK' /\ RefsOK'
  BY <1>0, <1>2, InsertRefs DEF ApiCreateAccount, ApiResetPassword, Registration
<1>3. ASSUME NEW n \in Nicks, ApiDeleteAccount(n) PROVE RowsOK' /\ RefsOK'
  BY <1>0, <1>3, DeleteRefs DEF ApiDeleteAccount
<1>4. ASSUME NEW n \in Nicks, SetAccess(n) \/ DeleteAccess(n) PROVE RowsOK' /\ RefsOK'
  BY <1>0, <1>4, AccessRefs DEF SetAccess, DeleteAccess
<1>5. ASSUME NEW n \in Nicks, NEW guard \in BOOLEAN, ApiRegister(n, guard) PROVE RowsOK' /\ RefsOK'
  BY <1>0, <1>5, CreateRowRefs DEF ApiRegister
<1>6. ASSUME NEW n \in Nicks \cup {None}, NEW guard \in BOOLEAN, ApiReads(n, guard)
      PROVE  RowsOK' /\ RefsOK'
  <2>1. admin' \in Row
    <3>1. CASE n = None
      BY <1>0, <1>6, <3>1 DEF ApiReads, RowsOK, Row
    <3>2. CASE n \in Nicks /\ n # None
      BY <1>6, <3>2 DEF ApiReads, Row
    <3> QED BY <3>1, <3>2
  <2> QED BY <1>0, <1>6, <2>1 DEF ApiReads, RowsOK, RefsOK, Exists
<1>7. CASE ApiUpdate
  <2>1. admin \in Row
    BY <1>0, <1>7 DEF ApiUpdate, RowsOK
  <2> QED BY <1>0, <1>7, <2>1, UpdateRowRefs DEF ApiUpdate
<1>8. CASE ApiUnregister
  BY <1>0, <1>8, DeleteRowRefs DEF ApiUnregister
<1>9. CASE Retention
  BY <1>0, <1>9, MemoRefs DEF Retention, Registration, RowsOK
<1> QED BY <1>1, <1>2, <1>3, <1>4, <1>5, <1>6, <1>7, <1>8, <1>9 DEF Api

LEMMA ApiShape ==
  ASSUME ShapeInv, RowsOK', UNCHANGED <<sess, task, Clock>>, spent' = spent \/ Spend
  PROVE  ShapeInv'
BY SameTasks, SameClock DEF ShapeInv, TypeInv, SessOK

LEMMA InitTables == Init => TablesInv
<1> SUFFICES ASSUME Init PROVE TablesInv
  OBVIOUS
<1>1. SessOK /\ TaskOK /\ timer \in [Timers -> Clocks]
  BY OfflineShape DEF Init, SessOK, TaskOK
<1>2. RowsOK
  <2>1. owners \in [Nicks -> Ownership \cup {None}]
    BY DEF Init, Ownership
  <2> QED BY <2>1, ServicesAssumption DEF Init, RowsOK
<1>3. ClockOK
  BY <1>1, ServicesAssumption DEF Init, ClockOK
<1>4. HandsOK /\ TimersOK
  BY DEF Init, HandsOK, InHand, Idle, TimersOK, Off
<1>5. RefsOK
  <2>1. \A n \in Nicks : owners[n] # None => owners[n].account = n /\ First[n] # None
    BY DEF Init
  <2>2. channel = None /\ access = {} /\ (\A m \in Memos : memos[m] = None) /\ accounts = First
    BY DEF Init
  <2> QED BY <2>1, <2>2 DEF RefsOK, Exists
<1> QED BY <1>1, <1>2, <1>3, <1>4, <1>5 DEF TablesInv, ShapeInv, TypeInv

\* Every step is one of a kind.
LEMMA Kinds ==
  ASSUME Next
  PROVE  \/ \E u \in Users :
              \/ \E n \in Names : Nick(u, n)
              \/ \E n \in Nicks : Authenticate(u, n)
              \/ \E op \in Ops \cup OpsOnNick, n \in Nicks \cup {None} : Send(u, op, n)
              \/ Disconnect(u)
         \/ \E u \in Users :
              CheckNick(u) \/ Identify(u) \/ SetAccount(u) \/ CancelEnforcement(u) \/ DisconnectNick(u)
         \/ \E u \in Users : Looks(u)
         \/ \E u \in Users : Writes(u)
         \/ \E t \in Timers : Enforce(t)
         \/ Api \/ Retention
<1>1. ASSUME NEW u \in Users, Step(u)
      PROVE  \/ CheckNick(u) \/ Identify(u) \/ SetAccount(u) \/ CancelEnforcement(u) \/ DisconnectNick(u)
             \/ Looks(u) \/ Writes(u)
  BY <1>1 DEF Step, Looks, Writes
<1>2. ASSUME NEW u \in Users,
             \/ \E op \in Ops : Send(u, op, None)
             \/ \E op \in OpsOnNick, n \in Nicks : Send(u, op, n)
      PROVE  \E op \in Ops \cup OpsOnNick, n \in Nicks \cup {None} : Send(u, op, n)
  BY <1>2
<1> QED BY <1>1, <1>2 DEF Next

LEMMA NextTables == TablesInv /\ [Next]_vars => TablesInv'
<1> SUFFICES ASSUME TablesInv, [Next]_vars PROVE TablesInv'
  OBVIOUS
<1>0. ShapeInv /\ RefsOK
  BY DEF TablesInv
<1>1. ASSUME NEW u \in Users,
              \/ \E n \in Names : Nick(u, n)
              \/ \E n \in Nicks : Authenticate(u, n)
              \/ \E op \in Ops \cup OpsOnNick, n \in Nicks \cup {None} : Send(u, op, n)
              \/ Disconnect(u)
      PROVE  TablesInv'
  BY <1>0, <1>1, UserShape, SameRefs DEF TablesInv
<1>2. ASSUME NEW u \in Users,
             CheckNick(u) \/ Identify(u) \/ SetAccount(u) \/ CancelEnforcement(u) \/ DisconnectNick(u)
      PROVE  TablesInv'
  BY <1>0, <1>2, SessionShape, SameRefs DEF TablesInv
<1>3. ASSUME NEW u \in Users, Looks(u) PROVE TablesInv'
  BY <1>0, <1>3, LooksShape, SameRefs DEF TablesInv
<1>4. ASSUME NEW u \in Users, Writes(u) PROVE TablesInv'
  BY <1>0, <1>4, WritesShape, WritesRefs DEF TablesInv
<1>5. ASSUME NEW t \in Timers, Enforce(t) PROVE TablesInv'
  BY <1>0, <1>5, EnforceShape, SameRefs DEF TablesInv
<1>6. CASE Api \/ Retention
  BY <1>0, <1>6, ApiShape, ApiRefs DEF TablesInv
<1>7. CASE UNCHANGED vars
  <2>1. UNCHANGED <<sess, task, Db, Clock, spent>>
    BY <1>7 DEF vars, Db, Registration, Clock
  <2> QED BY <1>0, <2>1, SameTasks, SameRows, SameClock, SameRefs
          DEF TablesInv, ShapeInv, TypeInv, SessOK
<1> QED BY <1>1, <1>2, <1>3, <1>4, <1>5, <1>6, <1>7, Kinds

\* Types; a handler has what its place needs and a running timer its nickname;
\* every owner of a nickname, founder, entry of an access list and end of a memo
\* is an account that exists, whatever order the commands of several clients and
\* of an administrator come in (accounts.Delete, nickserv.go:206).
THEOREM TablesAgree == Spec => []TypeOK
<1>1. TablesInv => TypeOK
  BY DEF TablesInv, ShapeInv, TypeInv, SessOK, TaskOK, RowsOK, ClockOK, HandsOK, InHand,
         TimersOK, RefsOK, TypeOK, At
<1> QED BY <1>1, InitTables, NextTables, PTL DEF Spec

-----------------------------------------------------------------------------
(* Identities.                                                              *)

\* A session keeps its nickname and its account, and what it has earned.
Keeps(v) ==
  /\ sess'[v].nick = sess[v].nick /\ sess'[v].account = sess[v].account
  /\ sess[v].proven \subseteq sess'[v].proven /\ sess[v].lent \subseteq sess'[v].lent

\* A handler stays where it is, is over, starts as another command, or goes on,
\* but not to where it sets an account.
GoesOn(v) ==
  \/ task'[v] = task[v]
  \/ task'[v].op # "IDENTIFY" /\ task'[v].at # "set"
  \/ /\ task'[v].op = task[v].op /\ task'[v].nick = task[v].nick
     /\ task'[v].target = task[v].target /\ task'[v].at \notin {"set", "idle"}

Earned == NicksOK /\ (\A u \in Users : Vouches(u)) /\ IdentityIsEarned

LEMMA KeepsEarned ==
  ASSUME Earned, \A v \in Users : Keeps(v) /\ GoesOn(v)
  PROVE  Earned'
<1>1. NicksOK'
  BY DEF Earned, NicksOK, Keeps, Holds
<1>2. IdentityIsEarned'
  BY DEF Earned, IdentityIsEarned, Keeps
<1>3. ASSUME NEW u \in Users PROVE Vouches(u)'
  <2>1. CASE task'[u].op # "IDENTIFY" /\ task'[u].at # "set"
    BY <2>1 DEF Vouches
  <2>2. CASE task'[u] = task[u] \/
             /\ task'[u].op = task[u].op /\ task'[u].nick = task[u].nick
             /\ task'[u].target = task[u].target /\ task'[u].at \notin {"set", "idle"}
    BY <2>2 DEF Earned, Vouches, Keeps, Holds
  <2> QED BY <2>1, <2>2 DEF GoesOn
<1> QED BY <1>1, <1>2, <1>3 DEF Earned

LEMMA OneGoes ==
  ASSUME TaskOK, NEW u \in Users, NEW t, task' = [task EXCEPT ![u] = t],
         \/ t.op # "IDENTIFY" /\ t.at # "set"
         \/ /\ t.op = task[u].op /\ t.nick = task[u].nick /\ t.target = task[u].target
            /\ t.at \notin {"set", "idle"}
  PROVE  \A v \in Users : GoesOn(v)
BY DEF TaskOK, GoesOn

LEMMA DoneGoes ==
  ASSUME TaskOK, NEW u \in Users,
         Done(u) \/ \E p \in Place \ {"set", "idle"} : Go(u, p)
  PROVE  \A v \in Users : GoesOn(v)
<1>1. CASE Done(u)
  <2>1. Idle.op # "IDENTIFY" /\ Idle.at # "set"
    BY ServicesAssumption DEF Idle, OpsOnNick
  <2> QED BY <1>1, <2>1, OneGoes DEF Done
<1>2. ASSUME NEW p \in Place \ {"set", "idle"}, Go(u, p)
      PROVE  \A v \in Users : GoesOn(v)
  <2> DEFINE t == [task[u] EXCEPT !.at = p]
  <2>1. /\ t.op = task[u].op /\ t.nick = task[u].nick /\ t.target = task[u].target /\ t.at = p
    BY DEF TaskOK, Task
  <2>2. task' = [task EXCEPT ![u] = t]
    BY <1>2 DEF Go
  <2> QED BY <2>1, <2>2, OneGoes
<1> QED BY <1>1, <1>2

LEMMA SameKeeps ==
  ASSUME UNCHANGED sess PROVE \A v \in Users : Keeps(v)
BY DEF Keeps

\* Only the warning and the end of the connection are noted.
LEMMA MarksKeep ==
  ASSUME SessOK, NEW v \in Users,
         \/ sess'[v] = sess[v]
         \/ \E b : sess'[v] = [sess[v] EXCEPT !.warned = b]
         \/ sess'[v] = [sess[v] EXCEPT !.dead = TRUE]
  PROVE  Keeps(v)
BY DEF SessOK, Session, Keeps

LEMMA LooksEarned ==
  ASSUME ShapeInv, Earned, NEW u \in Users, Looks(u) \/ Writes(u)
  PROVE  Earned'
<1>1. UNCHANGED sess /\ TaskOK
  BY DEF Looks, Sender, Register, Group, Drop, Ghost, Release, ChanCheck, MemoLooks, ShapeInv, TypeInv,
         Writes, CreateAccount, CreateOwner, CreateGroup, DeleteAccount, DeleteNick,
         ChanRegister, ChanDrop, ChanSet, MemoSend, MemoRead, MemoDelete, MemoPurge
<1>2. CASE Sender(u)
  <2> DEFINE t == [task[u] EXCEPT !.at = "run", !.account = task'[u].account]
  <2>1. task' = [task EXCEPT ![u] = t]
    BY <1>1, <1>2 DEF Sender, TaskOK, Task
  <2>2. t.op = task[u].op /\ t.nick = task[u].nick /\ t.target = task[u].target /\ t.at = "run"
    BY <1>1 DEF TaskOK, Task
  <2>3. \A v \in Users : GoesOn(v)
    BY <1>1, <2>1, <2>2, OneGoes
  <2> QED BY <1>1, <2>3, SameKeeps, KeepsEarned
<1>3. CASE ChanCheck(u) /\ ~ Done(u)
  <2> DEFINE t == [task[u] EXCEPT !.at = "channel", !.row = channel]
  <2>1. task' = [task EXCEPT ![u] = t]
    BY <1>1, <1>3 DEF ChanCheck, TaskOK
  <2>2. t.op = task[u].op /\ t.nick = task[u].nick /\ t.target = task[u].target /\ t.at = "channel"
    BY <1>1 DEF TaskOK, Task
  <2>3. \A v \in Users : GoesOn(v)
    BY <1>1, <2>1, <2>2, OneGoes
  <2> QED BY <1>1, <2>3, SameKeeps, KeepsEarned
<1>4. CASE Done(u) \/ \E p \in Place \ {"set", "idle"} : Go(u, p)
  BY <1>1, <1>4, DoneGoes, SameKeeps, KeepsEarned
<1>5. Sender(u) \/ ChanCheck(u) \/ Done(u) \/ \E p \in Place \ {"set", "idle"} : Go(u, p)
  BY DEF Looks, Register, Group, Drop, Ghost, Release, MemoLooks, DoneIf, Place,
         Writes, CreateAccount, CreateOwner, CreateGroup, DeleteAccount, DeleteNick,
         ChanRegister, ChanDrop, ChanSet, MemoSend, MemoRead, MemoDelete, MemoPurge
<1> QED BY <1>2, <1>3, <1>4, <1>5

LEMMA SessionEarned ==
  ASSUME ShapeInv, Earned, NEW u \in Users,
         CheckNick(u) \/ Identify(u) \/ SetAccount(u) \/ CancelEnforcement(u) \/ DisconnectNick(u)
  PROVE  Earned'
<1>0. TaskOK /\ SessOK /\ TypeInv
  BY DEF ShapeInv, TypeInv
<1>1. CASE CheckNick(u) \/ CancelEnforcement(u) \/ DisconnectNick(u)
  <2>1. \A v \in Users : GoesOn(v)
    BY <1>0, <1>1, DoneGoes DEF CheckNick, CancelEnforcement, DisconnectNick
  <2>2. ASSUME NEW v \in Users PROVE Keeps(v)
    <3>1. CASE \E n : Cancel(n, sess)
      BY <1>0, <3>1, CancelShape, MarksKeep
    <3>2. CASE UNCHANGED sess
      BY <3>2, SameKeeps
    <3>3. CASE CheckNick(u) /\ sess' = [sess EXCEPT ![u].warned = Holds(u, task[u].nick)]
      BY <1>0, <3>3, MarksKeep DEF SessOK
    <3>4. CASE DisconnectNick(u)
      BY <1>0, <3>4, MarksKeep DEF DisconnectNick
    <3> QED BY <1>1, <3>1, <3>2, <3>3, <3>4 DEF CheckNick, CancelEnforcement
  <2> QED BY <2>1, <2>2, KeepsEarned
<1>2. CASE Identify(u) /\ Done(u)
  <2>1. \A v \in Users : Keeps(v)
    BY <1>0, <1>2 DEF Identify, Keeps, SessOK, Session
  <2> QED BY <1>0, <1>2, <2>1, DoneGoes, KeepsEarned
<1>3. CASE Identify(u) /\ Go(u, "set") /\ sess' = [sess EXCEPT ![u].proven = @ \cup {task[u].target}]
  <2> DEFINE t == [task[u] EXCEPT !.at = "set"]
  <2>1. task' = [task EXCEPT ![u] = t] /\ task[u].op = "IDENTIFY"
    BY <1>3 DEF Go, Identify, On
  <2>2. /\ task'[u].op = task[u].op /\ task'[u].nick = task[u].nick
        /\ task'[u].target = task[u].target /\ task'[u].at = "set"
        /\ \A v \in Users : v # u => task'[v] = task[v]
    BY <1>0, <2>1 DEF TaskOK, Task
  <2>3. (\A v \in Users : Keeps(v)) /\ task[u].target \in sess'[u].proven
    BY <1>0, <1>3 DEF Keeps, SessOK, Session
  <2>4. NicksOK' /\ IdentityIsEarned'
    BY <2>3 DEF Earned, NicksOK, IdentityIsEarned, Keeps, Holds
  <2>5. Vouches(u)'
    BY <2>1, <2>2, <2>3 DEF Earned, Vouches, Keeps, Holds
  <2>6. \A v \in Users : v # u => Vouches(v)'
    BY <2>2, <2>3 DEF Earned, Vouches, Keeps, Holds
  <2> QED BY <2>4, <2>5, <2>6 DEF Earned
<1>4. CASE SetAccount(u)
  <2> DEFINE t == [task[u] EXCEPT !.at = "cancel"]
  <2>1. task' = [task EXCEPT ![u] = t] /\ task[u].at = "set"
    BY <1>4 DEF Go, SetAccount, At
  <2>2. t.op = task[u].op /\ t.nick = task[u].nick /\ t.target = task[u].target /\ t.at = "cancel"
    BY <1>0 DEF TaskOK, Task
  <2>3. \A v \in Users : GoesOn(v)
    BY <1>0, <2>1, <2>2, OneGoes
  <2>4. \A v \in Users :
          /\ sess'[v].nick = sess[v].nick /\ sess'[v].proven = sess[v].proven
          /\ sess'[v].lent = sess[v].lent
          /\ sess'[v].account = IF Holds(v, task[u].nick) THEN task[u].target ELSE sess[v].account
    BY <1>0, <1>4 DEF SetAccount, SessOK, Session
  <2>5. \A v \in Users : Holds(v, task[u].nick) => task[u].target \in sess[v].proven \cup sess[v].lent
    BY <2>1 DEF Earned, Vouches
  <2>6. IdentityIsEarned'
    BY <2>4, <2>5 DEF Earned, IdentityIsEarned
  <2>7. NicksOK'
    BY <2>4 DEF Earned, NicksOK, Holds
  <2>8. ASSUME NEW v \in Users PROVE Vouches(v)'
    <3>1. CASE v = u
      BY <1>0, <2>1, <2>2, <2>4, <3>1 DEF Earned, Vouches, Holds, TaskOK
    <3>2. CASE v # u
      BY <1>0, <2>1, <2>4, <3>2 DEF Earned, Vouches, Holds, TaskOK
    <3> QED BY <3>1, <3>2
  <2> QED BY <2>6, <2>7, <2>8 DEF Earned
<1> QED BY <1>1, <1>2, <1>3, <1>4 DEF Identify

\* A user who takes a nickname nobody has is lent what others identify for
\* under it.
LEMMA NamedEarned ==
  ASSUME ShapeInv, Earned, NEW u \in Users, NEW n \in Names, ~ Taken(n),
         sess' = Named(u, n), \A v \in Users : GoesOn(v),
         task'[u] = task[u] \/ task'[u].op # "IDENTIFY"
  PROVE  Earned'
<1>0. TypeInv /\ SessOK /\ TaskOK
  BY DEF ShapeInv, TypeInv
<1> DEFINE more == {task[v].target : v \in
              {w \in Users \ {u} : task[w].op = "IDENTIFY" /\ task[w].nick = n}}
<1>1. /\ \A v \in Users : v # u => sess'[v] = sess[v]
      /\ sess'[u] = [sess[u] EXCEPT !.nick = n, !.warned = FALSE, !.lent = @ \cup more]
  <2> HIDE DEF more
  <2>0. \A v \in Users : v # u => Named(u, n)[v] = sess[v]
    BY <1>0, NamedShape, Zenon
  <2>1. \A v \in Users : v # u => sess'[v] = sess[v]
    BY <2>0
  <2>2. sess'[u] = Named(u, n)[u]
    OBVIOUS
  <2>3. Named(u, n)[u] = [sess[u] EXCEPT !.nick = n, !.warned = FALSE, !.lent = @ \cup more]
    BY <1>0, NamedShape DEF more
  <2> QED BY <2>1, <2>2, <2>3
<1>2. \A w \in Users \ {u} : task[w].op = "IDENTIFY" /\ task[w].nick = n => task[w].target \in more
  OBVIOUS
<1> HIDE DEF more
<1>3. /\ sess'[u].nick = n /\ sess'[u].account = sess[u].account
      /\ sess'[u].proven = sess[u].proven /\ sess'[u].lent = sess[u].lent \cup more
  BY <1>0, <1>1 DEF SessOK, Session
<1>4. NicksOK'
  <2>1. \A w \in Users : sess[w].nick # n
    BY DEF Taken, Holds
  <2>2. \A v, w \in Users : sess[v].nick # None /\ sess[w].nick = sess[v].nick => v = w
    BY DEF Earned, NicksOK, Holds
  <2>3. \A v, w \in Users : sess'[v].nick # None /\ sess'[w].nick = sess'[v].nick => v = w
    <3> SUFFICES ASSUME NEW v \in Users, NEW w \in Users, sess'[v].nick # None,
                        sess'[w].nick = sess'[v].nick
                 PROVE  v = w
      OBVIOUS
    <3>1. \A x \in Users : sess'[x].nick = IF x = u THEN n ELSE sess[x].nick
      BY <1>1, <1>3
    <3> QED BY <2>1, <2>2, <3>1
  <2> QED BY <2>3 DEF NicksOK, Holds
<1>5. IdentityIsEarned'
  BY <1>1, <1>3 DEF Earned, IdentityIsEarned
<1>6. ASSUME NEW w \in Users PROVE Vouches(w)'
  <2>1. CASE task'[w].op # "IDENTIFY" /\ task'[w].at # "set"
    BY <2>1 DEF Vouches
  <2>2. CASE task'[w] = task[w] \/
             /\ task'[w].op = task[w].op /\ task'[w].nick = task[w].nick
             /\ task'[w].target = task[w].target /\ task'[w].at \notin {"set", "idle"}
    <3>1. task'[w].at = "set" => task'[w].op = "IDENTIFY" /\ task'[w].target \in sess'[w].proven
      BY <1>1, <1>3, <2>2 DEF Earned, Vouches
    <3>2. task'[w].op = "IDENTIFY" => task'[w].at # "idle"
      BY <2>2 DEF Earned, Vouches
    <3>3. ASSUME task'[w].op = "IDENTIFY", NEW v \in Users \ {w}, sess'[v].nick = task'[w].nick
          PROVE  task'[w].target \in sess'[v].lent
      <4>1. CASE v = u
        BY <1>2, <1>3, <2>2, <3>3, <4>1
      <4>2. CASE v # u
        BY <1>1, <2>2, <3>3, <4>2 DEF Earned, Vouches, Holds
      <4> QED BY <4>1, <4>2
    <3> QED BY <3>1, <3>2, <3>3 DEF Vouches, Holds
  <2> QED BY <2>1, <2>2 DEF GoesOn
<1> QED BY <1>4, <1>5, <1>6 DEF Earned

LEMMA UserEarned ==
  ASSUME ShapeInv, Earned, NEW u \in Users,
         \/ \E n \in Names : Nick(u, n)
         \/ \E n \in Nicks : Authenticate(u, n)
         \/ \E op \in Ops \cup OpsOnNick, n \in Nicks \cup {None} : Send(u, op, n)
         \/ Disconnect(u)
  PROVE  Earned'
<1>0. TaskOK /\ HandsOK /\ SessOK
  BY DEF ShapeInv, TypeInv
<1>1. ASSUME NEW n \in Names, Nick(u, n) PROVE Earned'
  <2> DEFINE t == [Idle EXCEPT !.at = "check", !.nick = n]
  <2>1. t.op # "IDENTIFY" /\ t.at # "set"
    BY ServicesAssumption DEF Idle, OpsOnNick
  <2>2. task' = [task EXCEPT ![u] = t] /\ sess' = Named(u, n) /\ ~ Taken(n)
    BY <1>1 DEF Nick
  <2>3. task'[u] = t
    BY <1>0, <2>2 DEF TaskOK
  <2> HIDE DEF t
  <2>4. \A v \in Users : GoesOn(v)
    BY <1>0, <2>1, <2>2, OneGoes
  <2> QED BY <2>1, <2>2, <2>3, <2>4, NamedEarned
<1>2. ASSUME NEW n \in Nicks, Authenticate(u, n) PROVE Earned'
  <2>1. CASE UNCHANGED sess
    BY <1>2, <2>1, SameKeeps, KeepsEarned DEF Authenticate, GoesOn
  <2>2. CASE sess' = [sess EXCEPT ![u].account = n, ![u].proven = @ \cup {n}]
    <3>1. /\ \A v \in Users : v # u => sess'[v] = sess[v]
          /\ sess'[u].nick = sess[u].nick /\ sess'[u].account = n
          /\ sess'[u].proven = sess[u].proven \cup {n} /\ sess'[u].lent = sess[u].lent
      BY <1>0, <2>2 DEF SessOK, Session
    <3>2. NicksOK'
      BY <3>1 DEF Earned, NicksOK, Holds
    <3>3. IdentityIsEarned'
      BY <3>1 DEF Earned, IdentityIsEarned
    <3>4. \A v \in Users : Vouches(v)'
      BY <1>2, <3>1 DEF Authenticate, Earned, Vouches, Holds
    <3> QED BY <3>2, <3>3, <3>4 DEF Earned
  <2> QED BY <1>2, <2>1, <2>2 DEF Authenticate
<1>3. ASSUME NEW op \in Ops \cup OpsOnNick, NEW n \in Nicks \cup {None}, Send(u, op, n) PROVE Earned'
  <2> DEFINE t == [Idle EXCEPT !.at = "sender", !.op = op, !.nick = sess[u].nick, !.target = n]
  <2>1. t.at = "sender" /\ t.op = op /\ t.nick = sess[u].nick /\ t.target = n
    BY DEF Idle
  <2>2. task' = [task EXCEPT ![u] = t] /\ UNCHANGED sess /\ sess[u].nick # None
    BY <1>3 DEF Send
  <2> HIDE DEF t
  <2>3. task'[u] = t /\ \A v \in Users : v # u => task'[v] = task[v]
    BY <1>0, <2>2 DEF TaskOK
  <2>4. NicksOK' /\ IdentityIsEarned'
    BY <2>2 DEF Earned, NicksOK, IdentityIsEarned, Holds
  <2>5. Vouches(u)'
    BY <2>1, <2>2, <2>3 DEF Earned, NicksOK, Vouches, Holds
  <2>6. \A v \in Users : v # u => Vouches(v)'
    BY <2>2, <2>3 DEF Earned, Vouches, Holds
  <2> QED BY <2>4, <2>5, <2>6 DEF Earned
<1>4. CASE Disconnect(u)
  <2>1. /\ \A v \in Users : v # u => sess'[v] = sess[v]
        /\ sess'[u].nick = None /\ sess'[u].account = None
    BY <1>0, <1>4 DEF Disconnect, SessOK, Offline
  <2>2. task' = task /\ task[u].at = "idle"
    BY <1>4 DEF Disconnect, At
  <2>3. NicksOK'
    BY <2>1 DEF Earned, NicksOK, Holds
  <2>4. IdentityIsEarned'
    BY <2>1 DEF Earned, IdentityIsEarned
  <2>5. ASSUME NEW w \in Users PROVE Vouches(w)'
    <3>1. CASE w = u
      BY <2>2, <3>1 DEF Earned, Vouches
    <3>2. CASE w # u
      <4>1. task[w].op = "IDENTIFY" => task[w].nick # None
        BY <1>0, ServicesAssumption DEF Earned, Vouches, HandsOK, InHand, Names
      <4> QED BY <2>1, <2>2, <3>2, <4>1 DEF Earned, Vouches, Holds
    <3> QED BY <3>1, <3>2
  <2> QED BY <2>3, <2>4, <2>5 DEF Earned
<1> QED BY <1>1, <1>2, <1>3, <1>4

LEMMA EnforceEarned ==
  ASSUME ShapeInv, Earned, NEW t \in Timers, Enforce(t)
  PROVE  Earned'
<1>0. SessOK /\ TypeInv
  BY DEF ShapeInv, TypeInv
<1>1. task' = task
  BY DEF Enforce, Fire, Forget, Look, RenameToGuest
<1>2. \A v \in Users : GoesOn(v)
  BY <1>1 DEF GoesOn
<1>3. CASE UNCHANGED sess
  BY <1>2, <1>3, SameKeeps, KeepsEarned
<1>4. ASSUME NEW g \in Guests, RenameToGuest(t, g) PROVE Earned'
  <2> DEFINE n == timer[t].nick
  <2>1. sess' = [u \in Users |->
          IF ~ Holds(u, n) THEN sess[u]
          ELSE IF Taken(g) THEN [sess[u] EXCEPT !.warned = FALSE] ELSE Named(u, g)[u]]
    BY <1>4 DEF RenameToGuest
  <2>2. n # None
    BY <1>4, ServicesAssumption DEF RenameToGuest, ShapeInv, TimersOK, Names
  <2>3. CASE Taken(g)
    <3>1. \A v \in Users : sess'[v] = sess[v] \/ sess'[v] = [sess[v] EXCEPT !.warned = FALSE]
      BY <2>1, <2>3
    <3>2. \A v \in Users : Keeps(v)
      BY <1>0, <3>1, MarksKeep
    <3> QED BY <1>2, <3>2, KeepsEarned
  <2>4. CASE ~ \E u \in Users : Holds(u, n)
    <3>1. \A v \in Users : Keeps(v)
      BY <2>1, <2>4 DEF Keeps
    <3> QED BY <1>2, <3>1, KeepsEarned
  <2>5. ASSUME ~ Taken(g), NEW u \in Users, Holds(u, n) PROVE Earned'
    <3>1. \A v \in Users : v # u => ~ Holds(v, n)
      BY <2>2, <2>5 DEF Earned, NicksOK, Holds
    <3>2. g \in Names
      BY DEF Names
    <3>3. /\ Named(u, g) \in [Users -> Session]
          /\ \A v \in Users : v # u => Named(u, g)[v] = sess[v]
      BY <1>0, <3>2, NamedShape
    <3>4. sess' = Named(u, g)
      BY <2>1, <2>5, <3>1, <3>3
    <3> QED BY <1>1, <1>2, <2>5, <3>2, <3>4, NamedEarned
  <2> QED BY <2>3, <2>4, <2>5
<1> QED BY <1>3, <1>4 DEF Enforce, Fire, Forget, Look

LEMMA InitEarned == Init => EarnedInv
<1> SUFFICES ASSUME Init PROVE EarnedInv
  OBVIOUS
<1>1. \A u \in Users : sess[u].nick = None /\ sess[u].account = None
  BY DEF Init, Offline
<1>2. \A u \in Users : task[u].op # "IDENTIFY" /\ task[u].at # "set"
  BY ServicesAssumption DEF Init, Idle, OpsOnNick
<1> QED BY <1>1, <1>2, InitTables DEF EarnedInv, NicksOK, Vouches, IdentityIsEarned

LEMMA NextEarned == EarnedInv /\ [Next]_vars => EarnedInv'
<1> SUFFICES ASSUME EarnedInv, [Next]_vars PROVE EarnedInv'
  OBVIOUS
<1>0. TablesInv /\ TablesInv' /\ ShapeInv /\ Earned
  BY NextTables DEF EarnedInv, TablesInv, Earned
<1>1. ASSUME UNCHANGED <<sess, task>> PROVE Earned'
  <2>1. \A v \in Users : Keeps(v) /\ GoesOn(v)
    BY <1>1 DEF Keeps, GoesOn
  <2> QED BY <1>0, <2>1, KeepsEarned
<1>2. UNCHANGED vars => UNCHANGED <<sess, task>>
  BY DEF vars
<1>3. ASSUME Api \/ Retention PROVE UNCHANGED <<sess, task>>
  BY <1>0, <1>3, ApiRefs DEF TablesInv
<1>4. ASSUME Next PROVE Earned'
  <2>1. ASSUME NEW u \in Users, Looks(u) \/ Writes(u) PROVE Earned'
    BY <1>0, <2>1, LooksEarned
  <2>2. ASSUME NEW u \in Users,
               \/ \E n \in Names : Nick(u, n)
               \/ \E n \in Nicks : Authenticate(u, n)
               \/ \E op \in Ops \cup OpsOnNick, n \in Nicks \cup {None} : Send(u, op, n)
               \/ Disconnect(u)
        PROVE  Earned'
    BY <1>0, <2>2, UserEarned
  <2>3. ASSUME NEW u \in Users,
               CheckNick(u) \/ Identify(u) \/ SetAccount(u) \/ CancelEnforcement(u) \/ DisconnectNick(u)
        PROVE  Earned'
    BY <1>0, <2>3, SessionEarned
  <2>4. ASSUME NEW t \in Timers, Enforce(t) PROVE Earned'
    BY <1>0, <2>4, EnforceEarned
  <2> QED BY <1>1, <1>3, <1>4, <2>1, <2>2, <2>3, <2>4, Kinds
<1>5. Earned'
  BY <1>1, <1>2, <1>4
<1> QED BY <1>0, <1>5 DEF EarnedInv, Earned

\* A session has only an account whose password it gave, or for which another
\* session was identifying under the nickname it took over (nickserv/service.go:126).
THEOREM IdentityEarned == Spec => []IdentityIsEarned
<1>1. EarnedInv => IdentityIsEarned
  BY DEF EarnedInv
<1> QED BY <1>1, InitEarned, NextEarned, PTL DEF Spec
=============================================================================

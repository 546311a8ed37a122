------------------------------ MODULE Services ------------------------------
(***************************************************************************)
(* Accounts and the services NickServ, ChanServ and MemoServ of            *)
(* internal/services with their tables, SASL, the enforcement of           *)
(* registered nicknames by timers, and the administration of accounts and  *)
(* registrations over HTTP (internal/api).                                 *)
(*                                                                         *)
(* A service has no goroutine of its own: Deliver runs on the goroutine of *)
(* the client that sent the message, so the commands of two clients and    *)
(* the timers interleave at each statement of the database and each access *)
(* to the world.  A command names its sender by nickname.                  *)
(*                                                                         *)
(* An account has its nickname as name and id.  A password is known to the *)
(* user who registered the account.  INFO, LIST and help texts, which only *)
(* read, are left out; OP and DEOP of ChanServ are in Channel.             *)
(***************************************************************************)
EXTENDS Naturals, FiniteSets

CONSTANTS
  Users, None,
  Nicks,         \* nicknames that may be registered
  Guests,        \* the names enforcement picks from
  First,         \* the accounts of an earlier run: nickname -> user or None
  MaxTimers,     \* bound: timers armed or running at a time
  MaxMemos,      \* bound: memos ever sent
  MaxCommands    \* bound: nick changes and commands

\* The commands, and those on a nickname.
Ops == {"REGISTER", "GROUP", "CHAN REGISTER", "CHAN DROP", "CHAN SET",
        "MEMO READ", "MEMO DELETE", "MEMO PURGE"}
OpsOnNick == {"IDENTIFY", "DROP", "GHOST", "RELEASE", "MEMO SEND"}

\* A row of registered_channels.
Row == [founder : Nicks, guard : BOOLEAN]

ASSUME ServicesAssumption ==
  /\ None \notin Users \cup Nicks \cup Guests \cup Row \cup Ops \cup OpsOnNick
  /\ Nicks \cap Guests = {}
  /\ First \in [Nicks -> Users \cup {None}]
  /\ MaxTimers \in Nat /\ MaxMemos \in Nat /\ MaxCommands \in Nat

Names == Nicks \cup Guests
Timers == 1..MaxTimers
Memos == 1..MaxMemos

VARIABLES
  sess,      \* each user's connection
  task,      \* its handler
  accounts,  \* the accounts table: who knows the password
  owners,    \* the nick_owners table
  channel,   \* the registered_channels row of the one channel, or None
  access,    \* accounts with an entry in its channel_access
  admin,     \* the row an update over HTTP is about to write, or None
  memos,     \* the memos table
  sent,      \* memo ids given out
  pending,   \* Service.pending: the timer of a nickname, or 0
  timer,     \* timers and the goroutines they start
  spent      \* nick changes and commands so far

vars == <<sess, task, accounts, owners, channel, access, admin, memos, sent,
          pending, timer, spent>>

\* warned: told to identify, and nobody cancelled that since.
\* proven, lent: history, see IdentityIsEarned.
Offline == [nick |-> None, account |-> None, dead |-> FALSE, warned |-> FALSE,
            proven |-> {}, lent |-> {}]
Idle == [at |-> "idle", op |-> None, nick |-> None, account |-> None,
         target |-> None, row |-> None]
Off == [at |-> "off", nick |-> None]

\* The stored accounts have their nicknames as primary.
Init ==
  /\ sess = [u \in Users |-> Offline] /\ task = [u \in Users |-> Idle]
  /\ accounts = First
  /\ owners = [n \in Nicks |-> IF First[n] = None THEN None
                               ELSE [account |-> n, primary |-> TRUE]]
  /\ channel = None /\ access = {} /\ admin = None
  /\ memos = [m \in Memos |-> None] /\ sent = 0
  /\ pending = [n \in Names |-> 0] /\ timer = [t \in Timers |-> Off]
  /\ spent = 0

Exists(n) == n \in Nicks /\ accounts[n] # None
\* The row of the account, new or with a new password.
Insert(n, u) == accounts' = [accounts EXCEPT ![n] = u]
Owner(n) == IF n \in Nicks THEN owners[n] ELSE None
Holds(u, n) == sess[u].nick = n
Taken(n) == \E u \in Users : Holds(u, n)
Registration == <<channel, access, admin>>
Db == <<accounts, owners, Registration, memos, sent>>
Clock == <<pending, timer>>

At(u, place) == task[u].at = place
Go(u, place) == task' = [task EXCEPT ![u].at = place]
Done(u) == task' = [task EXCEPT ![u] = Idle]
On(u, op) == At(u, "run") /\ task[u].op = op
DoneIf(u, over, place) == IF over THEN Done(u) ELSE Go(u, place)
Spend == spent < MaxCommands /\ spent' = spent + 1

-----------------------------------------------------------------------------
(* Nicknames and their timers. *)

\* The user has a new nickname; a session that was identifying under it lends
\* it the account, see IdentityIsEarned.
Named(u, n) ==
  [sess EXCEPT ![u].nick = n, ![u].warned = FALSE,
     ![u].lent = @ \cup {task[v].target : v \in
        {w \in Users \ {u} : task[w].op = "IDENTIFY" /\ task[w].nick = n}}]

\* cancelEnforcement
Cancel(n, sessions) ==
  /\ IF pending[n] = 0 THEN UNCHANGED Clock
     ELSE /\ pending' = [pending EXCEPT ![n] = 0]
          /\ timer' = [timer EXCEPT ![pending[n]] = IF @.at = "armed" THEN Off ELSE @]
  /\ sess' = [u \in Users |-> IF Holds(u, n)
                THEN [sessions[u] EXCEPT !.warned = FALSE] ELSE sessions[u]]

\* Mutant: the account is looked up and its password not verified.
AuthenticateKnown(u, n) ==
  /\ At(u, "idle") /\ sess[u].nick = None
  /\ IF Exists(n)
     THEN sess' = [sess EXCEPT ![u].account = n,
                     ![u].proven = IF accounts[n] = u THEN @ \cup {n} ELSE @]
     ELSE UNCHANGED sess
  /\ UNCHANGED <<task, Db, Clock, spent>>

\* AUTHENTICATE PLAIN before registration.
Authenticate(u, n) ==
  /\ At(u, "idle") /\ sess[u].nick = None
  /\ IF accounts[n] = u
     THEN sess' = [sess EXCEPT ![u].account = n, ![u].proven = @ \cup {n}]
     ELSE UNCHANGED sess
  /\ UNCHANGED <<task, Db, Clock, spent>>

\* NICK and USER, or NICK later on: AddUser or RenameUser.
Nick(u, n) ==
  /\ At(u, "idle") /\ ~sess[u].dead /\ ~Taken(n) /\ Spend
  /\ sess' = Named(u, n)
  /\ task' = [task EXCEPT ![u] = [Idle EXCEPT !.at = "check", !.nick = n]]
  /\ UNCHANGED <<Db, Clock>>

\* CheckNick: an account, whichever it is, lets the user be.
CheckNick(u) ==
  /\ At(u, "check") /\ Done(u)
  /\ LET n == task[u].nick
     IN IF sess[u].account # None THEN Cancel(n, sess)
        ELSE IF ~Exists(n) THEN UNCHANGED <<sess, Clock>>
        ELSE \E t \in Timers :
               /\ timer[t] = Off
               /\ pending' = [pending EXCEPT ![n] = t]
               /\ timer' = [s \in Timers |->
                    IF s = t THEN [at |-> "armed", nick |-> n]
                    ELSE IF s = pending[n] /\ timer[s].at = "armed" THEN Off
                    ELSE timer[s]]
               /\ sess' = [sess EXCEPT ![u].warned = Holds(u, n)]
  /\ UNCHANGED <<Db, spent>>

\* The connection ends, by itself or as a ghost.
Disconnect(u) ==
  /\ At(u, "idle") /\ sess[u] # Offline
  /\ sess' = [sess EXCEPT ![u] = Offline]
  /\ UNCHANGED <<task, Db, Clock, spent>>

Fire(t) ==
  /\ timer[t].at = "armed"
  /\ timer' = [timer EXCEPT ![t].at = "fired"]
  /\ UNCHANGED <<sess, task, Db, pending, spent>>

\* enforceGuestRename deletes whatever entry the nickname has by now.
Forget(t) ==
  /\ timer[t].at = "fired"
  /\ timer' = [timer EXCEPT ![t].at = "look"]
  /\ pending' = [pending EXCEPT ![timer[t].nick] = 0]
  /\ UNCHANGED <<sess, task, Db, spent>>

\* Mutant: a connection without an account is taken for an identified one.
LookAway(t) ==
  /\ timer[t].at = "look"
  /\ timer' = [timer EXCEPT ![t] =
       IF \E u \in Users : Holds(u, timer[t].nick) /\ sess[u].account # None
       THEN [@ EXCEPT !.at = "rename"] ELSE Off]
  /\ UNCHANGED <<sess, task, Db, pending, spent>>

Look(t) ==
  /\ timer[t].at = "look"
  /\ timer' = [timer EXCEPT ![t] =
       IF \E u \in Users : Holds(u, timer[t].nick) /\ sess[u].account = None
       THEN [@ EXCEPT !.at = "rename"] ELSE Off]
  /\ UNCHANGED <<sess, task, Db, pending, spent>>

\* ForceNickChange looks the nickname up again.  A guest name in use is not
\* tried again.
RenameToGuest(t, g) ==
  /\ timer[t].at = "rename"
  /\ timer' = [timer EXCEPT ![t] = Off]
  /\ sess' = [u \in Users |->
       IF ~Holds(u, timer[t].nick) THEN sess[u]
       ELSE IF Taken(g) THEN [sess[u] EXCEPT !.warned = FALSE]
       ELSE Named(u, g)[u]]
  /\ UNCHANGED <<task, Db, pending, spent>>

-----------------------------------------------------------------------------
(* Deliver: a message to a service. *)
Send(u, op, target) ==
  /\ At(u, "idle") /\ ~sess[u].dead /\ sess[u].nick # None /\ Spend
  /\ task' = [task EXCEPT ![u] = [Idle EXCEPT !.at = "sender", !.op = op,
                                    !.nick = sess[u].nick, !.target = target]]
  /\ UNCHANGED <<sess, Db, Clock>>

\* The account of whoever has the sender's nickname now.
Sender(u) ==
  /\ At(u, "sender")
  /\ task' = [task EXCEPT ![u].at = "run", ![u].account =
       IF \E v \in Users : Holds(v, task[u].nick)
       THEN sess[CHOOSE v \in Users : Holds(v, task[u].nick)].account ELSE None]
  /\ UNCHANGED <<sess, Db, Clock, spent>>

(* NickServ. *)
Register(u) ==
  /\ On(u, "REGISTER")
  /\ DoneIf(u, task[u].nick \notin Nicks \/ Exists(task[u].nick), "create")
  /\ UNCHANGED <<sess, Db, Clock, spent>>

CreateAccount(u) ==
  /\ At(u, "create")
  /\ IF Exists(task[u].nick) THEN Done(u) /\ UNCHANGED accounts
     ELSE Go(u, "own") /\ Insert(task[u].nick, u)
  /\ UNCHANGED <<sess, owners, Registration, memos, sent, Clock, spent>>

\* nick_owners.Create, of REGISTER and of GROUP: the nickname may have an owner
\* already, and the account must exist.
Own(n, account, primary) ==
  owners' = IF Owner(n) = None /\ Exists(account)
            THEN [owners EXCEPT ![n] = [account |-> account, primary |-> primary]]
            ELSE owners

CreateOwner(u) ==
  /\ At(u, "own") /\ Done(u)
  /\ Own(task[u].nick, task[u].nick, TRUE)
  /\ UNCHANGED <<sess, accounts, Registration, memos, sent, Clock, spent>>

\* IDENTIFY: the password first, then the account of whoever has the sender's
\* nickname, then the timer.
Identify(u) ==
  /\ On(u, "IDENTIFY")
  /\ LET n == task[u].target
     IN IF accounts[n] # u THEN Done(u) /\ UNCHANGED sess
        ELSE Go(u, "set") /\ sess' = [sess EXCEPT ![u].proven = @ \cup {n}]
  /\ UNCHANGED <<Db, Clock, spent>>

SetAccount(u) ==
  /\ At(u, "set") /\ Go(u, "cancel")
  /\ sess' = [v \in Users |-> IF Holds(v, task[u].nick)
                THEN [sess[v] EXCEPT !.account = task[u].target] ELSE sess[v]]
  /\ UNCHANGED <<Db, Clock, spent>>

\* After IDENTIFY and for RELEASE.
CancelEnforcement(u) ==
  /\ At(u, "cancel") /\ Done(u)
  /\ Cancel(IF task[u].op = "IDENTIFY" THEN task[u].nick ELSE task[u].target, sess)
  /\ UNCHANGED <<Db, spent>>

\* GROUP takes an own account and a nickname without an owner.
Group(u) ==
  /\ On(u, "GROUP")
  /\ DoneIf(u, \/ ~Exists(task[u].account) \/ task[u].nick \notin Nicks
               \/ Owner(task[u].nick) # None, "group")
  /\ UNCHANGED <<sess, Db, Clock, spent>>

CreateGroup(u) ==
  /\ At(u, "group") /\ Done(u)
  /\ Own(task[u].nick, task[u].account, FALSE)
  /\ UNCHANGED <<sess, accounts, Registration, memos, sent, Clock, spent>>

\* DROP of an own nickname; of the primary one it is the account.
Drop(u) ==
  /\ On(u, "DROP")
  /\ LET own == Owner(task[u].target)
     IN DoneIf(u, ~(Exists(task[u].account) /\ own # None
                    /\ own.account = task[u].account),
               IF own # None /\ own.primary THEN "drop account" ELSE "drop nick")
  /\ UNCHANGED <<sess, Db, Clock, spent>>

\* Rows that refer to an account: those of nick_owners and channel_access go
\* with it, the others forbid it.
Referred(n) ==
  \/ channel # None /\ channel.founder = n
  \/ \E m \in Memos : memos[m] # None /\ n \in {memos[m].from, memos[m].to}

\* Mutant: the database does not enforce its foreign keys.
DeleteOnly(n) ==
  accounts' = [accounts EXCEPT ![n] = None] /\ UNCHANGED <<owners, access>>

Delete(n) ==
  IF Referred(n) THEN UNCHANGED <<accounts, owners, access>>
  ELSE /\ accounts' = [accounts EXCEPT ![n] = None]
       /\ owners' = [m \in Nicks |-> IF owners[m] # None /\ owners[m].account = n
                                     THEN None ELSE owners[m]]
       /\ access' = access \ {n}

DeleteAccount(u) ==
  /\ At(u, "drop account") /\ Done(u)
  /\ Delete(task[u].account)
  /\ UNCHANGED <<sess, channel, admin, memos, sent, Clock, spent>>

DeleteNick(u) ==
  /\ At(u, "drop nick") /\ Done(u)
  /\ owners' = [owners EXCEPT ![task[u].target] = None]
  /\ UNCHANGED <<sess, accounts, Registration, memos, sent, Clock, spent>>

\* GHOST and RELEASE: the account that owns the nickname or has its name, or
\* the password of either.
Entitled(u, n) ==
  LET account == task[u].account
  IN \/ Exists(account) /\ (account = n \/ (Owner(n) # None /\ Owner(n).account = account))
     \/ IF Owner(n) # None THEN accounts[Owner(n).account] = u ELSE accounts[n] = u

Ghost(u) ==
  /\ On(u, "GHOST")
  /\ DoneIf(u, task[u].target = task[u].nick \/ ~Entitled(u, task[u].target), "ghost")
  /\ UNCHANGED <<sess, Db, Clock, spent>>

DisconnectNick(u) ==
  /\ At(u, "ghost") /\ Done(u)
  /\ sess' = [v \in Users |-> IF Holds(v, task[u].target)
                THEN [sess[v] EXCEPT !.dead = TRUE] ELSE sess[v]]
  /\ UNCHANGED <<Db, Clock, spent>>

Release(u) ==
  /\ On(u, "RELEASE")
  /\ DoneIf(u, ~Entitled(u, task[u].target), "cancel")
  /\ UNCHANGED <<sess, Db, Clock, spent>>

-----------------------------------------------------------------------------
(* ChanServ. *)
CreateRow(founder) ==
  IF channel = None /\ Exists(founder) THEN [founder |-> founder, guard |-> TRUE]
  ELSE channel
UpdateRow(row) == IF channel # None /\ Exists(row.founder) THEN row ELSE channel
DeleteRow == channel' = None /\ access' = {}

ChanRegister(u) ==
  /\ On(u, "CHAN REGISTER") /\ Done(u)
  /\ channel' = CreateRow(task[u].account)
  /\ UNCHANGED <<sess, accounts, owners, access, admin, memos, sent, Clock, spent>>

\* DROP and SET are for the founder, as the row said when it was read.
ChanCheck(u) ==
  /\ task[u].op \in {"CHAN DROP", "CHAN SET"} /\ At(u, "run")
  /\ IF channel # None /\ channel.founder = task[u].account
     THEN task' = [task EXCEPT ![u].at = "channel", ![u].row = channel]
     ELSE Done(u)
  /\ UNCHANGED <<sess, Db, Clock, spent>>

ChanDrop(u) ==
  /\ At(u, "channel") /\ task[u].op = "CHAN DROP" /\ Done(u)
  /\ DeleteRow
  /\ UNCHANGED <<sess, accounts, owners, admin, memos, sent, Clock, spent>>

\* SET GUARD writes the whole row back, its founder too.
ChanSet(u) ==
  /\ At(u, "channel") /\ task[u].op = "CHAN SET" /\ Done(u)
  /\ \E on \in BOOLEAN : channel' = UpdateRow([task[u].row EXCEPT !.guard = on])
  /\ UNCHANGED <<sess, accounts, owners, access, admin, memos, sent, Clock, spent>>

-----------------------------------------------------------------------------
(* MemoServ. *)
MemoLooks(u) ==
  /\ On(u, "MEMO SEND")
  /\ DoneIf(u, ~(Exists(task[u].account) /\ Exists(task[u].target)), "memo")
  /\ UNCHANGED <<sess, Db, Clock, spent>>

MemoSend(u) ==
  /\ At(u, "memo") /\ Done(u) /\ sent < MaxMemos
  /\ sent' = sent + 1
  /\ memos' = IF Exists(task[u].account) /\ Exists(task[u].target)
              THEN [memos EXCEPT ![sent + 1] =
                      [from |-> task[u].account, to |-> task[u].target, read |-> FALSE]]
              ELSE memos
  /\ UNCHANGED <<sess, accounts, owners, Registration, Clock, spent>>

Mine(u, m) == memos[m] # None /\ memos[m].to = task[u].account
              /\ Exists(task[u].account)

MemoRead(u) ==
  /\ On(u, "MEMO READ") /\ Done(u)
  /\ \E m \in Memos : memos' = IF Mine(u, m) THEN [memos EXCEPT ![m].read = TRUE]
                               ELSE memos
  /\ UNCHANGED <<sess, accounts, owners, Registration, sent, Clock, spent>>

MemoDelete(u) ==
  /\ On(u, "MEMO DELETE") /\ Done(u)
  /\ \E m \in Memos : memos' = IF Mine(u, m) THEN [memos EXCEPT ![m] = None] ELSE memos
  /\ UNCHANGED <<sess, accounts, owners, Registration, sent, Clock, spent>>

MemoPurge(u) ==
  /\ On(u, "MEMO PURGE") /\ Done(u)
  /\ memos' = [m \in Memos |-> IF Mine(u, m) /\ memos[m].read THEN None ELSE memos[m]]
  /\ UNCHANGED <<sess, accounts, owners, Registration, sent, Clock, spent>>

\* retentionLoop: the old ones, that is the first of them, read or not.
Retention ==
  /\ \E k \in Memos : /\ memos[k] # None
                      /\ memos' = [m \in Memos |-> IF m <= k THEN None ELSE memos[m]]
  /\ UNCHANGED <<sess, task, accounts, owners, Registration, sent, Clock, spent>>

-----------------------------------------------------------------------------
(* Administration over HTTP.  A request checks the rows it refers to before  *)
(* its one statement, which the database checks once more, so that only an   *)
(* update of a registration takes two steps.                                 *)
\* An account without a nickname, its password given to somebody.
ApiCreateAccount(n, u) ==
  /\ ~Exists(n) /\ Spend
  /\ Insert(n, u)
  /\ UNCHANGED <<sess, task, owners, Registration, memos, sent, Clock>>

ApiResetPassword(n, u) ==
  /\ Exists(n) /\ Spend
  /\ Insert(n, u)
  /\ UNCHANGED <<sess, task, owners, Registration, memos, sent, Clock>>

ApiDeleteAccount(n) ==
  /\ Exists(n) /\ Spend
  /\ Delete(n)
  /\ UNCHANGED <<sess, task, channel, admin, memos, sent, Clock>>

ApiRegister(n, guard) ==
  /\ channel = None /\ Exists(n) /\ Spend
  /\ channel' = [CreateRow(n) EXCEPT !.guard = guard]
  /\ UNCHANGED <<sess, task, accounts, owners, access, admin, memos, sent, Clock>>

\* The registration is read, its founder replaced if the request names one.
ApiReads(n, guard) ==
  /\ admin = None /\ channel # None /\ Spend
  /\ n = None \/ Exists(n)
  /\ admin' = [founder |-> IF n = None THEN channel.founder ELSE n, guard |-> guard]
  /\ UNCHANGED <<sess, task, accounts, owners, channel, access, memos, sent, Clock>>

ApiUpdate ==
  /\ admin # None /\ admin' = None
  /\ channel' = UpdateRow(admin)
  /\ UNCHANGED <<sess, task, accounts, owners, access, memos, sent, Clock, spent>>

ApiUnregister ==
  /\ channel # None /\ Spend
  /\ DeleteRow
  /\ UNCHANGED <<sess, task, accounts, owners, admin, memos, sent, Clock>>

SetAccess(n) ==
  /\ channel # None /\ Exists(n) /\ Spend
  /\ access' = access \cup {n}
  /\ UNCHANGED <<sess, task, accounts, owners, channel, admin, memos, sent, Clock>>

DeleteAccess(n) ==
  /\ n \in access /\ Spend
  /\ access' = access \ {n}
  /\ UNCHANGED <<sess, task, accounts, owners, channel, admin, memos, sent, Clock>>

Api ==
  \/ \E n \in Nicks :
       \/ \E u \in Users : ApiCreateAccount(n, u) \/ ApiResetPassword(n, u)
       \/ ApiDeleteAccount(n) \/ SetAccess(n) \/ DeleteAccess(n)
       \/ \E guard \in BOOLEAN : ApiRegister(n, guard)
  \/ \E n \in Nicks \cup {None}, guard \in BOOLEAN : ApiReads(n, guard)
  \/ ApiUpdate \/ ApiUnregister

-----------------------------------------------------------------------------
\* A handler that has begun, up to its end.
Step(u) ==
  \/ CheckNick(u) \/ Sender(u)
  \/ Register(u) \/ CreateAccount(u) \/ CreateOwner(u)
  \/ Identify(u) \/ SetAccount(u) \/ CancelEnforcement(u)
  \/ Group(u) \/ CreateGroup(u)
  \/ Drop(u) \/ DeleteAccount(u) \/ DeleteNick(u)
  \/ Ghost(u) \/ DisconnectNick(u) \/ Release(u)
  \/ ChanRegister(u) \/ ChanCheck(u) \/ ChanDrop(u) \/ ChanSet(u)
  \/ MemoLooks(u) \/ MemoSend(u) \/ MemoRead(u) \/ MemoDelete(u) \/ MemoPurge(u)

Enforce(t) ==
  \/ Fire(t) \/ Forget(t) \/ Look(t)
  \/ \E g \in Guests : RenameToGuest(t, g)

Next ==
  \/ \E u \in Users :
       \/ \E n \in Names : Nick(u, n)
       \/ \E n \in Nicks : Authenticate(u, n)
       \/ \E op \in Ops : Send(u, op, None)
       \/ \E op \in OpsOnNick, n \in Nicks : Send(u, op, n)
       \/ Step(u) \/ Disconnect(u)
  \/ \E t \in Timers : Enforce(t)
  \/ Retention \/ Api

\* A handler that has begun goes on, and a timer runs.
Spec ==
  /\ Init /\ [][Next]_vars
  /\ \A u \in Users : WF_vars(Step(u))
  /\ \A t \in Timers : WF_vars(Enforce(t))

-----------------------------------------------------------------------------
Session == [nick : Names \cup {None}, account : Nicks \cup {None},
            dead : BOOLEAN, warned : BOOLEAN,
            proven : SUBSET (Nicks \cup {None}), lent : SUBSET (Nicks \cup {None})]
Place == {"idle", "check", "sender", "run", "create", "own", "set", "cancel", "group",
          "drop account", "drop nick", "ghost", "channel", "memo"}
Task == [at : Place, op : Ops \cup OpsOnNick \cup {None}, nick : Names \cup {None},
         account : Nicks \cup {None}, target : Nicks \cup {None}, row : Row \cup {None}]
Ownership == [account : Nicks, primary : BOOLEAN]
Memo == [from : Nicks, to : Nicks, read : BOOLEAN]
Clocks == [at : {"off", "armed", "fired", "look", "rename"}, nick : Names \cup {None}]

\* Types, of sessions, handlers and timers too: a ChanServ command past its check
\* has the row it read, a command its sender's nickname and a timer the nickname
\* it guards.  And what the database's references give whatever order the commands
\* of several clients and of an administrator come in: an owner of a nickname,
\* the founder of a channel, who is on its access list and both ends of a memo
\* are accounts that exist (accounts.Delete with its cascade, nickserv.go:206),
\* and only a registered channel has an access list (channel_registration.go:187).
TypeOK ==
  /\ sess \in [Users -> Session] /\ task \in [Users -> Task]
  /\ accounts \in [Nicks -> Users \cup {None}]
  /\ owners \in [Nicks -> Ownership \cup {None}]
  /\ channel \in Row \cup {None} /\ access \in SUBSET Nicks /\ admin \in Row \cup {None}
  /\ memos \in [Memos -> Memo \cup {None}] /\ sent \in 0..MaxMemos
  /\ pending \in [Names -> Timers \cup {0}] /\ timer \in [Timers -> Clocks]
  /\ spent \in 0..MaxCommands
  /\ \A u \in Users : /\ At(u, "channel") => task[u].row \in Row
                      /\ task[u].at # "idle" => task[u].nick \in Names
  /\ \A t \in Timers : timer[t].at # "off" => timer[t].nick \in Names
  /\ \A n \in Nicks : owners[n] # None => Exists(owners[n].account)
  /\ channel # None => Exists(channel.founder)
  /\ access # {} => channel # None
  /\ \A n \in access : Exists(n)
  /\ \A m \in Memos : memos[m] # None => Exists(memos[m].from) /\ Exists(memos[m].to)

\* A session has the account whose password it gave itself, by SASL or by
\* IDENTIFY, or for which another session was identifying under this nickname
\* when the nickname passed to it: Deliver sets the account by nickname, after
\* the password (nickserv/service.go:126).
IdentityIsEarned ==
  \A u \in Users : sess[u].account # None
                     => sess[u].account \in sess[u].proven \cup sess[u].lent

\* Who was told to identify and does not, does not stay on the nickname: the
\* timer gets it renamed, whatever others do with the nickname's entry, or it
\* leaves, is released, or the guest name was in use (service.go:203).
ImpostorsLeave ==
  \A u \in Users : []<>~(sess[u].warned /\ sess[u].account = None)
=============================================================================

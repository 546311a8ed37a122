------------------------------ MODULE BotsProofs ------------------------------
(***************************************************************************)
(* Bots, for any number of bots and of requests: a bot never answers       *)
(* twice, whatever requests overlap, and as long as none overlap handlers  *)
(* do not run concurrently and what runs is what is stored.                *)
(***************************************************************************)
EXTENDS Bots, FiniteSetTheorems, TLAPS

Places == {"idle", "next", "insert", "store", "erase", "prepare", "compile", "list",
           "launch", "reply", "unlist", "wait", "close"}
Thread == [at : Places, op : {"none", "boot", "stop", "create", "update", "delete"},
           bot : Bots \cup {None}, rec : Record \cup {None},
           own : Nat \cup Bots \cup {None}, todo : SUBSET (Nat \cup Bots)]
Inst == [bot : Bots \cup {None}, rec : Record \cup {None}, parent : Threads \cup {None},
         user : BOOLEAN, hook : BOOLEAN, cancelled : BOOLEAN, closed : BOOLEAN,
         closing : BOOLEAN,
         at : {"none", "made", "init", "handler", "select", "ended"}, inbox : 0..InboxSize]

\* Where an operation uses its bot.
Busy == {"insert", "store", "erase", "prepare", "compile", "list", "launch", "unlist"}
\* An operation has a bot, and what it is about to store is a record.
Hands(t) ==
  /\ thread[t].at \in Busy
        \/ thread[t].op \in {"update", "delete"} => thread[t].bot \in Bots
  /\ thread[t].at \in {"insert", "store"} => thread[t].rec \in Record
StateOK ==
  /\ phase \in {"boot", "up", "stopping", "down", "crashed"} /\ overlap \in BOOLEAN
  /\ stored \in [Bots -> Record \cup {None}] /\ born \subseteq Bots /\ made \in Nat
ThreadsOK == thread \in [Threads -> Thread] /\ \A t \in Threads : Hands(t)
InstOK == inst \in [Instance -> Inst]
RunningOK == running \in [Bots -> Nat \cup Bots \cup {None}]
\* Until the bots of the store are started, they are there.
BootOK == phase = "boot" => \A b \in thread["main"].todo : b \in Bots
TypeInv == StateOK /\ ThreadsOK /\ InstOK /\ RunningOK /\ BootOK

-----------------------------------------------------------------------------
(* What a step of a goroutine leaves alone. *)

\* An instance is as it was, except that it may have been cancelled.
Like(a, b) ==
  /\ a.bot = b.bot /\ a.rec = b.rec /\ a.parent = b.parent /\ a.user = b.user
  /\ a.hook = b.hook /\ a.closed = b.closed /\ a.closing = b.closing /\ a.at = b.at
  /\ b.cancelled => a.cancelled
Same(i) == Like(inst'[i], inst[i])
Others(t) == \A u \in Threads : u # t => thread'[u] = thread[u]
\* The operation is over, or main goes on with the next bot.
Rests(t) ==
  IF t = "main" THEN thread'[t] = [thread[t] EXCEPT !.at = "next"] ELSE thread'[t] = Idle

LEMMA IdleOK == Idle \in Thread /\ NoInstance \in Inst
BY BotsAssumption DEF Idle, Thread, Places, NoInstance, Inst

LEMMA OneThread ==
  ASSUME ThreadsOK, NEW t \in Threads, NEW r \in Thread, thread' = [thread EXCEPT ![t] = r],
         r.at \in Busy
           \/ r.op \in {"update", "delete"} => r.bot \in Bots,
         r.at \in {"insert", "store"} => r.rec \in Record
  PROVE  ThreadsOK' /\ Others(t) /\ thread'[t] = r
<1>1. thread' \in [Threads -> Thread] /\ Others(t) /\ thread'[t] = r
  BY DEF ThreadsOK, Others
<1>2. \A u \in Threads : Hands(u)'
  BY <1>1 DEF ThreadsOK, Others, Hands, Busy
<1> QED BY <1>1, <1>2 DEF ThreadsOK

LEMMA GoDoes ==
  ASSUME ThreadsOK, NEW t \in Threads, NEW p \in Places \ {"insert", "store"}, Go(t, p),
         p \in Busy => thread[t].bot \in Bots
  PROVE  ThreadsOK' /\ Others(t) /\ thread'[t] = [thread[t] EXCEPT !.at = p]
<1> DEFINE r == [thread[t] EXCEPT !.at = p]
<1>1. r \in Thread /\ r.at = p /\ r.op = thread[t].op /\ r.bot = thread[t].bot
  BY DEF ThreadsOK, Thread
<1>2. thread' = [thread EXCEPT ![t] = r]
  BY DEF Go
<1>3. r.op \in {"update", "delete"} => r.bot \in Bots
  BY <1>1 DEF ThreadsOK, Hands, Busy
<1> HIDE DEF r
<1>4. ThreadsOK' /\ Others(t) /\ thread'[t] = r
  BY <1>1, <1>2, <1>3, OneThread
<1> QED BY <1>4 DEF r

LEMMA Cancelling ==
  ASSUME NEW r \in Inst, NEW s, s = r \/ s = [r EXCEPT !.cancelled = TRUE]
  PROVE  s \in Inst /\ Like(s, r)
<1>1. CASE s = r
  BY <1>1 DEF Like
<1>2. CASE s = [r EXCEPT !.cancelled = TRUE]
  <2>1. /\ s.bot = r.bot /\ s.rec = r.rec /\ s.parent = r.parent /\ s.user = r.user
        /\ s.hook = r.hook /\ s.closed = r.closed /\ s.closing = r.closing /\ s.at = r.at
    BY <1>2 DEF Inst
  <2>2. s \in Inst /\ s.cancelled = TRUE
    BY <1>2 DEF Inst
  <2> QED BY <2>1, <2>2 DEF Like
<1> QED BY <1>1, <1>2

LEMMA ReturnDoes ==
  ASSUME ThreadsOK, NEW t \in Threads, NEW J \in [Instance -> Inst], Return(t, J)
  PROVE  /\ ThreadsOK' /\ Others(t) /\ Rests(t)
         /\ InstOK' /\ \A i \in Instance : Like(inst'[i], J[i])
<1>1. CASE t = "main"
  <2>1. Go(t, "next") /\ inst' = J
    BY <1>1 DEF Return
  <2>2. ThreadsOK' /\ Others(t) /\ thread'[t] = [thread[t] EXCEPT !.at = "next"]
    BY <2>1, GoDoes DEF Places, Busy
  <2> QED BY <1>1, <2>1, <2>2 DEF Rests, InstOK, Like
<1>2. CASE t # "main"
  <2>1. thread' = [thread EXCEPT ![t] = Idle] /\ inst' = Ended(t, J)
    BY <1>2 DEF Return
  <2>2. Idle.at = "idle" /\ Idle.op = "none"
    BY DEF Idle
  <2>3. ThreadsOK' /\ Others(t) /\ thread'[t] = Idle
    BY <2>1, <2>2, IdleOK, OneThread DEF Busy
  <2>4. \A i \in Instance : inst'[i] = J[i] \/ inst'[i] = [J[i] EXCEPT !.cancelled = TRUE]
    BY <2>1 DEF Ended
  <2>5. inst' = [i \in Instance |-> inst'[i]]
    BY <2>1 DEF Ended
  <2>6. \A i \in Instance : inst'[i] \in Inst /\ Like(inst'[i], J[i])
    BY <2>4, Cancelling
  <2>7. InstOK'
    BY <2>5, <2>6 DEF InstOK
  <2> QED BY <1>2, <2>3, <2>6, <2>7 DEF Rests
<1> QED BY <1>1, <1>2

\* Nothing but contexts changes in the instances of a list.
LEMMA SameReturn ==
  ASSUME ThreadsOK, InstOK, NEW t \in Threads, Return(t, inst)
  PROVE  ThreadsOK' /\ Others(t) /\ Rests(t) /\ InstOK' /\ \A i \in Instance : Same(i)
BY ReturnDoes DEF InstOK, Same

LEMMA SameInst ==
  ASSUME InstOK, UNCHANGED inst PROVE InstOK' /\ \A i \in Instance : Same(i)
BY DEF InstOK, Same, Like

\* stopBot is over: the operation ends, erases the row or prepares anew.
Proceeds(t) ==
  \/ Rests(t) /\ thread[t].op # "delete" /\ ~ (thread[t].op = "update" /\ thread[t].rec.enabled)
  \/ /\ thread[t].op = "delete"
     /\ thread'[t] = [thread[t] EXCEPT !.own = None, !.at = "erase"]
  \/ /\ thread[t].op = "update" /\ thread[t].rec.enabled
     /\ thread'[t] = [thread[t] EXCEPT !.own = None, !.at = "prepare"]

LEMMA ProceedDoes ==
  ASSUME ThreadsOK, NEW t \in Threads, NEW J \in [Instance -> Inst], Proceed(t, J)
  PROVE  /\ ThreadsOK' /\ Others(t) /\ Proceeds(t)
         /\ InstOK' /\ \A i \in Instance : Like(inst'[i], J[i])
<1>1. CASE thread[t].op = "delete" \/ (thread[t].op = "update" /\ thread[t].rec.enabled)
  <2> DEFINE p == IF thread[t].op = "delete" THEN "erase" ELSE "prepare"
             r == [thread[t] EXCEPT !.own = None, !.at = p]
  <2>1. thread[t] \in Thread /\ thread[t].bot \in Bots
    BY <1>1 DEF ThreadsOK, Hands, Busy
  <2>2. r \in Thread /\ r.at = p /\ r.bot \in Bots
    BY <2>1 DEF Thread, Places
  <2>3. thread' = [thread EXCEPT ![t] = r] /\ inst' = J
    BY <1>1 DEF Proceed, ThreadsOK
  <2>4. p = "erase" \/ p = "prepare"
    OBVIOUS
  <2>5. ThreadsOK' /\ Others(t) /\ thread'[t] = r
    BY <2>2, <2>3, <2>4, OneThread
  <2> QED BY <1>1, <2>3, <2>5 DEF Proceeds, InstOK, Like
<1>2. CASE ~ (thread[t].op = "delete" \/ (thread[t].op = "update" /\ thread[t].rec.enabled))
  BY <1>2, ReturnDoes DEF Proceed, Proceeds
<1> QED BY <1>1, <1>2

\* All instances but one are as they were.
Only(k) == \A i \in Instance : i # k => Same(i)
KeptTypes == StateOK' /\ ThreadsOK' /\ InstOK' /\ RunningOK'

LEMMA InsertDoes ==
  ASSUME TypeInv, NEW t \in Threads, Insert(t)
  PROVE  /\ KeptTypes /\ Others(t) /\ \A i \in Instance : Same(i)
         /\ Rests(t) \/ thread'[t] = [thread[t] EXCEPT !.at = "prepare"]
<1>0. thread[t].at = "insert" /\ thread[t].bot \in Bots /\ thread[t].rec \in Record
  BY DEF TypeInv, ThreadsOK, Hands, Busy, Insert
<1>1. StateOK' /\ RunningOK'
  BY <1>0 DEF TypeInv, StateOK, RunningOK, Insert, others
<1>2. CASE Return(t, inst)
  BY <1>1, <1>2, SameReturn DEF TypeInv, KeptTypes
<1>3. CASE Go(t, "prepare") /\ inst' = inst
  <2>1. ThreadsOK' /\ Others(t) /\ thread'[t] = [thread[t] EXCEPT !.at = "prepare"]
    BY <1>0, <1>3, GoDoes DEF TypeInv, Places
  <2> QED BY <1>1, <1>3, <2>1, SameInst DEF TypeInv, KeptTypes
<1> QED BY <1>2, <1>3 DEF Insert

LEMMA StoreDoes ==
  ASSUME TypeInv, NEW t \in Threads, Store(t)
  PROVE  /\ KeptTypes /\ Others(t) /\ \A i \in Instance : Same(i)
         /\ Rests(t) \/ thread'[t] = [thread[t] EXCEPT !.at = "unlist"]
<1>0. thread[t].at = "store" /\ thread[t].bot \in Bots /\ thread[t].rec \in Record
  BY DEF TypeInv, ThreadsOK, Hands, Busy, Store
<1>1. StateOK' /\ RunningOK'
  BY <1>0 DEF TypeInv, StateOK, RunningOK, Store, others
<1>2. CASE Return(t, inst)
  BY <1>1, <1>2, SameReturn DEF TypeInv, KeptTypes
<1>3. CASE Go(t, "unlist") /\ inst' = inst
  <2>1. ThreadsOK' /\ Others(t) /\ thread'[t] = [thread[t] EXCEPT !.at = "unlist"]
    BY <1>0, <1>3, GoDoes DEF TypeInv, Places
  <2> QED BY <1>1, <1>3, <2>1, SameInst DEF TypeInv, KeptTypes
<1> QED BY <1>2, <1>3 DEF Store

LEMMA EndDoes ==
  ASSUME TypeInv, NEW t \in Threads, Erase(t) \/ Reply(t)
  PROVE  KeptTypes /\ Others(t) /\ Rests(t) /\ \A i \in Instance : Same(i)
<1>1. StateOK' /\ RunningOK'
  BY DEF TypeInv, StateOK, RunningOK, Erase, Reply, others
<1> QED BY <1>1, SameReturn DEF TypeInv, KeptTypes, Erase, Reply

LEMMA AddUserDoes ==
  ASSUME TypeInv, NEW t \in Threads, AddUser(t)
  PROVE  /\ KeptTypes /\ Others(t) /\ \A i \in Instance : Same(i)
         /\ \/ NickTaken(thread[t].rec.name) /\ Rests(t) /\ refused' = refused \cup {thread[t].bot}
            \/ /\ ~NickTaken(thread[t].rec.name) /\ refused' = refused
               /\ thread'[t] = [thread[t] EXCEPT !.at = "compile"]
<1>0. thread[t].at = "prepare" /\ thread[t].bot \in Bots
  BY DEF TypeInv, ThreadsOK, Hands, Busy, AddUser
<1>1. StateOK' /\ RunningOK'
  BY <1>0 DEF TypeInv, StateOK, RunningOK, AddUser, others
<1>2. CASE NickTaken(thread[t].rec.name)
  BY <1>1, <1>2, SameReturn DEF TypeInv, KeptTypes, AddUser
<1>3. CASE ~NickTaken(thread[t].rec.name)
  <2>1. Go(t, "compile") /\ inst' = inst /\ refused' = refused
    BY <1>3 DEF AddUser
  <2>2. ThreadsOK' /\ Others(t) /\ thread'[t] = [thread[t] EXCEPT !.at = "compile"]
    BY <1>0, <2>1, GoDoes DEF TypeInv, Places
  <2> QED BY <1>1, <1>3, <2>1, <2>2, SameInst DEF TypeInv, KeptTypes
<1> QED BY <1>2, <1>3

LEMMA CompileDoes ==
  ASSUME TypeInv, NEW t \in Threads, Compile(t)
  PROVE  /\ KeptTypes /\ Others(t)
         /\ \/ /\ thread[t].rec.script # "good"
               /\ Rests(t) /\ made' = made /\ \A i \in Instance : Same(i)
            \/ /\ thread[t].rec.script = "good" /\ made' = made + 1
               /\ Only(made + 1) /\ (made + 1 \in Instance => inst'[made + 1] = Prepared(t))
               /\ thread'[t] = [thread[t] EXCEPT !.at = "list", !.own = made + 1]
<1>0. thread[t].at = "compile" /\ thread[t].bot \in Bots /\ thread[t] \in Thread
  BY DEF TypeInv, ThreadsOK, Hands, Busy, Compile
<1>1. StateOK' /\ RunningOK'
  BY <1>0 DEF TypeInv, StateOK, RunningOK, Compile, others
<1>2. CASE thread[t].rec.script # "good"
  BY <1>1, <1>2, SameReturn DEF TypeInv, KeptTypes, Compile
<1>3. CASE thread[t].rec.script = "good"
  <2> DEFINE r == [thread[t] EXCEPT !.at = "list", !.own = made + 1]
  <2>0. made + 1 \in Nat
    BY DEF TypeInv, StateOK
  <2>9. /\ made' = made + 1 /\ inst' = [inst EXCEPT ![made + 1] = Prepared(t)]
        /\ thread' = [thread EXCEPT ![t].at = "list", ![t].own = made + 1]
    BY <1>3 DEF Compile
  <2>1. r \in Thread /\ r.at = "list" /\ r.bot \in Bots
    BY <1>0, <2>0 DEF Thread, Places
  <2>2. thread' = [thread EXCEPT ![t] = r]
    BY <2>9 DEF TypeInv, ThreadsOK
  <2> HIDE DEF r
  <2>3. ThreadsOK' /\ Others(t) /\ thread'[t] = r
    BY <2>1, <2>2, OneThread DEF TypeInv
  <2>4. Prepared(t) \in Inst
    BY <1>0, IdleOK DEF Prepared, Inst, Thread
  <2>5. /\ InstOK' /\ \A i \in Instance : i # made + 1 => inst'[i] = inst[i]
        /\ made + 1 \in Instance => inst'[made + 1] = Prepared(t)
    BY <2>4, <2>9 DEF TypeInv, InstOK
  <2>6. Only(made + 1)
    BY <2>5 DEF Only, Same, Like
  <2> QED BY <1>1, <1>3, <2>3, <2>5, <2>6, <2>9 DEF KeptTypes, r
<1> QED BY <1>2, <1>3

LEMMA ListDoes ==
  ASSUME TypeInv, NEW t \in Threads, List(t)
  PROVE  /\ KeptTypes /\ Others(t) /\ \A i \in Instance : Same(i)
         /\ \/ running[thread[t].bot] # None /\ Rests(t) /\ running' = running
            \/ /\ running[thread[t].bot] = None
               /\ running' = [running EXCEPT ![thread[t].bot] = thread[t].own]
               /\ thread'[t] = [thread[t] EXCEPT !.at = "launch"]
<1>0. thread[t].at = "list" /\ thread[t].bot \in Bots
  BY DEF TypeInv, ThreadsOK, Hands, Busy, List
<1>1. CASE running[thread[t].bot] # None
  <2> DEFINE prev == running[thread[t].bot]
             J == [inst EXCEPT ![prev].cancelled = TRUE]
  <2>1. Return(t, J) /\ running' = running
    BY <1>1 DEF List
  <2>2. J \in [Instance -> Inst]
    <3> DEFINE r == [inst[prev] EXCEPT !.cancelled = TRUE]
    <3>1. prev \in Instance => r \in Inst
      BY Cancelling DEF TypeInv, InstOK
    <3>2. J = [inst EXCEPT ![prev] = r]
      BY DEF TypeInv, InstOK
    <3> QED BY <3>1, <3>2 DEF TypeInv, InstOK
  <2>3. \A i \in Instance : J[i] = inst[i] \/ J[i] = [inst[i] EXCEPT !.cancelled = TRUE]
    BY DEF TypeInv, InstOK
  <2> HIDE DEF J
  <2>4. \A i \in Instance : inst[i] \in Inst /\ Like(J[i], inst[i])
    BY <2>3, Cancelling DEF TypeInv, InstOK
  <2>5. ThreadsOK' /\ Others(t) /\ Rests(t) /\ InstOK' /\ \A i \in Instance : Like(inst'[i], J[i])
    BY <2>1, <2>2, ReturnDoes DEF TypeInv
  <2>6. \A i \in Instance : Same(i)
    BY <2>4, <2>5 DEF Same, Like
  <2>7. StateOK' /\ RunningOK'
    BY <2>1 DEF TypeInv, StateOK, RunningOK, List, others
  <2> QED BY <1>1, <2>1, <2>5, <2>6, <2>7 DEF KeptTypes
<1>2. CASE running[thread[t].bot] = None
  <2>1. running' = [running EXCEPT ![thread[t].bot] = thread[t].own] /\ Go(t, "launch") /\ inst' = inst
    BY <1>2 DEF List
  <2>2. ThreadsOK' /\ Others(t) /\ thread'[t] = [thread[t] EXCEPT !.at = "launch"]
    BY <1>0, <2>1, GoDoes DEF TypeInv, Places
  <2>3. StateOK' /\ RunningOK'
    BY <2>1 DEF TypeInv, StateOK, RunningOK, List, ThreadsOK, Thread, others
  <2> QED BY <1>2, <2>1, <2>2, <2>3, SameInst DEF TypeInv, KeptTypes
<1> QED BY <1>1, <1>2

LEMMA OneInst ==
  ASSUME InstOK, NEW k, NEW r, k \in Instance => r \in Inst, inst' = [inst EXCEPT ![k] = r]
  PROVE  InstOK' /\ Only(k) /\ (k \in Instance => inst'[k] = r)
<1>1. InstOK' /\ (\A i \in Instance : i # k => inst'[i] = inst[i]) /\ (k \in Instance => inst'[k] = r)
  BY DEF InstOK
<1> QED BY <1>1 DEF Only, Same, Like

LEMMA Altered ==
  ASSUME NEW q \in Inst
  PROVE  /\ [q EXCEPT !.hook = TRUE, !.at = "init"] \in Inst
         /\ [q EXCEPT !.hook = FALSE, !.cancelled = TRUE] \in Inst
         /\ [q EXCEPT !.closing = TRUE] \in Inst
         /\ [q EXCEPT !.closed = TRUE, !.closing = FALSE, !.user = FALSE, !.rec = None] \in Inst
<1>1. [q EXCEPT !.hook = TRUE, !.at = "init"] \in Inst
  BY DEF Inst
<1>2. [q EXCEPT !.hook = FALSE, !.cancelled = TRUE] \in Inst
  BY DEF Inst
<1>3. [q EXCEPT !.closing = TRUE] \in Inst
  BY DEF Inst
<1>4. [q EXCEPT !.closed = TRUE, !.closing = FALSE, !.user = FALSE, !.rec = None] \in Inst
  BY DEF Inst
<1> QED BY <1>1, <1>2, <1>3, <1>4

LEMMA UnlistedFields ==
  ASSUME NEW q \in Inst, NEW r, r = [q EXCEPT !.hook = FALSE, !.cancelled = TRUE]
  PROVE  /\ r.bot = q.bot /\ r.rec = q.rec /\ r.user = q.user /\ r.closed = q.closed
         /\ r.closing = q.closing /\ r.at = q.at /\ ~ r.hook /\ r.cancelled
<1>1. /\ r.bot = q.bot /\ r.rec = q.rec /\ r.user = q.user /\ r.closed = q.closed
      /\ r.closing = q.closing /\ r.at = q.at
  BY DEF Inst
<1>2. r.hook = FALSE
  BY DEF Inst
<1>3. r.cancelled = TRUE
  BY DEF Inst
<1> QED BY <1>1, <1>2, <1>3

LEMMA LaunchDoes ==
  ASSUME TypeInv, NEW t \in Threads, Launch(t)
  PROVE  LET k == thread[t].own IN
         /\ KeptTypes /\ Others(t) /\ Only(k)
         /\ k \in Instance => inst'[k] = [inst[k] EXCEPT !.hook = TRUE, !.at = "init"]
         /\ thread'[t] = [thread[t] EXCEPT !.at = "reply"]
<1> DEFINE k == thread[t].own
           r == [inst[k] EXCEPT !.hook = TRUE, !.at = "init"]
<1>1. inst' = [inst EXCEPT ![k] = r]
  BY DEF Launch, TypeInv, InstOK
<1>2. k \in Instance => r \in Inst
  BY Altered DEF TypeInv, InstOK
<1>3. InstOK' /\ Only(k) /\ (k \in Instance => inst'[k] = r)
  BY <1>1, <1>2, OneInst DEF TypeInv
<1>4. ThreadsOK' /\ Others(t) /\ thread'[t] = [thread[t] EXCEPT !.at = "reply"]
  BY GoDoes DEF Launch, TypeInv, Places, Busy
<1>5. StateOK' /\ RunningOK'
  BY DEF TypeInv, StateOK, RunningOK, Launch, others
<1> QED BY <1>3, <1>4, <1>5 DEF KeptTypes

LEMMA UnlistDoes ==
  ASSUME TypeInv, NEW t \in Threads, Unlist(t)
  PROVE  LET k == running[thread[t].bot] IN
         /\ KeptTypes /\ Others(t)
         /\ \/ k = None /\ running' = running /\ Proceeds(t) /\ \A i \in Instance : Same(i)
            \/ /\ k # None /\ running' = [running EXCEPT ![thread[t].bot] = None] /\ Only(k)
               /\ k \in Instance => inst'[k] = [inst[k] EXCEPT !.hook = FALSE, !.cancelled = TRUE]
               /\ thread'[t] = [thread[t] EXCEPT !.at = "wait", !.own = k]
<1> DEFINE b == thread[t].bot
           k == running[b]
<1>0. thread[t].at = "unlist" /\ b \in Bots /\ thread[t] \in Thread
  BY DEF TypeInv, ThreadsOK, Hands, Busy, Unlist
<1>1. StateOK' /\ RunningOK'
  BY <1>0 DEF TypeInv, StateOK, RunningOK, Unlist, others
<1>2. CASE k = None
  <2>1. Proceed(t, inst) /\ running' = running
    BY <1>2 DEF Unlist
  <2>2. ThreadsOK' /\ Others(t) /\ Proceeds(t) /\ InstOK' /\ \A i \in Instance : Like(inst'[i], inst[i])
    BY <2>1, ProceedDoes DEF TypeInv, InstOK
  <2> QED BY <1>1, <1>2, <2>1, <2>2 DEF KeptTypes, Same
<1>3. CASE k # None
  <2> DEFINE r == [inst[k] EXCEPT !.hook = FALSE, !.cancelled = TRUE]
             h == [thread[t] EXCEPT !.at = "wait", !.own = k]
  <2>1. /\ running' = [running EXCEPT ![b] = None]
        /\ inst' = [inst EXCEPT ![k].hook = FALSE, ![k].cancelled = TRUE]
        /\ thread' = [thread EXCEPT ![t].at = "wait", ![t].own = k]
    BY <1>3 DEF Unlist
  <2>2. inst' = [inst EXCEPT ![k] = r]
    BY <2>1 DEF TypeInv, InstOK
  <2>3. k \in Instance => r \in Inst
    BY Altered DEF TypeInv, InstOK
  <2>4. InstOK' /\ Only(k) /\ (k \in Instance => inst'[k] = r)
    BY <2>2, <2>3, OneInst DEF TypeInv
  <2>5. thread' = [thread EXCEPT ![t] = h]
    BY <2>1 DEF TypeInv, ThreadsOK
  <2>6. h \in Thread /\ h.at = "wait" /\ h.bot \in Bots
    BY <1>0 DEF Thread, Places, TypeInv, RunningOK
  <2> HIDE DEF h
  <2>7. ThreadsOK' /\ Others(t) /\ thread'[t] = h
    BY <2>5, <2>6, OneThread DEF TypeInv
  <2> QED BY <1>1, <1>3, <2>1, <2>4, <2>7 DEF KeptTypes, h
<1> QED BY <1>2, <1>3

LEMMA WaitDoes ==
  ASSUME TypeInv, NEW t \in Threads, Wait(t)
  PROVE  LET k == thread[t].own IN
         /\ KeptTypes /\ Others(t) /\ Only(k)
         /\ k \in Instance => inst'[k] = [inst[k] EXCEPT !.closing = TRUE]
         /\ thread'[t] = [thread[t] EXCEPT !.at = "close"]
<1> DEFINE k == thread[t].own
           r == [inst[k] EXCEPT !.closing = TRUE]
<1>1. inst' = [inst EXCEPT ![k] = r]
  BY DEF Wait, TypeInv, InstOK
<1>2. k \in Instance => r \in Inst
  BY Altered DEF TypeInv, InstOK
<1>3. InstOK' /\ Only(k) /\ (k \in Instance => inst'[k] = r)
  BY <1>1, <1>2, OneInst DEF TypeInv
<1>4. ThreadsOK' /\ Others(t) /\ thread'[t] = [thread[t] EXCEPT !.at = "close"]
  BY GoDoes DEF Wait, TypeInv, Places, Busy
<1>5. StateOK' /\ RunningOK'
  BY DEF TypeInv, StateOK, RunningOK, Wait, others
<1> QED BY <1>3, <1>4, <1>5 DEF KeptTypes

LEMMA RetireDoes ==
  ASSUME TypeInv, NEW t \in Threads, Retire(t)
  PROVE  LET k == thread[t].own IN
         /\ KeptTypes /\ Others(t) /\ Only(k) /\ Proceeds(t)
         /\ k \in Instance =>
              Like(inst'[k], [inst[k] EXCEPT !.closed = TRUE, !.closing = FALSE,
                                             !.user = FALSE, !.rec = None])
<1> DEFINE k == thread[t].own
           r == [inst[k] EXCEPT !.closed = TRUE, !.closing = FALSE, !.user = FALSE, !.rec = None]
           J == [inst EXCEPT ![k] = r]
<1>1. Proceed(t, J)
  <2>1. J = [inst EXCEPT ![k].closed = TRUE, ![k].closing = FALSE, ![k].user = FALSE, ![k].rec = None]
    BY DEF TypeInv, InstOK
  <2> QED BY <2>1 DEF Retire
<1>2. k \in Instance => r \in Inst
  BY Altered DEF TypeInv, InstOK
<1>3. /\ J \in [Instance -> Inst] /\ (k \in Instance => J[k] = r)
      /\ \A i \in Instance : i # k => J[i] = inst[i]
  BY <1>2 DEF TypeInv, InstOK
<1> HIDE DEF J
<1>4. ThreadsOK' /\ Others(t) /\ Proceeds(t) /\ InstOK' /\ \A i \in Instance : Like(inst'[i], J[i])
  BY <1>1, <1>3, ProceedDoes DEF TypeInv
<1>5. Only(k) /\ (k \in Instance => Like(inst'[k], r))
  BY <1>3, <1>4 DEF Only, Same
<1>6. StateOK' /\ RunningOK'
  BY DEF TypeInv, StateOK, RunningOK, Retire, others
<1> QED BY <1>4, <1>5, <1>6 DEF KeptTypes

\* A request begins.
Begins(t) ==
  \E b \in Bots :
    \/ \E r \in Choices : RequestCreate(t, b, r) \/ RequestUpdate(t, b, r)
    \/ RequestSource(t, b) \/ RequestToggle(t, b) \/ RequestDelete(t, b)
Fresh(op, b, r, place) == [Idle EXCEPT !.at = place, !.op = op, !.bot = b, !.rec = r]

LEMMA BeginsDoes ==
  ASSUME TypeInv, NEW t \in Requests, Begins(t)
  PROVE  /\ KeptTypes /\ UNCHANGED <<phase, stored, born, running, inst, made, refused>>
         /\ phase = "up" /\ thread[t] = Idle /\ Others(t)
         /\ overlap' = (overlap \/ \E u \in Threads \ {t} : thread[u] # Idle)
         /\ \E b \in Bots :
              \/ \E r \in Record :
                   /\ made + Cardinality(Changing) < MaxInstances
                   /\ \/ b \notin born /\ thread'[t] = Fresh("create", b, r, "insert")
                      \/ thread'[t] = Fresh("update", b, r, "store")
              \/ b \in born /\ thread'[t] = Fresh("delete", b, None, "unlist")
<1>0. t \in Threads
  BY DEF Threads
<1>1. PICK b \in Bots, r \in Record \cup {None}, op \in {"create", "update", "delete"},
           place \in {"insert", "store", "unlist"} :
        /\ Begin(t, op, b, r, place)
        /\ \/ op = "create" /\ place = "insert" /\ r \in Record /\ b \notin born
           \/ op = "update" /\ place = "store" /\ r \in Record
           \/ op = "delete" /\ place = "unlist" /\ r = None /\ b \in born
  <2>1. PICK b \in Bots :
          \/ \E r \in Choices : RequestCreate(t, b, r) \/ RequestUpdate(t, b, r)
          \/ RequestSource(t, b) \/ RequestToggle(t, b) \/ RequestDelete(t, b)
    BY DEF Begins
  <2>2. CASE \E r \in Choices : RequestCreate(t, b, r)
    BY <2>2, BotsAssumption DEF RequestCreate
  <2>3. CASE \E r \in Choices : RequestUpdate(t, b, r)
    BY <2>3, BotsAssumption DEF RequestUpdate
  <2>4. CASE RequestSource(t, b)
    <3>1. PICK g \in Scripts : Begin(t, "update", b, [stored[b] EXCEPT !.script = g, !.rev = t], "store")
      BY <2>4 DEF RequestSource
    <3>2. stored[b] \in Record
      BY <2>4 DEF RequestSource, TypeInv, StateOK
    <3>3. [stored[b] EXCEPT !.script = g, !.rev = t] \in Record
      BY <1>0, <3>2 DEF Record
    <3> QED BY <3>1, <3>3
  <2>5. CASE RequestToggle(t, b)
    <3>2. stored[b] \in Record
      BY <2>5 DEF RequestToggle, TypeInv, StateOK
    <3>3. [stored[b] EXCEPT !.enabled = ~@, !.rev = t] \in Record
      BY <1>0, <3>2 DEF Record
    <3> QED BY <2>5, <3>3 DEF RequestToggle
  <2>6. CASE RequestDelete(t, b)
    BY <2>6 DEF RequestDelete
  <2> QED BY <2>1, <2>2, <2>3, <2>4, <2>5, <2>6
<1> DEFINE h == Fresh(op, b, r, place)
<1>2. /\ h \in Thread /\ h.at = place /\ h.op = op /\ h.bot = b /\ h.rec = r
  BY <1>1 DEF Fresh, Idle, Thread, Places
<1>3. thread' = [thread EXCEPT ![t] = h]
  BY <1>1 DEF Begin, Fresh
<1> HIDE DEF h
<1>4. ThreadsOK' /\ Others(t) /\ thread'[t] = h
  BY <1>0, <1>1, <1>2, <1>3, OneThread DEF TypeInv
<1>5. /\ UNCHANGED <<phase, stored, born, running, inst, made, refused>>
      /\ phase = "up" /\ thread[t] = Idle
      /\ overlap' = (overlap \/ \E u \in Threads \ {t} : thread[u] # Idle)
      /\ op # "delete" => made + Cardinality(Changing) < MaxInstances
  BY <1>1 DEF Begin
<1>6. overlap' \in BOOLEAN
  BY <1>5
<1>7. StateOK' /\ RunningOK' /\ InstOK'
  BY <1>5, <1>6 DEF TypeInv, StateOK, RunningOK, InstOK
<1> QED BY <1>1, <1>4, <1>5, <1>7 DEF KeptTypes, h

LEMMA StartNextDoes ==
  ASSUME TypeInv, StartNext
  PROVE  /\ KeptTypes /\ UNCHANGED <<phase, stored, born, running, inst, made, overlap, refused>>
         /\ Others("main") /\ phase = "boot" /\ thread["main"].at = "next"
         /\ \E b \in thread["main"].todo :
              /\ b \in Bots
              /\ thread'["main"] = [thread["main"] EXCEPT !.at = "prepare", !.bot = b,
                                     !.rec = stored[b], !.todo = thread["main"].todo \ {b}]
<1>1. PICK b \in thread["main"].todo :
        thread' = [thread EXCEPT !["main"].at = "prepare", !["main"].bot = b,
                                 !["main"].rec = stored[b], !["main"].todo = @ \ {b}]
  BY DEF StartNext
<1>2. "main" \in Threads /\ b \in Bots /\ thread["main"] \in Thread
  BY <1>1 DEF Threads, StartNext, TypeInv, BootOK, ThreadsOK
<1> DEFINE h == [thread["main"] EXCEPT !.at = "prepare", !.bot = b, !.rec = stored[b],
                                       !.todo = thread["main"].todo \ {b}]
<1>3. thread' = [thread EXCEPT !["main"] = h]
  BY <1>1, <1>2 DEF TypeInv, ThreadsOK, Thread
<1>4. stored[b] \in Record \cup {None} /\ thread["main"].todo \ {b} \in SUBSET (Nat \cup Bots)
  BY <1>2 DEF TypeInv, StateOK, Thread
<1>5. h \in Thread /\ h.at = "prepare" /\ h.bot = b
  BY <1>2, <1>4 DEF Thread, Places
<1> HIDE DEF h
<1>6. ThreadsOK' /\ Others("main") /\ thread'["main"] = h
  BY <1>2, <1>3, <1>5, OneThread DEF TypeInv
<1>7. StateOK' /\ RunningOK' /\ InstOK'
  BY DEF StartNext, TypeInv, StateOK, RunningOK, InstOK, others
<1> QED BY <1>1, <1>2, <1>6, <1>7 DEF StartNext, KeptTypes, h, others

LEMMA ReadyDoes ==
  ASSUME TypeInv, Ready
  PROVE  /\ KeptTypes /\ UNCHANGED <<stored, born, running, inst, made, overlap, refused>>
         /\ Others("main") /\ thread'["main"] = Idle /\ phase = "boot" /\ phase' = "up"
         /\ thread["main"].at = "next" /\ thread["main"].todo = {}
<1>1. Idle.at = "idle" /\ Idle.op = "none" /\ "main" \in Threads
  BY DEF Idle, Threads
<1>2. ThreadsOK' /\ Others("main") /\ thread'["main"] = Idle
  BY <1>1, IdleOK, OneThread DEF Ready, TypeInv, Busy
<1>3. StateOK' /\ RunningOK' /\ InstOK'
  BY DEF Ready, TypeInv, StateOK, RunningOK, InstOK, others
<1> QED BY <1>2, <1>3 DEF Ready, KeptTypes, others

LEMMA StopNextDoes ==
  ASSUME TypeInv, StopNext
  PROVE  /\ KeptTypes /\ UNCHANGED <<stored, born, running, inst, made, overlap, refused>>
         /\ Others("main") /\ phase = "stopping" /\ phase' \in {"stopping", "down"}
         /\ thread["main"].at = "next"
         /\ \/ thread' = thread
            \/ \E i : thread'["main"] = [thread["main"] EXCEPT !.at = "wait", !.own = i,
                                           !.todo = thread["main"].todo \ {i}]
<1>0. "main" \in Threads /\ thread["main"] \in Thread
  BY DEF Threads, TypeInv, ThreadsOK
<1>1. StateOK' /\ RunningOK' /\ InstOK'
  BY DEF StopNext, TypeInv, StateOK, RunningOK, InstOK, others
<1>2. CASE thread' = thread
  BY <1>1, <1>2 DEF StopNext, KeptTypes, TypeInv, ThreadsOK, Hands, Busy, Others, others
<1>3. ASSUME NEW i \in thread["main"].todo,
             thread' = [thread EXCEPT !["main"].at = "wait", !["main"].own = i,
                                      !["main"].todo = @ \ {i}]
      PROVE  /\ ThreadsOK' /\ Others("main")
             /\ thread'["main"] = [thread["main"] EXCEPT !.at = "wait", !.own = i,
                                     !.todo = thread["main"].todo \ {i}]
  <2> DEFINE h == [thread["main"] EXCEPT !.at = "wait", !.own = i, !.todo = thread["main"].todo \ {i}]
  <2>1. thread' = [thread EXCEPT !["main"] = h]
    BY <1>0, <1>3 DEF TypeInv, ThreadsOK, Thread
  <2>2. i \in Nat \cup Bots /\ thread["main"].todo \ {i} \in SUBSET (Nat \cup Bots)
    BY <1>0 DEF Thread
  <2>3. h \in Thread /\ h.at = "wait" /\ h.op = thread["main"].op /\ h.bot = thread["main"].bot
    BY <1>0, <2>2 DEF Thread, Places
  <2>4. h.op \in {"update", "delete"} => h.bot \in Bots
    BY <1>0, <2>3 DEF TypeInv, ThreadsOK, Hands, Busy
  <2> HIDE DEF h
  <2>5. ThreadsOK' /\ Others("main") /\ thread'["main"] = h
    BY <1>0, <2>1, <2>3, <2>4, OneThread DEF TypeInv, Busy
  <2> QED BY <2>5 DEF h
<1>4. thread' = thread \/ \E i \in thread["main"].todo :
        thread' = [thread EXCEPT !["main"].at = "wait", !["main"].own = i, !["main"].todo = @ \ {i}]
  BY DEF StopNext
<1>5. phase = "stopping" /\ phase' \in {"stopping", "down"} /\ thread["main"].at = "next"
      /\ UNCHANGED <<stored, born, running, inst, made, overlap, refused>>
  BY DEF StopNext, others
<1> QED BY <1>1, <1>2, <1>3, <1>4, <1>5 DEF KeptTypes

LEMMA StopAllDoes ==
  ASSUME TypeInv, StopAll
  PROVE  /\ KeptTypes /\ UNCHANGED <<stored, born, made, refused>> /\ Others("main")
         /\ overlap' = (overlap \/ \E t \in Requests : thread[t] # Idle)
         /\ phase = "up" /\ phase' = "stopping" /\ running' = [b \in Bots |-> None]
         /\ thread'["main"].at = "next" /\ thread'["main"].op = "stop"
         /\ \A i \in Instance :
              Same(i) /\ ((\E b \in Bots : running[b] = i) => inst'[i].cancelled)
<1> DEFINE all == {running[b] : b \in Bots} \ {None}
           h == [Idle EXCEPT !.at = "next", !.op = "stop", !.todo = all]
<1>1. all \in SUBSET (Nat \cup Bots)
  BY DEF TypeInv, RunningOK
<1>2. \A i \in Instance : (\E b \in Bots : running[b] = i) => i \in all
  BY BotsAssumption DEF Instance
<1>3. inst' = [i \in Instance |-> IF i \in all \/ inst[i].parent = "main"
                                    THEN [inst[i] EXCEPT !.cancelled = TRUE] ELSE inst[i]]
  BY DEF StopAll
<1> HIDE DEF all
<1>4. /\ \A i \in Instance : inst'[i] = inst[i] \/ inst'[i] = [inst[i] EXCEPT !.cancelled = TRUE]
      /\ inst' = [i \in Instance |-> inst'[i]]
      /\ \A i \in all : i \in Instance => inst'[i] = [inst[i] EXCEPT !.cancelled = TRUE]
  BY <1>3
<1>5. \A i \in Instance : inst'[i] \in Inst /\ Same(i)
  BY <1>4, Cancelling DEF TypeInv, InstOK, Same
<1>6. \A i \in all : i \in Instance => inst'[i].cancelled
  <2> SUFFICES ASSUME NEW i \in all, i \in Instance PROVE inst'[i].cancelled
    OBVIOUS
  <2>1. inst'[i] = [inst[i] EXCEPT !.cancelled = TRUE] /\ inst[i] \in Inst
    BY <1>4 DEF TypeInv, InstOK
  <2>2. inst'[i].cancelled = TRUE
    BY <2>1 DEF Inst
  <2> QED BY <2>2
<1>7. InstOK'
  BY <1>4, <1>5 DEF InstOK
<1>8. h \in Thread /\ h.at = "next" /\ h.op = "stop"
  BY <1>1 DEF Idle, Thread, Places
<1>9. thread' = [thread EXCEPT !["main"] = h]
  BY DEF StopAll, all
<1> HIDE DEF h
<1>10. ThreadsOK' /\ Others("main") /\ thread'["main"] = h
  BY <1>8, <1>9, OneThread DEF TypeInv, Threads, Busy
<1>11. /\ UNCHANGED <<stored, born, made, refused>> /\ phase = "up" /\ phase' = "stopping"
       /\ overlap' = (overlap \/ \E t \in Requests : thread[t] # Idle)
       /\ running' = [b \in Bots |-> None]
  BY DEF StopAll
<1>12. overlap' \in BOOLEAN
  BY <1>11
<1>13. StateOK' /\ RunningOK'
  BY <1>11, <1>12 DEF TypeInv, StateOK, RunningOK
<1> QED BY <1>2, <1>5, <1>6, <1>7, <1>8, <1>10, <1>11, <1>13 DEF KeptTypes

\* What an instance's goroutine and a broadcast do not change.
Kin(i) ==
  /\ inst'[i].bot = inst[i].bot /\ inst'[i].rec = inst[i].rec
  /\ inst'[i].user = inst[i].user /\ inst'[i].hook = inst[i].hook
  /\ inst'[i].closed = inst[i].closed /\ inst'[i].closing = inst[i].closing
  /\ inst'[i].cancelled = inst[i].cancelled

LEMMA RunDoes ==
  ASSUME TypeInv, NEW i \in Instance, Run(i) \/ Deliver(i)
  PROVE  /\ KeptTypes /\ UNCHANGED <<stored, born, thread, running, made, overlap, refused>>
         /\ Only(i) /\ Kin(i)
         /\ inst'[i].at = inst[i].at \/ (Runs(i) /\ inst'[i].at \in {"handler", "select", "ended"})
         /\ phase' = phase \/ (phase' = "crashed" /\ Runs(i) /\ inst[i].closed)
<1>0. inst[i] \in Inst
  BY DEF TypeInv, InstOK
<1>1. /\ UNCHANGED <<stored, born, thread, running, made, overlap, refused>>
      /\ phase' = phase \/ (phase' = "crashed" /\ Runs(i) /\ inst[i].closed)
  BY DEF Run, Deliver, Dispatch, HandlerEnds, LoopEnds, Runs, others
<1>2. PICK p \in {inst[i].at, "handler", "select", "ended"}, n \in 0..InboxSize :
        /\ inst' = [inst EXCEPT ![i] = [inst[i] EXCEPT !.at = p, !.inbox = n]]
        /\ p = inst[i].at \/ Runs(i)
  <2> DEFINE With(p, n) == [inst EXCEPT ![i] = [inst[i] EXCEPT !.at = p, !.inbox = n]]
  <2>0. inst[i].inbox \in 0..InboxSize /\ InboxSize \in Nat
    BY <1>0, BotsAssumption DEF Inst
  <2>1. CASE Deliver(i)
    <3>1. inst' = With(inst[i].at, inst[i].inbox + 1)
      BY <1>0, <2>1 DEF Deliver, Inst, TypeInv, InstOK
    <3>2. inst[i].inbox + 1 \in 0..InboxSize
      BY <2>0, <2>1 DEF Deliver
    <3> QED BY <3>1, <3>2
  <2>2. CASE Dispatch(i)
    <3>1. CASE inst[i].at = "init" /\ inst' = [inst EXCEPT ![i].at = "handler"]
      <4>1. inst' = With("handler", inst[i].inbox)
        BY <1>0, <3>1 DEF Inst, TypeInv, InstOK
      <4> QED BY <2>0, <3>1, <4>1 DEF Runs
    <3>2. CASE /\ inst[i].at = "select" /\ inst[i].inbox > 0
               /\ inst' = [inst EXCEPT ![i].at = "handler", ![i].inbox = @ - 1]
      <4>1. inst' = With("handler", inst[i].inbox - 1)
        BY <1>0, <3>2 DEF Inst, TypeInv, InstOK
      <4>2. inst[i].inbox - 1 \in 0..InboxSize
        BY <2>0, <3>2
      <4> QED BY <3>2, <4>1, <4>2 DEF Runs
    <3> QED BY <2>2, <3>1, <3>2 DEF Dispatch
  <2>3. CASE HandlerEnds(i)
    <3>1. inst' = With("select", inst[i].inbox)
      BY <1>0, <2>3 DEF HandlerEnds, Inst, TypeInv, InstOK
    <3> QED BY <2>0, <2>3, <3>1 DEF Runs, HandlerEnds
  <2>4. CASE LoopEnds(i)
    <3>1. inst' = With("ended", 0)
      BY <1>0, <2>4 DEF LoopEnds, Inst, TypeInv, InstOK
    <3>2. Runs(i) /\ 0 \in 0..InboxSize
      BY <2>0, <2>4 DEF Runs, LoopEnds
    <3> QED BY <3>1, <3>2
  <2>5. Deliver(i) \/ Dispatch(i) \/ HandlerEnds(i) \/ LoopEnds(i)
    BY DEF Run
  <2> QED BY <2>1, <2>2, <2>3, <2>4, <2>5, Zenon
<1> DEFINE r == [inst[i] EXCEPT !.at = p, !.inbox = n]
<1>3. /\ r \in Inst /\ r.at = p /\ r.bot = inst[i].bot /\ r.rec = inst[i].rec
      /\ r.user = inst[i].user /\ r.hook = inst[i].hook /\ r.closed = inst[i].closed
      /\ r.closing = inst[i].closing /\ r.cancelled = inst[i].cancelled
  BY <1>0, <1>2 DEF Inst
<1> HIDE DEF r
<1>4. InstOK' /\ Only(i) /\ inst'[i] = r
  BY <1>2, <1>3, OneInst DEF TypeInv, r
<1>5. StateOK' /\ RunningOK' /\ ThreadsOK'
  BY <1>1 DEF TypeInv, StateOK, RunningOK, ThreadsOK, Hands, Busy
<1> QED BY <1>1, <1>2, <1>3, <1>4, <1>5 DEF KeptTypes, Kin

LEMMA StepTypes ==
  ASSUME TypeInv, NEW t \in Threads, Step(t)
  PROVE  TypeInv' /\ Others(t) /\ UNCHANGED <<phase, overlap>>
<1>1. UNCHANGED <<phase, overlap>>
  BY DEF Step, Insert, Store, Erase, AddUser, Compile, others, List, Launch, Reply, Unlist, Wait, Retire
<1> DEFINE Becomes ==
      \/ Rests(t) \/ Proceeds(t)
      \/ \E p : thread'[t] = [thread[t] EXCEPT !.at = p]
      \/ \E p, k : thread'[t] = [thread[t] EXCEPT !.at = p, !.own = k]
<1>2. KeptTypes /\ Others(t) /\ Becomes
  <2>1. CASE Insert(t) \/ Store(t)
    <3>1. /\ KeptTypes /\ Others(t)
          /\ Rests(t) \/ \E p : thread'[t] = [thread[t] EXCEPT !.at = p]
      BY <2>1, InsertDoes, StoreDoes
    <3> QED BY <3>1
  <2>2. CASE Erase(t) \/ Reply(t)
    BY <2>2, EndDoes
  <2>3. CASE AddUser(t)
    BY <2>3, AddUserDoes
  <2>9. CASE Compile(t)
    BY <2>9, CompileDoes
  <2>4. CASE List(t)
    BY <2>4, ListDoes
  <2>5. CASE Launch(t)
    BY <2>5, LaunchDoes
  <2>6. CASE Unlist(t)
    BY <2>6, UnlistDoes
  <2>7. CASE Wait(t)
    BY <2>7, WaitDoes
  <2>8. CASE Retire(t)
    BY <2>8, RetireDoes
  <2> QED BY <2>1, <2>2, <2>3, <2>4, <2>5, <2>6, <2>7, <2>8, <2>9 DEF Step
<1>3. "main" \in Threads /\ thread["main"] \in Thread
  BY DEF Threads, TypeInv, ThreadsOK
<1>4. thread'["main"].todo = thread["main"].todo
  <2>1. CASE t # "main"
    BY <1>2, <1>3, <2>1 DEF Others
  <2>2. CASE t = "main"
    BY <1>2, <1>3, <2>2 DEF Rests, Proceeds, Thread
  <2> QED BY <2>1, <2>2
<1>5. BootOK'
  BY <1>1, <1>4 DEF TypeInv, BootOK
<1> QED BY <1>1, <1>2, <1>5 DEF TypeInv, KeptTypes

\* Others take and leave nicks.
Elsewhere == UNCHANGED <<phase, stored, born, thread, running, inst, made, overlap, refused>>

\* Every step is one of a kind.
LEMMA Kinds ==
  ASSUME Next
  PROVE  \/ \E t \in Requests : Begins(t)
         \/ \E t \in Threads : Step(t)
         \/ \E i \in Instance : Run(i) \/ Deliver(i)
         \/ StartNext \/ Ready \/ StopNext \/ StopAll \/ Elsewhere
BY DEF Next, Begins, Main, TakeNick, LeaveNick, Elsewhere

LEMMA InitTypes == Init => TypeInv
<1> SUFFICES ASSUME Init PROVE TypeInv
  OBVIOUS
<1>1. StateOK /\ RunningOK
  BY BotsAssumption DEF Init, StateOK, RunningOK
<1>2. InstOK
  BY IdleOK DEF Init, InstOK
<1> DEFINE h == [Idle EXCEPT !.at = "next", !.op = "boot", !.todo = {b \in born : stored[b].enabled}]
<1>3. /\ h \in Thread /\ h.at = "next" /\ h.op = "boot"
      /\ h.todo = {b \in born : stored[b].enabled} /\ h.todo \subseteq Bots
  BY DEF Init, Idle, Thread, Places
<1>4. thread = [t \in Threads |-> IF t = "main" THEN h ELSE Idle]
  BY DEF Init
<1>5. Idle.at = "idle" /\ Idle.op = "none"
  BY DEF Idle
<1> HIDE DEF h
<1>6. ThreadsOK /\ BootOK
  BY <1>3, <1>4, <1>5, IdleOK DEF ThreadsOK, Hands, Busy, BootOK, Threads
<1> QED BY <1>1, <1>2, <1>6 DEF TypeInv

LEMMA NextTypes == TypeInv /\ [Next]_vars => TypeInv'
<1> SUFFICES ASSUME TypeInv, [Next]_vars PROVE TypeInv'
  OBVIOUS
<1>0. "main" \in Threads /\ thread["main"] \in Thread
  BY DEF Threads, TypeInv, ThreadsOK
<1>1. ASSUME NEW t \in Requests, Begins(t) PROVE TypeInv'
  <2>1. KeptTypes /\ phase' = "up"
    BY <1>1, BeginsDoes
  <2> QED BY <2>1 DEF TypeInv, KeptTypes, BootOK
<1>2. ASSUME NEW t \in Threads, Step(t) PROVE TypeInv'
  BY <1>2, StepTypes
<1>3. ASSUME NEW i \in Instance, Run(i) \/ Deliver(i) PROVE TypeInv'
  <2>1. KeptTypes /\ thread' = thread /\ (phase' = phase \/ phase' = "crashed")
    BY <1>3, RunDoes
  <2> QED BY <2>1 DEF TypeInv, KeptTypes, BootOK
<1>4. CASE StartNext
  <2>1. PICK b : /\ KeptTypes
                 /\ thread'["main"] = [thread["main"] EXCEPT !.at = "prepare", !.bot = b,
                                         !.rec = stored[b], !.todo = thread["main"].todo \ {b}]
    BY <1>4, StartNextDoes
  <2>2. thread'["main"].todo = thread["main"].todo \ {b} /\ phase' = phase
    BY <1>0, <1>4, <2>1 DEF Thread, StartNext
  <2> QED BY <2>1, <2>2 DEF TypeInv, KeptTypes, BootOK
<1>5. CASE Ready
  BY <1>5, ReadyDoes DEF TypeInv, KeptTypes, BootOK
<1>6. CASE StopNext
  BY <1>6, StopNextDoes DEF TypeInv, KeptTypes, BootOK
<1>7. CASE StopAll
  BY <1>7, StopAllDoes DEF TypeInv, KeptTypes, BootOK
<1>8. CASE Elsewhere \/ UNCHANGED vars
  BY <1>8 DEF Elsewhere, vars, others, TypeInv, StateOK, ThreadsOK, Hands, Busy, InstOK, RunningOK, BootOK
<1> QED BY <1>1, <1>2, <1>3, <1>4, <1>5, <1>6, <1>7, <1>8, Kinds

-----------------------------------------------------------------------------
(* A bot never answers twice.                                               *)

\* The instance a goroutine has prepared is of its bot.
OwnOK ==
  \A t \in Threads : thread[t].at \in {"list", "launch"} =>
    /\ thread[t].own \in 1..made
    /\ thread[t].own \in Instance => inst[thread[t].own].bot = thread[t].bot
Launched(i) == Runs(i) \/ \E t \in Threads : thread[t].at = "launch" /\ thread[t].own = i
\* What runs or is about to with a context that is not cancelled is listed.
LiveOK ==
  \A i \in Instance : Launched(i) /\ ~inst[i].cancelled =>
    inst[i].bot \in Bots /\ running[inst[i].bot] = i
LiveInv == TypeInv /\ OwnOK /\ LiveOK

LEMMA RestsAt ==
  ASSUME TypeInv, NEW t \in Threads, Rests(t)
  PROVE  thread'[t].at \in {"idle", "next"}
BY DEF Rests, Idle, TypeInv, ThreadsOK, Thread

LEMMA ProceedsAt ==
  ASSUME TypeInv, NEW t \in Threads, Proceeds(t)
  PROVE  thread'[t].at \in {"idle", "next", "erase", "prepare"}
BY RestsAt DEF Proceeds, TypeInv, ThreadsOK, Thread

\* A goroutine that is not about to list or launch, while instances are as they
\* were except one that does not begin to run.
LEMMA StaysLive ==
  ASSUME LiveInv, NEW t, Others(t), thread'[t].at \notin {"list", "launch"},
         running' = running, made' = made,
         \A i \in Instance : /\ inst'[i].bot = inst[i].bot /\ (Runs(i)' => Launched(i))
                             /\ inst[i].cancelled => inst'[i].cancelled
  PROVE  OwnOK' /\ LiveOK'
<1>1. OwnOK'
  BY DEF LiveInv, OwnOK, Others
<1>2. \A i \in Instance : Launched(i)' => Launched(i)
  BY DEF Launched, Others
<1>3. LiveOK'
  BY <1>2 DEF LiveInv, LiveOK
<1> QED BY <1>1, <1>3

LEMMA SameRuns ==
  ASSUME \A i \in Instance : Same(i)
  PROVE  \A i \in Instance : /\ inst'[i].bot = inst[i].bot /\ (Runs(i)' => Launched(i))
                             /\ inst[i].cancelled => inst'[i].cancelled
BY DEF Same, Like, Runs, Launched

LEMMA StepLive ==
  ASSUME LiveInv, NEW t \in Threads, Step(t)
  PROVE  OwnOK' /\ LiveOK'
<1>0. TypeInv /\ thread[t] \in Thread
  BY DEF LiveInv, TypeInv, ThreadsOK
<1>1. CASE Insert(t) \/ Store(t) \/ Erase(t) \/ Reply(t)
  <2>1. /\ Others(t) /\ \A i \in Instance : Same(i)
        /\ \/ Rests(t) \/ thread'[t] = [thread[t] EXCEPT !.at = "prepare"]
           \/ thread'[t] = [thread[t] EXCEPT !.at = "unlist"]
    BY <1>0, <1>1, InsertDoes, StoreDoes, EndDoes
  <2>2. thread'[t].at \notin {"list", "launch"}
    BY <1>0, <2>1, RestsAt DEF Thread
  <2>3. running' = running /\ made' = made
    BY <1>1 DEF Insert, Store, Erase, Reply
  <2> QED BY <2>1, <2>2, <2>3, SameRuns, StaysLive
<1>9. CASE AddUser(t)
  <2>1. /\ Others(t) /\ \A i \in Instance : Same(i)
        /\ Rests(t) \/ thread'[t] = [thread[t] EXCEPT !.at = "compile"]
    BY <1>0, <1>9, AddUserDoes
  <2>2. thread'[t].at \notin {"list", "launch"}
    BY <1>0, <2>1, RestsAt DEF Thread
  <2>3. running' = running /\ made' = made
    BY <1>9 DEF AddUser
  <2> QED BY <2>1, <2>2, <2>3, SameRuns, StaysLive
<1>2. CASE Compile(t) /\ Rests(t) /\ made' = made /\ \A i \in Instance : Same(i)
  BY <1>0, <1>2, CompileDoes, RestsAt, SameRuns, StaysLive DEF Compile
<1>3. CASE Compile(t) /\ ~ (Rests(t) /\ made' = made /\ \A i \in Instance : Same(i))
  <2>1. /\ made' = made + 1 /\ Others(t) /\ Only(made + 1) /\ running' = running
        /\ made + 1 \in Instance => inst'[made + 1] = Prepared(t)
        /\ thread'[t] = [thread[t] EXCEPT !.at = "list", !.own = made + 1]
    BY <1>0, <1>3, CompileDoes DEF Compile
  <2>2. thread'[t].at = "list" /\ thread'[t].own = made + 1 /\ thread'[t].bot = thread[t].bot
    BY <1>0, <2>1 DEF Thread
  <2>3. made + 1 \in Instance => inst'[made + 1].bot = thread[t].bot /\ inst'[made + 1].at = "made"
    BY <2>1 DEF Prepared, NoInstance
  <2>4. made \in Nat
    BY <1>0 DEF TypeInv, StateOK
  <2>5. OwnOK'
    <3>1. ASSUME NEW u \in Threads, u # t, thread'[u].at \in {"list", "launch"}
          PROVE  /\ thread'[u].own \in 1..made'
                 /\ thread'[u].own \in Instance => inst'[thread'[u].own].bot = thread'[u].bot
      <4>1. thread'[u] = thread[u] /\ thread[u].own \in 1..made
        BY <2>1, <3>1 DEF LiveInv, OwnOK, Others
      <4>2. thread[u].own \in 1..made' /\ thread[u].own # made + 1
        BY <2>1, <2>4, <4>1
      <4> QED BY <2>1, <3>1, <4>1, <4>2 DEF LiveInv, OwnOK, Only, Same, Like
    <3>2. made + 1 \in 1..made'
      BY <2>1, <2>4
    <3> QED BY <2>2, <2>3, <3>1, <3>2 DEF OwnOK
  <2>6. ASSUME NEW i \in Instance, Launched(i)' PROVE i # made + 1 /\ Launched(i)
    <3>1. ASSUME NEW u \in Threads, thread'[u].at = "launch", thread'[u].own = i
          PROVE  i # made + 1 /\ Launched(i)
      <4>1. u # t /\ thread[u].at = "launch" /\ thread[u].own = i
        BY <2>1, <2>2, <3>1 DEF Others
      <4>2. i \in 1..made
        BY <4>1 DEF LiveInv, OwnOK
      <4> QED BY <2>4, <4>1, <4>2 DEF Launched
    <3>2. ASSUME Runs(i)' PROVE i # made + 1 /\ Launched(i)
      BY <2>1, <2>3, <3>2 DEF Only, Same, Like, Launched, Runs
    <3> QED BY <2>6, <3>1, <3>2 DEF Launched
  <2>7. LiveOK'
    BY <2>1, <2>6 DEF LiveInv, LiveOK, Only, Same, Like
  <2> QED BY <2>5, <2>7
<1>4. CASE List(t)
  <2>1. /\ Others(t) /\ \A i \in Instance : Same(i)
    BY <1>0, <1>4, ListDoes
  <2>2. CASE Rests(t) /\ running' = running
    BY <1>0, <1>4, <2>1, <2>2, RestsAt, SameRuns, StaysLive DEF List
  <2>3. CASE /\ running[thread[t].bot] = None
             /\ running' = [running EXCEPT ![thread[t].bot] = thread[t].own]
             /\ thread'[t] = [thread[t] EXCEPT !.at = "launch"]
    <3>1. thread'[t].at = "launch" /\ thread'[t].own = thread[t].own /\ thread'[t].bot = thread[t].bot
      BY <1>0, <2>3 DEF Thread
    <3>2. thread[t].bot \in Bots /\ thread[t].at = "list" /\ made' = made
      BY <1>0, <1>4 DEF List, TypeInv, ThreadsOK, Hands, Busy
    <3>3. OwnOK'
      BY <2>1, <3>1, <3>2 DEF LiveInv, OwnOK, Others, Same, Like
    <3>4. /\ running'[thread[t].bot] = thread[t].own
          /\ \A b : b # thread[t].bot => running'[b] = running[b]
      BY <1>0, <2>3, <3>2 DEF TypeInv, RunningOK
    <3>5. ASSUME NEW i \in Instance, Launched(i)', ~ inst'[i].cancelled
          PROVE  inst'[i].bot \in Bots /\ running'[inst'[i].bot] = i
      <4>1. inst'[i].bot = inst[i].bot /\ ~ inst[i].cancelled
        BY <2>1, <3>5 DEF Same, Like
      <4>2. CASE Launched(i)
        <5>1. inst[i].bot \in Bots /\ running[inst[i].bot] = i /\ i # None
          BY <3>5, <4>1, <4>2, BotsAssumption DEF LiveInv, LiveOK, Instance
        <5>2. inst[i].bot # thread[t].bot
          BY <2>3, <5>1
        <5> QED BY <3>4, <4>1, <5>1, <5>2
      <4>3. CASE ~ Launched(i)
        <5>1. i = thread[t].own
          BY <2>1, <3>1, <3>5, <4>3 DEF Launched, Runs, Same, Like, Others
        <5>2. inst[i].bot = thread[t].bot
          BY <3>2, <5>1 DEF LiveInv, OwnOK
        <5> QED BY <3>2, <3>4, <4>1, <5>1, <5>2
      <4> QED BY <4>2, <4>3
    <3>6. LiveOK'
      BY <3>5 DEF LiveOK
    <3> QED BY <3>3, <3>6
  <2> QED BY <1>0, <1>4, <2>2, <2>3, ListDoes
<1>5. CASE Launch(t)
  <2> DEFINE k == thread[t].own
  <2>1. /\ Others(t) /\ Only(k) /\ thread[t].at = "launch"
        /\ k \in Instance => inst'[k] = [inst[k] EXCEPT !.hook = TRUE, !.at = "init"]
        /\ thread'[t] = [thread[t] EXCEPT !.at = "reply"]
        /\ running' = running /\ made' = made
    BY <1>0, <1>5, LaunchDoes DEF Launch
  <2>2. thread'[t].at = "reply"
    BY <1>0, <2>1 DEF Thread
  <2>3. k \in Instance => inst'[k].bot = inst[k].bot /\ inst'[k].cancelled = inst[k].cancelled
    BY <1>0, <2>1 DEF TypeInv, InstOK, Inst
  <2>4. \A i \in Instance : /\ inst'[i].bot = inst[i].bot /\ (Runs(i)' => Launched(i))
                            /\ inst[i].cancelled => inst'[i].cancelled
    BY <2>1, <2>3 DEF Only, Same, Like, Launched, Runs
  <2> QED BY <2>1, <2>2, <2>4, StaysLive
<1>6. CASE Unlist(t)
  <2> DEFINE k == running[thread[t].bot]
  <2>1. Others(t) /\ made' = made /\ thread[t].bot \in Bots
    BY <1>0, <1>6, UnlistDoes DEF Unlist, TypeInv, ThreadsOK, Hands, Busy
  <2>2. CASE running' = running /\ Proceeds(t) /\ \A i \in Instance : Same(i)
    BY <1>0, <2>1, <2>2, ProceedsAt, SameRuns, StaysLive
  <2>3. CASE /\ k # None /\ running' = [running EXCEPT ![thread[t].bot] = None] /\ Only(k)
             /\ k \in Instance => inst'[k] = [inst[k] EXCEPT !.hook = FALSE, !.cancelled = TRUE]
             /\ thread'[t] = [thread[t] EXCEPT !.at = "wait", !.own = k]
    <3>1. thread'[t].at = "wait"
      BY <1>0, <2>3 DEF Thread
    <3>2. k \in Instance =>
            inst'[k].bot = inst[k].bot /\ inst'[k].at = inst[k].at /\ inst'[k].cancelled
      <4> SUFFICES ASSUME k \in Instance
                   PROVE  inst'[k].bot = inst[k].bot /\ inst'[k].at = inst[k].at /\ inst'[k].cancelled
        OBVIOUS
      <4>1. inst[k] \in Inst /\ inst'[k] = [inst[k] EXCEPT !.hook = FALSE, !.cancelled = TRUE]
        BY <1>0, <2>3 DEF TypeInv, InstOK
      <4> HIDE DEF k
      <4> QED BY <4>1, UnlistedFields
    <3>3. \A i \in Instance : /\ inst'[i].bot = inst[i].bot /\ inst'[i].at = inst[i].at
                              /\ inst[i].cancelled => inst'[i].cancelled
                              /\ ~ inst'[i].cancelled => i # k
      BY <2>3, <3>2 DEF Only, Same, Like
    <3>4. OwnOK'
      BY <2>1, <3>1, <3>3 DEF LiveInv, OwnOK, Others
    <3>5. \A i \in Instance : Launched(i)' => Launched(i)
      BY <2>1, <3>1, <3>3 DEF Launched, Runs, Others
    <3>6. \A b : b # thread[t].bot => running'[b] = running[b]
      BY <1>0, <2>1, <2>3 DEF TypeInv, RunningOK
    <3>7. LiveOK'
      BY <3>3, <3>5, <3>6 DEF LiveInv, LiveOK
    <3> QED BY <3>4, <3>7
  <2> QED BY <1>0, <1>6, <2>2, <2>3, UnlistDoes
<1>7. CASE Wait(t)
  <2> DEFINE k == thread[t].own
  <2>1. /\ Others(t) /\ Only(k) /\ running' = running /\ made' = made
        /\ k \in Instance => inst'[k] = [inst[k] EXCEPT !.closing = TRUE]
        /\ thread'[t] = [thread[t] EXCEPT !.at = "close"]
    BY <1>0, <1>7, WaitDoes DEF Wait
  <2>2. thread'[t].at = "close"
    BY <1>0, <2>1 DEF Thread
  <2>3. k \in Instance => /\ inst'[k].bot = inst[k].bot /\ inst'[k].cancelled = inst[k].cancelled
                          /\ inst'[k].at = inst[k].at
    BY <1>0, <2>1 DEF TypeInv, InstOK, Inst
  <2>4. \A i \in Instance : /\ inst'[i].bot = inst[i].bot /\ (Runs(i)' => Launched(i))
                            /\ inst[i].cancelled => inst'[i].cancelled
    BY <2>1, <2>3 DEF Only, Same, Like, Launched, Runs
  <2> QED BY <2>1, <2>2, <2>4, StaysLive
<1>8. CASE Retire(t)
  <2> DEFINE k == thread[t].own
             r == [inst[k] EXCEPT !.closed = TRUE, !.closing = FALSE, !.user = FALSE, !.rec = None]
  <2>1. /\ Others(t) /\ Only(k) /\ Proceeds(t) /\ running' = running /\ made' = made
        /\ k \in Instance => Like(inst'[k], r)
    BY <1>0, <1>8, RetireDoes DEF Retire
  <2>2. k \in Instance => r.bot = inst[k].bot /\ r.cancelled = inst[k].cancelled /\ r.at = inst[k].at
    BY <1>0 DEF TypeInv, InstOK, Inst
  <2> HIDE DEF r
  <2>3. \A i \in Instance : /\ inst'[i].bot = inst[i].bot /\ (Runs(i)' => Launched(i))
                            /\ inst[i].cancelled => inst'[i].cancelled
    BY <2>1, <2>2 DEF Only, Same, Like, Launched, Runs
  <2>4. thread'[t].at \notin {"list", "launch"}
    BY <1>0, <2>1, ProceedsAt
  <2> QED BY <2>1, <2>3, <2>4, StaysLive
<1> QED BY <1>1, <1>2, <1>3, <1>4, <1>5, <1>6, <1>7, <1>8, <1>9 DEF Step

LEMMA FreshAt ==
  ASSUME TypeInv, NEW t \in Requests, Begins(t)
  PROVE  thread'[t].at \in {"insert", "store", "unlist"}
<1>1. \A b, r : /\ Fresh("create", b, r, "insert").at = "insert"
                /\ Fresh("update", b, r, "store").at = "store"
                /\ Fresh("delete", b, r, "unlist").at = "unlist"
  BY DEF Fresh, Idle
<1> QED BY <1>1, BeginsDoes

LEMMA InitLive == Init => LiveInv
<1> SUFFICES ASSUME Init PROVE LiveInv
  OBVIOUS
<1>1. \A t \in Threads : thread[t].at \in {"idle", "next"}
  BY DEF Init, Idle
<1>2. \A i \in Instance : inst[i].at = "none"
  BY DEF Init, NoInstance
<1> QED BY <1>1, <1>2, InitTypes DEF LiveInv, OwnOK, LiveOK, Launched, Runs

LEMMA NextLive == LiveInv /\ [Next]_vars => LiveInv'
<1> SUFFICES ASSUME LiveInv, [Next]_vars PROVE OwnOK' /\ LiveOK'
  BY NextTypes DEF LiveInv
<1>0. TypeInv /\ TypeInv' /\ "main" \in Threads /\ thread["main"] \in Thread
  BY NextTypes DEF LiveInv, Threads, TypeInv, ThreadsOK
<1>1. ASSUME NEW t \in Requests, Begins(t) PROVE OwnOK' /\ LiveOK'
  <2>1. Others(t) /\ UNCHANGED <<running, made, inst>>
    BY <1>0, <1>1, BeginsDoes
  <2>2. thread'[t].at \notin {"list", "launch"}
    BY <1>0, <1>1, FreshAt
  <2>3. \A i \in Instance : /\ inst'[i].bot = inst[i].bot /\ (Runs(i)' => Launched(i))
                            /\ inst[i].cancelled => inst'[i].cancelled
    BY <2>1 DEF Launched, Runs
  <2> QED BY <2>1, <2>2, <2>3, StaysLive
<1>2. ASSUME NEW t \in Threads, Step(t) PROVE OwnOK' /\ LiveOK'
  BY <1>2, StepLive
<1>3. ASSUME NEW i \in Instance, Run(i) \/ Deliver(i) PROVE OwnOK' /\ LiveOK'
  <2>1. /\ UNCHANGED <<thread, running, made>> /\ Only(i) /\ Kin(i)
        /\ inst'[i].at = inst[i].at \/ Runs(i)
    BY <1>0, <1>3, RunDoes
  <2>2. \A j \in Instance : /\ inst'[j].bot = inst[j].bot /\ (Runs(j)' => Runs(j))
                            /\ inst[j].cancelled => inst'[j].cancelled
    BY <2>1 DEF Only, Same, Like, Kin, Runs
  <2>3. OwnOK'
    BY <2>1, <2>2 DEF LiveInv, OwnOK
  <2>4. LiveOK'
    BY <2>1, <2>2 DEF LiveInv, LiveOK, Launched
  <2> QED BY <2>3, <2>4
<1>4. CASE StartNext \/ Ready \/ StopNext
  <2>1. Others("main") /\ UNCHANGED <<running, made, inst>>
    BY <1>0, <1>4, StartNextDoes, ReadyDoes, StopNextDoes
  <2>2. thread'["main"].at \notin {"list", "launch"}
    <3>1. CASE StartNext
      BY <1>0, <3>1, StartNextDoes DEF Thread
    <3>2. CASE Ready
      BY <1>0, <3>2, ReadyDoes DEF Idle
    <3>3. CASE StopNext
      BY <1>0, <3>3, StopNextDoes DEF Thread
    <3> QED BY <1>4, <3>1, <3>2, <3>3
  <2>3. \A i \in Instance : /\ inst'[i].bot = inst[i].bot /\ (Runs(i)' => Launched(i))
                            /\ inst[i].cancelled => inst'[i].cancelled
    BY <2>1 DEF Launched, Runs
  <2> QED BY <2>1, <2>2, <2>3, StaysLive
<1>5. CASE StopAll
  <2>1. /\ Others("main") /\ made' = made /\ thread'["main"].at = "next"
        /\ \A i \in Instance :
             Same(i) /\ ((\E b \in Bots : running[b] = i) => inst'[i].cancelled)
    BY <1>0, <1>5, StopAllDoes
  <2>2. OwnOK'
    BY <2>1 DEF LiveInv, OwnOK, Others, Same, Like
  <2>3. \A i \in Instance : Launched(i)' => Launched(i)
    BY <2>1 DEF Launched, Runs, Others, Same, Like
  <2>4. LiveOK'
    BY <2>1, <2>3 DEF LiveInv, LiveOK, Same, Like
  <2> QED BY <2>2, <2>4
<1>6. CASE Elsewhere \/ UNCHANGED vars
  BY <1>6 DEF Elsewhere, vars, LiveInv, OwnOK, LiveOK, Launched, Runs
<1> QED BY <1>1, <1>2, <1>3, <1>4, <1>5, <1>6, Kinds

\* Whatever requests overlap, a bot never answers twice: of its goroutines at most
\* one has a context that is not cancelled (startBot's check under the mutex).
THEOREM NeverTwice == Spec => []OneLive
<1>1. LiveInv => OneLive
  BY DEF LiveInv, LiveOK, Launched, OneLive
<1> QED BY <1>1, InitLive, NextLive, PTL DEF Spec

-----------------------------------------------------------------------------
(* As long as operations do not overlap.                                    *)

\* One goroutine at most is in an operation.
Alone == \A t, u \in Threads : thread[t] # Idle /\ thread[u] # Idle => t = u
\* No handler runs where the shutdown handler does, or will.
Apart ==
  /\ phase # "crashed"
  /\ \A i \in Instance : inst[i].closing \/ inst[i].closed => ~Runs(i)
  /\ \A t \in Threads : thread[t].own \in Instance =>
       /\ thread[t].at \in {"list", "launch"} =>
            ~inst[thread[t].own].closing /\ ~inst[thread[t].own].closed
       /\ thread[t].at = "close" => ~Runs(thread[t].own)
ApartInv == TypeInv /\ (~overlap => Alone /\ Apart)

LEMMA StepBusy ==
  ASSUME NEW t, Step(t)
  PROVE  thread[t] # Idle
<1>1. ASSUME Insert(t) \/ Store(t) \/ Erase(t) \/ AddUser(t) \/ Compile(t) \/ List(t)
      PROVE  thread[t].at \in {"insert", "store", "erase", "prepare", "compile", "list"}
  BY <1>1, Zenon DEF Insert, Store, Erase, AddUser, Compile, List
<1>2. ASSUME Launch(t) \/ Reply(t) \/ Unlist(t) \/ Wait(t) \/ Retire(t)
      PROVE  thread[t].at \in {"launch", "reply", "unlist", "wait", "close"}
  BY <1>2, Zenon DEF Launch, Reply, Unlist, Wait, Retire
<1>3. Idle.at = "idle"
  BY DEF Idle
<1> QED BY <1>1, <1>2, <1>3 DEF Step

\* The only goroutine that is busy goes on.
LEMMA AloneStays ==
  ASSUME Alone, NEW t \in Threads, thread[t] # Idle, Others(t)
  PROVE  Alone' /\ \A u \in Threads : u # t => thread'[u] = Idle
BY DEF Alone, Others

LEMMA IdleAt == Idle.at = "idle"
BY DEF Idle

\* A step of the one goroutine that is busy, that does not begin to close or to
\* list an instance and launches none.
LEMMA ApartStays ==
  ASSUME Alone, Apart, NEW t \in Threads, thread[t] # Idle, Others(t), phase' # "crashed",
         thread'[t].at \notin {"list", "launch", "close"},
         \A i \in Instance : /\ inst'[i].at = inst[i].at /\ inst'[i].closing = inst[i].closing
                             /\ inst'[i].closed = inst[i].closed
  PROVE  Alone' /\ Apart'
<1>1. Alone' /\ \A u \in Threads : u # t => thread'[u] = Idle
  BY AloneStays
<1>2. \A u \in Threads : thread'[u].at \notin {"list", "launch", "close"}
  BY <1>1, IdleAt
<1>3. \A i \in Instance : (inst'[i].closing \/ inst'[i].closed => ~Runs(i)') /\ (Runs(i)' <=> Runs(i))
  BY DEF Apart, Runs
<1>4. Apart'
  BY <1>2, <1>3 DEF Apart
<1> QED BY <1>1, <1>4

LEMMA StepApart ==
  ASSUME TypeInv, Alone, Apart, NEW t \in Threads, Step(t)
  PROVE  Alone' /\ Apart'
<1>0. thread[t] \in Thread /\ thread[t] # Idle /\ Others(t) /\ phase' = phase
  BY StepBusy, StepTypes DEF TypeInv, ThreadsOK
<1>1. Alone' /\ (\A u \in Threads : u # t => thread'[u] = Idle) /\ phase' # "crashed"
  BY <1>0, AloneStays DEF Apart
<1>2. ASSUME \A i \in Instance : Same(i), thread'[t].at \notin {"list", "launch", "close"}
      PROVE  Apart'
  BY <1>0, <1>1, <1>2, ApartStays DEF Same, Like
<1>3. CASE Insert(t) \/ Store(t) \/ Erase(t) \/ Reply(t)
  <2>1. /\ \A i \in Instance : Same(i)
        /\ \/ Rests(t) \/ thread'[t] = [thread[t] EXCEPT !.at = "prepare"]
           \/ thread'[t] = [thread[t] EXCEPT !.at = "unlist"]
    BY <1>3, InsertDoes, StoreDoes, EndDoes
  <2>2. thread'[t].at \notin {"list", "launch", "close"}
    BY <1>0, <2>1, RestsAt DEF Thread
  <2> QED BY <1>1, <1>2, <2>1, <2>2
<1>10. CASE AddUser(t)
  <2>1. /\ \A i \in Instance : Same(i)
        /\ Rests(t) \/ thread'[t] = [thread[t] EXCEPT !.at = "compile"]
    BY <1>10, AddUserDoes
  <2>2. thread'[t].at \notin {"list", "launch", "close"}
    BY <1>0, <2>1, RestsAt DEF Thread
  <2> QED BY <1>1, <1>2, <2>1, <2>2
<1>4. CASE Compile(t)
  <2>1. CASE Rests(t) /\ \A i \in Instance : Same(i)
    BY <1>1, <1>2, <2>1, RestsAt
  <2>2. CASE /\ Only(made + 1) /\ (made + 1 \in Instance => inst'[made + 1] = Prepared(t))
             /\ thread'[t] = [thread[t] EXCEPT !.at = "list", !.own = made + 1]
    <3>1. thread'[t].at = "list" /\ thread'[t].own = made + 1
      BY <1>0, <2>2, made + 1 \in Nat DEF Thread, TypeInv, StateOK
    <3>2. made + 1 \in Instance => /\ inst'[made + 1].at = "made"
                                   /\ ~ inst'[made + 1].closing /\ ~ inst'[made + 1].closed
      BY <2>2 DEF Prepared, NoInstance
    <3>3. \A i \in Instance : inst'[i].closing \/ inst'[i].closed => ~Runs(i)'
      BY <2>2, <3>2 DEF Apart, Runs, Only, Same, Like
    <3> QED BY <1>1, <3>1, <3>2, <3>3, IdleAt DEF Apart
  <2> QED BY <1>4, <2>1, <2>2, CompileDoes
<1>5. CASE List(t)
  <2>1. (\A i \in Instance : Same(i)) /\ thread[t].at = "list"
    BY <1>5, ListDoes DEF List
  <2>2. CASE Rests(t)
    BY <1>1, <1>2, <2>1, <2>2, RestsAt
  <2>3. CASE thread'[t] = [thread[t] EXCEPT !.at = "launch"]
    <3>1. thread'[t].at = "launch" /\ thread'[t].own = thread[t].own
      BY <1>0, <2>3 DEF Thread
    <3>2. \A i \in Instance : inst'[i].closing \/ inst'[i].closed => ~Runs(i)'
      BY <2>1 DEF Apart, Runs, Same, Like
    <3>3. thread[t].own \in Instance =>
            ~inst'[thread[t].own].closing /\ ~inst'[thread[t].own].closed
      BY <2>1 DEF Apart, Same, Like
    <3> QED BY <1>1, <3>1, <3>2, <3>3, IdleAt DEF Apart
  <2> QED BY <1>5, <2>2, <2>3, ListDoes
<1>6. CASE Launch(t)
  <2> DEFINE k == thread[t].own
  <2>1. /\ Only(k) /\ thread[t].at = "launch"
        /\ k \in Instance => inst'[k] = [inst[k] EXCEPT !.hook = TRUE, !.at = "init"]
        /\ thread'[t] = [thread[t] EXCEPT !.at = "reply"]
    BY <1>6, LaunchDoes DEF Launch
  <2>2. thread'[t].at = "reply"
    BY <1>0, <2>1 DEF Thread
  <2>3. k \in Instance => inst'[k].closing = inst[k].closing /\ inst'[k].closed = inst[k].closed
    BY <2>1 DEF TypeInv, InstOK, Inst
  <2>4. \A i \in Instance : inst'[i].closing \/ inst'[i].closed => ~Runs(i)'
    BY <2>1, <2>3 DEF Apart, Runs, Only, Same, Like
  <2> QED BY <1>1, <2>2, <2>4, IdleAt DEF Apart
<1>7. CASE Unlist(t)
  <2> DEFINE k == running[thread[t].bot]
  <2>1. CASE Proceeds(t) /\ \A i \in Instance : Same(i)
    BY <1>1, <1>2, <2>1, ProceedsAt
  <2>2. CASE /\ Only(k)
             /\ k \in Instance => inst'[k] = [inst[k] EXCEPT !.hook = FALSE, !.cancelled = TRUE]
             /\ thread'[t] = [thread[t] EXCEPT !.at = "wait", !.own = k]
    <3>1. thread'[t].at = "wait"
      BY <1>0, <2>2 DEF Thread
    <3>2. k \in Instance => /\ inst'[k].at = inst[k].at /\ inst'[k].closing = inst[k].closing
                            /\ inst'[k].closed = inst[k].closed
      <4> SUFFICES ASSUME k \in Instance
                   PROVE  /\ inst'[k].at = inst[k].at /\ inst'[k].closing = inst[k].closing
                          /\ inst'[k].closed = inst[k].closed
        OBVIOUS
      <4>1. inst[k] \in Inst /\ inst'[k] = [inst[k] EXCEPT !.hook = FALSE, !.cancelled = TRUE]
        BY <2>2 DEF TypeInv, InstOK
      <4> HIDE DEF k
      <4> QED BY <4>1, UnlistedFields
    <3>3. \A i \in Instance : /\ inst'[i].at = inst[i].at /\ inst'[i].closing = inst[i].closing
                              /\ inst'[i].closed = inst[i].closed
      BY <2>2, <3>2 DEF Only, Same, Like
    <3> QED BY <1>0, <1>1, <3>1, <3>3, ApartStays
  <2> QED BY <1>7, <2>1, <2>2, UnlistDoes
<1>8. CASE Wait(t)
  <2> DEFINE k == thread[t].own
  <2>1. /\ Only(k) /\ inst[k].at \in {"made", "ended"}
        /\ k \in Instance => inst'[k] = [inst[k] EXCEPT !.closing = TRUE]
        /\ thread'[t] = [thread[t] EXCEPT !.at = "close"]
    BY <1>8, WaitDoes DEF Wait
  <2>2. thread'[t].at = "close" /\ thread'[t].own = k
    BY <1>0, <2>1 DEF Thread
  <2>3. k \in Instance => inst'[k].at = inst[k].at
    BY <2>1 DEF TypeInv, InstOK, Inst
  <2>4. k \in Instance => ~ Runs(k)'
    BY <2>1, <2>3 DEF Runs
  <2>5. \A i \in Instance : inst'[i].closing \/ inst'[i].closed => ~Runs(i)'
    BY <2>1, <2>4 DEF Apart, Runs, Only, Same, Like
  <2> QED BY <1>1, <2>2, <2>4, <2>5, IdleAt DEF Apart
<1>9. CASE Retire(t)
  <2> DEFINE k == thread[t].own
             r == [inst[k] EXCEPT !.closed = TRUE, !.closing = FALSE, !.user = FALSE, !.rec = None]
  <2>1. /\ Only(k) /\ Proceeds(t) /\ thread[t].at = "close"
        /\ k \in Instance => Like(inst'[k], r)
    BY <1>9, RetireDoes DEF Retire
  <2>2. k \in Instance => r.at = inst[k].at
    BY DEF TypeInv, InstOK, Inst
  <2> HIDE DEF r
  <2>6. k \in Instance => inst'[k].at = inst[k].at
    BY <2>1, <2>2 DEF Like
  <2>7. k \in Instance => inst[k].at \notin {"init", "handler", "select"}
    BY <2>1 DEF Apart, Runs
  <2>3. k \in Instance => inst'[k].at \notin {"init", "handler", "select"}
    BY <2>6, <2>7
  <2>8. \A i \in Instance : i # k =>
          /\ inst'[i].closing = inst[i].closing /\ inst'[i].closed = inst[i].closed
          /\ inst'[i].at = inst[i].at
    BY <2>1 DEF Only, Same, Like
  <2>4. \A i \in Instance : inst'[i].closing \/ inst'[i].closed => ~Runs(i)'
    BY <2>3, <2>8 DEF Apart, Runs
  <2>5. thread'[t].at \notin {"list", "launch", "close"}
    BY <2>1, ProceedsAt
  <2> QED BY <1>1, <2>4, <2>5, IdleAt DEF Apart
<1> QED BY <1>1, <1>3, <1>4, <1>5, <1>6, <1>7, <1>8, <1>9, <1>10 DEF Step

LEMMA InitApart == Init => ApartInv
<1> SUFFICES ASSUME Init PROVE ApartInv
  OBVIOUS
<1>1. /\ phase # "crashed" /\ \A t \in Threads : t # "main" => thread[t] = Idle
      /\ \A t \in Threads : thread[t].at \in {"idle", "next"}
  BY DEF Init, Idle
<1>2. \A i \in Instance : inst[i].at = "none"
  BY DEF Init, NoInstance
<1> QED BY <1>1, <1>2, InitTypes DEF ApartInv, Alone, Apart, Runs

LEMMA NextApart == ApartInv /\ [Next]_vars => ApartInv'
<1> SUFFICES ASSUME ApartInv, [Next]_vars, ~overlap' PROVE Alone' /\ Apart'
  BY NextTypes DEF ApartInv
<1>0. TypeInv /\ "main" \in Threads /\ thread["main"] \in Thread
  BY DEF ApartInv, Threads, TypeInv, ThreadsOK
<1>00. ASSUME ~overlap PROVE Alone /\ Apart
  BY <1>00 DEF ApartInv
<1>1. ASSUME NEW t \in Requests, Begins(t) PROVE Alone' /\ Apart'
  <2>1. /\ Others(t) /\ inst' = inst /\ phase' # "crashed" /\ t \in Threads
        /\ overlap' = (overlap \/ \E u \in Threads \ {t} : thread[u] # Idle)
    BY <1>0, <1>1, BeginsDoes DEF Threads
  <2>2. ~overlap /\ \A u \in Threads : u # t => thread'[u] = Idle
    BY <2>1 DEF Others
  <2>3. thread'[t].at \notin {"list", "launch", "close"}
    BY <1>0, <1>1, FreshAt
  <2>4. Alone'
    BY <2>2 DEF Alone
  <2>5. Apart'
    BY <1>00, <2>1, <2>2, <2>3, IdleAt DEF Apart, Runs
  <2> QED BY <2>4, <2>5
<1>2. ASSUME NEW t \in Threads, Step(t) PROVE Alone' /\ Apart'
  BY <1>0, <1>00, <1>2, StepTypes, StepApart
<1>3. ASSUME NEW i \in Instance, Run(i) \/ Deliver(i) PROVE Alone' /\ Apart'
  <2>1. /\ UNCHANGED <<thread, overlap>> /\ Only(i) /\ Kin(i)
        /\ inst'[i].at = inst[i].at \/ Runs(i)
        /\ phase' = phase \/ (Runs(i) /\ inst[i].closed)
    BY <1>0, <1>3, RunDoes
  <2>2. Alone /\ Apart
    BY <1>00, <2>1
  <2>3. \A j \in Instance : /\ inst'[j].closing = inst[j].closing /\ inst'[j].closed = inst[j].closed
                            /\ Runs(j)' => Runs(j)
    BY <2>1 DEF Only, Same, Like, Kin, Runs
  <2>4. Apart'
    BY <2>1, <2>2, <2>3 DEF Apart
  <2> QED BY <2>1, <2>2, <2>4 DEF Alone
<1>4. CASE StartNext \/ Ready \/ StopNext
  <2>1. /\ Others("main") /\ UNCHANGED <<overlap, inst>> /\ thread["main"].at = "next"
        /\ phase' # "crashed"
    BY <1>0, <1>4, StartNextDoes, ReadyDoes, StopNextDoes
  <2>2. thread'["main"].at \notin {"list", "launch", "close"}
    <3>1. CASE StartNext
      BY <1>0, <3>1, StartNextDoes DEF Thread
    <3>2. CASE Ready
      BY <1>0, <3>2, ReadyDoes DEF Idle
    <3>3. CASE StopNext
      BY <1>0, <3>3, StopNextDoes DEF Thread
    <3> QED BY <1>4, <3>1, <3>2, <3>3
  <2>3. thread["main"] # Idle
    BY <2>1, IdleAt
  <2> QED BY <1>0, <1>00, <2>1, <2>2, <2>3, ApartStays
<1>5. CASE StopAll
  <2>1. /\ Others("main") /\ thread'["main"].at = "next" /\ phase' = "stopping"
        /\ overlap' = (overlap \/ \E t \in Requests : thread[t] # Idle)
        /\ \A i \in Instance : Same(i)
    BY <1>0, <1>5, StopAllDoes
  <2>2. ~overlap /\ \A u \in Threads : u # "main" => thread'[u] = Idle
    BY <2>1 DEF Others, Threads
  <2>3. \A i \in Instance : inst'[i].closing \/ inst'[i].closed => ~Runs(i)'
    BY <1>00, <2>1, <2>2 DEF Apart, Runs, Same, Like
  <2> QED BY <2>1, <2>2, <2>3, IdleAt DEF Alone, Apart
<1>6. CASE Elsewhere \/ UNCHANGED vars
  BY <1>00, <1>6 DEF Elsewhere, vars, others, Alone, Apart, Runs
<1> QED BY <1>1, <1>2, <1>3, <1>4, <1>5, <1>6, Kinds

\* As long as operations did not overlap, no handler runs while another goroutine
\* runs the shutdown handler or after the Lua state is closed (supervisor.go:349).
THEOREM HandlersApart == Spec => []OneAtATime
<1>1. ApartInv => OneAtATime
  BY DEF ApartInv, Apart, OneAtATime
<1> QED BY <1>1, InitApart, NextApart, PTL DEF Spec

-----------------------------------------------------------------------------
(* What runs is what is stored.  In between, the bot of the operation that  *)
(* is under way is an exception, and so is the instance it has in hand.     *)

MidPlaces == {"unlist", "wait", "close", "prepare", "compile", "list", "launch", "erase"}
MidOf(t, b) == thread[t].at \in MidPlaces /\ thread[t].bot = b
HeldBy(t, i) == thread[t].at \in {"wait", "close", "list", "launch"} /\ thread[t].own = i
Todo == IF phase = "boot" THEN thread["main"].todo ELSE {}

Preparing == {"prepare", "compile"}
BootPlaces == {"next", "prepare", "compile", "list", "launch", "reply"}

Wants(b) == stored[b] # None /\ stored[b].enabled /\ stored[b].script = "good"
Matches(b) ==
  IF Wants(b) /\ b \notin refused
  THEN running[b] # None /\ inst[running[b]].rec = stored[b]
  ELSE running[b] = None
Listed(i) == running[inst[i].bot] = i
Left(i) == /\ (inst[i].user <=> Listed(i)) /\ (inst[i].hook <=> Listed(i))
           /\ Listed(i) \/ inst[i].closed

\* Names differ, and who is stored or was refused was born.
StoreOK ==
  /\ \A a, b \in Bots : a # b /\ stored[a] # None /\ stored[b] # None
                          => stored[a].name # stored[b].name
  /\ (\A b \in Bots : stored[b] # None => b \in born) /\ refused \subseteq born
ListedOK == \A b \in Bots : running[b] # None => running[b] \in 1..made /\ inst[running[b]].bot = b
MadeOK == /\ made <= MaxInstances
          /\ \A i \in 1..made : inst[i].bot \in Bots
          /\ \A i \in Instance : inst[i].user => i <= made

\* What an operation has done and what it has in hand.
PlaceOK(t) ==
  LET h == thread[t]
      b == h.bot
  IN /\ h.at = "insert" => h.op = "create" /\ b \notin born
     /\ h.at = "store" => h.op = "update"
     /\ h.at \in {"unlist", "wait", "close"} => h.op \in {"update", "delete"}
     /\ h.at \in MidPlaces \ {"erase"} /\ h.op # "delete"
          => stored[b] = h.rec /\ h.rec \in Record /\ b \notin refused
     /\ h.at \in MidPlaces /\ h.op = "delete" => b \in born
     /\ h.at \in Preparing \cup {"list", "launch"} => h.op # "delete" /\ h.rec.enabled
     /\ h.at \in {"insert", "store", "unlist", "wait", "close"} \cup Preparing /\ h.op # "delete"
          => made < MaxInstances
     /\ h.at = "erase" => h.op = "delete"
     /\ h.at \in {"wait", "close", "list", "erase"} \cup Preparing => running[b] = None
     /\ h.at \in {"list", "launch"} =>
          /\ h.rec.script = "good" /\ h.own \in 1..made
          /\ inst[h.own].bot = b /\ inst[h.own].rec = h.rec /\ inst[h.own].user
     /\ h.at = "list" => ~inst[h.own].hook
     /\ h.at = "launch" => running[b] = h.own
     /\ h.at \in {"wait", "close"} => /\ h.own \in 1..made /\ inst[h.own].bot = b
                                      /\ ~inst[h.own].hook

\* The bots that are still to be started are not running, and there is room for them.
BootingOK ==
  /\ phase = "up" => thread["main"] = Idle
  /\ phase = "boot" =>
       LET h == thread["main"] IN
       /\ h.at \in BootPlaces /\ h.op = "boot"
       /\ \A b \in h.todo : /\ running[b] = None /\ stored[b] # None /\ stored[b].enabled
                            /\ b \notin refused /\ (h.at \in MidPlaces => b # h.bot)
       /\ made + Cardinality(h.todo) + (IF h.at \in Preparing THEN 1 ELSE 0) <= MaxInstances

\* With t the only goroutine that is busy.
MatchOK(t) == \A b \in Bots \ Todo : ~MidOf(t, b) => Matches(b)
LeftOK(t) == \A i \in 1..made : ~HeldBy(t, i) => Left(i)
Calm(t) == /\ StoreOK /\ ListedOK /\ MadeOK /\ BootingOK
           /\ PlaceOK(t) /\ MatchOK(t) /\ LeftOK(t)

Serial ==
  /\ StoreOK /\ ListedOK /\ MadeOK /\ BootingOK /\ \A t \in Threads : PlaceOK(t)
  /\ \A b \in Bots \ Todo : (\A t \in Threads : ~MidOf(t, b)) => Matches(b)
  /\ \A i \in 1..made : (\A t \in Threads : ~HeldBy(t, i)) => Left(i)
SerialInv ==
  /\ ApartInv
  /\ ~overlap /\ phase \in {"boot", "up"} => Serial

LEMMA CalmNow ==
  ASSUME NEW t \in Threads, \A u \in Threads : u # t => thread[u] = Idle, Serial
  PROVE  Calm(t)
<1>1. \A u \in Threads : u # t => thread[u].at = "idle"
  BY IdleAt
<1>2. \A u \in Threads : u # t => (\A b : ~MidOf(u, b)) /\ (\A i : ~HeldBy(u, i))
  BY <1>1 DEF MidOf, HeldBy, MidPlaces
<1>3. MatchOK(t)
  BY <1>2 DEF MatchOK, Serial
<1>4. LeftOK(t)
  BY <1>2 DEF LeftOK, Serial
<1> QED BY <1>3, <1>4 DEF Calm, Serial

LEMMA CalmNext ==
  ASSUME NEW t \in Threads, \A u \in Threads : u # t => thread'[u] = Idle, Calm(t)'
  PROVE  Serial'
<1>1. \A u \in Threads : u # t => thread'[u].at = "idle"
  BY IdleAt
<1>2. \A u \in Threads : u # t => PlaceOK(u)'
  BY <1>1 DEF PlaceOK, MidPlaces, Preparing
<1>3. \A b \in (Bots \ Todo)' : (\A u \in Threads : ~MidOf(u, b)') => Matches(b)'
  BY DEF Calm, MatchOK
<1>4. \A i \in (1..made)' : (\A u \in Threads : ~HeldBy(u, i)') => Left(i)'
  BY DEF Calm, LeftOK
<1> QED BY <1>2, <1>3, <1>4 DEF Calm, Serial

LEMMA Rooms ==
  ASSUME TypeInv, ListedOK, MadeOK
  PROVE  /\ made \in Nat /\ 1..made \subseteq Instance /\ None \notin Nat
         /\ \A b \in Bots : running[b] # None =>
              running[b] \in Instance /\ running[b] \in 1..made /\ inst[running[b]].bot = b
BY BotsAssumption DEF TypeInv, StateOK, ListedOK, MadeOK, Instance

\* A step that changes no more of the instances than their contexts.
LEMMA QuietLeft ==
  ASSUME TypeInv, NEW t, ListedOK, MadeOK, LeftOK(t), UNCHANGED <<running, made>>,
         \A i \in Instance : Same(i), \A i : ~HeldBy(t, i)
  PROVE  ListedOK' /\ MadeOK' /\ LeftOK(t)'
<1>0. \A i \in Instance : /\ inst'[i].bot = inst[i].bot /\ inst'[i].user = inst[i].user
                          /\ inst'[i].hook = inst[i].hook /\ inst'[i].closed = inst[i].closed
  BY DEF Same, Like
<1>1. ListedOK' /\ MadeOK'
  BY <1>0, Rooms DEF ListedOK, MadeOK
<1>2. \A i \in 1..made : Left(i)'
  BY <1>0, Rooms DEF LeftOK, Left, Listed
<1> QED BY <1>1, <1>2 DEF LeftOK

LEMMA MatchKept ==
  ASSUME TypeInv, ListedOK, MadeOK, NEW b \in Bots, Matches(b), running'[b] = running[b],
         stored'[b] = stored[b], b \in refused' <=> b \in refused,
         running[b] \in Instance => inst'[running[b]].rec = inst[running[b]].rec
  PROVE  Matches(b)'
BY Rooms DEF Matches, Wants

LEMMA TodoSize ==
  ASSUME TypeInv, phase = "boot"
  PROVE  /\ IsFiniteSet(thread["main"].todo) /\ Cardinality(thread["main"].todo) \in Nat
BY BotsAssumption, FS_Subset, FS_CardinalityType DEF TypeInv, BootOK

LEMMA Room ==
  ASSUME NEW m \in Nat, NEW n \in Nat, NEW c \in Nat, NEW x \in Nat, NEW y \in Nat,
         NEW k \in Nat, m + c + x <= k, n + y <= m + x
  PROVE  n + c + y <= k
OBVIOUS

\* While main starts the stored bots, its steps leave the others of its list alone.
LEMMA BootKept ==
  ASSUME TypeInv, BootingOK, NEW t \in Threads, t = "main" <=> phase = "boot", phase' = phase,
         phase \in {"boot", "up"}, Others(t),
         phase = "boot" =>
           /\ thread'[t].at \in BootPlaces
           /\ thread'[t].todo = thread[t].todo /\ thread'[t].op = thread[t].op
           /\ thread'[t].at \in MidPlaces => thread[t].at \in MidPlaces /\ thread'[t].bot = thread[t].bot
           /\ stored' = stored
           /\ \A b \in thread[t].todo : running'[b] = running[b] /\ (b \in refused' => b \in refused)
           /\ \/ made' = made /\ (thread'[t].at \in Preparing => thread[t].at \in Preparing)
              \/ made' = made + 1 /\ thread[t].at \in Preparing /\ thread'[t].at = "list"
  PROVE  BootingOK'
<1>1. CASE phase = "boot"
  <2> DEFINE C == Cardinality(thread["main"].todo)
             x == IF thread["main"].at \in Preparing THEN 1 ELSE 0
             y == IF thread'["main"].at \in Preparing THEN 1 ELSE 0
  <2>1. C \in Nat /\ made \in Nat /\ MaxInstances \in Nat /\ thread'["main"].todo = thread["main"].todo
    BY <1>1, TodoSize, BotsAssumption DEF TypeInv, StateOK
  <2>2. made + C + x <= MaxInstances
    BY <1>1 DEF BootingOK
  <2>3. made' + y <= made + x /\ made' \in Nat
    BY <1>1, <2>1 DEF Preparing
  <2> HIDE DEF C, x, y
  <2>4. made' + C + y <= MaxInstances
    <3>1. x \in Nat /\ y \in Nat
      BY DEF x, y
    <3> QED BY <2>1, <2>2, <2>3, <3>1, Room
  <2>5. made' + Cardinality(thread'["main"].todo) + (IF thread'["main"].at \in Preparing THEN 1 ELSE 0)
          <= MaxInstances
    BY <2>1, <2>4 DEF C, y
  <2>6. \A b \in thread'["main"].todo :
          /\ running'[b] = None /\ stored'[b] # None /\ stored'[b].enabled /\ b \notin refused'
          /\ thread'["main"].at \in MidPlaces => b # thread'["main"].bot
    BY <1>1, <2>1 DEF BootingOK
  <2>7. thread'["main"].at \in BootPlaces /\ thread'["main"].op = "boot"
    BY <1>1 DEF BootingOK
  <2> QED BY <1>1, <2>5, <2>6, <2>7 DEF BootingOK
<1>2. CASE phase = "up"
  BY <1>2 DEF BootingOK, Others, Threads
<1> QED BY <1>1, <1>2

\* Main is the one that is busy while the process boots, and only then.
LEMMA WhoSteps ==
  ASSUME BootingOK, Alone, NEW t \in Threads, thread[t] # Idle, phase \in {"boot", "up"}
  PROVE  /\ t = "main" <=> phase = "boot"
         /\ phase = "boot" => thread[t].at \in BootPlaces
BY IdleAt DEF BootingOK, Alone, Threads, BootPlaces

\* It is t's turn: nobody else is busy.
Turn(t) ==
  /\ TypeInv /\ Calm(t) /\ t \in Threads /\ phase \in {"boot", "up"}
  /\ t = "main" <=> phase = "boot"
  /\ phase = "boot" => thread[t].at \in BootPlaces

LEMMA HandFields ==
  ASSUME TypeInv, NEW t \in Threads
  PROVE  \A p : thread'[t] = [thread[t] EXCEPT !.at = p] =>
           /\ thread'[t].at = p /\ thread'[t].op = thread[t].op /\ thread'[t].bot = thread[t].bot
           /\ thread'[t].rec = thread[t].rec /\ thread'[t].own = thread[t].own
           /\ thread'[t].todo = thread[t].todo
BY DEF TypeInv, ThreadsOK, Thread

LEMMA RestsFields ==
  ASSUME TypeInv, NEW t \in Threads, Rests(t)
  PROVE  /\ thread'[t].at \in {"idle", "next"}
         /\ t = "main" => /\ thread'[t].at = "next" /\ thread'[t].op = thread[t].op
                          /\ thread'[t].todo = thread[t].todo
BY IdleAt DEF TypeInv, ThreadsOK, Thread, Rests

\* Nothing is in hand between two operations.
LEMMA NothingInHand ==
  ASSUME NEW t, thread'[t].at \in {"idle", "next", "reply"}
  PROVE  PlaceOK(t)'
BY DEF PlaceOK, MidPlaces, Preparing

\* What is to be shown of a step that stores nothing and cancels at most: the bot
\* of the operation is as stored when the step ends it.
LEMMA QuietCalm ==
  ASSUME NEW t, Turn(t), UNCHANGED <<phase, stored, born, running, made>>, Others(t),
         \A i \in Instance : Same(i), \A i : ~HeldBy(t, i), StoreOK', PlaceOK(t)', BootingOK',
         phase = "boot" => thread'[t].todo = thread[t].todo,
         \A b \in Bots : IF MidOf(t, b) THEN MidOf(t, b)' \/ Matches(b)'
                                         ELSE b \in refused' <=> b \in refused
  PROVE  Calm(t)'
<1>1. ListedOK' /\ MadeOK' /\ LeftOK(t)'
  BY QuietLeft DEF Turn, Calm
<1>3. Todo' = Todo
  BY DEF Turn, Todo
<1>5. ASSUME NEW b \in Bots \ Todo, ~MidOf(t, b)' PROVE Matches(b)'
  <2>1. CASE ~MidOf(t, b)
    <3>1. Matches(b)
      BY <2>1 DEF Turn, Calm, MatchOK
    <3>2. b \in refused' <=> b \in refused
      BY <2>1
    <3> QED BY <3>1, <3>2, MatchKept DEF Turn, Calm, Same, Like
  <2>2. CASE MidOf(t, b)
    BY <1>5, <2>2
  <2> QED BY <2>1, <2>2
<1>6. MatchOK(t)'
  BY <1>3, <1>5 DEF MatchOK
<1> QED BY <1>1, <1>6 DEF Calm

LEMMA ReplyCalm ==
  ASSUME NEW t, Turn(t), Reply(t)
  PROVE  Calm(t)'
<1>0. TypeInv /\ t \in Threads
  BY DEF Turn
<1>1. /\ Others(t) /\ Rests(t) /\ (\A i \in Instance : Same(i)) /\ thread[t].at = "reply"
      /\ UNCHANGED <<phase, stored, born, running, made, refused>>
  BY <1>0, EndDoes DEF Reply
<1>2. /\ thread'[t].at \in {"idle", "next"}
      /\ t = "main" => /\ thread'[t].at = "next" /\ thread'[t].op = thread[t].op
                       /\ thread'[t].todo = thread[t].todo
  BY <1>0, <1>1, RestsFields
<1>3. PlaceOK(t)'
  BY <1>2, NothingInHand
<1>4. BootingOK'
  BY <1>1, <1>2, BootKept DEF Turn, Calm, MidPlaces, Preparing, BootPlaces
<1>5. (\A i : ~HeldBy(t, i)) /\ \A b : ~MidOf(t, b)
  BY <1>1 DEF HeldBy, MidOf, MidPlaces
<1>6. StoreOK'
  BY <1>1 DEF Turn, Calm, StoreOK
<1> QED BY <1>1, <1>2, <1>3, <1>4, <1>5, <1>6, QuietCalm DEF Turn

\* What is to be shown of a step that stores something.
LEMMA StoringCalm ==
  ASSUME NEW t, Turn(t), phase = "up", UNCHANGED <<phase, running, made>>, Others(t),
         \A i \in Instance : Same(i), \A i : ~HeldBy(t, i), StoreOK', PlaceOK(t)', BootingOK',
         NEW b \in Bots, b = thread[t].bot,
         \A c \in Bots : c # b => stored'[c] = stored[c] /\ (c \in refused' <=> c \in refused),
         ~ (thread'[t].at \in MidPlaces /\ thread'[t].bot = b) => Matches(b)'
  PROVE  Calm(t)'
<1>1. ListedOK' /\ MadeOK' /\ LeftOK(t)'
  BY QuietLeft DEF Turn, Calm
<1>2. Todo' = {} /\ Todo = {}
  BY DEF Turn, Todo
<1>3. ASSUME NEW c \in Bots, ~MidOf(t, c)' PROVE Matches(c)'
  <2>1. CASE c # b
    <3>1. Matches(c)
      BY <1>2, <2>1 DEF Turn, Calm, MatchOK, MidOf
    <3> QED BY <2>1, <3>1, MatchKept DEF Turn, Calm, Same, Like
  <2>2. CASE c = b
    BY <1>3, <2>2 DEF MidOf
  <2> QED BY <2>1, <2>2
<1>4. MatchOK(t)'
  BY <1>3 DEF MatchOK
<1> QED BY <1>1, <1>4 DEF Calm

\* Not while the process boots.
LEMMA ChangesUp ==
  ASSUME NEW t, Turn(t), thread[t].at \in {"insert", "store", "erase", "unlist", "wait", "close"},
         phase' = phase, Others(t)
  PROVE  phase = "up" /\ t # "main" /\ BootingOK'
<1>1. phase = "up" /\ t # "main"
  BY DEF Turn, BootPlaces
<1> QED BY <1>1, BootKept DEF Turn, Calm

LEMMA EraseCalm ==
  ASSUME NEW t, Turn(t), Erase(t)
  PROVE  Calm(t)'
<1>0. TypeInv /\ t \in Threads /\ thread[t].at = "erase"
  BY DEF Turn, Erase
<1>00. PICK b \in Bots : b = thread[t].bot
  BY <1>0 DEF TypeInv, ThreadsOK, Hands, Busy
<1>1. /\ Others(t) /\ Rests(t) /\ \A i \in Instance : Same(i)
      /\ UNCHANGED <<phase, born, running, made>>
      /\ \/ stored' = [stored EXCEPT ![b] = None] /\ refused' = refused
         \/ stored' = stored /\ refused' = refused \cup {b}
  BY <1>0, <1>00, EndDoes DEF Erase
<1>2. phase = "up" /\ t # "main" /\ BootingOK'
  BY <1>0, <1>1, ChangesUp
<1>3. PlaceOK(t)'
  BY <1>0, <1>1, RestsFields, NothingInHand
<1>4. \A i : ~HeldBy(t, i)
  BY <1>0 DEF HeldBy
<1>5. /\ stored'[b] = None \/ (stored' = stored /\ b \in refused')
      /\ \A c \in Bots : c # b => stored'[c] = stored[c] /\ (c \in refused' <=> c \in refused)
  BY <1>0, <1>1 DEF TypeInv, StateOK
<1>7. running'[b] = None
  BY <1>0, <1>00, <1>1 DEF Turn, Calm, PlaceOK
<1>10. b \in born
  BY <1>0, <1>00 DEF Turn, Calm, PlaceOK, MidPlaces
<1>8. Matches(b)'
  BY <1>5, <1>7 DEF Matches, Wants
<1>6. CASE stored' = stored /\ refused' = refused \cup {b}
  <2>1. StoreOK'
    BY <1>00, <1>1, <1>6, <1>10 DEF Turn, Calm, StoreOK
  <2> QED BY <1>0, <1>00, <1>1, <1>2, <1>3, <1>4, <1>5, <1>8, <2>1, StoringCalm
<1>9. CASE stored' = [stored EXCEPT ![b] = None] /\ refused' = refused
  <2>1. StoreOK'
    BY <1>1, <1>5, <1>9 DEF Turn, Calm, StoreOK
  <2> QED BY <1>0, <1>00, <1>1, <1>2, <1>3, <1>4, <1>5, <1>8, <2>1, StoringCalm
<1> QED BY <1>1, <1>6, <1>9

LEMMA InsertCalm ==
  ASSUME NEW t, Turn(t), Insert(t)
  PROVE  Calm(t)'
<1>0. TypeInv /\ t \in Threads /\ thread[t].at = "insert"
  BY DEF Turn, Insert
<1>00. PICK b \in Bots, r \in Record : b = thread[t].bot /\ r = thread[t].rec
  BY <1>0 DEF TypeInv, ThreadsOK, Hands, Busy
<1>1. /\ Others(t) /\ \A i \in Instance : Same(i)
      /\ UNCHANGED <<phase, running, made, refused>> /\ born' = born \cup {b}
  BY <1>0, <1>00, InsertDoes DEF Insert
<1>2. phase = "up" /\ t # "main" /\ BootingOK'
  BY <1>0, <1>1, ChangesUp
<1>3. /\ b \notin born /\ stored[b] = None /\ made < MaxInstances /\ thread[t].op = "create"
      /\ ~ MidOf(t, b) /\ b \notin refused /\ \A i : ~HeldBy(t, i)
  BY <1>0, <1>00 DEF Turn, Calm, PlaceOK, StoreOK, HeldBy, MidOf, MidPlaces
<1>4. running[b] = None
  <2>1. Matches(b)
    BY <1>2, <1>3 DEF Turn, Calm, MatchOK, Todo
  <2> QED BY <1>3, <2>1 DEF Matches, Wants
<1>7. CASE /\ NameFree(b, r.name) /\ stored' = [stored EXCEPT ![b] = r]
           /\ IF r.enabled THEN Go(t, "prepare") /\ inst' = inst ELSE Return(t, inst)
  <2>5. stored'[b] = r /\ \A c \in Bots : c # b => stored'[c] = stored[c]
    BY <1>0, <1>7 DEF TypeInv, StateOK
  <2>6. StoreOK'
    BY <1>0, <1>1, <1>3, <1>7, <2>5 DEF Turn, Calm, StoreOK, NameFree, TypeInv, StateOK
  <2>1. CASE r.enabled
    <3>2. thread'[t] = [thread[t] EXCEPT !.at = "prepare"]
      BY <1>0, <1>7, <2>1 DEF Go, TypeInv, ThreadsOK
    <3>3. /\ thread'[t].at = "prepare" /\ thread'[t].op = thread[t].op /\ thread'[t].bot = b
          /\ thread'[t].rec = r
      BY <1>0, <1>00, <3>2, HandFields
    <3>5. PlaceOK(t)'
      BY <1>0, <1>1, <1>3, <1>4, <2>1, <2>5, <3>3 DEF PlaceOK
    <3> QED BY <1>0, <1>1, <1>2, <1>3, <2>5, <2>6, <1>00, <3>3, <3>5, StoringCalm DEF MidPlaces
  <2>2. CASE ~ r.enabled
    <3>1. Rests(t)
      BY <1>0, <1>7, <2>2, SameReturn DEF TypeInv
    <3>2. PlaceOK(t)'
      BY <1>0, <3>1, RestsFields, NothingInHand
    <3>3. Matches(b)'
      BY <1>1, <1>4, <2>2, <2>5 DEF Matches, Wants
    <3> QED BY <1>0, <1>1, <1>2, <1>3, <2>5, <2>6, <1>00, <3>2, <3>3, StoringCalm
  <2> QED BY <2>1, <2>2
<1>8. CASE stored' = stored /\ Return(t, inst)
  <2>1. Rests(t)
    BY <1>0, <1>8, SameReturn DEF TypeInv
  <2>2. PlaceOK(t)'
    BY <1>0, <2>1, RestsFields, NothingInHand
  <2>3. Matches(b)'
    BY <1>1, <1>3, <1>4, <1>8 DEF Matches, Wants
  <2>4. StoreOK'
    BY <1>1, <1>8 DEF Turn, Calm, StoreOK
  <2> QED BY <1>0, <1>1, <1>2, <1>3, <1>8, <1>00, <2>2, <2>3, <2>4, StoringCalm
<1> QED BY <1>0, <1>00, <1>7, <1>8 DEF Insert

LEMMA StoreCalm ==
  ASSUME NEW t, Turn(t), Store(t)
  PROVE  Calm(t)'
<1>0. TypeInv /\ t \in Threads /\ thread[t].at = "store"
  BY DEF Turn, Store
<1>00. PICK b \in Bots, r \in Record : b = thread[t].bot /\ r = thread[t].rec
  BY <1>0 DEF TypeInv, ThreadsOK, Hands, Busy
<1>1. /\ Others(t) /\ \A i \in Instance : Same(i)
      /\ UNCHANGED <<phase, born, running, made>>
  BY <1>0, <1>00, StoreDoes DEF Store
<1>2. phase = "up" /\ t # "main" /\ BootingOK'
  BY <1>0, <1>1, ChangesUp
<1>3. /\ made < MaxInstances /\ thread[t].op = "update"
      /\ ~ MidOf(t, b) /\ \A i : ~HeldBy(t, i)
  BY <1>0, <1>00 DEF Turn, Calm, PlaceOK, HeldBy, MidOf, MidPlaces
<1>4. Matches(b)
  BY <1>2, <1>3 DEF Turn, Calm, MatchOK, Todo
<1>7. CASE /\ stored[b] # None /\ NameFree(b, r.name)
           /\ stored' = [stored EXCEPT ![b] = r] /\ refused' = refused \ {b}
           /\ Go(t, "unlist") /\ inst' = inst
  <2>5. stored'[b] = r /\ \A c \in Bots : c # b => stored'[c] = stored[c]
    BY <1>0, <1>7 DEF TypeInv, StateOK
  <2>6. StoreOK'
    BY <1>0, <1>1, <1>7, <2>5 DEF Turn, Calm, StoreOK, NameFree, TypeInv, StateOK
  <2>7. b \notin refused' /\ \A c \in Bots : c # b => (c \in refused' <=> c \in refused)
    BY <1>7
  <2>2. thread'[t] = [thread[t] EXCEPT !.at = "unlist"]
    BY <1>0, <1>7 DEF Go, TypeInv, ThreadsOK
  <2>3. /\ thread'[t].at = "unlist" /\ thread'[t].op = thread[t].op /\ thread'[t].bot = b
        /\ thread'[t].rec = r
    BY <1>0, <1>00, <2>2, HandFields
  <2>4. PlaceOK(t)'
    BY <1>0, <1>1, <1>3, <2>3, <2>5, <2>7 DEF PlaceOK, Preparing
  <2> QED BY <1>0, <1>00, <1>1, <1>2, <1>3, <2>3, <2>4, <2>5, <2>6, <2>7, StoringCalm DEF MidPlaces
<1>8. CASE UNCHANGED <<stored, refused>> /\ Return(t, inst)
  <2>1. Rests(t)
    BY <1>0, <1>8, SameReturn DEF TypeInv
  <2>2. PlaceOK(t)'
    BY <1>0, <2>1, RestsFields, NothingInHand
  <2>3. Matches(b)'
    BY <1>0, <1>1, <1>4, <1>8, MatchKept DEF Turn, Calm, Same, Like
  <2>4. StoreOK'
    BY <1>1, <1>8 DEF Turn, Calm, StoreOK
  <2> QED BY <1>0, <1>00, <1>1, <1>2, <1>3, <1>8, <2>2, <2>3, <2>4, StoringCalm
<1> QED BY <1>0, <1>00, <1>7, <1>8 DEF Store

\* What is to be shown of a step with one instance k of the bot in hand.
LEMMA InHandCalm ==
  ASSUME NEW t, Turn(t), UNCHANGED <<phase, stored, born, made, refused>>, Others(t),
         NEW b \in Bots, b = thread[t].bot, NEW k \in 1..made, inst[k].bot = b,
         Only(k), inst'[k].bot = b, \A c \in Bots : c # b => running'[c] = running[c],
         running[b] \in {None, k}, running'[b] \in {None, k}, thread[t].at \in MidPlaces,
         phase = "boot" => thread'[t].todo = thread[t].todo,
         \A i : HeldBy(t, i) => i = k, HeldBy(t, k)' \/ Left(k)',
         (thread'[t].at \in MidPlaces /\ thread'[t].bot = b) \/ Matches(b)',
         PlaceOK(t)', BootingOK'
  PROVE  Calm(t)'
<1>0. /\ TypeInv /\ ListedOK /\ MadeOK /\ StoreOK
      /\ made \in Nat /\ 1..made \subseteq Instance /\ None \notin Nat
      /\ \A c \in Bots : running[c] # None =>
           running[c] \in Instance /\ running[c] \in 1..made /\ inst[running[c]].bot = c
  BY Rooms DEF Turn, Calm
<1>1. \A i \in Instance : i # k =>
        /\ inst'[i].bot = inst[i].bot /\ inst'[i].user = inst[i].user /\ inst'[i].rec = inst[i].rec
        /\ inst'[i].hook = inst[i].hook /\ inst'[i].closed = inst[i].closed
  BY DEF Only, Same, Like
<1>2. ListedOK'
  BY <1>0, <1>1 DEF ListedOK
<1>3. MadeOK'
  BY <1>0, <1>1 DEF MadeOK
<1>4. ASSUME NEW i \in 1..made, i # k PROVE Left(i)'
  <2>1. Left(i) /\ inst[i].bot \in Bots /\ i \in Instance /\ i # None
    BY <1>0, <1>4 DEF Turn, Calm, LeftOK, MadeOK
  <2>2. inst'[i].bot = inst[i].bot /\ (running'[inst[i].bot] = i <=> running[inst[i].bot] = i)
    BY <1>1, <1>4, <2>1
  <2> QED BY <1>1, <1>4, <2>1, <2>2 DEF Left, Listed
<1>5. LeftOK(t)'
  BY <1>0, <1>4 DEF LeftOK
<1>6. Todo' = Todo
  BY DEF Turn, Todo
<1>7. ASSUME NEW c \in Bots \ Todo, ~MidOf(t, c)' PROVE Matches(c)'
  <2>1. CASE c = b
    BY <1>7, <2>1 DEF MidOf
  <2>2. CASE c # b
    <3>1. Matches(c)
      BY <2>2 DEF Turn, Calm, MatchOK, MidOf
    <3>2. running[c] # k
      BY <1>0, <2>2
    <3> QED BY <1>0, <1>1, <2>2, <3>1, <3>2, MatchKept
  <2> QED BY <2>1, <2>2
<1>8. MatchOK(t)'
  BY <1>6, <1>7 DEF MatchOK
<1>9. StoreOK'
  BY <1>0 DEF StoreOK
<1> QED BY <1>2, <1>3, <1>5, <1>8, <1>9 DEF Calm

\* The instance an operation has in hand.
LEMMA InHand ==
  ASSUME NEW t, Turn(t), thread[t].at \in {"list", "launch", "wait", "close"}
  PROVE  \E b \in Bots, k \in 1..made :
           b = thread[t].bot /\ k = thread[t].own /\ k \in Instance /\ inst[k] \in Inst /\ inst[k].bot = b
<1>0. TypeInv /\ t \in Threads
  BY DEF Turn
<1>1. thread[t].own \in 1..made /\ inst[thread[t].own].bot = thread[t].bot
  BY DEF Turn, Calm, PlaceOK
<1>2. thread[t].own \in Instance /\ inst[thread[t].own] \in Inst
  BY <1>1, Rooms DEF Turn, Calm, TypeInv, InstOK
<1>3. thread[t].bot \in Bots
  BY <1>0, <1>1 DEF Turn, Calm, MadeOK
<1> QED BY <1>1, <1>2, <1>3

LEMMA ListCalm ==
  ASSUME NEW t, Turn(t), List(t)
  PROVE  Calm(t)'
<1>0. TypeInv /\ t \in Threads /\ thread[t].at = "list"
  BY DEF Turn, List
<1>1. PICK b \in Bots, k \in 1..made :
        b = thread[t].bot /\ k = thread[t].own /\ k \in Instance /\ inst[k] \in Inst /\ inst[k].bot = b
  BY <1>0, InHand
<1>2. /\ running[b] = None /\ thread[t].op # "delete" /\ stored[b] = thread[t].rec
      /\ thread[t].rec \in Record /\ thread[t].rec.enabled /\ thread[t].rec.script = "good"
      /\ b \notin refused
      /\ inst[k].rec = thread[t].rec /\ inst[k].user
  BY <1>0, <1>1 DEF Turn, Calm, PlaceOK, MidPlaces
<1>3. /\ Others(t) /\ \A i \in Instance : Same(i)
      /\ UNCHANGED <<phase, stored, born, made, refused>>
      /\ running' = [running EXCEPT ![b] = k]
      /\ thread'[t] = [thread[t] EXCEPT !.at = "launch"]
  BY <1>0, <1>1, <1>2, ListDoes DEF List
<1>4. /\ thread'[t].at = "launch" /\ thread'[t].op = thread[t].op /\ thread'[t].bot = b
      /\ thread'[t].rec = thread[t].rec /\ thread'[t].own = k /\ thread'[t].todo = thread[t].todo
  <2>1. /\ thread'[t].at = "launch" /\ thread'[t].op = thread[t].op
        /\ thread'[t].bot = thread[t].bot /\ thread'[t].rec = thread[t].rec
        /\ thread'[t].own = thread[t].own /\ thread'[t].todo = thread[t].todo
    BY <1>0, <1>3, HandFields
  <2> QED BY <1>1, <2>1
<1>5. running'[b] = k /\ \A c \in Bots : c # b => running'[c] = running[c]
  BY <1>0, <1>3 DEF TypeInv, RunningOK
<1>6. inst'[k].bot = b /\ inst'[k].rec = inst[k].rec /\ inst'[k].user = inst[k].user /\ Only(k)
  BY <1>1, <1>3 DEF Same, Like, Only
<1>7. PlaceOK(t)'
  BY <1>2, <1>3, <1>4, <1>5, <1>6 DEF PlaceOK, Preparing
<1>8. \A c \in thread[t].todo : phase = "boot" => c \in Bots /\ c # b
  BY <1>0, <1>1 DEF Turn, Calm, BootingOK, TypeInv, BootOK, MidPlaces
<1>9. BootingOK'
  BY <1>0, <1>1, <1>3, <1>4, <1>5, <1>8, BootKept DEF Turn, Calm, MidPlaces, Preparing, BootPlaces
<1>10. (\A i : HeldBy(t, i) => i = k) /\ HeldBy(t, k)'
  BY <1>1, <1>4 DEF HeldBy
<1> QED BY <1>0, <1>1, <1>2, <1>3, <1>4, <1>5, <1>6, <1>7, <1>9, <1>10, InHandCalm DEF MidPlaces

LEMMA LaunchCalm ==
  ASSUME NEW t, Turn(t), Launch(t)
  PROVE  Calm(t)'
<1>0. TypeInv /\ t \in Threads /\ thread[t].at = "launch"
  BY DEF Turn, Launch
<1>1. PICK b \in Bots, k \in 1..made :
        b = thread[t].bot /\ k = thread[t].own /\ k \in Instance /\ inst[k] \in Inst /\ inst[k].bot = b
  BY <1>0, InHand
<1>2. /\ running[b] = k /\ thread[t].op # "delete" /\ stored[b] = thread[t].rec
      /\ thread[t].rec \in Record /\ thread[t].rec.enabled /\ thread[t].rec.script = "good"
      /\ b \notin refused
      /\ inst[k].rec = thread[t].rec /\ inst[k].user
  BY <1>0, <1>1 DEF Turn, Calm, PlaceOK, MidPlaces
<1>3. /\ Others(t) /\ Only(k) /\ inst'[k] = [inst[k] EXCEPT !.hook = TRUE, !.at = "init"]
      /\ UNCHANGED <<phase, stored, born, made, running, refused>>
      /\ thread'[t] = [thread[t] EXCEPT !.at = "reply"]
  BY <1>0, <1>1, LaunchDoes DEF Launch
<1>4. thread'[t].at = "reply" /\ thread'[t].op = thread[t].op /\ thread'[t].todo = thread[t].todo
  BY <1>0, <1>3, HandFields
<1>5. inst'[k].bot = b /\ inst'[k].rec = inst[k].rec
  BY <1>1, <1>3 DEF Inst
<1>6. inst'[k].user = inst[k].user
  BY <1>1, <1>3 DEF Inst
<1>7. inst'[k].hook = TRUE
  BY <1>1, <1>3 DEF Inst
<1>8. PlaceOK(t)'
  BY <1>4, NothingInHand
<1>9. BootingOK'
  BY <1>0, <1>3, <1>4, BootKept DEF Turn, Calm, MidPlaces, Preparing, BootPlaces
<1>10. \A i : HeldBy(t, i) => i = k
  BY <1>1 DEF HeldBy
<1>11. Left(k)'
  BY <1>2, <1>3, <1>5, <1>6, <1>7 DEF Left, Listed
<1>12. Matches(b)'
  <2>1. k # None
    BY <1>0, Rooms DEF Turn, Calm
  <2>2. running'[b] = k /\ stored'[b] = thread[t].rec /\ inst'[k].rec = thread[t].rec
    BY <1>2, <1>3, <1>5
  <2> QED BY <1>2, <1>3, <2>1, <2>2, BotsAssumption DEF Matches, Wants
<1> QED BY <1>0, <1>1, <1>2, <1>3, <1>4, <1>5, <1>8, <1>9, <1>10, <1>11, <1>12, InHandCalm DEF MidPlaces

LEMMA WaitCalm ==
  ASSUME NEW t, Turn(t), Wait(t)
  PROVE  Calm(t)'
<1>0. TypeInv /\ t \in Threads /\ thread[t].at = "wait"
  BY DEF Turn, Wait
<1>1. PICK b \in Bots, k \in 1..made :
        b = thread[t].bot /\ k = thread[t].own /\ k \in Instance /\ inst[k] \in Inst /\ inst[k].bot = b
  BY <1>0, InHand
<1>2. /\ Others(t) /\ Only(k) /\ inst'[k] = [inst[k] EXCEPT !.closing = TRUE]
      /\ UNCHANGED <<phase, stored, born, made, running, refused>>
      /\ thread'[t] = [thread[t] EXCEPT !.at = "close"]
  BY <1>0, <1>1, WaitDoes DEF Wait
<1>3. /\ thread'[t].at = "close" /\ thread'[t].op = thread[t].op /\ thread'[t].bot = b
      /\ thread'[t].rec = thread[t].rec /\ thread'[t].own = k
  <2>1. /\ thread'[t].at = "close" /\ thread'[t].op = thread[t].op
        /\ thread'[t].bot = thread[t].bot /\ thread'[t].rec = thread[t].rec
        /\ thread'[t].own = thread[t].own
    BY <1>0, <1>2, HandFields
  <2> QED BY <1>1, <2>1
<1>4. inst'[k].bot = b /\ inst'[k].hook = inst[k].hook
  BY <1>1, <1>2 DEF Inst
<1>5. /\ running[b] = None /\ ~inst[k].hook /\ thread[t].op \in {"update", "delete"}
      /\ thread[t].op # "delete" =>
           stored[b] = thread[t].rec /\ thread[t].rec \in Record /\ b \notin refused /\ made < MaxInstances
      /\ thread[t].op = "delete" => b \in born
  BY <1>0, <1>1 DEF Turn, Calm, PlaceOK, MidPlaces
<1>8. PlaceOK(t)'
  BY <1>2, <1>3, <1>4, <1>5 DEF PlaceOK, Preparing
<1>6. phase = "up" /\ BootingOK'
  BY <1>0, <1>2, ChangesUp
<1>7. (\A i : HeldBy(t, i) => i = k) /\ HeldBy(t, k)'
  BY <1>1, <1>3 DEF HeldBy
<1> QED BY <1>0, <1>1, <1>2, <1>3, <1>4, <1>5, <1>6, <1>7, <1>8, InHandCalm DEF MidPlaces

\* After stopBot the row goes, or the bot is started anew, or nothing is to run.
LEMMA ProceedCalm ==
  ASSUME NEW t, Turn(t), thread[t].at \in {"unlist", "close"}, NEW b \in Bots, b = thread[t].bot,
         Proceeds(t), UNCHANGED <<stored, born, made, refused>>, running'[b] = None
  PROVE  /\ PlaceOK(t)' /\ \A i : ~HeldBy(t, i)'
         /\ (thread'[t].at \in MidPlaces /\ thread'[t].bot = b) \/ Matches(b)'
<1>0. TypeInv /\ t \in Threads /\ thread[t] \in Thread
  BY DEF Turn, TypeInv, ThreadsOK
<1>1. thread[t].op \in {"update", "delete"}
  BY DEF Turn, Calm, PlaceOK
<1>2. thread[t].op # "delete" =>
        stored[b] = thread[t].rec /\ thread[t].rec \in Record /\ b \notin refused /\ made < MaxInstances
  BY DEF Turn, Calm, PlaceOK, MidPlaces
<1>3. CASE Rests(t) /\ thread[t].op # "delete" /\ ~ (thread[t].op = "update" /\ thread[t].rec.enabled)
  <2>1. PlaceOK(t)' /\ thread'[t].at \in {"idle", "next"}
    BY <1>0, <1>3, RestsFields, NothingInHand
  <2>2. stored'[b] = thread[t].rec /\ ~ thread[t].rec.enabled
    BY <1>1, <1>2, <1>3
  <2>3. Matches(b)'
    BY <2>2 DEF Matches, Wants
  <2> QED BY <2>1, <2>3 DEF HeldBy
<1>4. CASE thread[t].op = "delete" /\ thread'[t] = [thread[t] EXCEPT !.own = None, !.at = "erase"]
  <2>1. thread'[t].at = "erase" /\ thread'[t].bot = b /\ thread'[t].op = "delete"
    BY <1>0, <1>4 DEF Thread
  <2>2. b \in born
    BY <1>4 DEF Turn, Calm, PlaceOK, MidPlaces
  <2> QED BY <2>1, <2>2 DEF PlaceOK, HeldBy, MidPlaces, Preparing
<1>5. CASE /\ thread[t].op = "update" /\ thread[t].rec.enabled
           /\ thread'[t] = [thread[t] EXCEPT !.own = None, !.at = "prepare"]
  <2>1. /\ thread'[t].at = "prepare" /\ thread'[t].bot = b /\ thread'[t].op = "update"
        /\ thread'[t].rec = thread[t].rec
    BY <1>0, <1>5 DEF Thread
  <2>2. PlaceOK(t)'
    BY <1>2, <1>5, <2>1 DEF PlaceOK
  <2> QED BY <2>1, <2>2 DEF HeldBy, MidPlaces
<1> QED BY <1>3, <1>4, <1>5 DEF Proceeds

LEMMA UnlistCalm ==
  ASSUME NEW t, Turn(t), Unlist(t)
  PROVE  Calm(t)'
<1>0. TypeInv /\ t \in Threads /\ thread[t].at = "unlist"
  BY DEF Turn, Unlist
<1>1. PICK b \in Bots : b = thread[t].bot
  BY <1>0 DEF TypeInv, ThreadsOK, Hands, Busy
<1>2. Others(t) /\ UNCHANGED <<phase, stored, born, made, refused>>
  BY <1>0, UnlistDoes DEF Unlist
<1>3. phase = "up" /\ t # "main" /\ BootingOK'
  BY <1>0, <1>2, ChangesUp
<1>4. thread[t].at \in MidPlaces /\ \A i : ~HeldBy(t, i)
  BY <1>0 DEF HeldBy, MidPlaces
<1>5. CASE running[b] = None
  <2>1. running' = running /\ Proceeds(t) /\ \A i \in Instance : Same(i)
    BY <1>0, <1>1, <1>5, UnlistDoes
  <2>2. /\ PlaceOK(t)'
        /\ (thread'[t].at \in MidPlaces /\ thread'[t].bot = b) \/ Matches(b)'
    BY <1>0, <1>1, <1>2, <1>5, <2>1, ProceedCalm
  <2>3. StoreOK'
    BY <1>2 DEF StoreOK, Turn, Calm
  <2> QED BY <1>1, <1>2, <1>3, <1>4, <2>1, <2>2, <2>3, StoringCalm
<1>6. CASE running[b] # None
  <2>1. PICK k \in 1..made : k = running[b] /\ k \in Instance /\ inst[k] \in Inst /\ inst[k].bot = b
    BY <1>6, Rooms DEF Turn, Calm, TypeInv, InstOK
  <2>2. /\ running' = [running EXCEPT ![b] = None] /\ Only(k)
        /\ inst'[k] = [inst[k] EXCEPT !.hook = FALSE, !.cancelled = TRUE]
        /\ thread'[t] = [thread[t] EXCEPT !.at = "wait", !.own = k]
    BY <1>0, <1>1, <1>6, <2>1, UnlistDoes
  <2>3. inst'[k].bot = b /\ ~inst'[k].hook
    <3> DEFINE q == inst[k]
               r == inst'[k]
    <3>1. q \in Inst /\ r = [q EXCEPT !.hook = FALSE, !.cancelled = TRUE]
      BY <2>1, <2>2
    <3> HIDE DEF q, r
    <3>2. r.bot = q.bot /\ ~r.hook
      BY <3>1, UnlistedFields
    <3> QED BY <2>1, <3>2 DEF q, r
  <2>4. running'[b] = None /\ \A c \in Bots : c # b => running'[c] = running[c]
    BY <1>0, <2>2 DEF TypeInv, RunningOK
  <2>5. /\ thread'[t].at = "wait" /\ thread'[t].op = thread[t].op /\ thread'[t].bot = thread[t].bot
        /\ thread'[t].rec = thread[t].rec /\ thread'[t].own = k
    BY <1>0, <2>2 DEF TypeInv, ThreadsOK, Thread
  <2>6. thread[t].op \in {"update", "delete"}
    BY <1>0 DEF Turn, Calm, PlaceOK
  <2>10. thread[t].op = "delete" => b \in born
    BY <1>0, <1>1 DEF Turn, Calm, PlaceOK, MidPlaces
  <2>7. thread[t].op # "delete" =>
          stored[b] = thread[t].rec /\ thread[t].rec \in Record /\ b \notin refused /\ made < MaxInstances
    BY <1>0, <1>1 DEF Turn, Calm, PlaceOK, MidPlaces
  <2>8. PlaceOK(t)'
    BY <1>1, <1>2, <2>3, <2>4, <2>5, <2>6, <2>7, <2>10 DEF PlaceOK, Preparing
  <2>9. HeldBy(t, k)' /\ thread'[t].at \in MidPlaces /\ thread'[t].bot = b
    BY <1>1, <2>5 DEF HeldBy, MidPlaces
  <2> QED BY <1>1, <1>2, <1>3, <1>4, <2>1, <2>2, <2>3, <2>4, <2>8, <2>9, InHandCalm
<1> QED BY <1>5, <1>6

LEMMA RetireCalm ==
  ASSUME NEW t, Turn(t), Retire(t)
  PROVE  Calm(t)'
<1>0. TypeInv /\ t \in Threads /\ thread[t].at = "close"
  BY DEF Turn, Retire
<1>1. PICK b \in Bots, k \in 1..made :
        b = thread[t].bot /\ k = thread[t].own /\ k \in Instance /\ inst[k] \in Inst /\ inst[k].bot = b
  BY <1>0, InHand
<1>2. running[b] = None /\ ~inst[k].hook
  BY <1>0, <1>1 DEF Turn, Calm, PlaceOK
<1> DEFINE r == [inst[k] EXCEPT !.closed = TRUE, !.closing = FALSE, !.user = FALSE, !.rec = None]
<1>3. /\ Others(t) /\ Only(k) /\ Proceeds(t) /\ Like(inst'[k], r)
      /\ UNCHANGED <<phase, stored, born, made, running, refused>>
  BY <1>0, <1>1, RetireDoes DEF Retire
<1>4. r.bot = b /\ r.hook = inst[k].hook
  BY <1>1 DEF Inst
<1>5. r.closed = TRUE
  BY <1>1 DEF Inst
<1>6. r.user = FALSE
  BY <1>1 DEF Inst
<1> HIDE DEF r
<1>7. inst'[k].bot = b /\ ~inst'[k].hook /\ inst'[k].closed /\ ~inst'[k].user
  BY <1>2, <1>3, <1>4, <1>5, <1>6 DEF Like
<1>8. /\ PlaceOK(t)'
      /\ (thread'[t].at \in MidPlaces /\ thread'[t].bot = b) \/ Matches(b)'
  BY <1>0, <1>1, <1>2, <1>3, ProceedCalm
<1>9. phase = "up" /\ BootingOK'
  BY <1>0, <1>3, ChangesUp
<1>10. k # None
  BY Rooms DEF Turn, Calm
<1>11. Left(k)'
  BY <1>2, <1>3, <1>7, <1>10 DEF Left, Listed
<1>12. thread[t].at \in MidPlaces /\ \A i : HeldBy(t, i) => i = k
  BY <1>0, <1>1 DEF HeldBy, MidPlaces
<1> QED BY <1>1, <1>2, <1>3, <1>7, <1>8, <1>9, <1>11, <1>12, InHandCalm

LEMMA AddUserCalm ==
  ASSUME NEW t, Turn(t), AddUser(t)
  PROVE  Calm(t)'
<1>0. TypeInv /\ t \in Threads /\ thread[t].at = "prepare"
  BY DEF Turn, AddUser
<1>1. PICK b \in Bots : b = thread[t].bot
  BY <1>0 DEF TypeInv, ThreadsOK, Hands, Busy
<1>2. /\ thread[t].op # "delete" /\ stored[b] = thread[t].rec /\ thread[t].rec \in Record
      /\ thread[t].rec.enabled /\ made < MaxInstances /\ running[b] = None /\ b \notin refused
  BY <1>0, <1>1 DEF Turn, Calm, PlaceOK, MidPlaces, Preparing
<1>3. Others(t) /\ UNCHANGED <<phase, stored, born, running, made>> /\ \A i \in Instance : Same(i)
  BY <1>0, AddUserDoes DEF AddUser
<1>4. (\A i : ~HeldBy(t, i)) /\ thread[t].at \in MidPlaces
  BY <1>0 DEF HeldBy, MidPlaces
<1>5. CASE Rests(t) /\ refused' = refused \cup {b}
  <2>1. /\ thread'[t].at \in {"idle", "next"}
        /\ t = "main" => /\ thread'[t].at = "next" /\ thread'[t].op = thread[t].op
                         /\ thread'[t].todo = thread[t].todo
    BY <1>0, <1>5, RestsFields
  <2>2. PlaceOK(t)'
    BY <2>1, NothingInHand
  <2>3. \A c \in thread[t].todo : phase = "boot" => c # b
    BY <1>0, <1>1, <1>4 DEF Turn, Calm, BootingOK
  <2>4. BootingOK'
    BY <1>0, <1>3, <1>5, <2>1, <2>3, BootKept DEF Turn, Calm, MidPlaces, Preparing, BootPlaces
  <2>5. Matches(b)'
    BY <1>2, <1>3, <1>5 DEF Matches, Wants
  <2>6. b \in born
    BY <1>1, <1>2, BotsAssumption DEF Turn, Calm, StoreOK
  <2>7. StoreOK'
    BY <1>3, <1>5, <2>6 DEF Turn, Calm, StoreOK
  <2>8. \A c \in Bots : IF MidOf(t, c) THEN Matches(c)' ELSE c \in refused' <=> c \in refused
    BY <1>1, <1>4, <1>5, <2>5 DEF MidOf
  <2> QED BY <1>0, <1>3, <1>4, <2>1, <2>2, <2>4, <2>7, <2>8, QuietCalm DEF Turn
<1>6. CASE refused' = refused /\ thread'[t] = [thread[t] EXCEPT !.at = "compile"]
  <2>1. /\ thread'[t].at = "compile" /\ thread'[t].op = thread[t].op
        /\ thread'[t].bot = thread[t].bot /\ thread'[t].rec = thread[t].rec
        /\ thread'[t].todo = thread[t].todo
    BY <1>0, <1>6, HandFields
  <2>2. PlaceOK(t)'
    BY <1>1, <1>2, <1>3, <1>6, <2>1 DEF PlaceOK
  <2>4. BootingOK'
    BY <1>0, <1>3, <1>6, <2>1, BootKept DEF Turn, Calm, MidPlaces, Preparing, BootPlaces
  <2>7. StoreOK'
    BY <1>3, <1>6 DEF Turn, Calm, StoreOK
  <2>8. \A c \in Bots : MidOf(t, c) => MidOf(t, c)'
    BY <2>1 DEF MidOf, MidPlaces
  <2> QED BY <1>0, <1>3, <1>4, <1>6, <2>1, <2>2, <2>4, <2>7, <2>8, QuietCalm DEF Turn
<1> QED BY <1>0, <1>1, <1>5, <1>6, AddUserDoes

LEMMA CompileCalm ==
  ASSUME NEW t, Turn(t), Compile(t)
  PROVE  Calm(t)'
<1>0. TypeInv /\ t \in Threads /\ thread[t].at = "compile" /\ thread[t] \in Thread
  BY DEF Turn, Compile, TypeInv, ThreadsOK
<1>1. PICK b \in Bots : b = thread[t].bot
  BY <1>0 DEF TypeInv, ThreadsOK, Hands, Busy
<1>2. /\ thread[t].op # "delete" /\ stored[b] = thread[t].rec /\ thread[t].rec \in Record
      /\ thread[t].rec.enabled /\ made < MaxInstances /\ running[b] = None /\ b \notin refused
  BY <1>0, <1>1 DEF Turn, Calm, PlaceOK, MidPlaces, Preparing
<1>3. Others(t) /\ UNCHANGED <<phase, stored, born, running, refused>>
  BY <1>0, CompileDoes DEF Compile
<1>4. \A i : ~HeldBy(t, i)
  BY <1>0 DEF HeldBy
<1>5. CASE thread[t].rec.script # "good" /\ Rests(t) /\ made' = made /\ \A i \in Instance : Same(i)
  <2>1. /\ thread'[t].at \in {"idle", "next"}
        /\ t = "main" => /\ thread'[t].at = "next" /\ thread'[t].op = thread[t].op
                         /\ thread'[t].todo = thread[t].todo
    BY <1>0, <1>5, RestsFields
  <2>2. PlaceOK(t)'
    BY <2>1, NothingInHand
  <2>3. BootingOK'
    BY <1>0, <1>3, <1>5, <2>1, BootKept DEF Turn, Calm, MidPlaces, Preparing, BootPlaces
  <2>4. Matches(b)'
    BY <1>2, <1>3, <1>5 DEF Matches, Wants
  <2>5. StoreOK'
    BY <1>3, <1>5 DEF Turn, Calm, StoreOK
  <2>6. \A c \in Bots : MidOf(t, c) => Matches(c)'
    BY <1>1, <2>4 DEF MidOf
  <2> QED BY <1>0, <1>3, <1>4, <1>5, <2>1, <2>2, <2>3, <2>5, <2>6, QuietCalm DEF Turn
<1>6. CASE /\ thread[t].rec.script = "good" /\ made' = made + 1
           /\ Only(made + 1) /\ (made + 1 \in Instance => inst'[made + 1] = Prepared(t))
           /\ thread'[t] = [thread[t] EXCEPT !.at = "list", !.own = made + 1]
  <2> DEFINE k == made + 1
  <2>1. /\ TypeInv /\ ListedOK /\ MadeOK /\ StoreOK
        /\ made \in Nat /\ 1..made \subseteq Instance /\ None \notin Nat
        /\ \A c \in Bots : running[c] # None =>
             running[c] \in Instance /\ running[c] \in 1..made /\ inst[running[c]].bot = c
    BY Rooms DEF Turn, Calm
  <2>2. k \in Instance /\ k \in 1..made' /\ k \notin 1..made /\ 1..made' = 1..made \cup {k}
        /\ made' <= MaxInstances
    BY <1>2, <1>6, <2>1, BotsAssumption DEF Instance
  <2>3. inst'[k] = Prepared(t)
    BY <1>6, <2>2
  <2>4. /\ inst'[k].bot = b /\ inst'[k].rec = thread[t].rec /\ inst'[k].user /\ ~inst'[k].hook
    BY <1>1, <2>3 DEF Prepared, NoInstance
  <2>5. /\ thread'[t].at = "list" /\ thread'[t].op = thread[t].op /\ thread'[t].bot = thread[t].bot
        /\ thread'[t].rec = thread[t].rec /\ thread'[t].own = k /\ thread'[t].todo = thread[t].todo
    BY <1>0, <1>6, <2>1 DEF Thread
  <2>6. Only(k)
    BY <1>6
  <2> HIDE DEF k
  <2>7. \A i \in Instance : i # k =>
          /\ inst'[i].bot = inst[i].bot /\ inst'[i].user = inst[i].user /\ inst'[i].rec = inst[i].rec
          /\ inst'[i].hook = inst[i].hook /\ inst'[i].closed = inst[i].closed
    BY <2>6 DEF Only, Same, Like
  <2>8. \A i \in 1..made : i \in Instance /\ i # k
    BY <2>1, <2>2
  <2>9. ListedOK'
    BY <1>3, <2>1, <2>2, <2>7, <2>8 DEF ListedOK
  <2>10. MadeOK'
    <3>1. \A i \in 1..made' : inst'[i].bot \in Bots
      BY <2>1, <2>2, <2>4, <2>7, <2>8 DEF MadeOK
    <3>2. \A i \in Instance : inst'[i].user => i <= made'
      BY <1>6, <2>1, <2>2, <2>7 DEF MadeOK, Instance
    <3> QED BY <2>2, <3>1, <3>2 DEF MadeOK
  <2>11. \A i \in 1..made : Left(i)'
    <3>1. \A i \in 1..made : Left(i)
      BY <1>4 DEF Turn, Calm, LeftOK
    <3> QED BY <1>3, <2>7, <2>8, <3>1 DEF Left, Listed
  <2>12. LeftOK(t)'
    BY <2>2, <2>5, <2>11 DEF LeftOK, HeldBy
  <2>13. Todo' = Todo
    BY <1>3, <2>5 DEF Turn, Todo
  <2>14. MatchOK(t)'
    <3>1. ASSUME NEW c \in Bots \ Todo, c # b PROVE Matches(c)'
      <4>1. Matches(c)
        BY <1>1, <3>1 DEF Turn, Calm, MatchOK, MidOf
      <4>2. running[c] \in Instance => running[c] \in 1..made
        BY <2>1 DEF Instance
      <4>3. running[c] \in Instance => inst'[running[c]].rec = inst[running[c]].rec
        BY <2>7, <2>8, <4>2
      <4> QED BY <1>3, <2>1, <4>1, <4>3, MatchKept
    <3>2. MidOf(t, b)'
      BY <1>1, <2>5 DEF MidOf, MidPlaces
    <3> QED BY <2>13, <3>1, <3>2 DEF MatchOK
  <2>15. PlaceOK(t)'
    BY <1>1, <1>2, <1>3, <1>6, <2>2, <2>4, <2>5 DEF PlaceOK, Preparing
  <2>16. StoreOK'
    BY <1>3, <2>1 DEF StoreOK
  <2>17. BootingOK'
    BY <1>0, <1>3, <1>6, <2>5, BootKept DEF Turn, Calm, MidPlaces, Preparing, BootPlaces
  <2> QED BY <2>9, <2>10, <2>12, <2>14, <2>15, <2>16, <2>17 DEF Calm
<1> QED BY <1>0, <1>5, <1>6, CompileDoes

LEMMA StepSerial ==
  ASSUME TypeInv, Alone, Serial, phase \in {"boot", "up"}, NEW t \in Threads, Step(t)
  PROVE  Serial'
<1>1. thread[t] # Idle /\ Others(t)
  BY StepBusy, StepTypes
<1>2. \A u \in Threads : u # t => thread[u] = Idle /\ thread'[u] = Idle
  BY <1>1 DEF Alone, Others
<1>3. Turn(t)
  BY <1>1, <1>2, CalmNow, WhoSteps DEF Turn, Serial
<1>4. Calm(t)'
  BY <1>3, InsertCalm, StoreCalm, EraseCalm, AddUserCalm, CompileCalm, ListCalm, LaunchCalm, ReplyCalm,
     UnlistCalm, WaitCalm, RetireCalm DEF Step
<1> QED BY <1>2, <1>4, CalmNext

\* An operation begins, or ends: only the goroutine changes.
LEMMA StillCalm ==
  ASSUME NEW t, Calm(t), UNCHANGED <<stored, born, running, inst, made, refused>>,
         thread[t].at \in {"idle", "next"}, PlaceOK(t)', BootingOK',
         \A b \in Bots : b \notin Todo' => b \notin Todo \/ MidOf(t, b)'
  PROVE  Calm(t)'
<1>1. StoreOK' /\ ListedOK' /\ MadeOK'
  BY DEF Calm, StoreOK, ListedOK, MadeOK
<1>2. (\A b : ~MidOf(t, b)) /\ (\A i : ~HeldBy(t, i))
  BY DEF MidOf, HeldBy, MidPlaces
<1>3. LeftOK(t)'
  BY <1>2 DEF Calm, LeftOK, Left, Listed
<1>4. \A b \in Bots : (Matches(b)' <=> Matches(b))
  BY DEF Matches, Wants
<1>5. MatchOK(t)'
  BY <1>2, <1>4 DEF Calm, MatchOK
<1> QED BY <1>1, <1>3, <1>5 DEF Calm

LEMMA StartNextSerial ==
  ASSUME TypeInv, Alone, Serial, StartNext
  PROVE  Serial'
<1> DEFINE h == thread["main"]
<1>0. "main" \in Threads /\ h \in Thread /\ h.at = "next" /\ h # Idle /\ phase = "boot"
  BY IdleAt, StartNextDoes DEF Threads, TypeInv, ThreadsOK
<1>1. PICK b \in h.todo :
        /\ b \in Bots
        /\ thread'["main"] = [thread["main"] EXCEPT !.at = "prepare", !.bot = b,
                                 !.rec = stored[b], !.todo = thread["main"].todo \ {b}]
  BY StartNextDoes
<1>2. UNCHANGED <<phase, stored, born, running, inst, made, refused>> /\ Others("main")
  BY StartNextDoes
<1>3. /\ thread'["main"].at = "prepare" /\ thread'["main"].op = h.op /\ thread'["main"].bot = b
      /\ thread'["main"].rec = stored[b] /\ thread'["main"].todo = h.todo \ {b}
  BY <1>0, <1>1 DEF Thread
<1>4. \A u \in Threads : u # "main" => thread[u] = Idle /\ thread'[u] = Idle
  BY <1>0, <1>2 DEF Alone, Others
<1>5. Calm("main")
  BY <1>0, <1>4, CalmNow
<1>6. /\ \A c \in h.todo : running[c] = None /\ stored[c] # None /\ stored[c].enabled /\ c \notin refused
      /\ h.op = "boot" /\ made + Cardinality(h.todo) + 0 <= MaxInstances
  BY <1>0 DEF Serial, BootingOK, Preparing
<1>7. /\ Cardinality(h.todo) \in Nat /\ Cardinality(h.todo \ {b}) \in Nat
      /\ Cardinality(h.todo \ {b}) = Cardinality(h.todo) - 1
  BY <1>0, <1>1, TodoSize, FS_RemoveElement, FS_CardinalityType
<1>8. made + Cardinality(h.todo \ {b}) + 1 <= MaxInstances /\ made < MaxInstances
  <2>1. \A m, n, c, k \in Nat : m + c + 0 <= k /\ n = c - 1 => m + n + 1 <= k /\ m < k
    OBVIOUS
  <2>2. made \in Nat /\ MaxInstances \in Nat
    BY BotsAssumption DEF TypeInv, StateOK
  <2> HIDE DEF h
  <2> QED BY <1>6, <1>7, <2>1, <2>2
<1>9. stored[b] \in Record
  BY <1>1, <1>6 DEF TypeInv, StateOK
<1>10. PlaceOK("main")'
  BY <1>1, <1>2, <1>3, <1>6, <1>8, <1>9 DEF PlaceOK
<1>11. BootingOK'
  BY <1>0, <1>2, <1>3, <1>6, <1>8 DEF BootingOK, BootPlaces, Preparing
<1>12. \A c \in Bots : c \notin Todo' => c \notin Todo \/ MidOf("main", c)'
  BY <1>0, <1>2, <1>3 DEF Todo, MidOf, MidPlaces
<1>13. Calm("main")'
  BY <1>0, <1>2, <1>5, <1>10, <1>11, <1>12, StillCalm
<1> QED BY <1>0, <1>4, <1>13, CalmNext

LEMMA ReadySerial ==
  ASSUME TypeInv, Alone, Serial, Ready
  PROVE  Serial'
<1>1. /\ UNCHANGED <<stored, born, running, inst, made, refused>> /\ Others("main")
      /\ thread'["main"] = Idle /\ phase = "boot" /\ phase' = "up" /\ "main" \in Threads
      /\ thread["main"].at = "next" /\ thread["main"].todo = {}
  BY ReadyDoes DEF Threads
<1>2. \A u \in Threads : u # "main" => thread[u] = Idle /\ thread'[u] = Idle
  BY <1>1, IdleAt DEF Alone, Others
<1>3. Calm("main")
  BY <1>1, <1>2, CalmNow
<1>4. PlaceOK("main")' /\ BootingOK'
  BY <1>1, IdleAt, NothingInHand DEF BootingOK
<1>5. \A c \in Bots : c \notin Todo' => c \notin Todo
  BY <1>1 DEF Todo
<1>6. Calm("main")'
  BY <1>1, <1>3, <1>4, <1>5, StillCalm
<1> QED BY <1>1, <1>2, <1>6, CalmNext

LEMMA BeginsSerial ==
  ASSUME TypeInv, ~overlap => Serial, NEW t \in Requests, Begins(t), ~overlap'
  PROVE  Serial'
<1>0. t \in Threads /\ t # "main"
  BY BotsAssumption DEF Threads
<1>1. /\ UNCHANGED <<phase, stored, born, running, inst, made, refused>>
      /\ phase = "up" /\ thread[t] = Idle /\ Others(t)
      /\ overlap' = (overlap \/ \E u \in Threads \ {t} : thread[u] # Idle)
      /\ \E b \in Bots :
           \/ \E r \in Record :
                /\ made + Cardinality(Changing) < MaxInstances
                /\ \/ b \notin born /\ thread'[t] = Fresh("create", b, r, "insert")
                   \/ thread'[t] = Fresh("update", b, r, "store")
           \/ b \in born /\ thread'[t] = Fresh("delete", b, None, "unlist")
  BY BeginsDoes
<1>2. Serial /\ \A u \in Threads : u # t => thread[u] = Idle /\ thread'[u] = Idle
  BY <1>1 DEF Others
<1>3. Calm(t)
  BY <1>0, <1>2, CalmNow
<1>4. Cardinality(Changing) = 0
  <2>1. \A u \in Requests : thread[u].rec = None
    BY <1>1, <1>2 DEF Idle, Threads
  <2>2. Changing = {}
    BY <2>1 DEF Changing
  <2> QED BY <2>2, FS_EmptySet
<1>5. PlaceOK(t)'
  <2>1. PICK b \in Bots :
           \/ \E r \in Record :
                /\ made + Cardinality(Changing) < MaxInstances
                /\ \/ b \notin born /\ thread'[t] = Fresh("create", b, r, "insert")
                   \/ thread'[t] = Fresh("update", b, r, "store")
           \/ b \in born /\ thread'[t] = Fresh("delete", b, None, "unlist")
    BY <1>1
  <2>2. ASSUME NEW r \in Record, made + Cardinality(Changing) < MaxInstances,
               \/ b \notin born /\ thread'[t] = Fresh("create", b, r, "insert")
               \/ thread'[t] = Fresh("update", b, r, "store")
        PROVE  PlaceOK(t)'
    <3>1. made < MaxInstances
      BY <1>4, <2>2 DEF TypeInv, StateOK
    <3>2. \/ /\ b \notin born /\ thread'[t].at = "insert" /\ thread'[t].op = "create"
             /\ thread'[t].bot = b
          \/ thread'[t].at = "store" /\ thread'[t].op = "update"
      BY <2>2 DEF Fresh, Idle
    <3> QED BY <1>1, <3>1, <3>2 DEF PlaceOK, MidPlaces, Preparing
  <2>3. CASE b \in born /\ thread'[t] = Fresh("delete", b, None, "unlist")
    <3>1. thread'[t].at = "unlist" /\ thread'[t].op = "delete" /\ thread'[t].bot = b
      BY <2>3 DEF Fresh, Idle
    <3> QED BY <1>1, <2>3, <3>1 DEF PlaceOK, Preparing
  <2> QED BY <2>1, <2>2, <2>3
<1>6. BootingOK'
  BY <1>0, <1>1, <1>2 DEF Serial, BootingOK, Threads
<1>7. Todo' = {} /\ Todo = {}
  BY <1>1 DEF Todo
<1>8. Calm(t)'
  BY <1>1, <1>3, <1>5, <1>6, <1>7, IdleAt, StillCalm
<1> QED BY <1>0, <1>2, <1>8, CalmNext

LEMMA RunSerial ==
  ASSUME TypeInv, Serial, NEW j \in Instance, Run(j) \/ Deliver(j), phase' = phase
  PROVE  Serial'
<1>1. UNCHANGED <<stored, born, thread, running, made, refused>> /\ Only(j) /\ Kin(j)
  BY RunDoes
<1>2. \A i \in Instance :
        /\ inst'[i].bot = inst[i].bot /\ inst'[i].user = inst[i].user /\ inst'[i].rec = inst[i].rec
        /\ inst'[i].hook = inst[i].hook /\ inst'[i].closed = inst[i].closed
  BY <1>1 DEF Only, Same, Like, Kin
<1>3. 1..made \subseteq Instance /\ \A b \in Bots : running[b] # None => running[b] \in Instance
  BY Rooms DEF Serial
<1>4. StoreOK' /\ ListedOK' /\ MadeOK'
  BY <1>1, <1>2, <1>3 DEF Serial, StoreOK, ListedOK, MadeOK
<1>5. BootingOK'
  BY <1>1 DEF Serial, BootingOK
<1>6. ASSUME NEW t \in Threads PROVE PlaceOK(t)'
  <2>1. PlaceOK(t)
    BY DEF Serial
  <2>2. thread[t].own \in 1..made => thread[t].own \in Instance
    BY <1>3
  <2> QED BY <1>1, <1>2, <2>1, <2>2 DEF PlaceOK
<1>7. \A b \in Bots : Matches(b) => Matches(b)'
  BY <1>1, <1>2, <1>3 DEF Matches, Wants
<1>8. \A i \in 1..made : Left(i) => Left(i)'
  BY <1>1, <1>2, <1>3 DEF Left, Listed
<1>9. \A t \in Threads : (\A b : MidOf(t, b)' <=> MidOf(t, b)) /\ (\A i : HeldBy(t, i)' <=> HeldBy(t, i))
  BY <1>1 DEF MidOf, HeldBy
<1>10. Todo' = Todo
  BY <1>1 DEF Todo
<1>11. \A b \in (Bots \ Todo)' : (\A t \in Threads : ~MidOf(t, b)') => Matches(b)'
  BY <1>7, <1>9, <1>10 DEF Serial
<1>12. \A i \in (1..made)' : (\A t \in Threads : ~HeldBy(t, i)') => Left(i)'
  BY <1>1, <1>8, <1>9 DEF Serial
<1> QED BY <1>4, <1>5, <1>6, <1>11, <1>12 DEF Serial

LEMMA InitSerial == Init => SerialInv
<1> SUFFICES ASSUME Init PROVE Serial
  BY InitApart DEF SerialInv
<1>0. TypeInv /\ "main" \in Threads /\ phase = "boot"
  BY InitTypes DEF Init, Threads
<1> DEFINE h == [Idle EXCEPT !.at = "next", !.op = "boot", !.todo = {b \in born : stored[b].enabled}]
<1>1. h.at = "next" /\ h.op = "boot" /\ h.todo = {b \in born : stored[b].enabled}
  BY DEF Idle
<1>2. thread["main"] = h
  BY <1>0 DEF Init
<1> HIDE DEF h
<1>3. \A t \in Threads : t # "main" => thread[t] = Idle
  BY DEF Init
<1>4. /\ born = {b \in Bots : stored[b] # None} /\ refused = {} /\ running = [b \in Bots |-> None] /\ made = 0
      /\ \A i \in Instance : inst[i] = NoInstance
      /\ \A a, b \in Bots : a # b /\ stored[a] # None /\ stored[b] # None
                             => stored[a].name # stored[b].name
  BY DEF Init
<1>5. StoreOK /\ ListedOK
  BY <1>4 DEF StoreOK, ListedOK
<1>6. MadeOK
  BY <1>4, BotsAssumption DEF MadeOK, NoInstance
<1>7. PlaceOK("main") /\ \A t \in Threads : PlaceOK(t)
  <2>1. \A t \in Threads : thread[t].at \in {"idle", "next"}
    BY <1>1, <1>2, <1>3, IdleAt
  <2> QED BY <1>0, <2>1 DEF PlaceOK, MidPlaces, Preparing
<1>8. BootingOK
  <2>1. \A b \in h.todo : b \in Bots /\ running[b] = None /\ stored[b] # None /\ stored[b].enabled
    BY <1>1, <1>4
  <2>2. h.todo \subseteq Bots
    BY <2>1
  <2>3. Cardinality(h.todo) \in Nat /\ Cardinality(h.todo) <= Cardinality(Bots)
        /\ Cardinality(Bots) \in Nat
    BY <2>2, BotsAssumption, FS_Subset, FS_CardinalityType
  <2>4. made + Cardinality(h.todo) + 0 <= MaxInstances
    <3>1. \A c, d, k \in Nat : c <= d /\ d <= k => 0 + c + 0 <= k
      OBVIOUS
    <3> QED BY <1>4, <2>3, <3>1, BotsAssumption
  <2> QED BY <1>0, <1>1, <1>2, <1>4, <2>1, <2>4 DEF BootingOK, MidPlaces, BootPlaces, Preparing
<1>9. MatchOK("main")
  <2>1. \A b \in Bots : b \notin h.todo => ~Wants(b)
    BY <1>1, <1>4 DEF Wants
  <2> QED BY <1>0, <1>2, <1>4, <2>1 DEF MatchOK, Matches, Todo
<1>10. \A i \in 1..made : FALSE
  BY <1>4
<1>11. \A t \in Threads : \A b : ~MidOf(t, b)
  <2>1. \A t \in Threads : thread[t].at \in {"idle", "next"}
    BY <1>1, <1>2, <1>3, IdleAt
  <2> QED BY <2>1 DEF MidOf, MidPlaces
<1> QED BY <1>0, <1>5, <1>6, <1>7, <1>8, <1>9, <1>10, <1>11 DEF Serial, MatchOK

LEMMA NextSerial == SerialInv /\ [Next]_vars => SerialInv'
<1> SUFFICES ASSUME SerialInv, [Next]_vars, ~overlap', phase' \in {"boot", "up"} PROVE Serial'
  BY NextApart DEF SerialInv
<1>0. TypeInv /\ (~overlap => Alone)
  BY DEF SerialInv, ApartInv
<1>1. ASSUME NEW t \in Requests, Begins(t) PROVE Serial'
  <2>1. ~overlap => Serial
    BY <1>0, <1>1, BeginsDoes DEF SerialInv
  <2> QED BY <1>0, <1>1, <2>1, BeginsSerial
<1>2. ASSUME NEW t \in Threads, Step(t) PROVE Serial'
  <2>1. UNCHANGED <<phase, overlap>>
    BY <1>0, <1>2, StepTypes
  <2>2. Serial /\ Alone /\ phase \in {"boot", "up"}
    BY <1>0, <2>1 DEF SerialInv
  <2> QED BY <1>0, <1>2, <2>2, StepSerial
<1>3. ASSUME NEW i \in Instance, Run(i) \/ Deliver(i) PROVE Serial'
  <2>1. overlap' = overlap /\ phase' = phase
    BY <1>0, <1>3, RunDoes
  <2>2. Serial
    BY <2>1 DEF SerialInv
  <2> QED BY <1>0, <1>3, <2>1, <2>2, RunSerial
<1>4. CASE StartNext
  <2>1. ~overlap /\ phase = "boot"
    BY <1>4 DEF StartNext, others
  <2> QED BY <1>0, <1>4, <2>1, StartNextSerial DEF SerialInv
<1>5. CASE Ready
  <2>1. ~overlap /\ phase = "boot"
    BY <1>0, <1>5, ReadyDoes
  <2> QED BY <1>0, <1>5, <2>1, ReadySerial DEF SerialInv
<1>6. CASE StopNext \/ StopAll
  BY <1>0, <1>6, StopNextDoes, StopAllDoes
<1>7. CASE Elsewhere \/ UNCHANGED vars
  <2>0. Elsewhere
    BY <1>7 DEF Elsewhere, vars, others
  <2>1. Serial
    BY <2>0 DEF Elsewhere, SerialInv
  <2> QED BY <2>0, <2>1 DEF Elsewhere, Serial, StoreOK, ListedOK, MadeOK, BootingOK, PlaceOK, Todo,
            MidOf, HeldBy, Matches, Wants, Left, Listed, MidPlaces, Preparing, BootPlaces
<1> QED BY <1>1, <1>2, <1>3, <1>4, <1>5, <1>6, <1>7, Kinds

\* As long as operations did not overlap, between two of them what is listed
\* is an enabled bot as last stored, every enabled bot with a good script is listed
\* unless it found its nick taken or its row could not be deleted, and of all
\* instances only listed ones keep a user, a hook or an open Lua state: CreateBot,
\* UpdateBot and DeleteBot put back all they took.
THEOREM WhatIsStoredRuns == Spec => []RunsWhatIsStored
<1>1. SerialInv => RunsWhatIsStored
  <2> SUFFICES ASSUME SerialInv, phase = "up", ~overlap, \A t \in Threads : thread[t] = Idle
               PROVE  /\ \A b \in Bots : Matches(b)
                      /\ \A i \in Instance : i <= made => Left(i)
    BY DEF RunsWhatIsStored, Matches, Wants, Left, Listed
  <2>1. Serial
    BY DEF SerialInv
  <2>2. \A t \in Threads : thread[t].at = "idle"
    BY IdleAt
  <2>3. \A b \in Bots : Matches(b)
    BY <2>1, <2>2 DEF Serial, MidOf, MidPlaces, Todo
  <2>4. \A i \in Instance : i <= made => i \in 1..made
    BY DEF SerialInv, ApartInv, TypeInv, StateOK, Instance
  <2>5. \A i \in Instance : i <= made => Left(i)
    BY <2>1, <2>2, <2>4 DEF Serial, HeldBy
  <2> QED BY <2>3, <2>5
<1> QED BY <1>1, InitSerial, NextSerial, PTL DEF Spec
===============================================================================

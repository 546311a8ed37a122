---------------------------- MODULE ChannelProofs ----------------------------
(***************************************************************************)
(* What a JOIN and a saved change promise, for any users, masks and mode   *)
(* changes and any interleaving of their handlers.  First the JOIN:        *)
(* although checkJoinPolicy looks at the channel in several critical       *)
(* sections, nobody enters whom one reason kept out all the time.          *)
(***************************************************************************)
EXTENDS Channel, SafeNames, TLAPS, WellFoundedInduction

\* The records of the state have their fields, whatever their values relate to.
ShapeOK ==
  /\ obj \in [Object -> ChannelRecord] /\ current \in Object \cup {0}
  /\ task \in [Users -> Task] /\ store \in [Spelling -> SavedRecord \cup {None}]

\* The reasons a JOIN remembers are those of the channel that is in the table,
\* which is the one it looked up.
Kept(t, u) ==
  t.shut # {} => /\ current # 0 /\ t.ch = current
                 /\ t.shut \subseteq Reasons(Channel, u, t.key)
\* A handler has what its place says: a JOIN the reasons it has not looked for
\* yet, an INVITE somebody to invite, a MODE or TOPIC an object to change.
Passed(t) ==
  /\ t.at \in {"room", "ban", "except", "enter"} => "i" \notin t.shut
  /\ t.at \in {"ban", "except", "enter"} => "k" \notin t.shut
  /\ t.at = "enter" => "b" \notin t.shut
  /\ t.at \in {"door", "room"} /\ "k" \in t.shut => t.snap.key \notin {None, t.key}
  /\ t.at = "invite" => t.target \in Users
  /\ t.at \in Changing => t.ch \in Object
Remembered == \A u \in Users : Kept(task[u], u) /\ Passed(task[u])

DoorsInv == ShapeOK /\ Remembered

-----------------------------------------------------------------------------
\* Objects and readings have the types of their fields.
LEMMA NewChannelShape ==
  ASSUME NEW name \in Spelling PROVE NewChannel(name) \in ChannelRecord
<1>1. [l \in Lists |-> {}] \in [Lists -> SUBSET Masks]
  OBVIOUS
<1>2. {"n", "t"} \in SUBSET Flags
  BY DEF Flags
<1> QED BY <1>1, <1>2 DEF NewChannel, ChannelRecord

LEMMA SavedShape ==
  ASSUME NEW c \in ChannelRecord PROVE Saved(c) \in SavedRecord
BY DEF Saved, SavedRecord, ChannelRecord

LEMMA IdleShape ==
  /\ Idle \in Task /\ Idle.shut = {} /\ Idle.at = "idle"
<1>1. 1 \in Spelling
  BY ChannelAssumption DEF Spelling
<1>2. Saved(NewChannel(1)) \in SavedRecord
  BY <1>1, NewChannelShape, SavedShape
<1> QED BY <1>1, <1>2 DEF Idle, Task, Place

\* One letter of MODE keeps the fields' types.
LEMMA ChangedShape ==
  ASSUME NEW c \in ChannelRecord, NEW m \in Changes
  PROVE  Changed(c, m) \in ChannelRecord
<1> USE DEF ChannelRecord
<1>1. CASE m.mode \in Flags
  <2>1. Changed(c, m) = [c EXCEPT !.flags = With(@, m.mode, m.on)]
    BY <1>1 DEF Changed, Flags, Lists
  <2>2. With(c.flags, m.mode, m.on) \in SUBSET Flags
    BY <1>1 DEF With
  <2> QED BY <2>1, <2>2
<1>2. CASE m.mode \in Lists
  <2>1. Changed(c, m) = [c EXCEPT !.lists[m.mode] = With(@, m.arg, m.on)]
    BY <1>2 DEF Changed, Flags, Lists
  <2>2. With(c.lists[m.mode], m.arg, m.on) \in SUBSET Masks
    BY <1>2, ChangesAssumption DEF With
  <2>3. [c.lists EXCEPT ![m.mode] = With(@, m.arg, m.on)] \in [Lists -> SUBSET Masks]
    BY <2>2
  <2> QED BY <2>1, <2>3
<1>3. CASE m.mode = "k"
  <2>1. Changed(c, m) = [c EXCEPT !.key = IF m.on THEN m.arg ELSE None]
    BY <1>3 DEF Changed, Flags, Lists
  <2> QED BY <2>1, <1>3, ChangesAssumption
<1>4. CASE m.mode = "l"
  <2>1. Changed(c, m) = [c EXCEPT !.limit = IF m.on THEN m.arg ELSE 0]
    BY <1>4 DEF Changed, Flags, Lists
  <2> QED BY <2>1, <1>4, ChangesAssumption
<1>5. CASE m.mode = "o"
  <2>1. Changed(c, m) = [c EXCEPT !.ops = With(@, m.arg, m.on) \cap c.members]
    BY <1>5 DEF Changed, Flags, Lists
  <2> QED BY <2>1
<1>6. CASE m.mode = "v"
  <2>1. Changed(c, m) = [c EXCEPT !.voices = With(@, m.arg, m.on) \cap c.members]
    BY <1>6 DEF Changed, Flags, Lists
  <2> QED BY <2>1
<1> QED BY <1>1, <1>2, <1>3, <1>4, <1>5, <1>6, ChangesAssumption

\* The reasons look at four fields of the channel only.
LEMMA SameReasons ==
  ASSUME NEW c, NEW d, NEW u, NEW key,
         c.flags = d.flags, c.lists = d.lists, c.invites = d.invites, c.key = d.key
  PROVE  Reasons(c, u, key) = Reasons(d, u, key)
BY DEF Reasons, Matches

LEMMA ReasonsRange ==
  ASSUME NEW c, NEW u, NEW key PROVE Reasons(c, u, key) \subseteq Why
BY DEF Reasons, Why

-----------------------------------------------------------------------------
\* A task that remembers nothing is fit.
LEMMA FitWithout ==
  ASSUME NEW t, NEW u, t.shut = {}, t.at \notin Changing \cup {"invite"}
  PROVE  Kept(t, u) /\ Passed(t)
BY DEF Kept, Passed

LEMMA FitIdle == ASSUME NEW u PROVE Kept(Idle, u) /\ Passed(Idle)
BY IdleShape, FitWithout DEF Changing

\* While there is no channel nothing is remembered.
LEMMA NothingKept ==
  ASSUME DoorsInv, current = 0 PROVE \A u \in Users : task[u].shut = {}
BY DEF DoorsInv, Remembered, Kept

\* Putting an object keeps the types and fits what is remembered to it.
LEMMA PutKeeps ==
  ASSUME ShapeOK, NEW o, NEW c, NEW tasks \in [Users -> Task], Put(o, c, tasks),
         o \in Object => c \in ChannelRecord, UNCHANGED <<current, store>>,
         \A v \in Users : Kept(tasks[v], v) /\ Passed(tasks[v])
  PROVE  DoorsInv'
<1>1. obj' \in [Object -> ChannelRecord] /\ obj' = [obj EXCEPT ![o] = c]
  BY DEF ShapeOK, Put
<1>2. ASSUME NEW v \in Users
      PROVE  task'[v] \in Task /\ (Kept(task[v], v) /\ Passed(task[v]))'
  <2> DEFINE s == tasks[v].shut \cap Reasons(c, v, tasks[v].key)
  <2>1. CASE o # current
    <3>1. task'[v] = tasks[v]
      BY <2>1 DEF Put
    <3>2. current # 0 => obj'[current] = obj[current]
      BY <2>1, <1>1 DEF ShapeOK
    <3>3. Kept(task[v], v)'
      BY <3>1, <3>2 DEF Kept, Channel
    <3> QED BY <3>1, <3>3 DEF Passed
  <2>2. CASE o = current
    <3>1. task'[v] = [tasks[v] EXCEPT !.shut = s]
      BY <2>2 DEF Put
    <3>2. s \in SUBSET Why /\ s \subseteq tasks[v].shut
          /\ s \subseteq Reasons(c, v, tasks[v].key)
      BY ReasonsRange
    <3> HIDE DEF s
    <3>3. /\ task'[v] \in Task /\ task'[v].shut = s
          /\ task'[v].at = tasks[v].at /\ task'[v].ch = tasks[v].ch
          /\ task'[v].key = tasks[v].key /\ task'[v].snap = tasks[v].snap
          /\ task'[v].target = tasks[v].target
      BY <3>1, <3>2 DEF Task
    <3>4. current # 0 => obj'[current] = c
      BY <2>2, <1>1 DEF ShapeOK
    <3>5. Kept(task[v], v)'
      BY <3>2, <3>3, <3>4 DEF Kept, Channel
    <3> QED BY <3>2, <3>3, <3>5 DEF Passed
  <2> QED BY <2>1, <2>2
<1>3. task' \in [Users -> Task]
  <2>1. task' = [v \in Users |-> task'[v]]
    BY DEF Put
  <2> QED BY <2>1, <1>2
<1> QED BY <1>1, <1>2, <1>3 DEF DoorsInv, Remembered, ShapeOK

\* One task moves on, and the channel keeps what the reasons look at.
LEMMA TaskKeeps ==
  ASSUME DoorsInv, NEW u \in Users, NEW t \in Task, task' = [task EXCEPT ![u] = t],
         Kept(t, u), Passed(t),
         current' = current, obj' \in [Object -> ChannelRecord],
         current # 0 => /\ obj'[current].flags = obj[current].flags
                        /\ obj'[current].lists = obj[current].lists
                        /\ obj'[current].invites = obj[current].invites
                        /\ obj'[current].key = obj[current].key,
         store' \in [Spelling -> SavedRecord \cup {None}]
  PROVE  DoorsInv'
<1>1. task' \in [Users -> Task]
  BY DEF DoorsInv, ShapeOK
<1>2. ASSUME NEW v \in Users PROVE (Kept(task[v], v) /\ Passed(task[v]))'
  <2>1. Kept(task'[v], v) /\ Passed(task'[v])
    BY DEF DoorsInv, ShapeOK, Remembered
  <2>2. PICK w : w = task'[v]
    OBVIOUS
  <2>3. current # 0 => Reasons(obj'[current], v, w.key) = Reasons(obj[current], v, w.key)
    BY SameReasons
  <2>4. Kept(w, v) /\ Passed(w)
    BY <2>1, <2>2
  <2>5. Kept(task[v], v)'
    BY <2>2, <2>3, <2>4 DEF Kept, Channel
  <2> QED BY <2>2, <2>4, <2>5 DEF Passed
<1> QED BY <1>1, <1>2 DEF DoorsInv, ShapeOK, Remembered

\* ... in particular when only the task moves.
LEMMA TaskMoves ==
  ASSUME DoorsInv, NEW u \in Users, NEW t \in Task, task' = [task EXCEPT ![u] = t],
         Kept(t, u), Passed(t), UNCHANGED <<obj, current, store>>
  PROVE  DoorsInv'
BY TaskKeeps DEF DoorsInv, ShapeOK

-----------------------------------------------------------------------------
(* JOIN. *)
\* The place in a handler is a field like another.
LEMMA GoShape ==
  ASSUME NEW t \in Task, NEW p \in Place
  PROVE  LET g == [t EXCEPT !.at = p]
         IN /\ g \in Task /\ g.at = p /\ g.ch = t.ch /\ g.key = t.key
            /\ g.snap = t.snap /\ g.shut = t.shut /\ g.target = t.target
BY DEF Task

LEMMA GoKeeps ==
  ASSUME DoorsInv, NEW u \in Users, NEW p \in Place, Go(u, p),
         UNCHANGED <<obj, current, store>>, Passed([task[u] EXCEPT !.at = p])
  PROVE  DoorsInv'
<1> DEFINE t == [task[u] EXCEPT !.at = p]
<1>1. task[u] \in Task /\ Kept(task[u], u)
  BY DEF DoorsInv, ShapeOK, Remembered
<1>2. t \in Task /\ Kept(t, u)
  BY <1>1, GoShape DEF Kept
<1>3. task' = [task EXCEPT ![u] = t]
  BY DEF Go
<1> QED BY <1>2, <1>3, TaskMoves

LEMMA DoneKeeps ==
  ASSUME DoorsInv, NEW u \in Users, Done(u), UNCHANGED <<obj, current, store>>
  PROVE  DoorsInv'
BY IdleShape, FitIdle, TaskMoves DEF Done

\* A JOIN starts with the reasons there are.
LEMMA JoinKeeps ==
  ASSUME DoorsInv, NEW u \in Users, NEW key \in Keys \cup {None}, Join(u, key)
  PROVE  DoorsInv'
<1>1. UNCHANGED <<obj, current, store>>
  BY DEF Join, Begin
<1>2. CASE current = 0
  <2> DEFINE t == [Idle EXCEPT !.at = "enter", !.key = key]
  <2>1. t \in Task /\ t.shut = {} /\ t.at \notin Changing \cup {"invite"}
    BY IdleShape DEF Task, Place, Changing
  <2>2. task' = [task EXCEPT ![u] = t]
    BY <1>2 DEF Join, Begin
  <2> QED BY <1>1, <2>1, <2>2, FitWithout, TaskMoves
<1>3. CASE current # 0
  <2> DEFINE t == [Idle EXCEPT !.at = "door", !.ch = current, !.key = key,
                     !.snap = Saved(Channel), !.shut = Reasons(Channel, u, key)]
  <2>1. Channel \in ChannelRecord /\ current \in Object \cup {0}
    BY <1>3 DEF DoorsInv, ShapeOK, Channel
  <2>2. Saved(Channel) \in SavedRecord /\ Reasons(Channel, u, key) \in SUBSET Why
    BY <2>1, SavedShape, ReasonsRange
  <2>3. /\ t \in Task /\ t.shut = Reasons(Channel, u, key) /\ t.ch = current
        /\ t.key = key /\ t.at = "door" /\ t.snap = Saved(Channel)
    BY <2>1, <2>2, IdleShape DEF Task, Place
  <2>4. task' = [task EXCEPT ![u] = t]
    BY <1>3 DEF Join, Begin
  <2>5. "k" \in Reasons(Channel, u, key) => Saved(Channel).key \notin {None, key}
    BY DEF Reasons, Saved
  <2> HIDE DEF t
  <2>6. Kept(t, u) /\ Passed(t)
    BY <1>3, <2>3, <2>5 DEF Kept, Passed, Changing
  <2> QED BY <1>1, <2>3, <2>4, <2>6, TaskMoves
<1> QED BY <1>2, <1>3

\* Whoever passes the door was not kept out by +i at that moment.
LEMMA DoorKeeps ==
  ASSUME DoorsInv, NEW u \in Users, Door(u) PROVE DoorsInv'
<1> DEFINE c == obj[task[u].ch]
           free == "i" \notin task[u].snap.flags \/ Matches(c, "I", u)
           spends == ~free /\ u \in c.invites
           d == IF spends THEN [c EXCEPT !.invites = @ \ {u}] ELSE c
           g == [task[u] EXCEPT !.at = "room", !.shut = @ \ {"i"}]
           t == IF free \/ spends THEN g ELSE Idle
           T == [task EXCEPT ![u] = t]
<1>1. task[u] \in Task /\ Kept(task[u], u) /\ Passed(task[u]) /\ task[u].at = "door"
  BY DEF DoorsInv, ShapeOK, Remembered, Door, At
<1>2. Put(task[u].ch, d, T) /\ UNCHANGED <<current, store>>
  <2>1. Put(task[u].ch, d, T)
    BY Zenon DEF Door
  <2>2. UNCHANGED <<current, store>>
    BY DEF Door, Books
  <2> QED BY <2>1, <2>2
<1>3. task[u].ch \in Object => d \in ChannelRecord
  <2>1. task[u].ch \in Object => c \in ChannelRecord
    BY DEF DoorsInv, ShapeOK
  <2> QED BY <2>1 DEF ChannelRecord
<1>4. /\ g \in Task /\ g.at = "room" /\ g.ch = task[u].ch /\ g.key = task[u].key
      /\ g.snap = task[u].snap /\ g.shut = task[u].shut \ {"i"}
  BY <1>1 DEF Task, Place
<1>5. Kept(g, u) /\ Passed(g)
  <2> HIDE DEF g
  <2> QED BY <1>1, <1>4 DEF Kept, Passed, Changing
<1>6. t \in Task /\ Kept(t, u) /\ Passed(t)
  BY <1>4, <1>5, IdleShape, FitIdle
<1> HIDE DEF d, t
<1>7. T \in [Users -> Task] /\ \A v \in Users : Kept(T[v], v) /\ Passed(T[v])
  BY <1>6 DEF DoorsInv, ShapeOK, Remembered
<1> HIDE DEF T
<1> QED BY <1>2, <1>3, <1>7, PutKeeps DEF DoorsInv

\* The key that was read is the one a reason +k would speak of.
LEMMA RoomKeeps ==
  ASSUME DoorsInv, NEW u \in Users, Room(u) PROVE DoorsInv'
<1>1. UNCHANGED <<obj, current, store>>
  BY DEF Room, World, Books
<1>2. task[u] \in Task /\ Passed(task[u]) /\ task[u].at = "room"
  BY DEF DoorsInv, ShapeOK, Remembered, Room, At
<1>3. CASE task[u].snap.key \in {None, task[u].key} /\ Go(u, "ban")
  <2>1. "ban" \in Place
    BY DEF Place
  <2>2. Passed([task[u] EXCEPT !.at = "ban"])
    BY <1>2, <1>3, <2>1, GoShape DEF Passed, Changing
  <2> QED BY <1>1, <1>3, <2>1, <2>2, GoKeeps
<1>4. CASE Done(u)
  BY <1>1, <1>4, DoneKeeps
<1> QED BY <1>3, <1>4 DEF Room

\* A ban that still counts would still be seen.
LEMMA BanKeeps ==
  ASSUME DoorsInv, NEW u \in Users, MatchesBan(u) \/ MatchesException(u)
  PROVE  DoorsInv'
<1>1. UNCHANGED <<obj, current, store>>
  BY DEF MatchesBan, MatchesException, World, Books
<1>2. /\ task[u] \in Task /\ Passed(task[u]) /\ Kept(task[u], u)
      /\ task[u].at \in {"ban", "except"}
  BY DEF DoorsInv, ShapeOK, Remembered, MatchesBan, MatchesException, At
<1>3. {"except", "enter"} \subseteq Place
  BY DEF Place
<1>4. CASE Go(u, "except")
  <2>1. Passed([task[u] EXCEPT !.at = "except"])
    BY <1>2, <1>3, GoShape DEF Passed, Changing
  <2> QED BY <1>1, <1>3, <1>4, <2>1, GoKeeps
<1>5. CASE /\ Go(u, "enter")
           /\ \/ ~Matches(obj[task[u].ch], "b", u)
              \/ Matches(obj[task[u].ch], "e", u)
  <2>1. "b" \notin task[u].shut
    BY <1>2, <1>5 DEF Kept, Reasons, Channel
  <2>2. Passed([task[u] EXCEPT !.at = "enter"])
    BY <1>2, <1>3, <2>1, GoShape DEF Passed, Changing
  <2> QED BY <1>1, <1>3, <1>5, <2>2, GoKeeps
<1>6. CASE Done(u)
  BY <1>1, <1>6, DoneKeeps
<1> QED BY <1>4, <1>5, <1>6 DEF MatchesBan, MatchesException

\* Entering takes what is there, or starts a channel nobody was kept out of.
LEMMA EnterKeeps ==
  ASSUME DoorsInv, NEW u \in Users, NEW given \in Spelling, Enter(u, given)
  PROVE  DoorsInv'
<1> DEFINE t(name) == [Idle EXCEPT !.at = "chanserv", !.name = name]
<1>1. ASSUME NEW name \in Spelling
      PROVE  t(name) \in Task /\ t(name).shut = {} /\ Kept(t(name), u) /\ Passed(t(name))
  <2>1. t(name) \in Task /\ t(name).shut = {} /\ t(name).at = "chanserv"
    BY IdleShape DEF Task, Place
  <2> HIDE DEF t
  <2> QED BY <2>1, FitWithout DEF Changing
<1> HIDE DEF t
<1>2. store' = store
  BY DEF Enter
<1>3. CASE current # 0
  <2> DEFINE c == [Channel EXCEPT !.members = @ \cup {u}]
             r == IF u \in Channel.members THEN Idle ELSE t(Channel.name)
             T == [task EXCEPT ![u] = r]
  <2>1. Put(current, c, T)
    BY <1>3, Zenon DEF Enter, t
  <2>2. current' = current
    BY <1>3 DEF Enter
  <2>3. c \in ChannelRecord
    BY <1>3 DEF DoorsInv, ShapeOK, Channel, ChannelRecord
  <2>4. r \in Task /\ Kept(r, u) /\ Passed(r)
    <3>1. Channel.name \in Spelling
      BY <1>3 DEF DoorsInv, ShapeOK, Channel, ChannelRecord
    <3> QED BY <1>1, <3>1, IdleShape, FitIdle
  <2> HIDE DEF c, r
  <2>5. T \in [Users -> Task] /\ \A v \in Users : Kept(T[v], v) /\ Passed(T[v])
    BY <2>4 DEF DoorsInv, ShapeOK, Remembered
  <2> HIDE DEF T
  <2> QED BY <1>2, <2>1, <2>2, <2>3, <2>5, PutKeeps DEF DoorsInv
<1>4. CASE current = 0
  <2> DEFINE c == [[NewChannel(given) EXCEPT !.members = {u}] EXCEPT !.ops = {u}]
  <2>1. PICK o \in Unused : obj' = [obj EXCEPT ![o] = c] /\ current' = o
    BY <1>4 DEF Enter
  <2>2. task' = [task EXCEPT ![u] = t(given)]
    BY <1>4 DEF Enter, t
  <2>3. o \in Object
    BY DEF Unused
  <2>4. c \in ChannelRecord
    <3>1. PICK n \in ChannelRecord : n = NewChannel(given)
      BY NewChannelShape
    <3>2. [[n EXCEPT !.members = {u}] EXCEPT !.ops = {u}] \in ChannelRecord
      BY DEF ChannelRecord
    <3> QED BY <3>1, <3>2
  <2> HIDE DEF c
  <2>5. obj' \in [Object -> ChannelRecord]
    BY <2>1, <2>3, <2>4 DEF DoorsInv, ShapeOK
  <2>6. /\ task' \in [Users -> Task]
        /\ \A v \in Users : task'[v] \in {task[v], t(given)} /\ task'[v].shut = {}
    BY <1>1, <1>4, <2>2, NothingKept DEF DoorsInv, ShapeOK
  <2>7. Remembered'
    BY <1>1, <2>6 DEF Remembered, Kept, Passed, DoorsInv
  <2> QED BY <1>2, <2>1, <2>3, <2>5, <2>6, <2>7 DEF DoorsInv, ShapeOK
<1> QED BY <1>3, <1>4

\* ChanServ changes ranks and takes the handler on or ends it.
LEMMA CheckJoinKeeps ==
  ASSUME DoorsInv, NEW u \in Users, CheckJoin(u) PROVE DoorsInv'
<1> DEFINE d == [obj[current] EXCEPT !.ops = @ \cup {u}]
           k == [task[u] EXCEPT !.at = "keep"]
<1>1. UNCHANGED <<current, store>>
  BY DEF CheckJoin, Books
<1>2. /\ obj' \in [Object -> ChannelRecord]
      /\ current # 0 => /\ obj'[current].flags = obj[current].flags
                        /\ obj'[current].lists = obj[current].lists
                        /\ obj'[current].invites = obj[current].invites
                        /\ obj'[current].key = obj[current].key
  <2>1. CASE obj' = obj
    BY <2>1 DEF DoorsInv, ShapeOK
  <2>2. CASE current # 0 /\ obj' = [obj EXCEPT ![current].ops = @ \cup {u}]
    <3>1. obj[current] \in ChannelRecord
      BY <2>2 DEF DoorsInv, ShapeOK
    <3>2. /\ d \in ChannelRecord /\ d.flags = obj[current].flags
          /\ d.lists = obj[current].lists /\ d.invites = obj[current].invites
          /\ d.key = obj[current].key
      BY <3>1 DEF ChannelRecord
    <3>3. obj' = [obj EXCEPT ![current] = d]
      BY <2>2
    <3> HIDE DEF d
    <3> QED BY <2>2, <3>2, <3>3 DEF DoorsInv, ShapeOK
  <2> QED BY <2>1, <2>2 DEF CheckJoin
<1>3. task[u] \in Task /\ Kept(task[u], u) /\ Passed(task[u]) /\ task[u].at = "chanserv"
  BY DEF DoorsInv, ShapeOK, Remembered, CheckJoin, At
<1>4. k \in Task /\ Kept(k, u) /\ Passed(k)
  <2>1. "keep" \in Place
    BY DEF Place
  <2>2. /\ k \in Task /\ k.at = "keep" /\ k.ch = task[u].ch /\ k.key = task[u].key
        /\ k.snap = task[u].snap /\ k.shut = task[u].shut
    BY <1>3, <2>1, GoShape
  <2> HIDE DEF k
  <2> QED BY <1>3, <2>2 DEF Kept, Passed, Changing
<1>5. task' = [task EXCEPT ![u] = k] \/ task' = [task EXCEPT ![u] = Idle]
  BY DEF CheckJoin, Go, Done
<1> HIDE DEF k
<1>6. store' \in [Spelling -> SavedRecord \cup {None}]
  BY <1>1 DEF DoorsInv, ShapeOK
<1>7. CASE task' = [task EXCEPT ![u] = k]
  BY <1>1, <1>2, <1>4, <1>6, <1>7, TaskKeeps
<1>8. CASE task' = [task EXCEPT ![u] = Idle]
  BY <1>1, <1>2, <1>6, <1>8, IdleShape, FitIdle, TaskKeeps
<1> QED BY <1>5, <1>7, <1>8

LEMMA KeepTopicLooksKeeps ==
  ASSUME DoorsInv, NEW u \in Users, KeepTopicLooks(u) PROVE DoorsInv'
<1> DEFINE row == store[task[u].name]
           t == [Idle EXCEPT !.at = "restore", !.ch = current, !.snap = row]
<1>1. UNCHANGED <<obj, current, store>>
  BY DEF KeepTopicLooks, World, Books
<1>2. CASE row # None /\ task' = [task EXCEPT ![u] = t]
  <2>1. row \in SavedRecord
    BY <1>2 DEF DoorsInv, ShapeOK, Task
  <2> HIDE DEF row
  <2>2. t \in Task /\ t.shut = {} /\ t.at \notin Changing \cup {"invite"}
    BY <2>1, IdleShape DEF DoorsInv, ShapeOK, Task, Place, Changing
  <2> HIDE DEF t
  <2> QED BY <1>1, <1>2, <2>2, FitWithout, TaskMoves
<1>3. CASE Done(u)
  BY <1>1, <1>3, DoneKeeps
<1> QED BY <1>2, <1>3 DEF KeepTopicLooks

-----------------------------------------------------------------------------
(* Changes of the channel. *)
\* What is noted about windows has no part in the promise.
LEMMA CleanShape ==
  ASSUME NEW t \in Task, NEW b \in BOOLEAN, NEW v, Kept(t, v), Passed(t)
  PROVE  LET g == [t EXCEPT !.clean = b] IN g \in Task /\ Kept(g, v) /\ Passed(g)
<1> DEFINE g == [t EXCEPT !.clean = b]
<1>1. /\ g \in Task /\ g.at = t.at /\ g.ch = t.ch /\ g.key = t.key
      /\ g.snap = t.snap /\ g.shut = t.shut /\ g.target = t.target
  BY DEF Task
<1> HIDE DEF g
<1>2. Kept(g, v) /\ Passed(g)
  BY <1>1 DEF Kept, Passed
<1> QED BY <1>1, <1>2 DEF g

LEMMA ChangeKeeps ==
  ASSUME ShapeOK, NEW o, NEW c, NEW tasks \in [Users -> Task], Change(o, c, tasks),
         o \in Object => c \in ChannelRecord, UNCHANGED <<current, store>>,
         \A v \in Users : Kept(tasks[v], v) /\ Passed(tasks[v])
  PROVE  DoorsInv'
<1> DEFINE b(v) == tasks[v].clean /\ c = obj[o]
           g(v) == [tasks[v] EXCEPT !.clean = b(v)]
           T == [v \in Users |-> g(v)]
<1>1. Put(o, c, T)
  BY Zenon DEF Change
<1>2. ASSUME NEW v \in Users PROVE g(v) \in Task /\ Kept(g(v), v) /\ Passed(g(v))
  <2>1. b(v) \in BOOLEAN
    OBVIOUS
  <2> HIDE DEF b
  <2> QED BY <2>1, CleanShape
<1> HIDE DEF g
<1>3. T \in [Users -> Task] /\ \A v \in Users : Kept(T[v], v) /\ Passed(T[v])
  BY <1>2
<1> HIDE DEF T
<1> QED BY <1>1, <1>3, PutKeeps

LEMMA OwnChangeKeeps ==
  ASSUME DoorsInv, NEW u \in Users, NEW c, OwnChange(u, c, "changed"),
         task[u].at \in {"apply", "topic", "changed"},
         task[u].ch \in Object => c \in ChannelRecord, UNCHANGED <<current, store>>
  PROVE  DoorsInv'
<1> DEFINE alone == \A v \in Users \ {u} : ~Window(task[v])
           mine == IF Window(task[u]) THEN task[u].clean ELSE alone
           g == [task[u] EXCEPT !.at = "changed", !.clean = mine]
           h(v) == [task[v] EXCEPT !.clean = FALSE]
           T == [v \in Users |-> IF v = u THEN g ELSE h(v)]
<1>1. Put(task[u].ch, c, T)
  BY Zenon DEF OwnChange
<1>2. \A v \in Users : task[v] \in Task /\ Kept(task[v], v) /\ Passed(task[v])
  BY DEF DoorsInv, ShapeOK, Remembered
<1>3. \A v \in Users : h(v) \in Task /\ Kept(h(v), v) /\ Passed(h(v))
  BY <1>2, CleanShape
<1>4. g \in Task /\ Kept(g, u) /\ Passed(g)
  <2>1. mine \in BOOLEAN
    BY <1>2 DEF Task
  <2> HIDE DEF mine
  <2>2. /\ g \in Task /\ g.at = "changed" /\ g.ch = task[u].ch /\ g.key = task[u].key
        /\ g.snap = task[u].snap /\ g.shut = task[u].shut
    BY <1>2, <2>1 DEF Task, Place
  <2> HIDE DEF g
  <2> QED BY <1>2, <2>2 DEF Kept, Passed, Changing
<1> HIDE DEF g, h
<1>5. T \in [Users -> Task] /\ \A v \in Users : Kept(T[v], v) /\ Passed(T[v])
  BY <1>3, <1>4
<1> HIDE DEF T
<1> QED BY <1>1, <1>5, PutKeeps DEF DoorsInv

LEMMA KeepTopicSetsKeeps ==
  ASSUME DoorsInv, NEW u \in Users, KeepTopicSets(u) PROVE DoorsInv'
<1> DEFINE t == task[u]
           c == [obj[t.ch] EXCEPT !.topic = t.snap.topic]
           T == [task EXCEPT ![u] = Idle]
<1>1. Change(t.ch, c, T) /\ UNCHANGED <<current, store>>
  BY DEF KeepTopicSets
<1>2. t.ch \in Object => c \in ChannelRecord
  <2>1. t.snap.topic \in Topics \cup {None}
    BY DEF DoorsInv, ShapeOK, Task, SavedRecord
  <2>2. t.ch \in Object => obj[t.ch] \in ChannelRecord
    BY DEF DoorsInv, ShapeOK
  <2> QED BY <2>1, <2>2 DEF ChannelRecord
<1>3. T \in [Users -> Task] /\ \A v \in Users : Kept(T[v], v) /\ Passed(T[v])
  BY IdleShape, FitIdle DEF DoorsInv, ShapeOK, Remembered
<1> HIDE DEF c, T
<1> QED BY <1>1, <1>2, <1>3, ChangeKeeps DEF DoorsInv

LEMMA AddInviteKeeps ==
  ASSUME DoorsInv, NEW u \in Users, AddInvite(u) PROVE DoorsInv'
<1> DEFINE t == task[u]
           c == [obj[t.ch] EXCEPT !.invites = @ \cup {t.target}]
           T == [task EXCEPT ![u] = Idle]
<1>1. Put(t.ch, c, T) /\ UNCHANGED <<current, store>>
  BY DEF AddInvite, Books
<1>2. t.ch \in Object => c \in ChannelRecord
  <2>1. t.ch \in Object => obj[t.ch] \in ChannelRecord
    BY DEF DoorsInv, ShapeOK
  <2>2. t.target \in Users
    BY DEF DoorsInv, Remembered, Passed, AddInvite, At
  <2> QED BY <2>1, <2>2 DEF ChannelRecord
<1>3. T \in [Users -> Task] /\ \A v \in Users : Kept(T[v], v) /\ Passed(T[v])
  BY IdleShape, FitIdle DEF DoorsInv, ShapeOK, Remembered
<1> HIDE DEF c, T
<1> QED BY <1>1, <1>2, <1>3, PutKeeps DEF DoorsInv

\* Leaving changes no reason; when the last one leaves, nothing is remembered.
LEMMA PartKeeps ==
  ASSUME ShapeOK, NEW w, NEW tasks \in [Users -> Task], PartChannel(w, tasks),
         store' = store, \A v \in Users : Kept(tasks[v], v) /\ Passed(tasks[v])
  PROVE  DoorsInv'
<1>1. CASE task' = tasks /\ UNCHANGED <<obj, current>>
  <2>1. ShapeOK'
    BY <1>1 DEF ShapeOK
  <2>2. Remembered'
    BY <1>1 DEF Remembered, Kept, Passed, Channel
  <2> QED BY <2>1, <2>2 DEF DoorsInv
<1>2. CASE current # 0 /\ obj' = [obj EXCEPT ![current] = Out(Channel, w)]
  <2> DEFINE d == Out(Channel, w)
  <2>1. Channel \in ChannelRecord /\ Channel = obj[current] /\ current \in Object
    BY <1>2 DEF ShapeOK, Channel
  <2>2. /\ d \in ChannelRecord /\ d.flags = Channel.flags /\ d.lists = Channel.lists
        /\ d.invites = Channel.invites /\ d.key = Channel.key
    BY <2>1 DEF Out, ChannelRecord
  <2> HIDE DEF d
  <2>3. obj' \in [Object -> ChannelRecord] /\ obj'[current] = d
    BY <1>2, <2>1, <2>2 DEF ShapeOK, d
  <2>4. CASE current' = 0 /\ task' = [v \in Users |-> [tasks[v] EXCEPT !.shut = {}]]
    <3>1. ASSUME NEW v \in Users
          PROVE  /\ task'[v] \in Task /\ task'[v].shut = {} /\ task'[v].at = tasks[v].at
                 /\ task'[v].target = tasks[v].target /\ task'[v].ch = tasks[v].ch
      BY <2>4 DEF Task
    <3>2. task' \in [Users -> Task]
      BY <2>4, <3>1
    <3>3. Remembered'
      BY <3>1 DEF Remembered, Kept, Passed
    <3> QED BY <2>3, <2>4, <3>2, <3>3 DEF DoorsInv, ShapeOK
  <2>5. CASE task' = tasks /\ current' = current
    <3>1. ASSUME NEW v \in Users PROVE Kept(task[v], v)'
      <4>1. PICK t : t = tasks[v]
        OBVIOUS
      <4>2. Reasons(d, v, t.key) = Reasons(Channel, v, t.key)
        BY <2>2, SameReasons
      <4> QED BY <2>3, <2>5, <4>1, <4>2 DEF Kept, Channel
    <3>2. Remembered'
      BY <2>5, <3>1 DEF Remembered, Passed
    <3> QED BY <2>3, <2>5, <3>2 DEF DoorsInv, ShapeOK
  <2> QED BY <1>2, <2>4, <2>5 DEF PartChannel, World
<1> QED BY <1>1, <1>2 DEF PartChannel, World

LEMMA KickActsKeeps ==
  ASSUME DoorsInv, NEW u \in Users, KickActs(u) PROVE DoorsInv'
<1> DEFINE T == [task EXCEPT ![u] = Idle]
<1>1. PartChannel(task[u].target, T) /\ store' = store
  BY DEF KickActs
<1>2. T \in [Users -> Task] /\ \A v \in Users : Kept(T[v], v) /\ Passed(T[v])
  BY IdleShape, FitIdle DEF DoorsInv, ShapeOK, Remembered
<1> HIDE DEF T
<1> QED BY <1>1, <1>2, PartKeeps DEF DoorsInv

\* OP and DEOP change ranks.
LEMMA SetOperatorKeeps ==
  ASSUME DoorsInv, NEW u \in Users, NEW w, NEW on, SetOperator(u, w, on)
  PROVE  DoorsInv'
<1> DEFINE d == [obj[current] EXCEPT !.ops = With(@, w, on)]
<1>1. /\ current # 0 /\ UNCHANGED <<current, store, task>> /\ w \in Channel.members
      /\ obj' = [obj EXCEPT ![current].ops = With(@, w, on)]
  BY DEF SetOperator
<1>2. obj[current] \in ChannelRecord /\ current \in Object
  BY <1>1 DEF DoorsInv, ShapeOK
<1>3. With(obj[current].ops, w, on) \in SUBSET Users
  BY <1>1, <1>2 DEF With, Channel, ChannelRecord
<1>4. /\ d \in ChannelRecord /\ d.flags = obj[current].flags
      /\ d.lists = obj[current].lists /\ d.invites = obj[current].invites
      /\ d.key = obj[current].key
  BY <1>2, <1>3 DEF ChannelRecord
<1>5. obj' = [obj EXCEPT ![current] = d]
  BY <1>1
<1> HIDE DEF d
<1>6. /\ obj' \in [Object -> ChannelRecord] /\ obj'[current] = d
      /\ store' \in [Spelling -> SavedRecord \cup {None}]
  BY <1>1, <1>2, <1>4, <1>5 DEF DoorsInv, ShapeOK
<1>7. /\ task[u] \in Task /\ Kept(task[u], u) /\ Passed(task[u])
      /\ task' = [task EXCEPT ![u] = task[u]]
  BY <1>1 DEF DoorsInv, ShapeOK, Remembered
<1> QED BY <1>1, <1>4, <1>6, <1>7, TaskKeeps

\* MODE and TOPIC.
LEMMA ApplyKeeps ==
  ASSUME DoorsInv, NEW u \in Users, NEW m \in Changes, Apply(u, m) PROVE DoorsInv'
<1> DEFINE c == Changed(obj[task[u].ch], m)
<1>1. /\ OwnChange(u, c, "changed") /\ UNCHANGED <<current, store>>
      /\ task[u].at \in {"apply", "topic", "changed"}
  BY DEF Apply
<1>2. task[u].ch \in Object => c \in ChannelRecord
  BY ChangedShape DEF DoorsInv, ShapeOK
<1> HIDE DEF c
<1> QED BY <1>1, <1>2, OwnChangeKeeps

LEMMA SetTopicKeeps ==
  ASSUME DoorsInv, NEW u \in Users, NEW text \in Topics \cup {None}, SetTopic(u, text)
  PROVE  DoorsInv'
<1> DEFINE c == [obj[task[u].ch] EXCEPT !.topic = text]
<1>1. /\ OwnChange(u, c, "changed") /\ UNCHANGED <<current, store>>
      /\ task[u].at \in {"apply", "topic", "changed"}
  BY DEF SetTopic, Books, At
<1>2. task[u].ch \in Object => c \in ChannelRecord
  <2>1. task[u].ch \in Object => obj[task[u].ch] \in ChannelRecord
    BY DEF DoorsInv, ShapeOK
  <2> QED BY <2>1 DEF ChannelRecord
<1> HIDE DEF c
<1> QED BY <1>1, <1>2, OwnChangeKeeps

LEMMA RemoteKeeps ==
  ASSUME DoorsInv, NEW c, current \in Object => c \in ChannelRecord, Remote(c)
  PROVE  DoorsInv'
<1>1. Change(current, c, task) /\ UNCHANGED <<current, store>>
  BY DEF Remote
<1>2. /\ task \in [Users -> Task] /\ \A v \in Users : Kept(task[v], v) /\ Passed(task[v])
  BY DEF DoorsInv, ShapeOK, Remembered
<1> QED BY <1>1, <1>2, ChangeKeeps DEF DoorsInv

\* Reading, saving and announcing: the task moves on, the channel stays.
LEMMA PersistKeeps ==
  ASSUME DoorsInv, NEW u \in Users,
         \/ ReadModes(u) \/ ReadRest(u) \/ Tell(u)
         \/ \E ok \in BOOLEAN : Upsert(u, ok)
  PROVE  DoorsInv'
<1>1. task[u] \in Task /\ Kept(task[u], u) /\ Passed(task[u])
  BY DEF DoorsInv, ShapeOK, Remembered
<1>2. ASSUME NEW t \in Task, t.at \in {"read", "save", "tell"},
             t.ch = task[u].ch, t.key = task[u].key, t.shut = task[u].shut,
             t.at = "read" => t.ch \in Object,
             task' = [task EXCEPT ![u] = t], UNCHANGED <<obj, current>>,
             store' \in [Spelling -> SavedRecord \cup {None}]
      PROVE  DoorsInv'
  <2>1. Kept(t, u) /\ Passed(t)
    BY <1>1, <1>2 DEF Kept, Passed, Changing
  <2>2. obj' \in [Object -> ChannelRecord]
    BY <1>2 DEF DoorsInv, ShapeOK
  <2> QED BY <1>2, <2>1, <2>2, TaskKeeps
<1>3. ASSUME NEW r \in SavedRecord, NEW p \in {"read", "save"},
             task' = [task EXCEPT ![u].at = p, ![u].snap = r],
             p = "read" => task[u].ch \in Object,
             UNCHANGED <<obj, current, store>>
      PROVE  DoorsInv'
  <2> DEFINE t == [[task[u] EXCEPT !.at = p] EXCEPT !.snap = r]
  <2>1. /\ t \in Task /\ t.at = p /\ t.ch = task[u].ch /\ t.key = task[u].key
        /\ t.shut = task[u].shut
    BY <1>1 DEF Task, Place
  <2>2. task' = [task EXCEPT ![u] = t]
    BY <1>3 DEF DoorsInv, ShapeOK
  <2>3. store' \in [Spelling -> SavedRecord \cup {None}]
    BY <1>3 DEF DoorsInv, ShapeOK
  <2> HIDE DEF t
  <2> QED BY <1>2, <1>3, <2>1, <2>2, <2>3
<1>4. task[u].snap \in SavedRecord /\ task[u].clean \in BOOLEAN
  BY <1>1 DEF Task
<1>5. CASE ReadModes(u) \/ ReadRest(u)
  <2> DEFINE r == Saved(obj[task[u].ch])
             q == [r EXCEPT !.flags = task[u].snap.flags]
  <2>1. task[u].ch \in Object /\ obj[task[u].ch] \in ChannelRecord
    BY <1>1, <1>5 DEF ReadModes, ReadRest, At, Passed, Changing, DoorsInv, ShapeOK
  <2>2. r \in SavedRecord
    BY <2>1, SavedShape
  <2>3. q \in SavedRecord
    BY <1>4, <2>2 DEF SavedRecord
  <2>4. UNCHANGED <<obj, current, store>>
    BY <1>5 DEF ReadModes, ReadRest, World, Books
  <2>5. CASE ReadModes(u)
    <3>1. task' = [task EXCEPT ![u].at = "read", ![u].snap = r]
      BY <2>5 DEF ReadModes
    <3> HIDE DEF r
    <3> QED BY <1>3, <2>1, <2>2, <2>4, <3>1
  <2>6. CASE ReadRest(u)
    <3>1. task' = [task EXCEPT ![u].at = "save", ![u].snap = q]
      BY <2>6 DEF ReadRest
    <3> HIDE DEF q
    <3> QED BY <1>3, <2>3, <2>4, <3>1
  <2> QED BY <1>5, <2>5, <2>6
<1>6. CASE Tell(u)
  BY <1>6, DoneKeeps DEF Tell, World
<1>7. CASE \E ok \in BOOLEAN : Upsert(u, ok)
  <2>1. PICK ok \in BOOLEAN : Upsert(u, ok)
    BY <1>7
  <2> DEFINE name == obj[task[u].ch].name
             good == /\ ok /\ task[u].clean /\ task[u].ch = current
                     /\ \A p \in Spelling : p > name => store[p] = None
             t == [[task[u] EXCEPT !.at = "tell"] EXCEPT !.clean = good]
  <2>2. UNCHANGED <<obj, current>> /\ store' \in [Spelling -> SavedRecord \cup {None}]
    BY <1>4, <2>1 DEF Upsert, World, DoorsInv, ShapeOK
  <2>3. task' = [task EXCEPT ![u].at = "tell", ![u].clean = good]
    BY <2>1 DEF Upsert
  <2>4. good \in BOOLEAN
    OBVIOUS
  <2> HIDE DEF good
  <2>5. /\ t \in Task /\ t.at = "tell" /\ t.ch = task[u].ch /\ t.key = task[u].key
        /\ t.shut = task[u].shut
    BY <1>1, <2>4 DEF Task, Place
  <2>6. task' = [task EXCEPT ![u] = t]
    BY <2>3 DEF DoorsInv, ShapeOK
  <2> HIDE DEF t
  <2> QED BY <1>2, <2>2, <2>5, <2>6
<1> QED BY <1>5, <1>6, <1>7

-----------------------------------------------------------------------------
(* Handlers that begin, crashes, and the whole. *)
LEMMA BeginKeeps ==
  ASSUME DoorsInv, NEW u \in Users,
         \/ Mode(u) \/ Topic(u)
         \/ \E w \in Users \ {u} : Kick(u, w) \/ Invite(u, w)
  PROVE  DoorsInv'
<1>1. ASSUME NEW t \in Task, Begin(u, t), t.shut = {}, t.at \in Changing => t.ch \in Object,
             t.at = "invite" => t.target \in Users
      PROVE  DoorsInv'
  <2>1. Kept(t, u) /\ Passed(t)
    BY <1>1 DEF Kept, Passed
  <2> QED BY <1>1, <2>1, TaskMoves DEF Begin
<1>2. current # 0 => current \in Object
  BY DEF DoorsInv, ShapeOK
<1>3. CASE Mode(u) \/ Topic(u)
  <2>1. PICK p \in {"apply", "topic"} :
          current # 0 /\ Begin(u, [Idle EXCEPT !.at = p, !.ch = current])
    BY <1>3 DEF Mode, Topic
  <2> DEFINE t == [Idle EXCEPT !.at = p, !.ch = current]
  <2>2. t \in Task /\ t.shut = {} /\ t.at = p /\ t.ch = current
    BY <1>2, <2>1, IdleShape DEF Task, Place
  <2> HIDE DEF t
  <2>3. Begin(u, t)
    BY <2>1 DEF t
  <2> QED BY <1>1, <1>2, <2>1, <2>2, <2>3
<1>4. CASE \E w \in Users \ {u} : Kick(u, w)
  <2>1. PICK w \in Users \ {u} : Begin(u, [Idle EXCEPT !.at = "kick", !.target = w])
    BY <1>4 DEF Kick
  <2> DEFINE t == [Idle EXCEPT !.at = "kick", !.target = w]
  <2>2. t \in Task /\ t.shut = {} /\ t.at = "kick"
    BY IdleShape DEF Task, Place
  <2> HIDE DEF t
  <2>3. Begin(u, t)
    BY <2>1 DEF t
  <2> QED BY <1>1, <2>2, <2>3 DEF Changing
<1>5. CASE \E w \in Users \ {u} : Invite(u, w)
  <2>1. PICK w \in Users \ {u} :
          /\ current # 0
          /\ Begin(u, [Idle EXCEPT !.at = "invite", !.ch = current, !.target = w])
    BY <1>5 DEF Invite
  <2> DEFINE t == [Idle EXCEPT !.at = "invite", !.ch = current, !.target = w]
  <2>2. t \in Task /\ t.shut = {} /\ t.at = "invite" /\ t.target = w
    BY <1>2, <2>1, IdleShape DEF Task, Place
  <2> HIDE DEF t
  <2>3. Begin(u, t)
    BY <2>1 DEF t
  <2> QED BY <1>1, <2>2, <2>3 DEF Changing
<1> QED BY <1>3, <1>4, <1>5

\* A restart forgets every JOIN under way.
LEMMA RestartKeeps == ASSUME DoorsInv, Restart PROVE DoorsInv'
<1>1. 1 \in Spelling /\ NewChannel(1) \in ChannelRecord
  BY ChannelAssumption, NewChannelShape DEF Spelling
<1>2. obj' \in [Object -> ChannelRecord]
  <2>1. CASE obj' = [o \in Object |-> NewChannel(1)]
    BY <1>1, <2>1
  <2>2. CASE \E first, last \in Spelling :
               /\ store[last] # None
               /\ obj' = [o \in Object |-> IF o = 1 THEN RestoreState(first, store[last])
                                           ELSE NewChannel(1)]
    <3>1. PICK first, last \in Spelling :
            /\ store[last] # None
            /\ obj' = [o \in Object |-> IF o = 1 THEN RestoreState(first, store[last])
                                        ELSE NewChannel(1)]
      BY <2>2
    <3>2. store[last] \in SavedRecord /\ NewChannel(first) \in ChannelRecord
      BY <3>1, NewChannelShape DEF DoorsInv, ShapeOK
    <3>3. RestoreState(first, store[last]) \in ChannelRecord
      BY <3>2 DEF RestoreState, ChannelRecord, SavedRecord
    <3> QED BY <1>1, <3>1, <3>3
  <2> QED BY <2>1, <2>2 DEF Restart, LastRow
<1>3. current' \in Object \cup {0}
  BY ChannelAssumption DEF Restart, Object
<1>4. task' \in [Users -> Task] /\ \A u \in Users : task'[u] = Idle
  BY IdleShape DEF Restart
<1>5. store' \in [Spelling -> SavedRecord \cup {None}]
  BY DEF Restart, DoorsInv, ShapeOK
<1>6. Remembered'
  <2>1. ASSUME NEW u \in Users PROVE (Kept(task[u], u) /\ Passed(task[u]))'
    BY <1>4, IdleShape DEF Kept, Passed, Changing
  <2> QED BY <2>1 DEF Remembered
<1> QED BY <1>2, <1>3, <1>4, <1>5, <1>6 DEF DoorsInv, ShapeOK

LEMMA DoorsInit == ASSUME Init PROVE DoorsInv
<1>1. ShapeOK
  <2>1. NewChannel(1) \in ChannelRecord
    BY NewChannelShape, ChannelAssumption DEF Spelling
  <2> QED BY <2>1, IdleShape DEF Init, ShapeOK
<1>2. Remembered
  BY FitIdle DEF Init, Remembered
<1> QED BY <1>1, <1>2 DEF DoorsInv

LEMMA DoorsStep == ASSUME DoorsInv, [Next]_vars PROVE DoorsInv'
<1>1. ASSUME NEW u \in Users, Handler(u) PROVE DoorsInv'
  <2>1. CASE \E key \in Keys \cup {None} : Join(u, key)
    BY <2>1, JoinKeeps
  <2>2. CASE Door(u)
    BY <2>2, DoorKeeps
  <2>3. CASE Room(u)
    BY <2>3, RoomKeeps
  <2>4. CASE MatchesBan(u) \/ MatchesException(u)
    BY <2>4, BanKeeps
  <2>5. CASE \E name \in Spelling : Enter(u, name)
    BY <2>5, EnterKeeps
  <2>6. CASE CheckJoin(u)
    BY <2>6, CheckJoinKeeps
  <2>7. CASE KeepTopicLooks(u)
    BY <2>7, KeepTopicLooksKeeps
  <2>8. CASE KeepTopicSets(u)
    BY <2>8, KeepTopicSetsKeeps
  <2>9. CASE Part(u)
    <3>1. PartChannel(u, task) /\ store' = store
      BY <2>9 DEF Part
    <3> QED BY <3>1, PartKeeps DEF DoorsInv, ShapeOK, Remembered
  <2>10. CASE KickActs(u)
    BY <2>10, KickActsKeeps
  <2>11. CASE AddInvite(u)
    BY <2>11, AddInviteKeeps
  <2>12. CASE \E w \in Users, on \in BOOLEAN : SetOperator(u, w, on)
    BY <2>12, SetOperatorKeeps
  <2>13. CASE \/ Mode(u) \/ Topic(u)
              \/ \E w \in Users \ {u} : Kick(u, w) \/ Invite(u, w)
    BY <2>13, BeginKeeps
  <2>14. CASE NoChange(u)
    BY <2>14, DoneKeeps DEF NoChange, World, Books
  <2>15. CASE \E m \in Changes : Apply(u, m)
    BY <2>15, ApplyKeeps
  <2>16. CASE \E text \in Topics \cup {None} : SetTopic(u, text)
    BY <2>16, SetTopicKeeps
  <2>17. CASE \/ ReadModes(u) \/ ReadRest(u) \/ Tell(u)
              \/ \E ok \in BOOLEAN : Upsert(u, ok)
    BY <2>17, PersistKeeps
  <2> QED BY <1>1, <2>1, <2>2, <2>3, <2>4, <2>5, <2>6, <2>7, <2>8, <2>9, <2>10,
             <2>11, <2>12, <2>13, <2>14, <2>15, <2>16, <2>17 DEF Handler
<1>2. current \in Object => Channel \in ChannelRecord
  BY DEF DoorsInv, ShapeOK, Channel
<1>3. CASE \E text \in Topics \cup {None} : RemoteTopic(text)
  <2>1. PICK text \in Topics \cup {None} : RemoteTopic(text)
    BY <1>3
  <2> DEFINE c == [Channel EXCEPT !.topic = text]
  <2>2. Remote(c) /\ (current \in Object => c \in ChannelRecord)
    BY <1>2, <2>1 DEF RemoteTopic, ChannelRecord
  <2> HIDE DEF c
  <2> QED BY <2>2, RemoteKeeps
<1>4. CASE \E m \in Changes : RemoteMode(m)
  <2>1. PICK m \in Changes : RemoteMode(m)
    BY <1>4
  <2> DEFINE c == Changed(Channel, m)
  <2>2. Remote(c) /\ (current \in Object => c \in ChannelRecord)
    BY <1>2, <2>1, ChangedShape DEF RemoteMode
  <2> HIDE DEF c
  <2> QED BY <2>2, RemoteKeeps
<1>5. CASE Restart
  BY <1>5, RestartKeeps
<1>6. CASE UNCHANGED vars
  <2>1. ShapeOK' /\ Remembered'
    BY <1>6 DEF vars, DoorsInv, ShapeOK, Remembered, Kept, Passed, Channel
  <2> QED BY <2>1 DEF DoorsInv
<1> QED BY <1>1, <1>3, <1>4, <1>5, <1>6 DEF Next

\* joinOne and checkJoinPolicy (handler_channels.go:97): for any number of
\* users, masks and mode changes, a handler that goes on to ChanServ has let in a
\* user whom none of +i, +k and the ban list kept out all through its JOIN.
THEOREM DoorsHoldAlways == Spec => DoorsHold
<1>1. Init => DoorsInv
  BY DoorsInit
<1>2. DoorsInv /\ [Next]_vars => DoorsInv'
  BY DoorsStep
<1>3. DoorsInv => \A u \in Users :
        At(u, "enter") /\ task'[u].at = "chanserv" => task[u].shut = {}
  <2> SUFFICES ASSUME DoorsInv, NEW u \in Users, task[u].at = "enter"
               PROVE  task[u].shut = {}
    BY DEF At
  <2>1. Passed(task[u]) /\ task[u].shut \subseteq Why
    BY DEF DoorsInv, ShapeOK, Remembered, Task
  <2> QED BY <2>1 DEF Passed, Why
<1> QED BY <1>1, <1>2, <1>3, PTL DEF Spec, DoorsHold

-----------------------------------------------------------------------------
(* Ranks belong to members, and members to the channel in the table. *)
Ranked(c) == c.ops \cup c.voices \subseteq c.members
RankInv ==
  \A o \in Object : Ranked(obj[o]) /\ (o # current => obj[o].members = {})
CountInv ==
  /\ told \in SavedRecord /\ loose \in BOOLEAN /\ spent \in 0..MaxCommands /\ crashes \in 0..MaxCrashes

\* An object is written whose members stay, or that is in the table.
LEMMA PutRanks ==
  ASSUME ShapeOK, RankInv, current' = current, NEW o, NEW c,
         obj' = [obj EXCEPT ![o] = c],
         o \in Object => /\ Ranked(c)
                         /\ o = current \/ c.members = obj[o].members
  PROVE  RankInv'
<1>1. \A p \in Object : obj'[p] = IF p = o THEN c ELSE obj[p]
  BY DEF ShapeOK
<1> QED BY <1>1 DEF RankInv, Ranked

\* Fields other than members and ranks may be anything.
LEMMA OtherFields ==
  ASSUME ShapeOK, RankInv, NEW o, NEW c, o \in Object,
         c.members = obj[o].members, c.ops = obj[o].ops, c.voices = obj[o].voices
  PROVE  Ranked(c) /\ c.members = obj[o].members
BY DEF RankInv, Ranked

\* A rank given by MODE reaches a member only.
LEMMA ChangedRanks ==
  ASSUME NEW d \in ChannelRecord, Ranked(d), NEW m \in Changes
  PROVE  Ranked(Changed(d, m)) /\ Changed(d, m).members = d.members
<1>1. CASE m.mode \in Flags
  <2>1. Changed(d, m) = [d EXCEPT !.flags = With(@, m.mode, m.on)]
    BY <1>1 DEF Changed, Flags, Lists
  <2> QED BY <2>1 DEF ChannelRecord, Ranked
<1>2. CASE m.mode \in Lists
  <2>1. Changed(d, m) = [d EXCEPT !.lists[m.mode] = With(@, m.arg, m.on)]
    BY <1>2 DEF Changed, Flags, Lists
  <2> QED BY <2>1 DEF ChannelRecord, Ranked
<1>3. CASE m.mode = "k"
  <2>1. Changed(d, m) = [d EXCEPT !.key = IF m.on THEN m.arg ELSE None]
    BY <1>3 DEF Changed, Flags, Lists
  <2> QED BY <2>1 DEF ChannelRecord, Ranked
<1>4. CASE m.mode = "l"
  <2>1. Changed(d, m) = [d EXCEPT !.limit = IF m.on THEN m.arg ELSE 0]
    BY <1>4 DEF Changed, Flags, Lists
  <2> QED BY <2>1 DEF ChannelRecord, Ranked
<1>5. CASE m.mode = "o"
  <2>1. Changed(d, m) = [d EXCEPT !.ops = With(@, m.arg, m.on) \cap d.members]
    BY <1>5 DEF Changed, Flags, Lists
  <2> QED BY <2>1 DEF ChannelRecord, Ranked
<1>6. CASE m.mode = "v"
  <2>1. Changed(d, m) = [d EXCEPT !.voices = With(@, m.arg, m.on) \cap d.members]
    BY <1>6 DEF Changed, Flags, Lists
  <2> QED BY <2>1 DEF ChannelRecord, Ranked
<1> QED BY <1>1, <1>2, <1>3, <1>4, <1>5, <1>6, ChangesAssumption

\* PART and KICK take the ranks with the member.
LEMMA PartRanks ==
  ASSUME ShapeOK, RankInv, NEW w, NEW tasks, PartChannel(w, tasks) PROVE RankInv'
<1>1. CASE UNCHANGED <<obj, current>>
  BY <1>1 DEF RankInv
<1>2. CASE current # 0 /\ obj' = [obj EXCEPT ![current] = Out(Channel, w)]
  <2> DEFINE d == Out(Channel, w)
  <2>1. current \in Object /\ Channel = obj[current] /\ Channel \in ChannelRecord
    BY <1>2 DEF ShapeOK, Channel
  <2>2. Ranked(Channel)
    BY <2>1 DEF RankInv
  <2>3. Ranked(d) /\ d.members = Channel.members \ {w}
    <3>1. d.members = Channel.members \ {w}
      BY <2>1 DEF Out, ChannelRecord
    <3>2. d.ops = Channel.ops \ {w}
      BY <2>1 DEF Out, ChannelRecord
    <3>3. d.voices = Channel.voices \ {w}
      BY <2>1 DEF Out, ChannelRecord
    <3> QED BY <2>2, <3>1, <3>2, <3>3 DEF Ranked
  <2> HIDE DEF d
  <2>4. \A p \in Object : obj'[p] = IF p = current THEN d ELSE obj[p]
    BY <1>2, <2>1 DEF ShapeOK, d
  <2>5. CASE Channel.members = {w}
    <3>1. d.members = {}
      BY <2>3, <2>5
    <3> QED BY <2>1, <2>3, <2>4, <3>1 DEF RankInv, Ranked
  <2>6. CASE current' = current
    BY <2>3, <2>4, <2>6 DEF RankInv, Ranked
  <2> QED BY <1>2, <2>5, <2>6 DEF PartChannel, World
<1> QED BY <1>1, <1>2 DEF PartChannel, World

\* The object a handler has at hand keeps its members and ranks.
LEMMA HandlerRanks ==
  ASSUME ShapeOK, RankInv, NEW u \in Users,
         \/ Door(u) \/ KeepTopicSets(u) \/ AddInvite(u)
         \/ \E m \in Changes : Apply(u, m)
         \/ \E text \in Topics \cup {None} : SetTopic(u, text)
  PROVE  RankInv'
<1> DEFINE o == task[u].ch
<1>1. o \in Object => obj[o] \in ChannelRecord /\ Ranked(obj[o])
  BY DEF ShapeOK, RankInv
<1>2. ASSUME NEW c, obj' = [obj EXCEPT ![o] = c], current' = current,
             o \in Object => Ranked(c) /\ c.members = obj[o].members
      PROVE  RankInv'
  BY <1>2, PutRanks
<1>3. CASE Door(u)
  <2> DEFINE spends == /\ ~("i" \notin task[u].snap.flags \/ Matches(obj[o], "I", u))
                       /\ u \in obj[o].invites
             c == IF spends THEN [obj[o] EXCEPT !.invites = @ \ {u}] ELSE obj[o]
  <2>1. obj' = [obj EXCEPT ![o] = c]
    BY <1>3, Zenon DEF Door, Put
  <2>2. current' = current
    BY <1>3 DEF Door
  <2>3. o \in Object => Ranked(c) /\ c.members = obj[o].members
    <3>1. CASE spends
      BY <1>1, <3>1 DEF ChannelRecord, Ranked
    <3>2. CASE ~spends
      BY <1>1, <3>2
    <3> QED BY <3>1, <3>2
  <2> HIDE DEF c, o
  <2> QED BY <1>2, <2>1, <2>2, <2>3
<1>4. CASE KeepTopicSets(u)
  <2> DEFINE c == [obj[o] EXCEPT !.topic = task[u].snap.topic]
  <2>1. obj' = [obj EXCEPT ![o] = c] /\ current' = current
    BY <1>4 DEF KeepTopicSets, Change, Put
  <2>2. o \in Object => Ranked(c) /\ c.members = obj[o].members
    BY <1>1 DEF ChannelRecord, Ranked
  <2> HIDE DEF c, o
  <2> QED BY <1>2, <2>1, <2>2
<1>5. CASE AddInvite(u)
  <2> DEFINE c == [obj[o] EXCEPT !.invites = @ \cup {task[u].target}]
  <2>1. obj' = [obj EXCEPT ![o] = c] /\ current' = current
    BY <1>5 DEF AddInvite, Put
  <2>2. o \in Object => Ranked(c) /\ c.members = obj[o].members
    BY <1>1 DEF ChannelRecord, Ranked
  <2> HIDE DEF c, o
  <2> QED BY <1>2, <2>1, <2>2
<1>6. CASE \E m \in Changes : Apply(u, m)
  <2>1. PICK m \in Changes : Apply(u, m)
    BY <1>6
  <2> DEFINE c == Changed(obj[o], m)
  <2>2. obj' = [obj EXCEPT ![o] = c] /\ current' = current
    BY <2>1 DEF Apply, OwnChange, Put
  <2>3. o \in Object => Ranked(c) /\ c.members = obj[o].members
    BY <1>1, ChangedRanks
  <2> HIDE DEF c, o
  <2> QED BY <1>2, <2>2, <2>3
<1>7. CASE \E text \in Topics \cup {None} : SetTopic(u, text)
  <2>1. PICK text \in Topics \cup {None} : SetTopic(u, text)
    BY <1>7
  <2> DEFINE c == [obj[o] EXCEPT !.topic = text]
  <2>2. obj' = [obj EXCEPT ![o] = c] /\ current' = current
    BY <2>1 DEF SetTopic, OwnChange, Put
  <2>3. o \in Object => Ranked(c) /\ c.members = obj[o].members
    BY <1>1 DEF ChannelRecord, Ranked
  <2> HIDE DEF c, o
  <2> QED BY <1>2, <2>2, <2>3
<1> QED BY <1>3, <1>4, <1>5, <1>6, <1>7

\* Peers, ChanServ and JOIN act on the object in the table.
LEMMA TableRanks ==
  ASSUME ShapeOK, RankInv,
         \/ \E u \in Users, name \in Spelling : Enter(u, name)
         \/ \E u \in Users : CheckJoin(u)
         \/ \E u \in Users, w \in Users, on \in BOOLEAN : SetOperator(u, w, on)
         \/ \E text \in Topics \cup {None} : RemoteTopic(text)
         \/ \E m \in Changes : RemoteMode(m)
  PROVE  RankInv'
<1>1. current \in Object => /\ Channel = obj[current] /\ Channel \in ChannelRecord
                            /\ Ranked(Channel)
  BY DEF ShapeOK, RankInv, Channel
<1>2. ASSUME NEW c, obj' = [obj EXCEPT ![current] = c], current' = current,
             current \in Object => Ranked(c)
      PROVE  RankInv'
  BY <1>2, PutRanks
<1>3. CASE \E u \in Users, name \in Spelling : Enter(u, name)
  <2>1. PICK u \in Users, name \in Spelling : Enter(u, name)
    BY <1>3
  <2>2. CASE current # 0
    <3> DEFINE c == [Channel EXCEPT !.members = @ \cup {u}]
    <3>1. obj' = [obj EXCEPT ![current] = c] /\ current' = current
      BY <2>1, <2>2 DEF Enter, Put
    <3>2. current \in Object => Ranked(c)
      BY <1>1 DEF ChannelRecord, Ranked
    <3> HIDE DEF c
    <3> QED BY <1>2, <3>1, <3>2
  <2>3. CASE current = 0
    <3> DEFINE c == [[NewChannel(name) EXCEPT !.members = {u}] EXCEPT !.ops = {u}]
    <3>1. PICK o \in Unused : obj' = [obj EXCEPT ![o] = c] /\ current' = o
      BY <2>1, <2>3 DEF Enter
    <3>2. o \in Object /\ obj[o].members = {} /\ 0 \notin Object
      BY DEF Unused, NewChannel, Object
    <3>3. Ranked(c)
      BY DEF NewChannel, Ranked
    <3>4. \A p \in Object : obj'[p] = IF p = o THEN c ELSE obj[p]
      BY <3>1, <3>2 DEF ShapeOK
    <3> HIDE DEF c
    <3> QED BY <2>3, <3>1, <3>2, <3>3, <3>4 DEF RankInv, Ranked
  <2> QED BY <2>2, <2>3
<1>4. ASSUME NEW s \in SUBSET Channel.members, current # 0, current' = current,
             obj' = [obj EXCEPT ![current].ops = s]
      PROVE  RankInv'
  <2> DEFINE c == [obj[current] EXCEPT !.ops = s]
  <2>1. current \in Object
    BY <1>4 DEF ShapeOK
  <2>2. obj' = [obj EXCEPT ![current] = c]
    BY <1>4
  <2>3. Ranked(c)
    BY <1>1, <2>1 DEF ChannelRecord, Ranked
  <2> HIDE DEF c
  <2> QED BY <1>2, <1>4, <2>2, <2>3
<1>5. CASE \E u \in Users : CheckJoin(u)
  <2>1. PICK u \in Users : CheckJoin(u)
    BY <1>5
  <2>2. CASE obj' = obj
    BY <2>1, <2>2 DEF CheckJoin, RankInv
  <2>3. CASE /\ current # 0 /\ u \in Channel.members
             /\ obj' = [obj EXCEPT ![current].ops = @ \cup {u}]
    <3>1. Channel = obj[current] /\ Ranked(Channel) /\ current \in Object
      BY <1>1, <2>3 DEF ShapeOK
    <3>2. obj[current].ops \cup {u} \in SUBSET Channel.members
      BY <2>3, <3>1 DEF Ranked
    <3>3. current' = current
      BY <2>1 DEF CheckJoin
    <3> QED BY <1>4, <2>3, <3>2, <3>3
  <2> QED BY <2>1, <2>2, <2>3 DEF CheckJoin
<1>6. CASE \E u \in Users, w \in Users, on \in BOOLEAN : SetOperator(u, w, on)
  <2>1. PICK u \in Users, w \in Users, on \in BOOLEAN : SetOperator(u, w, on)
    BY <1>6
  <2>2. Channel = obj[current] /\ Ranked(Channel) /\ current # 0 /\ w \in Channel.members
    BY <1>1, <2>1 DEF ShapeOK, SetOperator
  <2>3. With(obj[current].ops, w, on) \in SUBSET Channel.members
    BY <2>2 DEF With, Ranked
  <2> QED BY <1>4, <2>1, <2>2, <2>3 DEF SetOperator
<1>7. CASE \E text \in Topics \cup {None} : RemoteTopic(text)
  <2>1. PICK text \in Topics \cup {None} : RemoteTopic(text)
    BY <1>7
  <2> DEFINE c == [Channel EXCEPT !.topic = text]
  <2>2. obj' = [obj EXCEPT ![current] = c] /\ current' = current
    BY <2>1 DEF RemoteTopic, Remote, Change, Put
  <2>3. current \in Object => Ranked(c)
    BY <1>1 DEF ChannelRecord, Ranked
  <2> HIDE DEF c
  <2> QED BY <1>2, <2>2, <2>3
<1>8. CASE \E m \in Changes : RemoteMode(m)
  <2>1. PICK m \in Changes : RemoteMode(m)
    BY <1>8
  <2> DEFINE c == Changed(Channel, m)
  <2>2. obj' = [obj EXCEPT ![current] = c] /\ current' = current
    BY <2>1 DEF RemoteMode, Remote, Change, Put
  <2>3. current \in Object => Ranked(c)
    BY <1>1, ChangedRanks
  <2> HIDE DEF c
  <2> QED BY <1>2, <2>2, <2>3
<1> QED BY <1>3, <1>5, <1>6, <1>7, <1>8

\* What does not touch a channel keeps the ranks.
LEMMA RanksStay ==
  ASSUME RankInv, UNCHANGED <<obj, current>> PROVE RankInv'
BY DEF RankInv

LEMMA RanksStep == ASSUME ShapeOK, RankInv, [Next]_vars PROVE RankInv'
<1>1. ASSUME NEW u \in Users, Handler(u) PROVE RankInv'
  <2>1. CASE \/ Door(u) \/ KeepTopicSets(u) \/ AddInvite(u)
             \/ \E m \in Changes : Apply(u, m)
             \/ \E text \in Topics \cup {None} : SetTopic(u, text)
    BY <2>1, HandlerRanks
  <2>2. CASE \/ \E name \in Spelling : Enter(u, name)
             \/ CheckJoin(u)
             \/ \E w \in Users, on \in BOOLEAN : SetOperator(u, w, on)
    BY <2>2, TableRanks
  <2>3. CASE Part(u) \/ KickActs(u)
    BY <2>3, PartRanks DEF Part, KickActs
  <2>4. CASE \/ \E key \in Keys \cup {None} : Join(u, key)
             \/ \E w \in Users \ {u} : Kick(u, w) \/ Invite(u, w)
             \/ Mode(u) \/ Topic(u)
    BY <2>4, RanksStay DEF Join, Kick, Invite, Mode, Topic, Begin
  <2>5. CASE \/ Room(u) \/ MatchesBan(u) \/ MatchesException(u) \/ KeepTopicLooks(u)
             \/ NoChange(u) \/ ReadModes(u) \/ ReadRest(u) \/ Tell(u)
             \/ \E ok \in BOOLEAN : Upsert(u, ok)
    BY <2>5, RanksStay
       DEF Room, MatchesBan, MatchesException, KeepTopicLooks, NoChange, ReadModes,
           ReadRest, Tell, Upsert, World
  <2> QED BY <1>1, <2>1, <2>2, <2>3, <2>4, <2>5 DEF Handler
<1>2. CASE \/ \E text \in Topics \cup {None} : RemoteTopic(text)
           \/ \E m \in Changes : RemoteMode(m)
  BY <1>2, TableRanks
<1>3. CASE Restart
  <2>1. \A o \in Object : Ranked(obj'[o]) /\ obj'[o].members = {}
    <3>1. Ranked(NewChannel(1)) /\ NewChannel(1).members = {}
      BY DEF NewChannel, Ranked
    <3>2. ASSUME NEW n, NEW rec
          PROVE  Ranked(RestoreState(n, rec)) /\ RestoreState(n, rec).members = {}
      BY DEF RestoreState, NewChannel, Ranked
    <3> QED BY <1>3, <3>1, <3>2 DEF Restart
  <2> QED BY <2>1 DEF RankInv, Ranked
<1>4. CASE UNCHANGED vars
  BY <1>4, RanksStay DEF vars
<1> QED BY <1>1, <1>2, <1>3, <1>4 DEF Next

\* The counters stay in their bounds.
LEMMA CountsStep == ASSUME ShapeOK, CountInv, [Next]_vars PROVE CountInv'
<1> USE DEF CountInv
<1>1. ASSUME spent' = spent + 1, spent < MaxCommands PROVE spent' \in 0..MaxCommands
  BY <1>1, ChannelAssumption
<1>2. ASSUME NEW u \in Users, NEW t, Begin(u, t) PROVE CountInv'
  BY <1>1, <1>2 DEF Begin
<1>3. ASSUME NEW w, NEW tasks, PartChannel(w, tasks) PROVE loose' \in BOOLEAN
  BY <1>3 DEF PartChannel
<1>4. ASSUME NEW u \in Users, Handler(u) PROVE CountInv'
  <2>1. CASE \/ \E key \in Keys \cup {None} : Join(u, key)
             \/ \E w \in Users \ {u} : Kick(u, w) \/ Invite(u, w)
             \/ Mode(u) \/ Topic(u)
    BY <1>2, <2>1 DEF Join, Kick, Invite, Mode, Topic
  <2>2. CASE \/ Door(u) \/ Room(u) \/ MatchesBan(u) \/ MatchesException(u)
             \/ CheckJoin(u) \/ KeepTopicLooks(u) \/ AddInvite(u) \/ NoChange(u)
             \/ ReadModes(u) \/ ReadRest(u)
             \/ \E text \in Topics \cup {None} : SetTopic(u, text)
    BY <2>2 DEF Door, Room, MatchesBan, MatchesException, CheckJoin, KeepTopicLooks,
                AddInvite, NoChange, ReadModes, ReadRest, SetTopic, Books
  <2>3. CASE \/ KeepTopicSets(u) \/ Tell(u)
             \/ \E name \in Spelling : Enter(u, name)
    <3>1. task[u].snap \in SavedRecord
      BY DEF ShapeOK, Task
    <3> QED BY <2>3, <3>1 DEF KeepTopicSets, Tell, Enter
  <2>4. CASE Part(u) \/ KickActs(u)
    BY <1>1, <1>3, <2>4 DEF Part, KickActs
  <2>5. CASE \E w \in Users, on \in BOOLEAN : SetOperator(u, w, on)
    BY <1>1, <2>5 DEF SetOperator
  <2>6. CASE \E m \in Changes : Apply(u, m)
    <3>1. PICK m \in Changes : Apply(u, m)
      BY <2>6
    <3>2. spent' \in 0..MaxCommands
      BY <1>1, <3>1 DEF Apply, At
    <3> QED BY <3>1, <3>2 DEF Apply
  <2>7. CASE \E ok \in BOOLEAN : Upsert(u, ok)
    BY <2>7 DEF Upsert
  <2> QED BY <1>4, <2>1, <2>2, <2>3, <2>4, <2>5, <2>6, <2>7 DEF Handler
<1>5. CASE \/ \E text \in Topics \cup {None} : RemoteTopic(text)
           \/ \E m \in Changes : RemoteMode(m)
  BY <1>1, <1>5 DEF RemoteTopic, RemoteMode, Remote
<1>6. CASE Restart
  <2>1. told' \in SavedRecord /\ loose' \in BOOLEAN
    BY <1>6 DEF Restart, LastRow, ShapeOK
  <2> QED BY <1>6, <2>1, ChannelAssumption DEF Restart
<1>7. CASE UNCHANGED vars
  BY <1>7 DEF vars
<1> QED BY <1>4, <1>5, <1>6, <1>7 DEF Next

\* Types, of the rows and of every handler under way too; and through all joins,
\* kicks, mode changes, those of peers and services and crashes an operator or a
\* voice is a member, an object that was dropped from the table
\* (World.PartChannel) has no members, and an INVITE, MODE or TOPIC under way has
\* the user or the object it is about to use.
THEOREM TypeCorrect == Spec => []TypeOK
<1> DEFINE Inv == DoorsInv /\ RankInv /\ CountInv
<1>1. Init => Inv
  <2> SUFFICES ASSUME Init PROVE Inv
    OBVIOUS
  <2>1. RankInv
    BY DEF Init, NewChannel, RankInv, Ranked
  <2>2. told \in SavedRecord
    BY IdleShape DEF Init, Idle, Task
  <2>3. CountInv
    BY <2>2, ChannelAssumption DEF Init, CountInv
  <2> QED BY <2>1, <2>3, DoorsInit
<1>2. Inv /\ [Next]_vars => Inv'
  BY DoorsStep, RanksStep, CountsStep DEF DoorsInv
<1>3. Inv => TypeOK
  BY DEF TypeOK, DoorsInv, ShapeOK, Remembered, Passed, At, RankInv, Ranked, CountInv
<1> QED BY <1>1, <1>2, <1>3, PTL DEF Spec

-----------------------------------------------------------------------------
(* What persistChannel promises: a change is saved before it is announced, *)
(* so that what the channel's members were told survives a crash at any    *)
(* step, for any users, mode changes and interleavings of their handlers.  *)

\* A handler between its change and its announcement; one whose change nobody
\* else's overlapped.
W(u) == Window(task[u])
Own(u) == W(u) /\ task[u].clean
Unread(u) == task[u].at \in {"changed", "read", "save"}

\* One window at most is clean, and then it is the only one; what its handler
\* has read is what the object still holds.
WindowsOK ==
  /\ \A u \in Users : W(u) => task[u].ch \in Object
  /\ \A u, v \in Users : Own(u) /\ W(v) => u = v
  /\ \A u \in Users : Own(u) /\ task[u].at \in {"read", "save"}
                        => task[u].snap = Saved(obj[task[u].ch])

\* What a restart ends with, of the rows s.
Back(s, r) ==
  \E n \in Spelling : /\ s[n] # None /\ s[n] = r
                      /\ \A p \in Spelling : s[p] # None => p <= n

\* The store holds what was last announced until a clean window's Upsert, then
\* what will be; and windows that overlapped do not end before they have stored.
StoreOK ==
  /\ (\A u \in Users : W(u) => Own(u) /\ Unread(u)) => Back(store, told)
  /\ (\A u \in Users : ~W(u)) => told = Saved(Channel)
  /\ \A u \in Users : Own(u) /\ At(u, "tell") =>
       task[u].ch = current /\ Back(store, task[u].snap) /\ task[u].snap = Saved(Channel)
  /\ (\E u \in Users : W(u)) /\ (\A u \in Users : ~Own(u))
       => \E u \in Users : Unread(u)

AnnouncedInv == WindowsOK /\ (current = 0 => loose) /\ (~loose => StoreOK)

-----------------------------------------------------------------------------
(* Steps outside the windows. *)
\* Both outside, or the same window.
Alike(s, t) ==
  \/ ~Window(s) /\ ~Window(t)
  \/ s.at = t.at /\ s.ch = t.ch /\ s.snap = t.snap /\ s.clean = t.clean

\* A step that leaves the windows and what is saved of each object.
LEMMA Quiet ==
  ASSUME ShapeOK, AnnouncedInv, UNCHANGED <<current, store, told, loose>>,
         \A p \in Object : Saved(obj'[p]) = Saved(obj[p]),
         \A v \in Users : Alike(task'[v], task[v])
  PROVE  AnnouncedInv'
<1>1. \A v \in Users : /\ W(v)' <=> W(v)
                       /\ W(v) => /\ task'[v].at = task[v].at /\ task'[v].ch = task[v].ch
                                  /\ task'[v].snap = task[v].snap
                                  /\ task'[v].clean = task[v].clean
  BY DEF Alike, W, Window
<1>2. \A v \in Users : (Own(v)' <=> Own(v)) /\ (Unread(v)' <=> Unread(v))
  <2> TAKE v \in Users
  <2>1. CASE W(v)
    BY <1>1, <2>1, Zenon DEF Own, Unread
  <2>2. CASE ~W(v)
    BY <1>1, <2>2 DEF Own, Unread, W, Window
  <2> QED BY <2>1, <2>2
<1>3. WindowsOK'
  <2>1. \A v \in Users : W(v)' => (task[v].ch)' \in Object
    BY <1>1 DEF AnnouncedInv, WindowsOK
  <2>2. \A v, w \in Users : Own(v)' /\ W(w)' => v = w
    BY <1>1, <1>2 DEF AnnouncedInv, WindowsOK
  <2>3. \A v \in Users : Own(v)' /\ task'[v].at \in {"read", "save"}
                           => task'[v].snap = Saved(obj'[task'[v].ch])
    BY <1>1, <1>2 DEF AnnouncedInv, WindowsOK, Own
  <2> QED BY <2>1, <2>2, <2>3 DEF WindowsOK
<1>4. (current = 0 => loose)'
  BY DEF AnnouncedInv
<1>5. ASSUME ~loose PROVE StoreOK'
  <2>1. StoreOK /\ current # 0
    BY <1>5 DEF AnnouncedInv
  <2>2. Saved(Channel)' = Saved(Channel)
    BY <2>1 DEF ShapeOK, Channel
  <2>3. ((\A v \in Users : W(v) => Own(v) /\ Unread(v)) => Back(store, told))'
    BY <1>1, <1>2, <2>1 DEF StoreOK
  <2>4. ((\A v \in Users : ~W(v)) => told = Saved(Channel))'
    BY <1>1, <2>1, <2>2 DEF StoreOK
  <2>5. ASSUME NEW v \in Users, (Own(v) /\ At(v, "tell"))'
        PROVE  (/\ task[v].ch = current /\ Back(store, task[v].snap)
                /\ task[v].snap = Saved(Channel))'
    BY <1>1, <1>2, <2>1, <2>2, <2>5 DEF StoreOK, At, Own
  <2>6. ((\E v \in Users : W(v)) /\ (\A v \in Users : ~Own(v))
           => \E v \in Users : Unread(v))'
    BY <1>1, <1>2, <2>1 DEF StoreOK
  <2> QED BY <2>3, <2>4, <2>5, <2>6 DEF StoreOK
<1> QED BY <1>3, <1>4, <1>5 DEF AnnouncedInv

\* A step after which nothing is claimed of the store.
LEMMA Loosened ==
  ASSUME AnnouncedInv, loose',
         \A v \in Users : W(v)' =>
           /\ W(v) /\ task'[v].at = task[v].at /\ task'[v].ch = task[v].ch
           /\ task'[v].snap = task[v].snap
           /\ task'[v].clean => /\ task[v].clean
                                /\ Saved(obj'[task[v].ch]) = Saved(obj[task[v].ch])
  PROVE  AnnouncedInv'
<1>1. \A v \in Users : Own(v)' => Own(v)
  BY DEF Own
<1>2. \A v \in Users : W(v)' => (task[v].ch)' \in Object
  BY DEF AnnouncedInv, WindowsOK
<1>3. \A v, w \in Users : Own(v)' /\ W(w)' => v = w
  BY <1>1 DEF AnnouncedInv, WindowsOK
<1>4. \A v \in Users : Own(v)' /\ task'[v].at \in {"read", "save"}
                         => task'[v].snap = Saved(obj'[task'[v].ch])
  BY <1>1 DEF AnnouncedInv, WindowsOK, Own
<1> QED BY <1>2, <1>3, <1>4 DEF AnnouncedInv, WindowsOK

\* Putting an object keeps the windows of the tasks that are given with it.
LEMMA PutSame ==
  ASSUME ShapeOK, NEW o, NEW c, NEW tasks \in [Users -> Task], Put(o, c, tasks)
  PROVE  /\ \A v \in Users : /\ task'[v].at = tasks[v].at /\ task'[v].ch = tasks[v].ch
                             /\ task'[v].snap = tasks[v].snap
                             /\ task'[v].clean = tasks[v].clean
         /\ \A p \in Object : obj'[p] = IF p = o THEN c ELSE obj[p]
<1>1. ASSUME NEW v \in Users
      PROVE  /\ task'[v].at = tasks[v].at /\ task'[v].ch = tasks[v].ch
             /\ task'[v].snap = tasks[v].snap /\ task'[v].clean = tasks[v].clean
  <2>1. CASE o # current
    BY <2>1 DEF Put
  <2>2. CASE o = current
    BY <2>2 DEF Put, Task
  <2> QED BY <2>1, <2>2
<1>2. \A p \in Object : obj'[p] = IF p = o THEN c ELSE obj[p]
  BY DEF Put, ShapeOK
<1> QED BY <1>1, <1>2

\* One handler moves outside the windows, perhaps with an object whose saved
\* part stays.
LEMMA QuietPut ==
  ASSUME ShapeOK, AnnouncedInv, UNCHANGED <<current, store, told, loose>>,
         NEW u \in Users, NEW t \in Task, ~W(u), ~Window(t), NEW o, NEW c,
         Put(o, c, [task EXCEPT ![u] = t]), o \in Object => Saved(c) = Saved(obj[o])
  PROVE  AnnouncedInv'
<1> DEFINE T == [task EXCEPT ![u] = t]
<1>1. T \in [Users -> Task] /\ \A v \in Users : T[v] = IF v = u THEN t ELSE task[v]
  BY DEF ShapeOK
<1>p. Put(o, c, T)
  OBVIOUS
<1> HIDE DEF T
<1>2. /\ \A v \in Users : /\ task'[v].at = T[v].at /\ task'[v].ch = T[v].ch
                          /\ task'[v].snap = T[v].snap /\ task'[v].clean = T[v].clean
      /\ \A p \in Object : obj'[p] = IF p = o THEN c ELSE obj[p]
  BY <1>1, <1>p, PutSame
<1>3. \A v \in Users : Alike(task'[v], task[v])
  BY <1>1, <1>2 DEF Alike, W, Window
<1> QED BY <1>2, <1>3, Quiet

LEMMA QuietMove ==
  ASSUME ShapeOK, AnnouncedInv, UNCHANGED <<obj, current, store, told, loose>>,
         NEW u \in Users, NEW t, ~W(u), ~Window(t), task' = [task EXCEPT ![u] = t]
  PROVE  AnnouncedInv'
<1>1. \A v \in Users : Alike(task'[v], task[v])
  BY DEF Alike, W, ShapeOK
<1> QED BY <1>1, Quiet

LEMMA IdleQuiet == ~Window(Idle)
BY IdleShape DEF Window

LEMMA BeginQuiet ==
  ASSUME ShapeOK, AnnouncedInv, NEW u \in Users,
         \/ \E key \in Keys \cup {None} : Join(u, key)
         \/ \E w \in Users \ {u} : Kick(u, w) \/ Invite(u, w)
         \/ Mode(u) \/ Topic(u)
  PROVE  AnnouncedInv'
<1>1. ASSUME NEW t, Begin(u, t), t.at \in {"door", "enter", "kick", "invite", "apply", "topic"}
      PROVE  AnnouncedInv'
  BY <1>1, QuietMove DEF Begin, W, Window
<1>2. CASE \E key \in Keys \cup {None} : Join(u, key)
  <2>1. PICK key \in Keys \cup {None} : Join(u, key)
    BY <1>2
  <2>2. CASE current = 0
    <3> DEFINE t == [Idle EXCEPT !.at = "enter", !.key = key]
    <3>1. Begin(u, t)
      BY <2>1, <2>2 DEF Join
    <3>2. t.at = "enter"
      BY DEF Idle
    <3> HIDE DEF t
    <3> QED BY <1>1, <3>1, <3>2
  <2>3. CASE current # 0
    <3> DEFINE t == [Idle EXCEPT !.at = "door", !.ch = current, !.key = key,
                       !.snap = Saved(Channel), !.shut = Reasons(Channel, u, key)]
    <3>1. Begin(u, t)
      BY <2>1, <2>3 DEF Join
    <3>2. t.at = "door"
      BY DEF Idle
    <3> HIDE DEF t
    <3> QED BY <1>1, <3>1, <3>2
  <2> QED BY <2>2, <2>3
<1>3. CASE \E w \in Users \ {u} : Kick(u, w)
  <2>1. PICK w \in Users \ {u} : Begin(u, [Idle EXCEPT !.at = "kick", !.target = w])
    BY <1>3 DEF Kick
  <2>2. [Idle EXCEPT !.at = "kick", !.target = w].at = "kick"
    BY DEF Idle
  <2> QED BY <1>1, <2>1, <2>2
<1>4. CASE \E w \in Users \ {u} : Invite(u, w)
  <2>1. PICK w \in Users \ {u} :
          Begin(u, [Idle EXCEPT !.at = "invite", !.ch = current, !.target = w])
    BY <1>4 DEF Invite
  <2>2. [Idle EXCEPT !.at = "invite", !.ch = current, !.target = w].at = "invite"
    BY DEF Idle
  <2> QED BY <1>1, <2>1, <2>2
<1>5. CASE Mode(u) \/ Topic(u)
  <2>1. PICK p \in {"apply", "topic"} : Begin(u, [Idle EXCEPT !.at = p, !.ch = current])
    BY <1>5 DEF Mode, Topic
  <2>2. [Idle EXCEPT !.at = p, !.ch = current].at = p
    BY DEF Idle
  <2> QED BY <1>1, <2>1, <2>2
<1> QED BY <1>2, <1>3, <1>4, <1>5

\* The checks of a JOIN, ChanServ's, and a MODE that changes nothing.
LEMMA ChecksQuiet ==
  ASSUME ShapeOK, AnnouncedInv, NEW u \in Users,
         \/ Room(u) \/ MatchesBan(u) \/ MatchesException(u)
         \/ KeepTopicLooks(u) \/ NoChange(u)
  PROVE  AnnouncedInv'
<1>1. UNCHANGED <<obj, current, store, told, loose>> /\ ~W(u)
  BY DEF Room, MatchesBan, MatchesException, KeepTopicLooks, NoChange, World, Books,
         At, W, Window
<1>2. CASE Done(u)
  BY <1>1, <1>2, IdleQuiet, QuietMove DEF Done
<1>3. ASSUME NEW p \in {"ban", "except", "enter"}, Go(u, p) PROVE AnnouncedInv'
  <2> DEFINE t == [task[u] EXCEPT !.at = p]
  <2>1. t.at = p
    BY DEF ShapeOK, Task
  <2>2. task' = [task EXCEPT ![u] = t]
    BY <1>3 DEF Go
  <2> HIDE DEF t
  <2>3. ~Window(t)
    BY <2>1 DEF Window
  <2> QED BY <1>1, <2>2, <2>3, QuietMove
<1>4. ASSUME NEW row, task' = [task EXCEPT ![u] = [Idle EXCEPT !.at = "restore",
                                                     !.ch = current, !.snap = row]]
      PROVE  AnnouncedInv'
  <2> DEFINE t == [Idle EXCEPT !.at = "restore", !.ch = current, !.snap = row]
  <2>1. t.at = "restore"
    BY DEF Idle
  <2> HIDE DEF t
  <2>2. ~Window(t)
    BY <2>1 DEF Window
  <2> QED BY <1>1, <1>4, <2>2, QuietMove DEF t
<1>5. CASE Room(u)
  BY <1>2, <1>3, <1>5 DEF Room
<1>6. CASE MatchesBan(u)
  BY <1>3, <1>6 DEF MatchesBan
<1>7. CASE MatchesException(u)
  BY <1>2, <1>3, <1>7 DEF MatchesException
<1>8. CASE KeepTopicLooks(u)
  BY <1>2, <1>4, <1>8 DEF KeepTopicLooks
<1>9. CASE NoChange(u)
  BY <1>2, <1>9 DEF NoChange
<1> QED BY <1>5, <1>6, <1>7, <1>8, <1>9

\* Invitations, members and ranks are not saved.
LEMMA UnsavedFields ==
  ASSUME NEW c \in ChannelRecord, NEW x
  PROVE  /\ Saved([c EXCEPT !.invites = x]) = Saved(c)
         /\ Saved([c EXCEPT !.members = x]) = Saved(c)
         /\ Saved([c EXCEPT !.ops = x]) = Saved(c)
         /\ Saved(Out(c, x)) = Saved(c)
<1>1. Saved([c EXCEPT !.invites = x]) = Saved(c)
  BY DEF Saved, ChannelRecord
<1>2. Saved([c EXCEPT !.members = x]) = Saved(c)
  BY DEF Saved, ChannelRecord
<1>3. Saved([c EXCEPT !.ops = x]) = Saved(c)
  BY DEF Saved, ChannelRecord
<1>4. Saved(Out(c, x)) = Saved(c)
  BY DEF Saved, ChannelRecord, Out
<1> QED BY <1>1, <1>2, <1>3, <1>4

LEMMA DoorQuiet ==
  ASSUME ShapeOK, AnnouncedInv, NEW u \in Users, Door(u) PROVE AnnouncedInv'
<1> DEFINE o == task[u].ch
           free == "i" \notin task[u].snap.flags \/ Matches(obj[o], "I", u)
           spends == ~free /\ u \in obj[o].invites
           d == IF spends THEN [obj[o] EXCEPT !.invites = @ \ {u}] ELSE obj[o]
           g == [task[u] EXCEPT !.at = "room", !.shut = @ \ {"i"}]
           t == IF free \/ spends THEN g ELSE Idle
<1>1. Put(o, d, [task EXCEPT ![u] = t])
  BY Zenon DEF Door
<1>2. UNCHANGED <<current, store, told, loose>> /\ ~W(u)
  BY DEF Door, Books, At, W, Window
<1>3. t \in Task /\ ~Window(t)
  <2>1. g \in Task /\ g.at = "room"
    BY DEF ShapeOK, Task, Place
  <2> HIDE DEF g
  <2> QED BY <2>1, IdleShape, IdleQuiet DEF Window
<1>4. o \in Object => Saved(d) = Saved(obj[o])
  BY UnsavedFields DEF ShapeOK
<1> HIDE DEF d, t, o
<1> QED BY <1>1, <1>2, <1>3, <1>4, QuietPut

LEMMA AddInviteQuiet ==
  ASSUME ShapeOK, AnnouncedInv, NEW u \in Users, AddInvite(u) PROVE AnnouncedInv'
<1> DEFINE o == task[u].ch
           d == [obj[o] EXCEPT !.invites = @ \cup {task[u].target}]
<1>1. Put(o, d, [task EXCEPT ![u] = Idle])
  BY DEF AddInvite
<1>2. UNCHANGED <<current, store, told, loose>> /\ ~W(u)
  BY DEF AddInvite, Books, At, W, Window
<1>3. o \in Object => Saved(d) = Saved(obj[o])
  BY UnsavedFields DEF ShapeOK
<1> HIDE DEF d, o
<1> QED BY <1>1, <1>2, <1>3, IdleShape, IdleQuiet, QuietPut

\* Entering a channel that is there; a new one is nobody's announcement.
LEMMA EnterQuiet ==
  ASSUME ShapeOK, AnnouncedInv, NEW u \in Users, NEW given \in Spelling,
         Enter(u, given)
  PROVE  AnnouncedInv'
<1> DEFINE t(name) == [Idle EXCEPT !.at = "chanserv", !.name = name]
<1>1. ASSUME NEW name \in Spelling PROVE t(name) \in Task /\ ~Window(t(name))
  <2>1. t(name) \in Task /\ t(name).at = "chanserv"
    BY IdleShape DEF Task, Place
  <2> HIDE DEF t
  <2> QED BY <2>1 DEF Window
<1> HIDE DEF t
<1>2. ~W(u)
  BY DEF Enter, At, W, Window
<1>3. CASE current # 0
  <2> DEFINE c == [Channel EXCEPT !.members = @ \cup {u}]
             r == IF u \in Channel.members THEN Idle ELSE t(Channel.name)
  <2>1. Channel.name \in Spelling
    BY <1>3 DEF ShapeOK, Channel, ChannelRecord
  <2>2. Put(current, c, [task EXCEPT ![u] = r])
    BY <1>3, Zenon DEF Enter, t
  <2>3. Saved(c) = Saved(obj[current])
    BY <1>3, UnsavedFields DEF ShapeOK, Channel
  <2>4. UNCHANGED <<current, store, told, loose>>
    BY <1>3 DEF Enter
  <2>5. r \in Task /\ ~Window(r)
    BY <1>1, <2>1, IdleShape, IdleQuiet
  <2> HIDE DEF c, r
  <2> QED BY <1>2, <2>2, <2>3, <2>4, <2>5, QuietPut
<1>4. CASE current = 0
  <2>1. PICK o \in Unused : \E c : obj' = [obj EXCEPT ![o] = c]
    BY <1>4 DEF Enter
  <2>2. task' = [task EXCEPT ![u] = t(given)] /\ loose'
    BY <1>4 DEF Enter, t
  <2>3. o \in Object /\ \A v \in Users : task[v].ch # o
    BY DEF Unused
  <2>4. \A v \in Users : W(v)' => W(v) /\ task'[v] = task[v]
    BY <1>1, <1>2, <2>2 DEF W, ShapeOK
  <2>5. \A v \in Users : W(v) => obj'[task[v].ch] = obj[task[v].ch]
    BY <2>1, <2>3 DEF ShapeOK, AnnouncedInv, WindowsOK
  <2> QED BY <2>2, <2>4, <2>5, Loosened
<1> QED BY <1>3, <1>4

LEMMA RankQuiet ==
  ASSUME ShapeOK, AnnouncedInv, NEW u \in Users,
         CheckJoin(u) \/ \E w \in Users, on \in BOOLEAN : SetOperator(u, w, on)
  PROVE  AnnouncedInv'
<1>1. UNCHANGED <<current, store, told, loose>>
  BY DEF CheckJoin, SetOperator, Books
<1>2. \A p \in Object : Saved(obj'[p]) = Saved(obj[p])
  <2>1. CASE obj' = obj
    BY <2>1
  <2>2. ASSUME NEW x, current # 0, obj' = [obj EXCEPT ![current].ops = x]
        PROVE  \A p \in Object : Saved(obj'[p]) = Saved(obj[p])
    <3>1. \A p \in Object :
            obj'[p] = IF p = current THEN [obj[p] EXCEPT !.ops = x] ELSE obj[p]
      BY <2>2 DEF ShapeOK
    <3>2. \A p \in Object : Saved([obj[p] EXCEPT !.ops = x]) = Saved(obj[p])
      BY UnsavedFields DEF ShapeOK
    <3> QED BY <3>1, <3>2
  <2>3. CASE CheckJoin(u)
    BY <2>1, <2>2, <2>3 DEF CheckJoin
  <2>4. CASE \E w \in Users, on \in BOOLEAN : SetOperator(u, w, on)
    BY <2>2, <2>4 DEF SetOperator
  <2> QED BY <2>3, <2>4
<1>3. \A v \in Users : Alike(task'[v], task[v])
  <2>1. CASE CheckJoin(u)
    <3>1. ~W(u)
      BY <2>1 DEF CheckJoin, At, W, Window
    <3>2. \A v \in Users \ {u} : task'[v] = task[v]
      BY <2>1 DEF CheckJoin, Go, Done, ShapeOK
    <3>3. task'[u].at \in {"keep", "idle"}
      BY <2>1, IdleShape DEF CheckJoin, Go, Done, ShapeOK, Task
    <3> QED BY <3>1, <3>2, <3>3 DEF Alike, W, Window
  <2>2. CASE \E w \in Users, on \in BOOLEAN : SetOperator(u, w, on)
    BY <2>2 DEF SetOperator, Alike
  <2> QED BY <2>1, <2>2
<1> QED BY <1>1, <1>2, <1>3, Quiet

LEMMA PartQuiet ==
  ASSUME ShapeOK, AnnouncedInv, NEW w, NEW tasks \in [Users -> Task],
         PartChannel(w, tasks), UNCHANGED <<store, told>>,
         \A v \in Users : Alike(tasks[v], task[v])
  PROVE  AnnouncedInv'
<1>1. CASE task' = tasks /\ UNCHANGED <<obj, current, loose>>
  BY <1>1, Quiet
<1>2. CASE current # 0 /\ obj' = [obj EXCEPT ![current] = Out(Channel, w)]
  <2>1. \A p \in Object : obj'[p] = IF p = current THEN Out(obj[p], w) ELSE obj[p]
    BY <1>2 DEF ShapeOK, Channel
  <2>2. \A p \in Object : Saved(obj'[p]) = Saved(obj[p])
    <3>1. \A p \in Object : Saved(Out(obj[p], w)) = Saved(obj[p])
      BY UnsavedFields DEF ShapeOK
    <3> QED BY <2>1, <3>1
  <2>3. CASE task' = tasks /\ UNCHANGED <<current, loose>>
    BY <2>2, <2>3, Quiet
  <2>4. CASE loose' /\ task' = [v \in Users |-> [tasks[v] EXCEPT !.shut = {}]]
    <3>1. \A v \in Users : /\ task'[v].at = tasks[v].at /\ task'[v].ch = tasks[v].ch
                           /\ task'[v].snap = tasks[v].snap
                           /\ task'[v].clean = tasks[v].clean
      BY <2>4 DEF Task
    <3>2. \A v \in Users : W(v)' =>
            /\ W(v) /\ task'[v].at = task[v].at /\ task'[v].ch = task[v].ch
            /\ task'[v].snap = task[v].snap /\ task'[v].clean = task[v].clean
      BY <3>1 DEF Alike, W, Window
    <3>3. \A v \in Users : W(v) => Saved(obj'[task[v].ch]) = Saved(obj[task[v].ch])
      BY <2>2 DEF AnnouncedInv, WindowsOK
    <3> QED BY <2>4, <3>2, <3>3, Loosened
  <2> QED BY <1>2, <2>3, <2>4 DEF PartChannel, World
<1> QED BY <1>1, <1>2 DEF PartChannel, World

LEMMA PartsQuiet ==
  ASSUME ShapeOK, AnnouncedInv, NEW u \in Users, Part(u) \/ KickActs(u)
  PROVE  AnnouncedInv'
<1>1. CASE Part(u)
  <2>1. PartChannel(u, task) /\ UNCHANGED <<store, told>>
    BY <1>1 DEF Part
  <2> QED BY <2>1, PartQuiet DEF ShapeOK, Alike
<1>2. CASE KickActs(u)
  <2> DEFINE T == [task EXCEPT ![u] = Idle]
  <2>1. PartChannel(task[u].target, T) /\ UNCHANGED <<store, told>>
    BY <1>2 DEF KickActs
  <2>2. T \in [Users -> Task] /\ \A v \in Users : T[v] = IF v = u THEN Idle ELSE task[v]
    BY IdleShape DEF ShapeOK
  <2>3. ~W(u)
    BY <1>2 DEF KickActs, At, W, Window
  <2>4. \A v \in Users : Alike(T[v], task[v])
    BY <2>2, <2>3, IdleQuiet DEF Alike, W
  <2> HIDE DEF T
  <2> QED BY <2>1, <2>2, <2>4, PartQuiet
<1> QED BY <1>1, <1>2

-----------------------------------------------------------------------------
(* Changes and their windows. *)
\* A change without a window of its own makes others' windows unclean.
LEMMA ChangeLoosens ==
  ASSUME ShapeOK, AnnouncedInv, NEW o, NEW c, NEW tasks \in [Users -> Task],
         Change(o, c, tasks), loose', \A v \in Users : Alike(tasks[v], task[v])
  PROVE  AnnouncedInv'
<1> DEFINE b(v) == tasks[v].clean /\ c = obj[o]
           g(v) == [tasks[v] EXCEPT !.clean = b(v)]
           T == [v \in Users |-> g(v)]
<1>1. Put(o, c, T)
  BY Zenon DEF Change
<1>2. ASSUME NEW v \in Users
      PROVE  /\ g(v) \in Task /\ g(v).at = tasks[v].at /\ g(v).ch = tasks[v].ch
             /\ g(v).snap = tasks[v].snap /\ g(v).clean = b(v)
  <2>1. b(v) \in BOOLEAN
    OBVIOUS
  <2> HIDE DEF b
  <2> QED BY <2>1 DEF Task
<1> HIDE DEF g
<1>3. T \in [Users -> Task] /\ \A v \in Users : T[v] = g(v)
  BY <1>2
<1> HIDE DEF T
<1>4. /\ \A v \in Users : /\ task'[v].at = T[v].at /\ task'[v].ch = T[v].ch
                          /\ task'[v].snap = T[v].snap /\ task'[v].clean = T[v].clean
      /\ \A p \in Object : obj'[p] = IF p = o THEN c ELSE obj[p]
  BY <1>1, <1>3, PutSame
<1>5. ASSUME NEW v \in Users, W(v)'
      PROVE  /\ W(v) /\ task'[v].at = task[v].at /\ task'[v].ch = task[v].ch
             /\ task'[v].snap = task[v].snap
             /\ task'[v].clean => task[v].clean /\ c = obj[o]
  <2>1. /\ task'[v].at = tasks[v].at /\ task'[v].ch = tasks[v].ch
        /\ task'[v].snap = tasks[v].snap /\ task'[v].clean = b(v)
    BY <1>2, <1>3, <1>4
  <2>2. Window(tasks[v])
    BY <1>5, <2>1 DEF W, Window
  <2>3. /\ tasks[v].at = task[v].at /\ tasks[v].ch = task[v].ch
        /\ tasks[v].snap = task[v].snap /\ tasks[v].clean = task[v].clean
    BY <2>2 DEF Alike
  <2>4. W(v)
    BY <2>2, <2>3 DEF W, Window
  <2> QED BY <2>1, <2>3, <2>4
<1>6. ASSUME NEW v \in Users, W(v), c = obj[o]
      PROVE  Saved(obj'[task[v].ch]) = Saved(obj[task[v].ch])
  BY <1>4, <1>6 DEF AnnouncedInv, WindowsOK
<1> QED BY <1>5, <1>6, Loosened

\* Peers' changes and KEEPTOPIC's.
LEMMA OthersLoosen ==
  ASSUME ShapeOK, AnnouncedInv,
         \/ \E u \in Users : KeepTopicSets(u)
         \/ \E text \in Topics \cup {None} : RemoteTopic(text)
         \/ \E m \in Changes : RemoteMode(m)
  PROVE  AnnouncedInv'
<1>1. CASE \E u \in Users : KeepTopicSets(u)
  <2>1. PICK u \in Users : KeepTopicSets(u)
    BY <1>1
  <2> DEFINE o == task[u].ch
             c == [obj[o] EXCEPT !.topic = task[u].snap.topic]
             T == [task EXCEPT ![u] = Idle]
  <2>2. Change(o, c, T) /\ loose'
    BY <2>1 DEF KeepTopicSets
  <2>3. T \in [Users -> Task] /\ \A v \in Users : T[v] = IF v = u THEN Idle ELSE task[v]
    BY IdleShape DEF ShapeOK
  <2>4. ~W(u)
    BY <2>1 DEF KeepTopicSets, At, W, Window
  <2>5. \A v \in Users : Alike(T[v], task[v])
    BY <2>3, <2>4, IdleQuiet DEF Alike, W
  <2> HIDE DEF o, c, T
  <2> QED BY <2>2, <2>3, <2>5, ChangeLoosens
<1>2. ASSUME NEW c, Remote(c) PROVE AnnouncedInv'
  <2>1. Change(current, c, task) /\ loose'
    BY <1>2 DEF Remote
  <2> QED BY <2>1, ChangeLoosens DEF ShapeOK, Alike
<1>3. CASE \E text \in Topics \cup {None} : RemoteTopic(text)
  BY <1>2, <1>3 DEF RemoteTopic
<1>4. CASE \E m \in Changes : RemoteMode(m)
  BY <1>2, <1>4 DEF RemoteMode
<1> QED BY <1>1, <1>3, <1>4

\* MODE and TOPIC: the handler's window is clean if it is the only one; every
\* other is not, from now on.
LEMMA OwnChangeOpens ==
  ASSUME ShapeOK, AnnouncedInv, UNCHANGED <<current, store, told, loose>>,
         NEW u \in Users, NEW c, OwnChange(u, c, "changed"), task[u].ch \in Object,
         task[u].at \in {"apply", "topic", "changed"}
  PROVE  AnnouncedInv'
<1> DEFINE alone == \A v \in Users \ {u} : ~Window(task[v])
           mine == IF Window(task[u]) THEN task[u].clean ELSE alone
           g == [task[u] EXCEPT !.at = "changed", !.clean = mine]
           h(v) == [task[v] EXCEPT !.clean = FALSE]
           T == [v \in Users |-> IF v = u THEN g ELSE h(v)]
<1>1. Put(task[u].ch, c, T)
  BY Zenon DEF OwnChange
<1>2. mine \in BOOLEAN
  BY DEF ShapeOK, Task
<1>3. mine => \A v \in Users : v # u => ~W(v)
  BY DEF AnnouncedInv, WindowsOK, Own, W
<1>4. mine /\ W(u) => Own(u) /\ task[u].at = "changed"
  BY DEF Own, W, Window
<1> HIDE DEF mine
<1>5. g \in Task /\ g.at = "changed" /\ g.ch = task[u].ch /\ g.clean = mine
  BY <1>2 DEF ShapeOK, Task, Place
<1>6. \A v \in Users : /\ h(v) \in Task /\ h(v).at = task[v].at /\ h(v).ch = task[v].ch
                       /\ h(v).clean = FALSE
  BY DEF ShapeOK, Task
<1> HIDE DEF g, h
<1>7. T \in [Users -> Task] /\ \A v \in Users : T[v] = IF v = u THEN g ELSE h(v)
  BY <1>5, <1>6
<1> HIDE DEF T
<1>8. \A v \in Users : /\ task'[v].at = T[v].at /\ task'[v].ch = T[v].ch
                       /\ task'[v].clean = T[v].clean
  BY <1>1, <1>7, PutSame
<1>9. task'[u].at = "changed" /\ task'[u].ch \in Object /\ task'[u].clean = mine
  BY <1>5, <1>7, <1>8
<1>10. \A v \in Users : v # u =>
         task'[v].at = task[v].at /\ task'[v].ch = task[v].ch /\ ~task'[v].clean
  BY <1>6, <1>7, <1>8
<1>11. WindowsOK'
  <2>1. \A v \in Users : W(v)' => task'[v].ch \in Object
    BY <1>9, <1>10 DEF AnnouncedInv, WindowsOK, W, Window
  <2>2. \A v \in Users : Own(v)' => v = u /\ mine
    BY <1>9, <1>10 DEF Own
  <2>3. \A v, w \in Users : Own(v)' /\ W(w)' => v = w
    BY <1>3, <1>10, <2>2 DEF W, Window
  <2>4. \A v \in Users : ~(Own(v)' /\ task'[v].at \in {"read", "save"})
    BY <1>9, <2>2
  <2> QED BY <2>1, <2>3, <2>4 DEF WindowsOK
<1>12. ASSUME ~loose PROVE StoreOK'
  <2>1. StoreOK
    BY <1>12 DEF AnnouncedInv
  <2>2. W(u)' /\ Unread(u)'
    BY <1>9 DEF W, Window, Unread
  <2>3. mine => Back(store, told)
    <3>1. CASE W(u)
      BY <1>3, <1>4, <2>1, <3>1 DEF StoreOK, Unread
    <3>2. CASE ~W(u)
      BY <1>3, <2>1, <3>2 DEF StoreOK
    <3> QED BY <3>1, <3>2
  <2>4. ((\A v \in Users : W(v) => Own(v) /\ Unread(v)) => Back(store, told))'
    BY <1>9, <2>2, <2>3 DEF Own
  <2>5. ~(\A v \in Users : ~W(v))'
    BY <2>2
  <2>6. \A v \in Users : ~(Own(v) /\ At(v, "tell"))'
    BY <1>9, <1>10 DEF Own, At
  <2>7. (\E v \in Users : Unread(v))'
    BY <2>2
  <2> QED BY <2>4, <2>5, <2>6, <2>7 DEF StoreOK
<1> QED BY <1>11, <1>12 DEF AnnouncedInv

-----------------------------------------------------------------------------
(* persistChannel, the announcement, and a crash. *)
\* The second reading completes the first: nothing changed in a clean window.
LEMMA ReadsKeep ==
  ASSUME ShapeOK, AnnouncedInv, NEW u \in Users, ReadModes(u) \/ ReadRest(u)
  PROVE  AnnouncedInv'
<1>1. UNCHANGED <<obj, current, store, told, loose>>
  BY DEF ReadModes, ReadRest, World, Books
<1>2. \A v \in Users : v # u => task'[v] = task[v]
  BY DEF ReadModes, ReadRest, ShapeOK
<1>3. /\ task[u].at \in {"changed", "read"} /\ task'[u].at \in {"read", "save"}
      /\ task'[u].ch = task[u].ch /\ task'[u].clean = task[u].clean
  BY DEF ReadModes, ReadRest, At, ShapeOK, Task
<1>4. Own(u) => task'[u].snap = Saved(obj[task[u].ch])
  <2>1. CASE ReadModes(u)
    BY <2>1 DEF ReadModes, ShapeOK, Task
  <2>2. CASE ReadRest(u)
    <3> DEFINE r == Saved(obj[task[u].ch])
    <3>1. task'[u].snap = [r EXCEPT !.flags = task[u].snap.flags]
      BY <2>2 DEF ReadRest, ShapeOK, Task
    <3>2. Own(u) => task[u].snap = r
      BY <2>2 DEF ReadRest, At, AnnouncedInv, WindowsOK
    <3>3. [r EXCEPT !.flags = r.flags] = r
      BY DEF Saved
    <3> HIDE DEF r
    <3>4. Own(u) => task'[u].snap = r
      BY <3>1, <3>2, <3>3
    <3> QED BY <3>4 DEF r
  <2> QED BY <2>1, <2>2
<1>5. \A v \in Users : /\ W(v)' <=> W(v)
                       /\ Own(v)' <=> Own(v)
                       /\ Unread(v)' <=> Unread(v)
                       /\ At(v, "tell")' <=> At(v, "tell")
  BY <1>2, <1>3, Zenon DEF W, Window, Own, Unread, At
<1>6. \A v \in Users : task'[v].ch = task[v].ch
  BY <1>2, <1>3
<1>7. WindowsOK'
  <2>1. \A v \in Users : W(v)' => task'[v].ch \in Object
    BY <1>5, <1>6 DEF AnnouncedInv, WindowsOK
  <2>2. \A v, w \in Users : Own(v)' /\ W(w)' => v = w
    BY <1>5 DEF AnnouncedInv, WindowsOK
  <2>3. \A v \in Users : Own(v)' /\ task'[v].at \in {"read", "save"}
                           => task'[v].snap = Saved(obj'[task'[v].ch])
    BY <1>1, <1>2, <1>4, <1>5, <1>6 DEF AnnouncedInv, WindowsOK
  <2> QED BY <2>1, <2>2, <2>3 DEF WindowsOK
<1>8. ASSUME ~loose PROVE StoreOK'
  <2>1. StoreOK
    BY <1>8 DEF AnnouncedInv
  <2>2. Saved(Channel)' = Saved(Channel)
    BY <1>1 DEF Channel
  <2>3. ((\A v \in Users : W(v) => Own(v) /\ Unread(v)) => Back(store, told))'
    BY <1>1, <1>5, <2>1 DEF StoreOK
  <2>4. ((\A v \in Users : ~W(v)) => told = Saved(Channel))'
    BY <1>1, <1>5, <2>1, <2>2 DEF StoreOK
  <2>5. ASSUME NEW v \in Users, Own(v)', At(v, "tell")'
        PROVE  /\ task'[v].ch = current' /\ Back(store', task'[v].snap)
               /\ task'[v].snap = Saved(Channel)'
    <3>1. v # u
      BY <1>3, <2>5 DEF At
    <3> QED BY <1>1, <1>2, <1>5, <2>1, <2>2, <2>5, <3>1 DEF StoreOK
  <2>6. ((\E v \in Users : W(v)) /\ (\A v \in Users : ~Own(v))
           => \E v \in Users : Unread(v))'
    BY <1>5, <2>1 DEF StoreOK
  <2> QED BY <2>3, <2>4, <2>5, <2>6 DEF StoreOK
<1> QED BY <1>1, <1>7, <1>8 DEF AnnouncedInv

\* Upsert ends what is unread.  It is good only at the end of a clean window on
\* the object in the table, and then the row holds what that object holds.
LEMMA UpsertKeeps ==
  ASSUME ShapeOK, AnnouncedInv, NEW u \in Users, NEW ok \in BOOLEAN, Upsert(u, ok)
  PROVE  AnnouncedInv'
<1> DEFINE name == obj[task[u].ch].name
           good == /\ ok /\ task[u].clean /\ task[u].ch = current
                   /\ \A p \in Spelling : p > name => store[p] = None
<1>1. UNCHANGED <<obj, current, told>> /\ At(u, "save")
  BY DEF Upsert, World
<1>2. store' = IF ok THEN [store EXCEPT ![name] = task[u].snap] ELSE store
  BY DEF Upsert
<1>3. loose' = ~good
  BY DEF Upsert
<1>4. \A v \in Users : v # u => task'[v] = task[v]
  BY DEF Upsert, ShapeOK
<1>5. task' = [task EXCEPT ![u].at = "tell", ![u].clean = good]
  BY DEF Upsert
<1>6. task'[u].at = "tell" /\ task'[u].ch = task[u].ch /\ task'[u].snap = task[u].snap
  BY <1>5 DEF ShapeOK, Task
<1>7. task'[u].clean = good
  <2>1. good \in BOOLEAN
    OBVIOUS
  <2> HIDE DEF good
  <2> QED BY <1>5, <2>1 DEF ShapeOK, Task
<1>8. W(u) /\ (good => Own(u))
  BY <1>1 DEF Own, W, Window, At
<1>9. \A v \in Users : v # u => (W(v)' <=> W(v)) /\ (Own(v)' <=> Own(v))
  BY <1>4, Zenon DEF W, Own
<1>10. WindowsOK'
  <2>1. \A v \in Users : W(v)' => task'[v].ch \in Object
    BY <1>4, <1>6, <1>8, <1>9 DEF AnnouncedInv, WindowsOK
  <2>2. Own(u)' => Own(u)
    BY <1>7, <1>8 DEF Own
  <2>3. \A v, w \in Users : Own(v)' /\ W(w)' => v = w
    BY <1>8, <1>9, <2>2 DEF AnnouncedInv, WindowsOK
  <2>4. \A v \in Users : Own(v)' /\ task'[v].at \in {"read", "save"}
                           => task'[v].snap = Saved(obj'[task'[v].ch])
    BY <1>1, <1>4, <1>6, <1>9 DEF AnnouncedInv, WindowsOK
  <2> QED BY <2>1, <2>3, <2>4 DEF WindowsOK
<1>11. current = 0 => ~good
  BY <1>8 DEF AnnouncedInv, WindowsOK, Object
<1>12. ASSUME good PROVE StoreOK'
  <2>1. \A v \in Users : v # u => ~W(v)
    BY <1>8, <1>12 DEF AnnouncedInv, WindowsOK
  <2>2. task[u].snap = Saved(Channel)
    BY <1>1, <1>8, <1>12 DEF AnnouncedInv, WindowsOK, At, Channel
  <2>3. Back(store', task[u].snap) /\ Saved(Channel)' = Saved(Channel)
    <3>1. task[u].ch \in Object /\ task[u].snap \in SavedRecord
      BY <1>8 DEF AnnouncedInv, WindowsOK, ShapeOK, Task
    <3>2. name \in Spelling
      BY <3>1 DEF ShapeOK, ChannelRecord
    <3>3. store' \in [Spelling -> SavedRecord \cup {None}]
          /\ \A p \in Spelling : store'[p] = IF p = name THEN task[u].snap ELSE store[p]
      BY <1>2, <1>12, <3>1, <3>2 DEF ShapeOK
    <3>4. \A p \in Spelling : p > name => store[p] = None
      BY <1>12
    <3>5. task[u].snap # None
      BY <3>1, ChannelAssumption
    <3> HIDE DEF name
    <3>6. \A p \in Spelling : store'[p] # None => p <= name
      BY <3>2, <3>3, <3>4 DEF Spelling
    <3>7. Back(store', task[u].snap)
      BY <3>2, <3>3, <3>5, <3>6 DEF Back
    <3> QED BY <1>1, <3>7 DEF Channel
  <2>4. W(u)' /\ Own(u)' /\ ~Unread(u)'
    BY <1>6, <1>7, <1>12 DEF W, Window, Own, Unread
  <2>5. ((\A v \in Users : W(v) => Own(v) /\ Unread(v)) => Back(store, told))'
    BY <2>4
  <2>6. ((\A v \in Users : ~W(v)) => told = Saved(Channel))'
    BY <2>4
  <2>7. ASSUME NEW v \in Users, Own(v)', At(v, "tell")'
        PROVE  /\ task'[v].ch = current' /\ Back(store', task'[v].snap)
               /\ task'[v].snap = Saved(Channel)'
    <3>1. v = u
      BY <1>9, <2>1, <2>7 DEF Own
    <3> QED BY <1>1, <1>6, <1>12, <2>2, <2>3, <3>1
  <2>8. ~(\A v \in Users : ~Own(v))'
    BY <2>4
  <2> QED BY <2>5, <2>6, <2>7, <2>8 DEF StoreOK
<1> HIDE DEF good
<1> QED BY <1>1, <1>3, <1>10, <1>11, <1>12 DEF AnnouncedInv

\* The announcement: the last window to close is a clean one, or nothing is
\* claimed of the store.
LEMMA TellKeeps ==
  ASSUME ShapeOK, AnnouncedInv, NEW u \in Users, Tell(u) PROVE AnnouncedInv'
<1>1. UNCHANGED <<obj, current, store, loose>> /\ At(u, "tell") /\ W(u)
  BY DEF Tell, World, At, W, Window
<1>2. told' = IF task[u].clean /\ task[u].ch = current THEN task[u].snap ELSE told
  BY DEF Tell
<1>3. \A v \in Users : v # u => task'[v] = task[v]
  BY DEF Tell, Done, ShapeOK
<1>4. ~W(u)'
  BY IdleQuiet DEF Tell, Done, ShapeOK, W
<1>5. \A v \in Users : v # u => /\ W(v)' <=> W(v)
                                /\ Own(v)' <=> Own(v)
                                /\ Unread(v)' <=> Unread(v)
  BY <1>3, Zenon DEF W, Own, Unread
<1>6. ~Own(u)'
  BY <1>4 DEF Own
<1>7. ~Unread(u) /\ \A v \in Users : Unread(v) => W(v)
  BY <1>1 DEF At, Unread, W, Window
<1>8. \A v \in Users : Own(v) => v = u
  BY <1>1 DEF AnnouncedInv, WindowsOK
<1>9. WindowsOK'
  <2>1. \A v \in Users : W(v)' => task'[v].ch \in Object
    BY <1>3, <1>4, <1>5 DEF AnnouncedInv, WindowsOK
  <2>2. \A v \in Users : ~Own(v)'
    BY <1>5, <1>6, <1>8
  <2> QED BY <2>1, <2>2 DEF WindowsOK
<1>10. ASSUME ~loose PROVE StoreOK'
  <2>1. StoreOK
    BY <1>10 DEF AnnouncedInv
  <2>2. Saved(Channel)' = Saved(Channel)
    BY <1>1 DEF Channel
  <2>3. CASE Own(u)
    <3>1. \A v \in Users : ~W(v)'
      BY <1>4, <1>5, <2>3 DEF AnnouncedInv, WindowsOK
    <3>2. Back(store', told') /\ told' = Saved(Channel)'
      BY <1>1, <1>2, <2>1, <2>2, <2>3 DEF StoreOK, Own
    <3>3. \A v \in Users : ~Own(v)'
      BY <3>1 DEF Own
    <3> QED BY <3>1, <3>2, <3>3 DEF StoreOK
  <2>4. CASE ~Own(u)
    <3>1. PICK w \in Users : Unread(w)
      BY <1>1, <1>8, <2>1, <2>4 DEF StoreOK
    <3>2. W(w)' /\ Unread(w)'
      BY <1>5, <1>7, <3>1
    <3>3. \A v \in Users : ~Own(v)'
      BY <1>5, <1>6, <1>8
    <3> QED BY <3>2, <3>3 DEF StoreOK
  <2> QED BY <2>3, <2>4
<1> QED BY <1>1, <1>9, <1>10 DEF AnnouncedInv

\* A crash at any step: what is read back is what was announced, unless it may
\* already be what was about to be.
LEMMA CrashKeeps == ASSUME ShapeOK, AnnouncedInv, Restart PROVE AnnouncedInv'
<1> DEFINE unsure == loose \/ \E u \in Users : W(u) /\ (At(u, "tell") \/ ~task[u].clean)
<1>1. store' = store
  BY DEF Restart
<1>2. \A u \in Users : ~W(u)'
  BY IdleQuiet DEF Restart, W
<1>3. WindowsOK'
  BY <1>2 DEF WindowsOK, Own
<1>4. CASE loose'
  BY <1>3, <1>4 DEF AnnouncedInv
<1>5. CASE ~loose'
  <2>1. PICK first, last \in Spelling :
          /\ LastRow(last) /\ current' = 1
          /\ obj' = [o \in Object |-> IF o = 1 THEN RestoreState(first, store[last])
                                      ELSE NewChannel(1)]
          /\ told' = IF unsure THEN store[last] ELSE told
    BY <1>5, Zenon DEF Restart, W
  <2>2. store[last] \in SavedRecord
    BY <2>1 DEF LastRow, ShapeOK
  <2>3. told' = store[last]
    <3>1. CASE unsure
      BY <2>1, <3>1
    <3>2. CASE ~unsure
      <4>1. \A u \in Users : W(u) => Own(u) /\ Unread(u)
        BY <3>2 DEF W, Window, Own, Unread, At
      <4>2. Back(store, told)
        BY <3>2, <4>1 DEF AnnouncedInv, StoreOK
      <4>3. PICK n \in Spelling : /\ store[n] # None /\ store[n] = told
                                 /\ \A p \in Spelling : store[p] # None => p <= n
        BY <4>2 DEF Back
      <4>4. n <= last /\ last <= n
        BY <2>1, <4>3 DEF LastRow
      <4>5. n = last
        BY <4>4, <2>1 DEF Spelling
      <4> QED BY <2>1, <3>2, <4>3, <4>5
    <3> QED BY <3>1, <3>2
  <2>4. Back(store', told')
    BY <1>1, <2>1, <2>3 DEF LastRow, Back
  <2>5. Saved(Channel)' = store[last]
    <3>1. Saved(RestoreState(first, store[last])) = store[last]
      BY <2>2 DEF Saved, RestoreState, NewChannel, SavedRecord
    <3>2. obj'[1] = RestoreState(first, store[last])
      BY <2>1, ChannelAssumption DEF Object
    <3> QED BY <2>1, <3>1, <3>2 DEF Channel
  <2>6. \A u \in Users : ~Own(u)'
    BY <1>2 DEF Own
  <2>7. StoreOK'
    BY <1>2, <2>3, <2>4, <2>5, <2>6 DEF StoreOK
  <2> QED BY <1>3, <2>1, <2>7 DEF AnnouncedInv
<1> QED BY <1>4, <1>5

LEMMA AnnouncedStep ==
  ASSUME DoorsInv, AnnouncedInv, [Next]_vars PROVE AnnouncedInv'
<1> USE DEF DoorsInv
<1>1. ASSUME NEW u \in Users, Handler(u) PROVE AnnouncedInv'
  <2>1. CASE \/ \E key \in Keys \cup {None} : Join(u, key)
             \/ \E w \in Users \ {u} : Kick(u, w) \/ Invite(u, w)
             \/ Mode(u) \/ Topic(u)
    BY <2>1, BeginQuiet
  <2>2. CASE \/ Room(u) \/ MatchesBan(u) \/ MatchesException(u)
             \/ KeepTopicLooks(u) \/ NoChange(u)
    BY <2>2, ChecksQuiet
  <2>3. CASE Door(u) \/ AddInvite(u) \/ \E name \in Spelling : Enter(u, name)
    BY <2>3, DoorQuiet, AddInviteQuiet, EnterQuiet
  <2>4. CASE CheckJoin(u) \/ \E w \in Users, on \in BOOLEAN : SetOperator(u, w, on)
    BY <2>4, RankQuiet
  <2>5. CASE Part(u) \/ KickActs(u)
    BY <2>5, PartsQuiet
  <2>6. CASE KeepTopicSets(u)
    BY <2>6, OthersLoosen
  <2>7. CASE \/ \E m \in Changes : Apply(u, m)
             \/ \E text \in Topics \cup {None} : SetTopic(u, text)
    <3>1. UNCHANGED <<current, store, told, loose>>
      BY <2>7 DEF Apply, SetTopic, Books
    <3>2. task[u].at \in {"apply", "topic", "changed"}
      BY <2>7 DEF Apply, SetTopic, At
    <3>3. task[u].ch \in Object
      BY <3>2 DEF Remembered, Passed, Changing
    <3>4. \E c : OwnChange(u, c, "changed")
      BY <2>7 DEF Apply, SetTopic
    <3> QED BY <3>1, <3>2, <3>3, <3>4, OwnChangeOpens
  <2>8. CASE ReadModes(u) \/ ReadRest(u)
    BY <2>8, ReadsKeep
  <2>9. CASE Tell(u) \/ \E ok \in BOOLEAN : Upsert(u, ok)
    BY <2>9, TellKeeps, UpsertKeeps
  <2> QED BY <1>1, <2>1, <2>2, <2>3, <2>4, <2>5, <2>6, <2>7, <2>8, <2>9 DEF Handler
<1>2. CASE \/ \E text \in Topics \cup {None} : RemoteTopic(text)
           \/ \E m \in Changes : RemoteMode(m)
  BY <1>2, OthersLoosen
<1>3. CASE Restart
  BY <1>3, CrashKeeps
<1>4. CASE UNCHANGED vars
  BY <1>4, Quiet DEF vars, Alike
<1> QED BY <1>1, <1>2, <1>3, <1>4 DEF Next

\* handler_mode.go:91 and handler_channels.go:606, with persistChannel and
\* restorePersistentChannels: for any users and changes, and crashes between any
\* two steps, a channel that no change is under way for is as announced last,
\* where nothing that the store does not follow has intervened.
THEOREM AnnouncedHoldsAlways == Spec => []AnnouncedHolds
<1>1. Init => DoorsInv /\ AnnouncedInv
  <2> SUFFICES ASSUME Init PROVE DoorsInv /\ AnnouncedInv
    OBVIOUS
  <2>1. \A u \in Users : ~W(u)
    BY IdleQuiet DEF Init, W
  <2>2. loose
    BY DEF Init
  <2> QED BY <2>1, <2>2, DoorsInit DEF AnnouncedInv, WindowsOK, Own
<1>2. DoorsInv /\ AnnouncedInv /\ [Next]_vars => (DoorsInv /\ AnnouncedInv)'
  BY DoorsStep, AnnouncedStep
<1>3. AnnouncedInv => AnnouncedHolds
  BY DEF AnnouncedInv, StoreOK, AnnouncedHolds, W
<1> QED BY <1>1, <1>2, <1>3, PTL DEF Spec

(***************************************************************************)
(* Then the masks.  globMatch goes back to the last star only, and gives   *)
(* up when that one has had every length; an older star could still take   *)
(* more.  It never has to: what an older star could take, the last one     *)
(* finds too.  The recursion need not end for its function to exist        *)
(* (Reaching), and it is unfolded by induction on how far the last star    *)
(* is, how much it has taken and how much of the text is left.             *)
(***************************************************************************)

\* A set of numbers has a least one.
LEMMA Least ==
  ASSUME NEW T, T \subseteq Nat, T # {}
  PROVE  \E x \in T : \A y \in T : ~(y < x)
<1>1. IsWellFoundedOn(OpToRel(<, Nat), Nat)
  BY NatLessThanWellFounded, Zenon
<1>2. \E x \in T : \A y \in T : ~(<<y, x>> \in OpToRel(<, Nat))
  BY <1>1, WFMin, Zenon
<1>3. \A x, y \in Nat : y < x => <<y, x>> \in OpToRel(<, Nat)
  BY Zenon DEF OpToRel
<1> QED BY <1>2, <1>3, Zenon

\* Induction, over the numbers of which something holds.
LEMMA Induct ==
  ASSUME NEW S, 0 \in S, \A n \in Nat : n \in S => n + 1 \in S
  PROVE  Nat \subseteq S
<1> DEFINE T == Nat \ S
<1>1. SUFFICES ASSUME T # {} PROVE FALSE
  OBVIOUS
<1>2. PICK x \in T : \A y \in T : ~(y < x)
  BY <1>1, Least, Zenon
<1>3. x \in Nat /\ x \notin S /\ x # 0
  BY <1>2
<1>4. x - 1 \in Nat /\ x - 1 < x /\ (x - 1) + 1 = x
  BY <1>3
<1>5. x - 1 \in S
  BY <1>2, <1>4
<1> QED BY <1>3, <1>4, <1>5

\* What reaches Base along next, as a function: a recursion whose value is that of one
\* of its calls has a function that satisfies it, whether or not it ends.
LEMMA Reaching ==
  ASSUME NEW D, NEW Base \in SUBSET D, NEW next \in [D -> SUBSET D]
  PROVE  \E F \in [D -> BOOLEAN] :
           \A q \in D : F[q] <=> q \in Base \/ \E r \in next[q] : F[r]
<1> DEFINE Closed(C) == Base \subseteq C /\ \A q \in D, r \in C : r \in next[q] => q \in C
           G == {q \in D : \A C \in SUBSET D : Closed(C) => q \in C}
           H == {q \in D : q \in Base \/ \E r \in G : r \in next[q]}
           F == [q \in D |-> q \in G]
<1>1. Closed(G)
  OBVIOUS
<1>2. H \subseteq G
  BY <1>1
<1>3. Closed(H)
  BY <1>2
<1>4. G \subseteq H
  BY <1>3
<1>5. G = H /\ G \subseteq D
  BY <1>2, <1>4
<1>6. \A q \in D : q \in G <=> q \in Base \/ \E r \in next[q] : r \in G
  BY <1>5
<1>7. F \in [D -> BOOLEAN] /\ \A q \in D : F[q] = (q \in G)
  OBVIOUS
<1>8. \A q \in D : \A r \in next[q] : r \in D
  OBVIOUS
<1> HIDE DEF G, F
<1>9. \A q \in D : F[q] <=> q \in Base \/ \E r \in next[q] : F[r]
  BY <1>6, <1>7, <1>8
<1> QED BY <1>7, <1>9


\* globMatch's loop body, the rest of the loop given.
Hits(pattern, text, x) == x.p < Len(pattern) /\ pattern[x.p + 1] \in {text[x.s + 1], "?"}
Opens(pattern, x) == x.p < Len(pattern) /\ pattern[x.p + 1] = "*"
Past(x) == Turn(x.p + 1, x.s + 1, x.star, x.tried)
Opened(x) == Turn(x.p + 1, x.s, x.p + 1, x.s)
Retried(x) == Turn(x.star, x.tried + 1, x.star, x.tried + 1)
After(pattern, text, F, x) ==
  IF x.s >= Len(text) THEN StarsFrom(pattern, x.p)
  ELSE IF Hits(pattern, text, x) THEN F[Past(x)]
  ELSE IF Opens(pattern, x) THEN F[Opened(x)]
  ELSE x.star > 0 /\ F[Retried(x)]
Loop(pattern, text) ==
  LET Run[x \in Turns] == After(pattern, text, Run, x) IN Run

LEMMA MatchIsLoop ==
  ASSUME NEW pattern, NEW text
  PROVE  GlobMatch(pattern, text) = Loop(pattern, text)[Turn(0, 0, 0, 0)]
BY Zenon DEF GlobMatch, Loop, After, Hits, Opens, Past, Opened, Retried

LEMMA TurnsType ==
  ASSUME NEW x \in Turns
  PROVE  /\ x.p \in Nat /\ x.s \in Nat /\ x.star \in Nat /\ x.tried \in Nat
         /\ Past(x) \in Turns /\ Opened(x) \in Turns /\ Retried(x) \in Turns
<1>1. x.p \in Nat /\ x.s \in Nat /\ x.star \in Nat /\ x.tried \in Nat
  BY DEF Turns
<1>2. Past(x) \in Turns
  BY <1>1 DEF Turns, Turn, Past
<1>3. Opened(x) \in Turns
  BY <1>1 DEF Turns, Turn, Opened
<1>4. Retried(x) \in Turns
  BY <1>1 DEF Turns, Turn, Retried
<1> QED BY <1>1, <1>2, <1>3, <1>4

LEMMA TurnsAre ==
  ASSUME NEW x \in Turns
  PROVE  /\ Past(x).p = x.p + 1 /\ Past(x).s = x.s + 1
         /\ Past(x).star = x.star /\ Past(x).tried = x.tried
         /\ Opened(x).p = x.p + 1 /\ Opened(x).s = x.s
         /\ Opened(x).star = x.p + 1 /\ Opened(x).tried = x.s
         /\ Retried(x).p = x.star /\ Retried(x).s = x.tried + 1
         /\ Retried(x).star = x.star /\ Retried(x).tried = x.tried + 1
<1>1. Past(x).p = x.p + 1 /\ Past(x).s = x.s + 1
  BY DEF Turn, Past
<1>2. Past(x).star = x.star /\ Past(x).tried = x.tried
  BY DEF Turn, Past
<1>3. Opened(x).p = x.p + 1 /\ Opened(x).s = x.s
  BY DEF Turn, Opened
<1>4. Opened(x).star = x.p + 1 /\ Opened(x).tried = x.s
  BY DEF Turn, Opened
<1>5. Retried(x).p = x.star /\ Retried(x).s = x.tried + 1
  BY DEF Turn, Retried
<1>6. Retried(x).star = x.star /\ Retried(x).tried = x.tried + 1
  BY DEF Turn, Retried
<1> QED BY <1>1, <1>2, <1>3, <1>4, <1>5, <1>6

LEMMA LoopIs ==
  ASSUME NEW pattern, NEW text
  PROVE  \A x \in Turns : Loop(pattern, text)[x] = After(pattern, text, Loop(pattern, text), x)
<1> DEFINE Over(x) == x.s >= Len(text)
           Hit(x) == Hits(pattern, text, x)
           Star(x) == Opens(pattern, x)
           Base == {x \in Turns : Over(x) /\ StarsFrom(pattern, x.p)}
           Calls(x) == IF Over(x) THEN {}
                      ELSE IF Hit(x) THEN {Past(x)}
                      ELSE IF Star(x) THEN {Opened(x)}
                      ELSE IF x.star > 0 THEN {Retried(x)}
                      ELSE {}
           calls == [x \in Turns |-> Calls(x)]
<1>1. \A x \in Turns : Calls(x) \subseteq Turns
  BY TurnsType
<1>2. calls \in [Turns -> SUBSET Turns] /\ \A x \in Turns : calls[x] = Calls(x)
  <2> HIDE DEF Calls
  <2> QED BY <1>1
<1>3. PICK F \in [Turns -> BOOLEAN] : \A x \in Turns : F[x] <=> x \in Base \/ \E r \in calls[x] : F[r]
  <2>1. Base \in SUBSET Turns
    OBVIOUS
  <2> HIDE DEF calls, Base
  <2> QED BY <1>2, <2>1, Reaching
<1>4. \A x \in Turns : F[x] <=> x \in Base \/ \E r \in Calls(x) : F[r]
  <2> HIDE DEF calls, Base, Calls
  <2> QED BY <1>2, <1>3
<1>5. ASSUME NEW x \in Turns PROVE F[x] = After(pattern, text, F, x)
  <2> DEFINE q == Past(x)
             o == Opened(x)
             t == Retried(x)
             stars == StarsFrom(pattern, x.p)
  <2>1. q \in Turns /\ o \in Turns /\ t \in Turns /\ stars \in BOOLEAN
    BY TurnsType DEF StarsFrom
  <2>2. x \in Base <=> Over(x) /\ stars
    OBVIOUS
  <2>3. F[x] <=> x \in Base \/ \E r \in Calls(x) : F[r]
    BY <1>4
  <2>4. After(pattern, text, F, x) =
          IF Over(x) THEN stars
          ELSE IF Hit(x) THEN F[q] ELSE IF Star(x) THEN F[o]
          ELSE x.star > 0 /\ F[t]
    BY DEF After
  <2>5. F[x] \in BOOLEAN /\ F[q] \in BOOLEAN /\ F[o] \in BOOLEAN /\ F[t] \in BOOLEAN
    BY <2>1
  <2> HIDE DEF Base, q, o, t, stars, Over, Hit, Star
  <2> DEFINE more == x.star > 0
  <2>6. Calls(x) = IF Over(x) THEN {} ELSE IF Hit(x) THEN {q} ELSE IF Star(x) THEN {o}
                  ELSE IF more THEN {t} ELSE {}
    BY DEF q, o, t
  <2>7. CASE Over(x)
    BY <2>1, <2>2, <2>3, <2>4, <2>5, <2>6, <2>7, Zenon
  <2>8. CASE ~Over(x) /\ Hit(x)
    <3>1. F[x] <=> F[q]
      BY <2>2, <2>3, <2>6, <2>8, Zenon
    <3>2. After(pattern, text, F, x) = F[q]
      BY <2>4, <2>8, Zenon
    <3> QED BY <2>5, <3>1, <3>2, Zenon
  <2>9. CASE ~Over(x) /\ ~Hit(x) /\ Star(x)
    <3>1. F[x] <=> F[o]
      BY <2>2, <2>3, <2>6, <2>9, Zenon
    <3>2. After(pattern, text, F, x) = F[o]
      BY <2>4, <2>9, Zenon
    <3> QED BY <2>5, <3>1, <3>2, Zenon
  <2>10. CASE ~Over(x) /\ ~Hit(x) /\ ~Star(x)
    <3>1. F[x] <=> more /\ F[t]
      BY <2>2, <2>3, <2>6, <2>10, Zenon
    <3>2. After(pattern, text, F, x) = (more /\ F[t])
      BY <2>4, <2>10, Zenon
    <3>3. CASE more
      <4>1. (more /\ F[t]) = F[t]
        BY <2>5, <3>3, Zenon
      <4>2. F[x] <=> F[t]
        BY <3>1, <3>3, Zenon
      <4>3. F[x] = F[t]
        BY <2>5, <4>2
      <4> QED BY <3>2, <4>1, <4>3, Zenon
    <3>4. CASE ~more
      <4>1. (more /\ F[t]) = FALSE
        BY <3>4, Zenon
      <4>2. F[x] = FALSE
        BY <2>5, <3>1, <3>4, Zenon
      <4> QED BY <3>2, <4>1, <4>2, Zenon
    <3> QED BY <3>3, <3>4, Zenon
  <2> QED BY <2>7, <2>8, <2>9, <2>10, Zenon
<1>6. F = [x \in Turns |-> F[x]]
  OBVIOUS
<1>7. F = [x \in Turns |-> After(pattern, text, F, x)]
  BY <1>5, <1>6
<1>8. Loop(pattern, text) = [x \in Turns |-> After(pattern, text, Loop(pattern, text), x)]
  BY <1>7, Zenon DEF Loop
<1> QED BY <1>8, Zenon
\* The mask after its first p characters means the text after its first s.
Piece(pattern, text, i, a, b) ==
  IF pattern[i] = "*" THEN a <= b ELSE b = a + 1 /\ pattern[i] \in {text[b], "?"}
CutsFrom(pattern, text, p, s, cut) ==
  /\ cut[p] = s /\ cut[Len(pattern)] = Len(text)
  /\ \A i \in p + 1..Len(pattern) : Piece(pattern, text, i, cut[i - 1], cut[i])
Rest(pattern, text, p, s) ==
  \E cut \in [p..Len(pattern) -> 0..Len(text)] : CutsFrom(pattern, text, p, s, cut)

LEMMA MeansIsRest ==
  ASSUME NEW S, NEW pattern \in Seq(S), NEW text \in Seq(S)
  PROVE  Means(pattern, text) <=> Rest(pattern, text, 0, 0)
BY DEF Means, Rest, CutsFrom, Piece

LEMMA RestEnds ==
  ASSUME NEW S, NEW pattern \in Seq(S), NEW text \in Seq(S), NEW s \in 0..Len(text)
  PROVE  Rest(pattern, text, Len(pattern), s) <=> s = Len(text)
<1> DEFINE m == Len(pattern)
           n == Len(text)
<1>1. m \in Nat /\ n \in Nat
  OBVIOUS
<1>2. ASSUME Rest(pattern, text, m, s) PROVE s = n
  BY <1>2 DEF Rest, CutsFrom
<1>3. ASSUME s = n PROVE Rest(pattern, text, m, s)
  <2> DEFINE cut == [i \in m..m |-> n]
  <2>1. cut \in [m..m -> 0..n] /\ cut[m] = n /\ m + 1..m = {}
    BY <1>1
  <2> HIDE DEF cut
  <2> QED BY <1>3, <2>1 DEF Rest, CutsFrom
<1> QED BY <1>2, <1>3

LEMMA RestNext ==
  ASSUME NEW S, NEW pattern \in Seq(S), NEW text \in Seq(S),
         NEW p \in 0..Len(pattern) - 1, NEW s \in 0..Len(text)
  PROVE  Rest(pattern, text, p, s)
           <=> \E k \in 0..Len(text) : Piece(pattern, text, p + 1, s, k) /\ Rest(pattern, text, p + 1, k)
<1> DEFINE m == Len(pattern)
           n == Len(text)
           P(i, a, b) == Piece(pattern, text, i, a, b)
<1>1. m \in Nat /\ n \in Nat /\ p \in Nat /\ p + 1 <= m
  OBVIOUS
<1>2. ASSUME Rest(pattern, text, p, s)
      PROVE  \E k \in 0..n : P(p + 1, s, k) /\ Rest(pattern, text, p + 1, k)
  <2>1. PICK cut \in [p..m -> 0..n] : CutsFrom(pattern, text, p, s, cut)
    BY <1>2 DEF Rest
  <2> DEFINE tail == [i \in p + 1..m |-> cut[i]]
  <2>2. tail \in [p + 1..m -> 0..n] /\ \A i \in p + 1..m : tail[i] = cut[i]
    BY <1>1
  <2>3. \A i \in p + 1..m : P(i, cut[i - 1], cut[i])
    BY <2>1 DEF CutsFrom
  <2> HIDE DEF tail, P
  <2>4. ASSUME NEW i \in (p + 1) + 1..m PROVE P(i, tail[i - 1], tail[i])
    <3>1. i - 1 \in p + 1..m /\ i \in p + 1..m
      BY <1>1
    <3> QED BY <2>2, <2>3, <3>1
  <2>5. cut[p] = s /\ cut[m] = n
    BY <2>1 DEF CutsFrom
  <2>6. p + 1 \in p + 1..m /\ m \in p + 1..m /\ (p + 1) - 1 = p
    BY <1>1
  <2>7. tail[m] = n /\ cut[p + 1] \in 0..n /\ tail[p + 1] = cut[p + 1]
    BY <1>1, <2>2, <2>5, <2>6
  <2>8. Rest(pattern, text, p + 1, cut[p + 1])
    BY <2>2, <2>4, <2>7 DEF Rest, CutsFrom, P
  <2>9. P(p + 1, s, cut[p + 1])
    BY <2>3, <2>5, <2>6
  <2> QED BY <2>7, <2>8, <2>9
<1>3. ASSUME NEW k \in 0..n, P(p + 1, s, k), Rest(pattern, text, p + 1, k)
      PROVE  Rest(pattern, text, p, s)
  <2>1. PICK tail \in [p + 1..m -> 0..n] : CutsFrom(pattern, text, p + 1, k, tail)
    BY <1>3 DEF Rest
  <2> DEFINE cut == [i \in p..m |-> IF i = p THEN s ELSE tail[i]]
  <2>2. cut \in [p..m -> 0..n] /\ cut[p] = s /\ \A i \in p + 1..m : cut[i] = tail[i]
    BY <1>1
  <2>3. tail[p + 1] = k /\ tail[m] = n /\ \A i \in (p + 1) + 1..m : P(i, tail[i - 1], tail[i])
    BY <2>1 DEF CutsFrom
  <2> HIDE DEF cut, P
  <2>4. ASSUME NEW i \in p + 1..m PROVE P(i, cut[i - 1], cut[i])
    <3>1. CASE i = p + 1
      <4>1. i - 1 = p /\ cut[i] = k
        BY <1>1, <2>2, <2>3, <3>1
      <4> QED BY <1>3, <2>2, <3>1, <4>1
    <3>2. CASE i # p + 1
      <4>1. i \in (p + 1) + 1..m /\ i - 1 \in p + 1..m
        BY <1>1, <3>2
      <4> QED BY <2>2, <2>3, <4>1
    <3> QED BY <3>1, <3>2
  <2>5. cut[m] = n
    BY <1>1, <2>2, <2>3
  <2> QED BY <2>2, <2>4, <2>5 DEF Rest, CutsFrom, P
<1> QED BY <1>2, <1>3

LEMMA RestAtEnd ==
  ASSUME NEW S, NEW pattern \in Seq(S), NEW text \in Seq(S), NEW p \in 0..Len(pattern)
  PROVE  Rest(pattern, text, p, Len(text)) <=> StarsFrom(pattern, p)
<1> DEFINE m == Len(pattern)
           n == Len(text)
           T == {d \in Nat : d <= m => (Rest(pattern, text, m - d, n) <=> StarsFrom(pattern, m - d))}
<1>1. m \in Nat /\ n \in Nat
  OBVIOUS
<1>2. 0 \in T
  <2>1. StarsFrom(pattern, m)
    BY <1>1 DEF StarsFrom
  <2>2. Rest(pattern, text, m, n)
    BY <1>1, RestEnds
  <2> QED BY <1>1, <2>1, <2>2
<1>3. ASSUME NEW d \in Nat, d \in T PROVE d + 1 \in T
  <2>1. CASE ~(d + 1 <= m)
    BY <2>1
  <2>2. CASE d + 1 <= m
    <3>0. m - (d + 1) \in 0..m - 1 /\ (m - (d + 1)) + 1 = m - d
      BY <1>1, <2>2
    <3>1. PICK q \in 0..m - 1 : q = m - (d + 1) /\ q + 1 = m - d
      BY <3>0
    <3>2. Rest(pattern, text, q + 1, n) <=> StarsFrom(pattern, q + 1)
      BY <1>1, <1>3, <2>2, <3>1
    <3>3. Rest(pattern, text, q, n)
            <=> \E k \in 0..n : Piece(pattern, text, q + 1, n, k) /\ Rest(pattern, text, q + 1, k)
      BY <1>1, RestNext
    <3>4. \A k \in 0..n : Piece(pattern, text, q + 1, n, k) <=> pattern[q + 1] = "*" /\ k = n
      BY <1>1 DEF Piece
    <3>5. Rest(pattern, text, q, n) <=> pattern[q + 1] = "*" /\ Rest(pattern, text, q + 1, n)
      BY <1>1, <3>3, <3>4
    <3>6. StarsFrom(pattern, q) <=> pattern[q + 1] = "*" /\ StarsFrom(pattern, q + 1)
      <4>1. \A i : i \in q + 1..m <=> i = q + 1 \/ i \in (q + 1) + 1..m
        BY <1>1, <3>1
      <4> QED BY <4>1 DEF StarsFrom
    <3>7. Rest(pattern, text, q, n) <=> StarsFrom(pattern, q)
      BY <3>2, <3>5, <3>6, Zenon
    <3> QED BY <3>1, <3>7
  <2> QED BY <2>1, <2>2
<1>4. Nat \subseteq T
  <2> HIDE DEF T
  <2> QED BY <1>2, <1>3, Induct
<1>5. m - p \in Nat /\ m - p <= m /\ m - (m - p) = p
  BY <1>1
<1>6. m - p \in T
  BY <1>4, <1>5
<1>7. Rest(pattern, text, m - (m - p), n) <=> StarsFrom(pattern, m - (m - p))
  BY <1>5, <1>6
<1> QED BY <1>5, <1>7

\* No star stands among the d characters of the mask after its first p.
Plain(pattern, p, d) == \A i \in p + 1..p + d : pattern[i] # "*"

\* Pieces that no star stands for have the mask's length.
LEMMA PlainRest ==
  ASSUME NEW S, NEW pattern \in Seq(S), NEW text \in Seq(S),
         NEW p \in 0..Len(pattern), NEW s \in 0..Len(text), Rest(pattern, text, p, s),
         NEW d \in 0..Len(pattern) - p, Plain(pattern, p, d)
  PROVE  s + d <= Len(text) /\ Rest(pattern, text, p + d, s + d)
<1> DEFINE m == Len(pattern)
           n == Len(text)
           T == {e \in Nat : e <= d => s + e <= n /\ Rest(pattern, text, p + e, s + e)}
<1>1. m \in Nat /\ n \in Nat /\ p + d <= m
  OBVIOUS
<1>2. 0 \in T
  OBVIOUS
<1>3. ASSUME NEW e \in Nat, e \in T PROVE e + 1 \in T
  <2>1. CASE ~(e + 1 <= d)
    BY <2>1
  <2>2. CASE e + 1 <= d
    <3>1. s + e <= n /\ Rest(pattern, text, p + e, s + e)
      BY <1>3, <2>2
    <3>2. PICK q \in 0..m - 1, t \in 0..n : q = p + e /\ t = s + e
      BY <1>1, <2>2, <3>1
    <3>3. PICK k \in 0..n : Piece(pattern, text, q + 1, t, k) /\ Rest(pattern, text, q + 1, k)
      BY <3>1, <3>2, RestNext
    <3>4. pattern[q + 1] # "*"
      BY <1>1, <2>2, <3>2 DEF Plain
    <3>5. k = t + 1
      BY <3>3, <3>4 DEF Piece
    <3>6. q + 1 = p + (e + 1) /\ t + 1 = s + (e + 1) /\ s + (e + 1) <= n
      BY <1>1, <3>2, <3>5
    <3> QED BY <3>3, <3>5, <3>6
  <2> QED BY <2>1, <2>2
<1>4. Nat \subseteq T
  <2> HIDE DEF T
  <2> QED BY <1>2, <1>3, Induct
<1>5. d \in T
  BY <1>4
<1> QED BY <1>5

\* What the loop may be at: the star it last met is a star, and what it has matched
\* since stands for as many characters.
AtTurn(pattern, text, x) ==
  /\ x \in Turns /\ x.star <= x.p /\ x.p <= Len(pattern) /\ x.tried <= x.s /\ x.s <= Len(text)
  /\ x.star > 0 => /\ x.s - x.tried = x.p - x.star /\ pattern[x.star] = "*"
                   /\ Plain(pattern, x.star, x.p - x.star)
\* The last star can stand for more than it was given up to now.
Longer(pattern, text, x) ==
  x.star > 0 /\ \E t \in x.tried + 1..Len(text) : Rest(pattern, text, x.star, t)
\* What is left of the loop finds a match where the mask says there is one.
Finds(pattern, text, x) ==
  Loop(pattern, text)[x] <=> Rest(pattern, text, x.p, x.s) \/ Longer(pattern, text, x)

LEMMA TurnsValid ==
  ASSUME NEW S, NEW pattern \in Seq(S), NEW text \in Seq(S), NEW x, AtTurn(pattern, text, x)
  PROVE  /\ x.s < Len(text) /\ Hits(pattern, text, x) /\ pattern[x.p + 1] # "*"
              => AtTurn(pattern, text, Past(x))
         /\ Opens(pattern, x) => AtTurn(pattern, text, Opened(x))
         /\ x.s < Len(text) /\ x.star > 0 => AtTurn(pattern, text, Retried(x))
<1>1. x \in Turns
  BY DEF AtTurn
<1>2. /\ x.p \in Nat /\ x.s \in Nat /\ x.star \in Nat /\ x.tried \in Nat
      /\ Len(pattern) \in Nat /\ Len(text) \in Nat
  BY <1>1, TurnsType
<1>3. ASSUME x.s < Len(text), Hits(pattern, text, x), pattern[x.p + 1] # "*"
      PROVE  AtTurn(pattern, text, Past(x))
  <2>1. PICK y \in Turns : y = Past(x)
    BY <1>1, TurnsType
  <2>2. y.p = x.p + 1 /\ y.s = x.s + 1 /\ y.star = x.star /\ y.tried = x.tried
    BY <1>1, <2>1, TurnsAre
  <2>3. y.star <= y.p /\ y.p <= Len(pattern) /\ y.tried <= y.s /\ y.s <= Len(text)
    BY <1>2, <1>3, <2>2 DEF Hits, AtTurn
  <2>4. ASSUME y.star > 0
        PROVE  /\ y.s - y.tried = y.p - y.star
               /\ pattern[y.star] = "*" /\ Plain(pattern, y.star, y.p - y.star)
    <3>1. /\ x.star <= x.p /\ x.tried <= x.s /\ x.s - x.tried = x.p - x.star
          /\ pattern[x.star] = "*" /\ Plain(pattern, x.star, x.p - x.star)
      BY <2>2, <2>4 DEF AtTurn
    <3>2. Plain(pattern, x.star, (x.p + 1) - x.star)
      <4>1. \A i \in x.star + 1..x.p : pattern[i] # "*"
        BY <1>2, <3>1 DEF Plain
      <4>2. \A i \in x.star + 1..x.p + 1 : pattern[i] # "*"
        BY <1>2, <1>3, <4>1
      <4> QED BY <1>2, <3>1, <4>2 DEF Plain
    <3>3. y.s - y.tried = y.p - y.star
      <4>1. x.s - x.tried = x.p - x.star
        BY <3>1
      <4>2. PICK a, b, c, d : a = x.s /\ b = x.tried /\ c = x.p /\ d = x.star
        OBVIOUS
      <4>3. a \in Nat /\ b \in Nat /\ c \in Nat /\ d \in Nat /\ a - b = c - d
        BY <1>2, <4>1, <4>2
      <4>4. (a + 1) - b = (c + 1) - d
        BY <4>3
      <4> QED BY <2>2, <4>2, <4>4
    <3>4. pattern[y.star] = "*"
      BY <2>2, <3>1
    <3>5. Plain(pattern, y.star, y.p - y.star)
      BY <2>2, <3>2
    <3> QED BY <3>3, <3>4, <3>5
  <2> QED BY <2>1, <2>3, <2>4 DEF AtTurn
<1>4. ASSUME Opens(pattern, x) PROVE AtTurn(pattern, text, Opened(x))
  <2>1. PICK y \in Turns : y = Opened(x)
    BY <1>1, TurnsType
  <2>2. y.p = x.p + 1 /\ y.s = x.s /\ y.star = x.p + 1 /\ y.tried = x.s
    BY <1>1, <2>1, TurnsAre
  <2>3. y.p <= Len(pattern) /\ y.s <= Len(text) /\ pattern[y.star] = "*"
    BY <1>2, <1>4, <2>2 DEF Opens, AtTurn
  <2>4. Plain(pattern, y.star, y.p - y.star)
    BY <1>2, <2>2 DEF Plain
  <2>5. y.star <= y.p /\ y.tried <= y.s /\ y.s - y.tried = y.p - y.star
    BY <1>2, <2>2
  <2> QED BY <2>1, <2>3, <2>4, <2>5 DEF AtTurn
<1>5. ASSUME x.s < Len(text), x.star > 0 PROVE AtTurn(pattern, text, Retried(x))
  <2>1. PICK y \in Turns : y = Retried(x)
    BY <1>1, TurnsType
  <2>2. y.p = x.star /\ y.s = x.tried + 1 /\ y.star = x.star /\ y.tried = x.tried + 1
    BY <1>1, <2>1, TurnsAre
  <2>3. x.star <= x.p /\ x.tried <= x.s /\ pattern[x.star] = "*" /\ x.p <= Len(pattern)
    BY <1>5 DEF AtTurn
  <2>4. Plain(pattern, y.star, y.p - y.star)
    BY <1>2, <2>2 DEF Plain
  <2>5. /\ y.p <= Len(pattern) /\ y.s <= Len(text)
        /\ y.star <= y.p /\ y.tried <= y.s /\ y.s - y.tried = y.p - y.star
    BY <1>2, <1>5, <2>2, <2>3
  <2> QED BY <2>1, <2>2, <2>3, <2>4, <2>5 DEF AtTurn
<1> QED BY <1>3, <1>4, <1>5

\* A star of the text would match one of the mask as a character does.
NoStar(text) == \A i \in 1..Len(text) : text[i] # "*"

LEMMA FindsStep ==
  ASSUME NEW S, NEW pattern \in Seq(S), NEW text \in Seq(S), NoStar(text),
         NEW x, AtTurn(pattern, text, x),
         x.s < Len(text) /\ Hits(pattern, text, x) => Finds(pattern, text, Past(x)),
         x.s < Len(text) /\ Opens(pattern, x) => Finds(pattern, text, Opened(x)),
         x.s < Len(text) /\ x.star > 0 => Finds(pattern, text, Retried(x))
  PROVE  Finds(pattern, text, x)
<1> DEFINE m == Len(pattern)
           n == Len(text)
           L(y) == Loop(pattern, text)[y]
           R(p, s) == Rest(pattern, text, p, s)
<1>1. x \in Turns
  BY DEF AtTurn
<1>2. /\ x.p \in Nat /\ x.s \in Nat /\ x.star \in Nat /\ x.tried \in Nat
      /\ m \in Nat /\ n \in Nat
  BY <1>1, TurnsType
<1>3. x.p \in 0..m /\ x.s \in 0..n
  BY <1>2 DEF AtTurn
<1>4. L(x) = After(pattern, text, Loop(pattern, text), x)
  BY <1>1, LoopIs
\* What the last star has swallowed, and with it what was matched since, moves on.
<1>5. ASSUME x.star > 0, NEW t \in x.tried + 1..n, R(x.star, t)
      PROVE  \E s \in x.s + 1..n : R(x.p, s)
  <2>1. /\ x.star <= x.p /\ x.tried <= x.s /\ x.s - x.tried = x.p - x.star
        /\ Plain(pattern, x.star, x.p - x.star)
    BY <1>5 DEF AtTurn
  <2>2. PICK d \in 0..m - x.star : d = x.p - x.star /\ d = x.s - x.tried
    BY <1>2, <1>3, <2>1
  <2>3. x.star \in 0..m /\ t \in 0..n
    BY <1>2, <1>3, <2>1
  <2>4. t + d <= n /\ R(x.star + d, t + d)
    BY <1>5, <2>1, <2>2, <2>3, PlainRest
  <2>5. x.star + d = x.p
    BY <1>2, <2>2
  <2>6. t + d \in x.s + 1..n
    <3>1. t \in Nat /\ d \in Nat /\ x.tried + 1 <= t /\ x.tried + d = x.s
      BY <1>2, <2>2, <2>3
    <3> QED BY <1>2, <2>4, <3>1
  <2> QED BY <2>4, <2>5, <2>6
<1>6. CASE x.s = n
  <2>1. L(x) <=> StarsFrom(pattern, x.p)
    BY <1>2, <1>4, <1>6 DEF After
  <2>2. R(x.p, n) <=> StarsFrom(pattern, x.p)
    BY <1>3, RestAtEnd
  <2>3. ~Longer(pattern, text, x)
    <3>1. x.s + 1..n = {}
      BY <1>2, <1>6
    <3> QED BY <1>5, <3>1 DEF Longer
  <2> QED BY <1>6, <2>1, <2>2, <2>3 DEF Finds
<1>7. CASE x.s < n /\ Hits(pattern, text, x)
  <2>1. L(x) = L(Past(x))
    BY <1>2, <1>4, <1>7 DEF After
  <2>2. pattern[x.p + 1] # "*" /\ pattern[x.p + 1] \in {text[x.s + 1], "?"} /\ x.p \in 0..m - 1
    <3>1. x.s + 1 \in 1..n
      BY <1>2, <1>7
    <3>2. text[x.s + 1] # "*"
      BY <3>1 DEF NoStar
    <3>3. pattern[x.p + 1] \in {text[x.s + 1], "?"} /\ x.p < m
      BY <1>7 DEF Hits
    <3> QED BY <1>2, <3>2, <3>3
  <2>3. R(x.p, x.s) <=> R(x.p + 1, x.s + 1)
    <3>1. R(x.p, x.s) <=> \E k \in 0..n : Piece(pattern, text, x.p + 1, x.s, k) /\ R(x.p + 1, k)
      BY <1>3, <2>2, RestNext
    <3>2. \A k \in 0..n : Piece(pattern, text, x.p + 1, x.s, k) <=> k = x.s + 1
      BY <1>2, <2>2 DEF Piece
    <3>3. x.s + 1 \in 0..n
      BY <1>2, <1>7
    <3> HIDE DEF R
    <3> QED BY <3>1, <3>2, <3>3
  <2>4. PICK y : y = Past(x)
    OBVIOUS
  <2>5. y.p = x.p + 1 /\ y.s = x.s + 1 /\ y.star = x.star /\ y.tried = x.tried
    BY <1>1, <2>4, TurnsAre
  <2>6. Longer(pattern, text, y) <=> Longer(pattern, text, x)
    BY <2>5 DEF Longer
  <2>7. L(y) <=> R(y.p, y.s) \/ Longer(pattern, text, y)
    BY <1>7, <2>4 DEF Finds
  <2> QED BY <2>1, <2>3, <2>4, <2>5, <2>6, <2>7 DEF Finds
<1>8. CASE x.s < n /\ ~Hits(pattern, text, x) /\ Opens(pattern, x)
  <2>1. L(x) = L(Opened(x))
    BY <1>2, <1>4, <1>8 DEF After
  <2>2. pattern[x.p + 1] = "*" /\ x.p \in 0..m - 1
    BY <1>2, <1>8 DEF Opens
  <2>3. ASSUME NEW s \in 0..n PROVE R(x.p, s) <=> \E k \in s..n : R(x.p + 1, k)
    <3>1. R(x.p, s) <=> \E k \in 0..n : Piece(pattern, text, x.p + 1, s, k) /\ R(x.p + 1, k)
      BY <2>2, RestNext
    <3>2. \A k \in 0..n : Piece(pattern, text, x.p + 1, s, k) <=> s <= k
      BY <2>2 DEF Piece
    <3>3. \A k : k \in s..n <=> k \in 0..n /\ s <= k
      BY <1>2
    <3> HIDE DEF R
    <3> QED BY <3>1, <3>2, <3>3
  <2>4. PICK y : y = Opened(x)
    OBVIOUS
  <2>5. y.p = x.p + 1 /\ y.s = x.s /\ y.star = x.p + 1 /\ y.tried = x.s
    BY <1>1, <2>4, TurnsAre
  <2>6. L(y) <=> R(y.p, y.s) \/ Longer(pattern, text, y)
    BY <1>8, <2>4 DEF Finds
  <2>7. L(x) <=> R(x.p, x.s)
    <3>1. L(y) <=> R(x.p + 1, x.s) \/ \E t \in x.s + 1..n : R(x.p + 1, t)
      BY <1>2, <2>5, <2>6 DEF Longer
    <3>2. \A k : k \in x.s..n <=> k = x.s \/ k \in x.s + 1..n
      BY <1>2, <1>3
    <3>3. R(x.p, x.s) <=> \E k \in x.s..n : R(x.p + 1, k)
      BY <1>3, <2>3
    <3> HIDE DEF R, L
    <3> QED BY <2>1, <2>4, <3>1, <3>2, <3>3
  <2>8. ASSUME Longer(pattern, text, x) PROVE R(x.p, x.s)
    <3>1. PICK s \in x.s + 1..n : R(x.p, s)
      BY <1>5, <2>8 DEF Longer
    <3>2. s \in 0..n /\ x.s \in 0..n
      BY <1>2, <1>3
    <3>3. PICK k \in s..n : R(x.p + 1, k)
      BY <2>3, <3>1, <3>2
    <3>4. k \in x.s..n
      BY <1>2, <3>2
    <3> QED BY <2>3, <3>2, <3>3, <3>4
  <2> QED BY <2>7, <2>8 DEF Finds
<1>9. CASE x.s < n /\ ~Hits(pattern, text, x) /\ ~Opens(pattern, x)
  <2>1. L(x) = (x.star > 0 /\ L(Retried(x)))
    BY <1>2, <1>4, <1>9 DEF After
  <2>2. ~R(x.p, x.s)
    <3>1. CASE x.p = m
      BY <1>3, <1>9, <3>1, RestEnds
    <3>2. CASE x.p # m
      <4>1. x.p \in 0..m - 1 /\ x.p < m
        BY <1>2, <1>3, <3>2
      <4>2. pattern[x.p + 1] # "*" /\ pattern[x.p + 1] \notin {text[x.s + 1], "?"}
        BY <1>9, <4>1 DEF Hits, Opens
      <4>3. \A k \in 0..n : ~Piece(pattern, text, x.p + 1, x.s, k)
        BY <4>2 DEF Piece
      <4> QED BY <1>3, <4>1, <4>3, RestNext
    <3> QED BY <3>1, <3>2
  <2>3. CASE ~(x.star > 0)
    BY <2>1, <2>2, <2>3 DEF Finds, Longer
  <2>4. CASE x.star > 0
    <3>1. PICK y : y = Retried(x)
      OBVIOUS
    <3>2. y.p = x.star /\ y.s = x.tried + 1 /\ y.star = x.star /\ y.tried = x.tried + 1
      BY <1>1, <3>1, TurnsAre
    <3>3. L(y) <=> R(y.p, y.s) \/ Longer(pattern, text, y)
      BY <1>9, <2>4, <3>1 DEF Finds
    <3>4. Longer(pattern, text, y) <=> \E t \in (x.tried + 1) + 1..n : R(x.star, t)
      BY <2>4, <3>2 DEF Longer
    <3>5. Longer(pattern, text, x) <=> \E t \in x.tried + 1..n : R(x.star, t)
      BY <2>4 DEF Longer
    <3>6. \A t : t \in x.tried + 1..n <=> t = x.tried + 1 \/ t \in (x.tried + 1) + 1..n
      <4>1. x.tried + 1 <= n
        BY <1>2, <1>9, <2>4 DEF AtTurn
      <4> QED BY <1>2, <4>1
    <3>7. L(y) <=> Longer(pattern, text, x)
      <4> HIDE DEF R, L
      <4> QED BY <3>2, <3>3, <3>4, <3>5, <3>6
    <3>8. L(x) <=> L(y)
      <4> HIDE DEF L
      <4> QED BY <2>1, <2>4, <3>1
    <3> QED BY <2>2, <3>7, <3>8 DEF Finds
  <2> QED BY <2>3, <2>4
<1> QED BY <1>2, <1>3, <1>6, <1>7, <1>8, <1>9

LEMMA FindsAlways ==
  ASSUME NEW S, NEW pattern \in Seq(S), NEW text \in Seq(S), NoStar(text)
  PROVE  \A x \in Turns : AtTurn(pattern, text, x) => Finds(pattern, text, x)
<1> DEFINE m == Len(pattern)
           n == Len(text)
           Here(x) == AtTurn(pattern, text, x)
           Ok(x) == Finds(pattern, text, x)
           A == {a \in Nat : \A x \in Turns : Here(x) /\ m - x.star < a => Ok(x)}
<1>1. m \in Nat /\ n \in Nat
  OBVIOUS
<1>2. ASSUME NEW x \in Turns, Here(x)
      PROVE  /\ x.p \in Nat /\ x.s \in Nat /\ x.star \in Nat /\ x.tried \in Nat
             /\ m - x.star \in Nat /\ n - x.tried \in Nat /\ n - x.s \in Nat
  <2>1. x.p \in Nat /\ x.s \in Nat /\ x.star \in Nat /\ x.tried \in Nat
    BY TurnsType
  <2>2. x.star <= x.p /\ x.p <= m /\ x.tried <= x.s /\ x.s <= n
    BY <1>2 DEF AtTurn
  <2> QED BY <1>1, <2>1, <2>2
<1>3. 0 \in A
  BY <1>2
<1>4. ASSUME NEW a \in Nat, a \in A PROVE a + 1 \in A
  <2> DEFINE B == {b \in Nat : \A x \in Turns : Here(x) /\ m - x.star = a /\ n - x.tried < b => Ok(x)}
  <2>1. 0 \in B
    BY <1>2
  <2>2. ASSUME NEW b \in Nat, b \in B PROVE b + 1 \in B
    <3> DEFINE C == {c \in Nat : \A x \in Turns :
                       Here(x) /\ m - x.star = a /\ n - x.tried = b /\ n - x.s < c => Ok(x)}
    <3>1. 0 \in C
      BY <1>2
    <3>2. ASSUME NEW c \in Nat, c \in C PROVE c + 1 \in C
      <4>1. ASSUME NEW x \in Turns, Here(x), m - x.star = a, n - x.tried = b, n - x.s = c
            PROVE  Ok(x)
        <5>1. /\ x.p \in Nat /\ x.s \in Nat /\ x.star \in Nat /\ x.tried \in Nat
              /\ x.star <= x.p /\ x.p <= m /\ x.tried <= x.s /\ x.s <= n
          BY <1>2, <4>1 DEF AtTurn
        <5>2. ASSUME x.s < n, Hits(pattern, text, x) PROVE Ok(Past(x))
          <6>1. PICK y \in Turns : y = Past(x)
            BY TurnsType
          <6>2. y.p = x.p + 1 /\ y.s = x.s + 1 /\ y.star = x.star /\ y.tried = x.tried
            BY <6>1, TurnsAre
          <6>3. pattern[x.p + 1] # "*"
            <7>1. x.s + 1 \in 1..n
              BY <1>1, <5>1, <5>2
            <7>2. text[x.s + 1] # "*"
              BY <7>1 DEF NoStar
            <7> QED BY <5>2, <7>2 DEF Hits
          <6>4. Here(y)
            BY <4>1, <5>2, <6>1, <6>3, TurnsValid
          <6>5. m - y.star = a /\ n - y.tried = b /\ n - y.s < c
            BY <1>1, <4>1, <5>1, <6>2
          <6> QED BY <3>2, <6>1, <6>4, <6>5
        <5>3. ASSUME Opens(pattern, x) PROVE Ok(Opened(x))
          <6>1. PICK y \in Turns : y = Opened(x)
            BY TurnsType
          <6>2. y.star = x.p + 1
            BY <6>1, TurnsAre
          <6>3. Here(y)
            BY <4>1, <5>3, <6>1, TurnsValid
          <6>4. m - y.star < a
            BY <1>1, <4>1, <5>1, <6>2
          <6> QED BY <1>4, <6>1, <6>3, <6>4
        <5>4. ASSUME x.s < n, x.star > 0 PROVE Ok(Retried(x))
          <6>1. PICK y \in Turns : y = Retried(x)
            BY TurnsType
          <6>2. y.star = x.star /\ y.tried = x.tried + 1
            BY <6>1, TurnsAre
          <6>3. Here(y)
            BY <4>1, <5>4, <6>1, TurnsValid
          <6>4. m - y.star = a /\ n - y.tried < b
            BY <1>1, <4>1, <5>1, <6>2
          <6> QED BY <2>2, <6>1, <6>3, <6>4
        <5> HIDE DEF A, B, C
        <5> QED BY <4>1, <5>2, <5>3, <5>4, FindsStep
      <4>2. ASSUME NEW x \in Turns, Here(x), m - x.star = a, n - x.tried = b, n - x.s < c + 1
            PROVE  Ok(x)
        <5>1. n - x.s = c \/ n - x.s < c
          BY <1>2, <4>2
        <5> QED BY <3>2, <4>1, <4>2, <5>1
      <4> HIDE DEF Here, Ok
      <4> QED BY <4>2
    <3>3. Nat \subseteq C
      <4> HIDE DEF C
      <4> QED BY <3>1, <3>2, Induct
    <3>4. ASSUME NEW x \in Turns, Here(x), m - x.star = a, n - x.tried < b + 1 PROVE Ok(x)
      <4>1. CASE n - x.tried < b
        BY <2>2, <3>4, <4>1
      <4>2. CASE ~(n - x.tried < b)
        <5>1. n - x.tried = b /\ n - x.s \in Nat
          BY <1>2, <3>4, <4>2
        <5>2. (n - x.s) + 1 \in C /\ n - x.s < (n - x.s) + 1
          BY <3>3, <5>1
        <5> QED BY <3>4, <5>1, <5>2
      <4> QED BY <4>1, <4>2
    <3> HIDE DEF Here, Ok
    <3> QED BY <3>4
  <2>3. Nat \subseteq B
    <3> HIDE DEF B
    <3> QED BY <2>1, <2>2, Induct
  <2>4. ASSUME NEW x \in Turns, Here(x), m - x.star < a + 1 PROVE Ok(x)
    <3>1. CASE m - x.star < a
      BY <1>4, <2>4, <3>1
    <3>2. CASE ~(m - x.star < a)
      <4>1. m - x.star = a /\ n - x.tried \in Nat
        BY <1>2, <2>4, <3>2
      <4>2. (n - x.tried) + 1 \in B /\ n - x.tried < (n - x.tried) + 1
        BY <2>3, <4>1
      <4> QED BY <2>4, <4>1, <4>2
    <3> QED BY <3>1, <3>2
  <2> HIDE DEF Here, Ok
  <2> QED BY <2>4
<1>5. Nat \subseteq A
  <2> HIDE DEF A
  <2> QED BY <1>3, <1>4, Induct
<1>6. ASSUME NEW x \in Turns, Here(x) PROVE Ok(x)
  <2>1. m - x.star \in Nat
    BY <1>2, <1>6
  <2>2. (m - x.star) + 1 \in A /\ m - x.star < (m - x.star) + 1
    BY <1>5, <2>1
  <2> QED BY <1>6, <2>2
<1> QED BY <1>6

\* globMatch (channel.go:689): whatever the mask and the text, the loop with its single
\* backtracking point finds a match exactly where the mask means the text, where the
\* text has no star.
THEOREM GlobFindsWhatMasksMean ==
  ASSUME NEW S, NEW pattern \in Seq(S), NEW text \in Seq(S), NoStar(text)
  PROVE  GlobMatch(pattern, text) <=> Means(pattern, text)
<1>1. PICK x : x = Turn(0, 0, 0, 0)
  OBVIOUS
<1>2. x \in Turns /\ x.p = 0 /\ x.s = 0 /\ x.star = 0 /\ x.tried = 0
  BY <1>1 DEF Turn, Turns
<1>3. AtTurn(pattern, text, x)
  BY <1>2 DEF AtTurn
<1>4. Loop(pattern, text)[x] <=> Rest(pattern, text, 0, 0)
  BY <1>2, <1>3, FindsAlways DEF Finds, Longer
<1> QED BY <1>1, <1>4, MatchIsLoop, MeansIsRest

(***************************************************************************)
(* And the names of "!" channels: what the server makes of "!!short", and  *)
(* where "!short" leads afterwards.                                        *)
(***************************************************************************)

\* A "!" channel's name.
Named(id, s) == <<"!">> \o id \o s
Asked(s) == <<"!", "!">> \o s
Called(s) == <<"!">> \o s

LEMMA NamedIs ==
  ASSUME NEW S, "!" \in S, NEW id \in Seq(S), NEW s \in Seq(S)
  PROVE  /\ Named(id, s) \in Seq(S) /\ Len(Named(id, s)) = 1 + Len(id) + Len(s)
         /\ Named(id, s)[1] = "!"
         /\ \A i \in 1..Len(id) : Named(id, s)[1 + i] = id[i]
BY DEF Named

LEMMA NamedEnds ==
  ASSUME NEW S, "!" \in S, NEW id \in Seq(S), NEW s \in Seq(S), NEW i \in 1..Len(s)
  PROVE  Named(id, s)[1 + Len(id) + i] = s[i]
BY DEF Named

LEMMA AskedIs ==
  ASSUME NEW S, "!" \in S, NEW s \in Seq(S)
  PROVE  /\ Asked(s) \in Seq(S) /\ Len(Asked(s)) = 2 + Len(s) /\ Asked(s)[2] = "!"
         /\ SubSeq(Asked(s), 3, Len(Asked(s))) = s
<1>1. Asked(s) \in Seq(S) /\ Len(Asked(s)) = 2 + Len(s) /\ Asked(s)[2] = "!"
  BY DEF Asked
<1>2. \A i \in 1..Len(s) : Asked(s)[2 + i] = s[i]
  BY DEF Asked
<1>3. SubSeq(Asked(s), 3, Len(Asked(s))) = s
  BY <1>1, <1>2
<1> QED BY <1>1, <1>3

LEMMA CalledIs ==
  ASSUME NEW S, "!" \in S, NEW s \in Seq(S)
  PROVE  /\ Called(s) \in Seq(S) /\ Len(Called(s)) = 1 + Len(s) /\ Called(s)[1] = "!"
         /\ \A i \in 1..Len(s) : Called(s)[1 + i] = s[i]
         /\ Tail(Called(s)) = s
<1>1. Called(s) \in Seq(S) /\ Len(Called(s)) = 1 + Len(s) /\ Called(s)[1] = "!"
  BY DEF Called
<1>2. \A i \in 1..Len(s) : Called(s)[1 + i] = s[i]
  BY DEF Called
<1>3. Tail(Called(s)) = s
  BY <1>1, <1>2
<1> QED BY <1>1, <1>2, <1>3

LEMMA SameSeq ==
  ASSUME NEW S, NEW a \in Seq(S), NEW b \in Seq(S), Len(a) = Len(b),
         \A i \in 1..Len(b) : a[i] = b[i]
  PROVE  a = b
OBVIOUS

LEMMA NamedParts ==
  ASSUME IDLen \in Nat \ {0}, NEW S, "!" \in S, NEW id \in Seq(S), Len(id) = IDLen,
         NEW s \in Seq(S), s # <<>>
  PROVE  HasID(Named(id, s)) /\ ID(Named(id, s)) = id /\ Short(Named(id, s)) = s
<1>1. PICK n : n = Named(id, s)
  OBVIOUS
<1>2. n \in Seq(S) /\ Len(n) = 1 + IDLen + Len(s) /\ n[1] = "!"
  <2>1. /\ Named(id, s) \in Seq(S) /\ Len(Named(id, s)) = 1 + Len(id) + Len(s)
        /\ Named(id, s)[1] = "!"
    BY NamedIs, Zenon
  <2> QED BY <1>1, <2>1
<1>3. \A i \in 1..IDLen : n[1 + i] = id[i]
  BY <1>1, NamedIs
<1>4. \A i \in 1..Len(s) : n[1 + IDLen + i] = s[i]
  <2>1. \A i \in 1..Len(s) : Named(id, s)[1 + Len(id) + i] = s[i]
    BY NamedEnds, Zenon
  <2> QED BY <1>1, <2>1
<1>5. HasID(n)
  BY <1>2 DEF HasID, IsSafeChannel
<1>6. ID(n) = id
  <2>1. SubSeq(n, 2, 1 + IDLen) \in Seq(S) /\ Len(SubSeq(n, 2, 1 + IDLen)) = IDLen
    BY <1>2
  <2>2. \A i \in 1..IDLen : SubSeq(n, 2, 1 + IDLen)[i] = id[i]
    BY <1>2, <1>3
  <2> QED BY <2>1, <2>2, SameSeq DEF ID
<1>7. Short(n) = s
  <2>1. SubSeq(n, 2 + IDLen, Len(n)) \in Seq(S) /\ Len(SubSeq(n, 2 + IDLen, Len(n))) = Len(s)
    BY <1>2
  <2>2. \A i \in 1..Len(s) : SubSeq(n, 2 + IDLen, Len(n))[i] = s[i]
    BY <1>2, <1>4
  <2> QED BY <2>1, <2>2, SameSeq DEF Short
<1> QED BY <1>1, <1>5, <1>6, <1>7

\* resolveSafeChannel for "!!short": the names that may be made.
LEMMA AskedNames ==
  ASSUME IDLen \in Nat \ {0}, NEW S, "!" \in S, Alphabet \subseteq S,
         NEW Taken, NEW s \in Seq(S), s # <<>>,
         NEW n \in ResolveSafeChannel(<<"!", "!">> \o s, Taken)
  PROVE  \E id \in Seq(S) : /\ Len(id) = IDLen /\ n = Named(id, s)
                            /\ \A m \in Taken : HasID(m) => ID(m) # id
<1>1. PICK a : a = <<"!", "!">> \o s
  OBVIOUS
<1>2. a \in Seq(S) /\ Len(a) = 2 + Len(s) /\ a[2] = "!" /\ SubSeq(a, 3, Len(a)) = s
  BY <1>1, AskedIs DEF Asked
<1>3. Len(a) >= 2 /\ Len(a) # 2
  BY <1>2
<1>4. ResolveSafeChannel(a, Taken)
        = {<<"!">> \o id \o SubSeq(a, 3, Len(a)) : id \in NewSafeChannelIDs(Taken)}
  BY <1>2, <1>3, Zenon DEF ResolveSafeChannel
<1>5. PICK id \in NewSafeChannelIDs(Taken) : n = <<"!">> \o id \o SubSeq(a, 3, Len(a))
  BY <1>1, <1>4, Zenon
<1>6. n = Named(id, s)
  BY <1>2, <1>5, Zenon DEF Named
<1>7. id \in [1..IDLen -> Alphabet] /\ \A m \in Taken : HasID(m) => ID(m) # id
  BY <1>5 DEF NewSafeChannelIDs
<1>8. id \in Seq(S) /\ Len(id) = IDLen
  BY <1>7
<1> QED BY <1>6, <1>7, <1>8

\* resolveSafeChannel and newSafeChannelID, whatever the alphabet and length of the
\* identifiers and the listed names: "!!short" never leads into a listed channel, nor
\* does its name take an identifier from one, as long as one of eight draws is free.
THEOREM FreshNamesAreNew ==
  ASSUME IDLen \in Nat \ {0}, NEW S, "!" \in S, Alphabet \subseteq S,
         NEW Taken, NEW s \in Seq(S), s # <<>>,
         NEW n \in ResolveSafeChannel(<<"!", "!">> \o s, Taken)
  PROVE  n \notin Taken /\ \A m \in Taken : HasID(m) => ID(m) # ID(n)
<1>1. PICK id \in Seq(S) : /\ Len(id) = IDLen /\ n = Named(id, s)
                           /\ \A m \in Taken : HasID(m) => ID(m) # id
  BY AskedNames, Zenon
<1>2. HasID(n) /\ ID(n) = id
  BY <1>1, NamedParts
<1> QED BY <1>1, <1>2, Zenon

\* resolveSafeChannel: the short name of a channel just made leads to it exactly if
\* it neither starts with "!" nor with an identifier that more characters follow.
THEOREM ShortNamesLead ==
  ASSUME IDLen \in Nat \ {0}, NEW S, "!" \in S, Alphabet \subseteq S,
         NEW Taken, NEW s \in Seq(S), s # <<>>,
         NEW n \in ResolveSafeChannel(<<"!", "!">> \o s, Taken)
  PROVE  n \in ResolveSafeChannel(<<"!">> \o s, Taken \cup {n})
           <=> ~(s[1] = "!" \/ (Len(s) > IDLen /\ \A i \in 1..IDLen : s[i] \in Alphabet))
<1>1. PICK id \in Seq(S) : /\ Len(id) = IDLen /\ n = Named(id, s)
                           /\ \A m \in Taken : HasID(m) => ID(m) # id
  BY AskedNames, Zenon
<1>2. HasID(n) /\ ID(n) = id /\ Short(n) = s
  BY <1>1, NamedParts
<1>3. PICK c, T : c = <<"!">> \o s /\ T = Taken \cup {n}
  OBVIOUS
<1>4. /\ c \in Seq(S) /\ Len(c) = 1 + Len(s) /\ c[1] = "!" /\ Tail(c) = s
      /\ \A i \in 1..Len(s) : c[1 + i] = s[i]
  BY <1>3, CalledIs DEF Called
<1>5. Len(s) \in Nat /\ Len(s) >= 1 /\ c[2] = s[1]
  <2>1. Len(s) \in Nat /\ Len(s) >= 1 /\ 1 \in 1..Len(s) /\ 1 + 1 = 2
    OBVIOUS
  <2> QED BY <1>4, <2>1
<1>6. Len(c) >= 2 /\ c # <<>>
  BY <1>4, <1>5
<1>7. Len(n) = 1 + IDLen + Len(s) /\ n # c
  <2>1. Len(n) = 1 + IDLen + Len(s)
    BY <1>1, NamedIs
  <2> QED BY <1>4, <1>5, <2>1
<1>8. CASE s[1] = "!"
  <2>1. CASE Len(c) = 2
    <3>1. ResolveSafeChannel(c, T) = {}
      BY <1>5, <1>6, <1>8, <2>1, Zenon DEF ResolveSafeChannel
    <3> QED BY <1>3, <1>8, <3>1
  <2>2. CASE Len(c) # 2
    <3>1. ResolveSafeChannel(c, T)
            = {<<"!">> \o x \o SubSeq(c, 3, Len(c)) : x \in NewSafeChannelIDs(T)}
      BY <1>5, <1>6, <1>8, <2>2, Zenon DEF ResolveSafeChannel
    <3>2. SubSeq(c, 3, Len(c)) \in Seq(S) /\ Len(SubSeq(c, 3, Len(c))) = Len(s) - 1
      BY <1>4, <1>5, <2>2
    <3>3. ASSUME NEW x \in NewSafeChannelIDs(T) PROVE n # <<"!">> \o x \o SubSeq(c, 3, Len(c))
      <4>1. x \in [1..IDLen -> Alphabet]
        BY DEF NewSafeChannelIDs
      <4>2. x \in Seq(S) /\ Len(x) = IDLen
        BY <4>1
      <4>3. PICK z \in Seq(S) : z = SubSeq(c, 3, Len(c)) /\ Len(z) = Len(s) - 1
        BY <3>2
      <4>4. Len(Named(x, z)) = 1 + Len(x) + Len(z)
        BY <4>2, NamedIs, Zenon
      <4>5. Len(Named(x, z)) # Len(n)
        <5>1. PICK l, k : l = Len(s) /\ k = Len(z)
          OBVIOUS
        <5>2. l \in Nat /\ k = l - 1 /\ 1 + IDLen + k # 1 + IDLen + l
          BY <1>5, <4>3, <5>1
        <5> QED BY <1>7, <4>2, <4>4, <5>1, <5>2
      <4>6. Named(x, z) # n
        BY <4>5, Zenon
      <4> QED BY <4>3, <4>6, Zenon DEF Named
    <3>4. n \notin ResolveSafeChannel(c, T)
      BY <3>1, <3>3, Zenon
    <3> QED BY <1>3, <1>8, <3>4
  <2> QED BY <2>1, <2>2
<1>9. HasID(c) <=> Len(s) > IDLen
  BY <1>4, <1>5, <1>6 DEF HasID, IsSafeChannel
<1>10. Len(s) > IDLen => (IsSafeChannelID(ID(c)) <=> \A i \in 1..IDLen : s[i] \in Alphabet)
  <2> SUFFICES ASSUME Len(s) > IDLen
               PROVE  IsSafeChannelID(ID(c)) <=> \A i \in 1..IDLen : s[i] \in Alphabet
    OBVIOUS
  <2>1. ID(c) \in Seq(S) /\ Len(ID(c)) = IDLen /\ \A i \in 1..IDLen : ID(c)[i] = c[1 + i]
    BY <1>4, <1>5 DEF ID
  <2>2. \A i \in 1..IDLen : c[1 + i] = s[i]
    BY <1>4, <1>5
  <2>3. DOMAIN ID(c) = 1..IDLen
    BY <2>1
  <2> HIDE DEF ID
  <2> QED BY <2>1, <2>2, <2>3 DEF IsSafeChannelID
<1>11. CASE s[1] # "!" /\ Len(s) > IDLen /\ \A i \in 1..IDLen : s[i] \in Alphabet
  <2>1. ResolveSafeChannel(c, T) = {c}
    BY <1>5, <1>9, <1>10, <1>11, Zenon DEF ResolveSafeChannel
  <2> QED BY <1>3, <1>7, <1>11, <2>1
<1>12. CASE s[1] # "!" /\ ~(Len(s) > IDLen /\ \A i \in 1..IDLen : s[i] \in Alphabet)
  <2>1. ResolveSafeChannel(c, T) = {m \in T : HasID(m) /\ Short(m) = Tail(c)}
    BY <1>5, <1>9, <1>10, <1>12, Zenon DEF ResolveSafeChannel
  <2>2. n \in ResolveSafeChannel(c, T)
    BY <1>2, <1>3, <1>4, <2>1, Zenon
  <2> QED BY <1>3, <1>12, <2>2
<1> QED BY <1>8, <1>11, <1>12
=============================================================================

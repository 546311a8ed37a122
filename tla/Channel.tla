------------------------------- MODULE Channel -------------------------------
(***************************************************************************)
(* The policy of one '#' channel and its record in the store: the JOIN,    *)
(* PART, KICK, INVITE, MODE and TOPIC handlers of internal/server, the     *)
(* TOPIC and MODE of federation peers, ChanServ's part in a JOIN, and      *)
(* persistChannel and restorePersistentChannels across crashes.            *)
(*                                                                         *)
(* A handler runs on its client's goroutine and takes the channel's mutex  *)
(* for each access on its own; a step is one such access, and accesses of  *)
(* one handler stay together where nothing can tell.  A channel that       *)
(* empties is dropped and the next JOIN makes a new object, while handlers *)
(* that looked the old one up still use it: `ch' in a handler's state is   *)
(* that pointer.  World has the steps inside JoinChannel and PartChannel.  *)
(*                                                                         *)
(* A name can be spelled in several ways that World folds into one, while  *)
(* a row of the database is found by its exact spelling: an object has the *)
(* spelling of the JOIN that made it, and its row is that spelling's.      *)
(*                                                                         *)
(* Set times, set-by and the wording of replies are left out.              *)
(***************************************************************************)
EXTENDS Glob, FiniteSets

CONSTANTS
  Users, None,
  Masks, MaskText,       \* masks, and each as characters
  Hostmask,              \* each user's hostmask as characters
  Topics, Keys,          \* not the empty ones, which are None
  Changes,               \* single mode changes that clients and peers send
  MaxSpellings,          \* ways to write the name, in the order of List
  Founder,               \* who registered the channel with ChanServ, or None
  Registered,            \* ... and the spelling given then
  Guard,                 \* ... with GUARD on
  Identified,            \* users with an account
  Access,                \* ... whose access flags contain "o"
  KeepTopic,             \* ... with KEEPTOPIC on
  MaxObjects,            \* bound: channel objects made in one life
  MaxCommands,           \* bound: commands and further mode changes
  MaxCrashes             \* bound: crashes

Spelling == 1..MaxSpellings
Flags == {"i", "m", "n", "p", "s", "t", "a"}
Lists == {"b", "e", "I", "q"}
\* What a row holds.
SavedRecord ==
  [topic : Topics \cup {None}, flags : SUBSET Flags, key : Keys \cup {None},
   limit : Nat, lists : [Lists -> SUBSET Masks]]

ASSUME ChannelAssumption ==
  /\ None \notin Users \cup Keys \cup Topics /\ None \notin SavedRecord
  /\ MaxSpellings \in Nat \ {0} /\ Registered \in Spelling
  /\ MaxObjects \in Nat \ {0} /\ MaxCommands \in Nat /\ MaxCrashes \in Nat
  /\ Identified \subseteq Users /\ Access \subseteq Identified
  /\ Founder \in Identified \cup {None}
  /\ Founder = None => Access = {}
  /\ Guard \in BOOLEAN /\ KeepTopic \in BOOLEAN

\* ParseModeChanges and applyChannelModes: the letters they know, each with an
\* argument of its kind.
ASSUME ChangesAssumption ==
  \A m \in Changes :
    /\ m.mode \in Flags \cup Lists \cup {"k", "l", "o", "v"}
    /\ m.mode \in Lists => m.arg \in Masks
    /\ m.mode = "k" /\ m.on => m.arg \in Keys
    /\ m.mode = "l" /\ m.on => m.arg \in Nat
    /\ m.mode \in {"o", "v"} => m.arg \in Users

VARIABLES
  obj,      \* channel objects, the dropped ones too
  current,  \* the one World's table holds, or 0
  store,    \* each spelling's row and lists in the database, or None
  task,     \* each client's handler
  told,     \* history: what the last announced change left to be kept
  loose,    \* history: the store need not agree with the channel
  spent,    \* commands so far
  crashes   \* crashes so far

vars == <<obj, current, store, task, told, loose, spent, crashes>>

Object == 1..MaxObjects
NewChannel(name) ==
  [name |-> name, members |-> {}, ops |-> {}, voices |-> {}, invites |-> {},
   flags |-> {"n", "t"}, key |-> None, limit |-> 0, topic |-> None,
   lists |-> [l \in Lists |-> {}]]

\* Which users a mask matches.
Covers == [m \in Masks |->
  {u \in Users : GlobMatch(Fold("rfc1459", MaskText[m]),
                           Fold("rfc1459", Hostmask[u]))}]
Matches(c, l, u) == \E m \in c.lists[l] : u \in Covers[m]

\* What persistChannel saves of a channel.
Saved(c) == [topic |-> c.topic, flags |-> c.flags, key |-> c.key,
             limit |-> c.limit, lists |-> c.lists]

Idle == [at |-> "idle", ch |-> 0, name |-> 1, key |-> None, target |-> None,
         snap |-> Saved(NewChannel(1)), clean |-> FALSE, shut |-> {}]

Init ==
  /\ obj = [o \in Object |-> NewChannel(1)] /\ current = 0
  /\ store = [n \in Spelling |-> None]
  /\ task = [u \in Users |-> Idle]
  /\ told = Saved(NewChannel(1)) /\ loose = TRUE
  /\ spent = 0 /\ crashes = 0

Channel == obj[current]
\* The next object: one that nothing tells from one never used.
Unused == {o \in Object : obj[o] = NewChannel(obj[o].name) /\ o # current
                          /\ \A u \in Users : task[u].ch # o}

\* The first and the last row that List gives.
FirstRow(n) == store[n] # None /\ \A p \in Spelling : store[p] # None => n <= p
LastRow(n) == store[n] # None /\ \A p \in Spelling : store[p] # None => p <= n

\* Why a user with this key is kept out of a channel, the limit apart.
Reasons(c, u, key) ==
  {r \in {"i", "k", "b"} :
     \/ r = "i" /\ "i" \in c.flags /\ ~Matches(c, "I", u) /\ u \notin c.invites
     \/ r = "k" /\ c.key \notin {None, key}
     \/ r = "b" /\ Matches(c, "b", u) /\ ~Matches(c, "e", u)}

\* Between a handler's change and its announcement.
Window(t) == t.at \in {"changed", "read", "save", "tell"}

-----------------------------------------------------------------------------
\* Steps.  Put writes an object; a JOIN under way remembers in `shut' the
\* reasons that have kept its user out of the channel ever since it began.
Put(o, c, tasks) ==
  /\ obj' = [obj EXCEPT ![o] = c]
  /\ task' = [v \in Users |->
       IF o # current THEN tasks[v]
       ELSE [tasks[v] EXCEPT !.shut = @ \cap Reasons(c, v, tasks[v].key)]]

\* A change of what is saved: the windows of others are not their own any more.
Change(o, c, tasks) ==
  Put(o, c, [v \in Users |-> [tasks[v] EXCEPT !.clean = @ /\ c = obj[o]]])

\* A handler's own change opens its window, if it is not open already.
OwnChange(u, c, place) ==
  LET alone == \A v \in Users \ {u} : ~Window(task[v])
      mine == IF Window(task[u]) THEN task[u].clean ELSE alone
  IN Put(task[u].ch, c,
         [v \in Users |->
            IF v = u THEN [task[u] EXCEPT !.at = place, !.clean = mine]
            ELSE [task[v] EXCEPT !.clean = FALSE]])

Begin(u, t) ==
  /\ task[u].at = "idle" /\ spent < MaxCommands
  /\ spent' = spent + 1 /\ task' = [task EXCEPT ![u] = t]
  /\ UNCHANGED <<obj, current, store, told, loose, crashes>>

At(u, place) == task[u].at = place
Go(u, place) == task' = [task EXCEPT ![u].at = place]
Done(u) == task' = [task EXCEPT ![u] = Idle]
World == <<obj, current>>
Books == <<store, told, loose, spent, crashes>>

-----------------------------------------------------------------------------
(* JOIN: joinOne and checkJoinPolicy. *)
Join(u, key) ==
  Begin(u, IF current = 0
           THEN [Idle EXCEPT !.at = "enter", !.key = key]
           ELSE [Idle EXCEPT !.at = "door", !.ch = current, !.key = key,
                   !.snap = Saved(Channel), !.shut = Reasons(Channel, u, key)])

\* +i: a mask on the invite-exception list, or an invitation, which is used up.
Door(u) ==
  /\ At(u, "door")
  /\ LET c == obj[task[u].ch]
         free == "i" \notin task[u].snap.flags \/ Matches(c, "I", u)
         spends == ~free /\ u \in c.invites
     IN /\ Put(task[u].ch,
               IF spends THEN [c EXCEPT !.invites = @ \ {u}] ELSE c,
               [task EXCEPT ![u] =
                  IF free \/ spends
                  THEN [task[u] EXCEPT !.at = "room", !.shut = @ \ {"i"}] ELSE Idle])
  /\ UNCHANGED <<current, Books>>

\* +k and +l, as they were when the handler read the modes.
Room(u) ==
  /\ At(u, "room")
  /\ LET t == task[u]
         full == t.snap.limit > 0
                 /\ Cardinality(obj[t.ch].members) >= t.snap.limit
     IN IF t.snap.key \in {None, t.key} /\ ~full THEN Go(u, "ban") ELSE Done(u)
  /\ UNCHANGED <<World, Books>>

\* Mutant: an invitation that let the user in at the door also lifts the ban.
MatchesBanUnlessInvited(u) ==
  /\ At(u, "ban")
  /\ Go(u, IF Matches(obj[task[u].ch], "b", u) /\ "i" \notin task[u].snap.flags
           THEN "except" ELSE "enter")
  /\ UNCHANGED <<World, Books>>

MatchesBan(u) ==
  /\ At(u, "ban")
  /\ Go(u, IF Matches(obj[task[u].ch], "b", u) THEN "except" ELSE "enter")
  /\ UNCHANGED <<World, Books>>

MatchesException(u) ==
  /\ At(u, "except")
  /\ IF Matches(obj[task[u].ch], "e", u) THEN Go(u, "enter") ELSE Done(u)
  /\ UNCHANGED <<World, Books>>

\* World.JoinChannel, by name: whatever object is there now, or a new one with
\* the user as its operator, under the spelling that the JOIN gave and nothing
\* has asked for so far.  Then ChanServ is told, of the object's name.
Enter(u, given) ==
  /\ At(u, "enter")
  /\ LET ChanServ(name) == [Idle EXCEPT !.at = "chanserv", !.name = name]
     IN IF current # 0
        THEN /\ Put(current, [Channel EXCEPT !.members = @ \cup {u}],
                    [task EXCEPT ![u] = IF u \in Channel.members THEN Idle
                                        ELSE ChanServ(Channel.name)])
             /\ UNCHANGED <<current, loose>>
        ELSE \E o \in Unused :
               /\ \A p \in Unused : o <= p
               /\ obj' = [obj EXCEPT ![o] = [NewChannel(given) EXCEPT
                                               !.members = {u}, !.ops = {u}]]
               /\ task' = [task EXCEPT ![u] = ChanServ(given)]
               /\ current' = o /\ loose' = TRUE
  /\ UNCHANGED <<store, told, spent, crashes>>

\* Service.CheckJoin and autoOp; the founder with GUARD needs no more.  The
\* registration is found under its own spelling only.
CheckJoin(u) ==
  /\ At(u, "chanserv")
  /\ IF task[u].name = Registered /\ current # 0 /\ u \in Channel.members
        /\ (u \in Access \/ (u = Founder /\ Guard))
     THEN obj' = [obj EXCEPT ![current].ops = @ \cup {u}]
     ELSE UNCHANGED obj
  /\ IF /\ KeepTopic /\ Founder # None /\ task[u].name = Registered
        /\ u \in Identified /\ ~(u = Founder /\ Guard)
     THEN Go(u, "keep") ELSE Done(u)
  /\ UNCHANGED <<current, Books>>

\* maybeRestoreTopic: only for one member without a topic.
KeepTopicLooks(u) ==
  /\ At(u, "keep")
  /\ LET row == store[task[u].name]
     IN IF /\ current # 0 /\ Cardinality(Channel.members) = 1
           /\ Channel.topic = None /\ row # None /\ row.topic # None
        THEN task' = [task EXCEPT ![u] = [Idle EXCEPT !.at = "restore",
                                            !.ch = current, !.snap = row]]
        ELSE Done(u)
  /\ UNCHANGED <<World, Books>>

KeepTopicSets(u) ==
  /\ At(u, "restore")
  /\ LET t == task[u]
     IN Change(t.ch, [obj[t.ch] EXCEPT !.topic = t.snap.topic],
               [task EXCEPT ![u] = Idle])
  /\ loose' = TRUE /\ UNCHANGED <<current, store, told, spent, crashes>>

-----------------------------------------------------------------------------
(* PART, KICK and INVITE. *)
\* Mutant: the ranks stay.
OutKeepingRanks(c, u) == [c EXCEPT !.members = @ \ {u}]

Out(c, u) == [c EXCEPT !.members = @ \ {u}, !.ops = @ \ {u}, !.voices = @ \ {u}]

\* World.PartChannel, by name; the last one out closes the door.
PartChannel(u, tasks) ==
  IF current = 0 \/ u \notin Channel.members
  THEN task' = tasks /\ UNCHANGED <<World, loose>>
  ELSE /\ obj' = [obj EXCEPT ![current] = Out(Channel, u)]
       /\ IF Channel.members = {u}
          THEN /\ current' = 0 /\ loose' = TRUE
               /\ task' = [v \in Users |-> [tasks[v] EXCEPT !.shut = {}]]
          ELSE task' = tasks /\ UNCHANGED <<current, loose>>

Part(u) ==
  /\ At(u, "idle") /\ spent < MaxCommands
  /\ current # 0 /\ u \in Channel.members
  /\ PartChannel(u, task)
  /\ spent' = spent + 1 /\ UNCHANGED <<store, told, crashes>>

Kick(u, v) ==
  /\ current # 0 /\ u \in Channel.ops /\ v \in Channel.members
  /\ Begin(u, [Idle EXCEPT !.at = "kick", !.target = v])

KickActs(u) ==
  /\ At(u, "kick")
  /\ PartChannel(task[u].target, [task EXCEPT ![u] = Idle])
  /\ UNCHANGED <<store, told, spent, crashes>>

Invite(u, v) ==
  /\ current # 0 /\ u \in Channel.members /\ v \notin Channel.members
  /\ "i" \in Channel.flags => u \in Channel.ops
  /\ Begin(u, [Idle EXCEPT !.at = "invite", !.ch = current, !.target = v])

AddInvite(u) ==
  /\ At(u, "invite")
  /\ LET t == task[u]
     IN Put(t.ch, [obj[t.ch] EXCEPT !.invites = @ \cup {t.target}],
            [task EXCEPT ![u] = Idle])
  /\ UNCHANGED <<current, Books>>

With(set, x, on) == IF on THEN set \cup {x} ELSE set \ {x}

\* OP and DEOP of ChanServ, for the founder and whoever has the flag, who need
\* not be in the channel: IsMember, then the rank of one who still is.
MayOp(u) == u \in Access \cup {Founder}

SetOperator(u, v, on) ==
  /\ At(u, "idle") /\ spent < MaxCommands /\ MayOp(u)
  /\ current # 0 /\ v \in Channel.members
  /\ obj' = [obj EXCEPT ![current].ops = With(@, v, on)]
  /\ spent' = spent + 1
  /\ UNCHANGED <<current, store, task, told, loose, crashes>>

-----------------------------------------------------------------------------
(* MODE and TOPIC. *)

\* One mode change; +o and +v only reach members.
Changed(c, m) ==
  CASE m.mode \in Flags -> [c EXCEPT !.flags = With(@, m.mode, m.on)]
    [] m.mode \in Lists -> [c EXCEPT !.lists[m.mode] = With(@, m.arg, m.on)]
    [] m.mode = "k" -> [c EXCEPT !.key = IF m.on THEN m.arg ELSE None]
    [] m.mode = "l" -> [c EXCEPT !.limit = IF m.on THEN m.arg ELSE 0]
    [] m.mode = "o" -> [c EXCEPT !.ops = With(@, m.arg, m.on) \cap c.members]
    [] m.mode = "v" -> [c EXCEPT !.voices = With(@, m.arg, m.on) \cap c.members]

Mode(u) ==
  /\ current # 0 /\ u \in Channel.ops
  /\ Begin(u, [Idle EXCEPT !.at = "apply", !.ch = current])

\* applyChannelModes, one letter; rank changes count even when they change
\* nothing.  More letters may follow.
Apply(u, m) ==
  /\ task[u].at \in {"apply", "changed"}
  /\ task[u].at = "changed" => spent < MaxCommands
  /\ LET c == obj[task[u].ch]
     IN /\ Changed(c, m) # c \/ (m.mode \in {"o", "v"} /\ m.arg \in c.members)
        /\ OwnChange(u, Changed(c, m), "changed")
  /\ spent' = spent + (IF At(u, "changed") THEN 1 ELSE 0)
  /\ UNCHANGED <<current, store, told, loose, crashes>>

\* No letter took effect.
NoChange(u) ==
  /\ At(u, "apply") /\ Done(u)
  /\ UNCHANGED <<World, Books>>

Topic(u) ==
  /\ current # 0 /\ u \in Channel.members
  /\ "t" \in Channel.flags => u \in Channel.ops
  /\ Begin(u, [Idle EXCEPT !.at = "topic", !.ch = current])

SetTopic(u, text) ==
  /\ At(u, "topic")
  /\ OwnChange(u, [obj[task[u].ch] EXCEPT !.topic = text], "changed")
  /\ UNCHANGED <<current, Books>>

\* persistChannel reads the mode word, then topic, key, limit and lists, each
\* under the mutex of its own: the first is kept apart from the rest here.
ReadModes(u) ==
  /\ At(u, "changed")
  /\ task' = [task EXCEPT ![u].at = "read", ![u].snap = Saved(obj[task[u].ch])]
  /\ UNCHANGED <<World, Books>>

ReadRest(u) ==
  /\ At(u, "read")
  /\ task' = [task EXCEPT ![u].at = "save",
       ![u].snap = [Saved(obj[task[u].ch]) EXCEPT !.flags = task[u].snap.flags]]
  /\ UNCHANGED <<World, Books>>

\* Upsert, one transaction, with the connection's context: a cancelled one or
\* an error of the database leaves the row as it was, which is only logged.
\* The row is the one of the object's spelling; one of a later spelling, which
\* nothing deletes, would be restored over it.
Upsert(u, ok) ==
  /\ At(u, "save")
  /\ LET name == obj[task[u].ch].name
         good == /\ ok /\ task[u].clean /\ task[u].ch = current
                 /\ \A p \in Spelling : p > name => store[p] = None
     IN /\ store' = IF ok THEN [store EXCEPT ![name] = task[u].snap] ELSE store
        /\ loose' = ~good
        /\ task' = [task EXCEPT ![u].at = "tell", ![u].clean = good]
  /\ UNCHANGED <<World, told, spent, crashes>>

Tell(u) ==
  /\ At(u, "tell")
  /\ told' = IF task[u].clean /\ task[u].ch = current THEN task[u].snap ELSE told
  /\ Done(u)
  /\ UNCHANGED <<World, store, loose, spent, crashes>>

-----------------------------------------------------------------------------
(* Peers: no check of rights, and nothing is saved. *)
Remote(c) ==
  /\ current # 0 /\ spent < MaxCommands
  /\ spent' = spent + 1
  /\ Change(current, c, task)
  /\ loose' = TRUE
  /\ UNCHANGED <<current, store, told, crashes>>

RemoteTopic(text) == Remote([Channel EXCEPT !.topic = text])

\* applyRemoteChannelMode knows fewer letters.
RemoteMode(m) ==
  /\ m.mode \in {"i", "m", "n", "p", "s", "t", "k", "l", "o", "v", "b"}
  /\ Remote(Changed(Channel, m))

-----------------------------------------------------------------------------
\* Mutant: the invite exceptions are not read back.
RestoreStateWithoutInvexes(name, rec) ==
  [NewChannel(name) EXCEPT !.topic = rec.topic, !.flags = rec.flags,
     !.key = rec.key, !.limit = rec.limit, !.lists = [rec.lists EXCEPT !["I"] = {}]]

\* RestoreState on a fresh object: no members, no invitations.
RestoreState(name, rec) ==
  [NewChannel(name) EXCEPT !.topic = rec.topic, !.flags = rec.flags,
     !.key = rec.key, !.limit = rec.limit, !.lists = rec.lists]

\* The process dies and comes back: restorePersistentChannels runs before the
\* listeners are bound.  The first row makes the object, and each row in turn is
\* restored into it: the last one stays.  What was saved and not announced yet
\* may be told to the next members as well as what came before it.
Restart ==
  /\ crashes < MaxCrashes /\ crashes' = crashes + 1
  /\ task' = [u \in Users |-> Idle]
  /\ \/ /\ \A n \in Spelling : store[n] = None
        /\ obj' = [o \in Object |-> NewChannel(1)] /\ current' = 0
        /\ loose' = TRUE /\ UNCHANGED told
     \/ \E first, last \in Spelling :
          /\ FirstRow(first) /\ LastRow(last)
          /\ obj' = [o \in Object |-> IF o = 1 THEN RestoreState(first, store[last])
                                      ELSE NewChannel(1)]
          /\ current' = 1
          /\ LET unsure == \/ loose
                           \/ \E u \in Users : Window(task[u])
                                               /\ (At(u, "tell") \/ ~task[u].clean)
             IN told' = IF unsure THEN store[last] ELSE told
          /\ loose' = FALSE
  /\ UNCHANGED <<store, spent>>

Handler(u) ==
  \/ \E key \in Keys \cup {None} : Join(u, key)
  \/ Door(u) \/ Room(u) \/ MatchesBan(u) \/ MatchesException(u)
  \/ \E name \in Spelling : Enter(u, name)
  \/ CheckJoin(u) \/ KeepTopicLooks(u) \/ KeepTopicSets(u)
  \/ Part(u) \/ KickActs(u) \/ AddInvite(u)
  \/ \E v \in Users \ {u} : Kick(u, v) \/ Invite(u, v)
  \/ \E v \in Users, on \in BOOLEAN : SetOperator(u, v, on)
  \/ Mode(u) \/ NoChange(u) \/ \E m \in Changes : Apply(u, m)
  \/ Topic(u) \/ \E text \in Topics \cup {None} : SetTopic(u, text)
  \/ ReadModes(u) \/ ReadRest(u) \/ Tell(u)
  \/ \E ok \in BOOLEAN : Upsert(u, ok)

Next ==
  \/ \E u \in Users : Handler(u)
  \/ \E text \in Topics \cup {None} : RemoteTopic(text)
  \/ \E m \in Changes : RemoteMode(m)
  \/ Restart

Spec == Init /\ [][Next]_vars

-----------------------------------------------------------------------------
ChannelRecord ==
  [name : Spelling, members : SUBSET Users, ops : SUBSET Users,
   voices : SUBSET Users, invites : SUBSET Users, flags : SUBSET Flags,
   key : Keys \cup {None}, limit : Nat, topic : Topics \cup {None},
   lists : [Lists -> SUBSET Masks]]

Place == {"idle", "door", "room", "ban", "except", "enter", "chanserv", "keep",
          "restore", "kick", "invite", "apply", "topic", "changed", "read",
          "save", "tell"}
Why == {"i", "k", "b"}
Changing == {"apply", "topic", "changed", "read"}
Task == [at : Place, ch : Object \cup {0}, name : Spelling,
         key : Keys \cup {None}, target : Users \cup {None},
         snap : SavedRecord, clean : BOOLEAN, shut : SUBSET Why]

\* Types; an operator or a voice is a member, and only the object in the table
\* has members; an INVITE under way has somebody to invite, a MODE or TOPIC an
\* object to change.
TypeOK ==
  /\ obj \in [Object -> ChannelRecord] /\ current \in Object \cup {0}
  /\ store \in [Spelling -> SavedRecord \cup {None}]
  /\ task \in [Users -> Task] /\ told \in SavedRecord
  /\ loose \in BOOLEAN /\ spent \in 0..MaxCommands /\ crashes \in 0..MaxCrashes
  /\ \A o \in Object : /\ obj[o].ops \cup obj[o].voices \subseteq obj[o].members
                       /\ o # current => obj[o].members = {}
  /\ \A u \in Users : /\ At(u, "invite") => task[u].target \in Users
                      /\ task[u].at \in Changing => task[u].ch \in Object

\* handler_mode.go:91 and handler_channels.go:606: a change is saved before it
\* is announced.  So when no change is under way, the channel, which may have
\* been restored after a crash at any step in between, keeps what the last
\* announcement said: topic, modes, key, limit and all four lists.  Not when
\* changes overlapped, a save failed, a peer or KEEPTOPIC changed the channel,
\* it was dropped since, or it was saved while a row of another spelling came
\* after its own in List, which a restart prefers (`loose').
AnnouncedHolds ==
  (~loose /\ current # 0 /\ \A u \in Users : ~Window(task[u]))
    => told = Saved(Channel)

\* checkJoinPolicy asks for the modes, the invitation, the ban and the
\* exception one after the other while others change them.  A user enters only
\* if each reason to keep it out was absent at some moment of its JOIN.
DoorsHold ==
  [][\A u \in Users :
       At(u, "enter") /\ task'[u].at = "chanserv" => task[u].shut = {}]_vars
=============================================================================

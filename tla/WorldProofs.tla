----------------------------- MODULE WorldProofs -----------------------------
(***************************************************************************)
(* Theorems about World, for every set of connections, nicknames and       *)
(* channel names: first its types, indices and operators, then what        *)
(* Conn.close leaves behind.                                               *)
(***************************************************************************)
EXTENDS World, TLAPS

(* A goroutine that goes to a task of the right shape keeps all tasks so.  *)
LEMMA GotoType ==
    ASSUME task \in [Conns -> Tasks],
           allocated \in Nat, allocated' \in Nat, allocated <= allocated',
           \A d \in Conns : WellFormed(task[d], allocated),
           NEW c \in Conns, NEW t \in Tasks, WellFormed(t, allocated'), Goto(c, t)
    PROVE  /\ task' \in [Conns -> Tasks]
           /\ \A d \in Conns : WellFormed(task'[d], allocated')
<1>1. /\ task' \in [Conns -> Tasks]
      /\ task'[c] = t
      /\ \A d \in Conns : d # c => task'[d] = task[d]
  BY DEF Goto
<1>2. \A d \in Conns : WellFormed(task[d], allocated')
  BY DEF WellFormed
<1> QED
  BY <1>1, <1>2

LEMMA TaskValues ==
    /\ \A p \in Places, n \in Names \cup {NoName}, o \in Objects \cup {0},
          v \in Conns \cup {Nobody}, f \in BOOLEAN, s \in SUBSET Names :
          Doing(p, n, o, v, f, s) \in Tasks
    /\ Idle \in Tasks
    /\ \A p \in Places, s \in SUBSET Names : At(p, s) \in Tasks
    /\ \A s, k : \A p \in {"new", "registering", "idle", "closing", "unregister",
                          "forget", "closed"} : WellFormed(At(p, s), k)
    /\ \A k : WellFormed(Idle, k)
BY DEF Idle, At, Doing, Tasks, Places, WellFormed

\* The task a step of an operation builds has the right shape.
LEMMA DoingType ==
    ASSUME NEW p \in {"ensure", "count", "add", "reop", "part", "mode"},
           NEW n \in Names, NEW o \in Objects \cup {0}, NEW v \in Conns \cup {Nobody},
           NEW f \in BOOLEAN, NEW s \in SUBSET Names, NEW k \in Nat,
           p \in {"count", "add", "reop", "mode"} => o \in 1..k,
           p = "part" => v \in Conns
    PROVE  Doing(p, n, o, v, f, s) \in Tasks /\ WellFormed(Doing(p, n, o, v, f, s), k)
BY DEF Doing, Tasks, Places, WellFormed

LEMMA ReturnType ==
    ASSUME task \in [Conns -> Tasks], NEW c \in Conns
    PROVE  Return(c) \in Tasks /\ \A k : WellFormed(Return(c), k)
<1>1. task[c].todo \in SUBSET Names
  BY DEF Tasks
<1> QED
  BY <1>1, TaskValues DEF Return, Places

LEMMA ProceedType ==
    ASSUME task \in [Conns -> Tasks], NEW c \in Conns,
           task[c].at \in {"part", "remove", "recount"}, NEW k \in Nat, NEW j \in Nat,
           WellFormed(task[c], k),
           NEW p \in {"remove", "recount", "drop"}, NEW o \in Objects, o \in 1..j
    PROVE  Proceed(c, p, o) \in Tasks /\ WellFormed(Proceed(c, p, o), j)
BY DEF Proceed, Doing, Tasks, Places, WellFormed

LEMMA TypeInit == Init => TypeOK
BY TaskValues, FoldAssumption, MaxObjectsAssumption DEF Init, TypeOK, Objects, Places

\* One step per action: what it assigns is in range, its next task well-formed.
LEMMA TypeStep == TypeOK /\ [Next]_vars => TypeOK'
<1> USE FoldAssumption, SafeAssumption, LimitsAssumption, MaxObjectsAssumption
<1>2. TypeOK /\ [Next]_vars => TypeOK'
  <2> SUFFICES ASSUME TypeOK, [Next]_vars PROVE TypeOK'
    OBVIOUS
  <2>0. /\ task \in [Conns -> Tasks]
        /\ allocated \in Nat
        /\ \A c \in Conns : WellFormed(task[c], allocated)
        /\ \A n \in Names : byChannel[n] # 0 => byChannel[n] \in Objects /\ byChannel[n] \in 1..allocated
    BY DEF TypeOK, Objects
  <2>1. ASSUME NEW c \in Conns, NEW t \in Tasks, Goto(c, t), WellFormed(t, allocated),
               UNCHANGED <<chanVars>>
        PROVE  /\ task' \in [Conns -> Tasks]
               /\ \A d \in Conns : WellFormed(task'[d], allocated')
    <3>1. allocated' = allocated
      BY <2>1 DEF chanVars
    <3> QED
      BY <2>0, <2>1, <3>1, GotoType
  <2>2. ASSUME NEW c \in Conns, NEW t \in Tasks, Goto(c, t), WellFormed(t, allocated),
               UNCHANGED allocated
        PROVE  /\ task' \in [Conns -> Tasks]
               /\ \A d \in Conns : WellFormed(task'[d], allocated')
    BY <2>0, <2>2, GotoType
  <2>3. ASSUME NEW u \in Conns, NEW n \in Nicks, RenameUser(u, n)
        PROVE  /\ byNick' \in [Keys -> Conns \cup {Nobody}]
               /\ byID' \subseteq Conns
               /\ nick' \in [Conns -> Nicks]
    BY <2>3 DEF RenameUser, TypeOK
  <2>4. ASSUME NEW u \in Conns, RemoveUser(u)
        PROVE  /\ byNick' \in [Keys -> Conns \cup {Nobody}]
               /\ byID' \subseteq Conns
               /\ nick' \in [Conns -> Nicks]
    BY <2>4 DEF RemoveUser, TypeOK
  <2>5. CASE \E c \in Conns : Command(c)
    <3> SUFFICES ASSUME NEW c \in Conns, Command(c) PROVE TypeOK'
      BY <2>5
    <3>1. ASSUME NEW n \in Nicks, AddUser(c, n) PROVE TypeOK'
      <4>1. Goto(c, At("registering", {})) /\ UNCHANGED chanVars
        BY <3>1 DEF AddUser
      <4> QED
        BY <2>1, <3>1, <4>1, TaskValues DEF AddUser, TypeOK, chanVars, connVars, Places
    <3>2. ASSUME NEW n \in Nicks, ChangeNick(c, n) PROVE TypeOK'
      BY <2>3, <3>2 DEF ChangeNick, TypeOK, chanVars, connVars
    <3>3. ASSUME NEW n \in Names,
                 Knock(c, n) \/ Part(c, n) \/ ModeCheck(c, n) \/ \E v \in Conns : Kick(c, v, n)
          PROVE TypeOK'
      <4>1. \E t \in Tasks : Goto(c, t) /\ WellFormed(t, allocated)
        <5>1. CASE Knock(c, n)
          <6>1. /\ Doing("ensure", n, 0, Nobody, FALSE, {}) \in Tasks
                /\ WellFormed(Doing("ensure", n, 0, Nobody, FALSE, {}), allocated)
            BY <2>0, DoingType
          <6> QED
            BY <5>1, <6>1 DEF Knock
        <5>2. ASSUME NEW v \in Conns, Part(c, n) \/ Kick(c, v, n)
              PROVE  \E t \in Tasks : Goto(c, t) /\ WellFormed(t, allocated)
          <6>1. \A d \in Conns : /\ Doing("part", n, 0, d, FALSE, {}) \in Tasks
                                /\ WellFormed(Doing("part", n, 0, d, FALSE, {}), allocated)
            BY <2>0, DoingType
          <6> QED
            BY <5>2, <6>1 DEF Part, Kick
        <5>3. CASE ModeCheck(c, n)
          <6>1. byChannel[n] # 0
            BY <5>3 DEF ModeCheck
          <6>2. /\ Doing("mode", n, byChannel[n], Nobody, FALSE, {}) \in Tasks
                /\ WellFormed(Doing("mode", n, byChannel[n], Nobody, FALSE, {}), allocated)
            BY <2>0, <6>1, DoingType
          <6> QED
            BY <5>3, <6>2 DEF ModeCheck
        <5> QED
          BY <3>3, <5>1, <5>2, <5>3
      <4> QED
        BY <2>1, <3>3, <4>1
        DEF Knock, Part, ModeCheck, Kick, TypeOK, userVars, chanVars, connVars
    <3>4. CASE Cancel(c)
      BY <3>4 DEF Cancel, TypeOK, userVars, chanVars
    <3> QED
      BY <3>1, <3>2, <3>3, <3>4 DEF Command
  <2>6. CASE \E c \in Conns : Continue(c)
    <3> SUFFICES ASSUME NEW c \in Conns, Continue(c) PROVE TypeOK'
      BY <2>6
    <3>0. /\ task[c] \in Tasks
          /\ WellFormed(task[c], allocated)
      BY <2>0
    <3>1. CASE RegisterConn(c)
      BY <2>1, <3>1, TaskValues DEF RegisterConn, TypeOK, chanVars, userVars
    <3>2. CASE EnsureChannel(c)
      <4>1. task[c].name \in Names
        BY <3>0, <3>2 DEF EnsureChannel, WellFormed
      <4>2. CASE byChannel[task[c].name] # 0 /\ UNCHANGED chanVars
        <5>1. \E t \in Tasks : Goto(c, t) /\ WellFormed(t, allocated)
          <6> DEFINE t == Doing("count", task[c].name, byChannel[task[c].name], Nobody, FALSE, {})
          <6>1. t \in Tasks /\ WellFormed(t, allocated)
            BY <2>0, <4>1, <4>2, DoingType
          <6>2. Goto(c, t)
            BY <3>2, <4>2 DEF EnsureChannel, Goto
          <6> QED
            BY <6>1, <6>2
        <5> QED
          BY <2>1, <3>2, <4>2, <5>1 DEF EnsureChannel, TypeOK, userVars, chanVars, connVars
      <4>3. CASE byChannel[task[c].name] = 0 /\ allocated < MaxObjects
        <5>1. allocated' = allocated + 1 /\ allocated + 1 \in Objects
          BY <3>2, <4>3 DEF EnsureChannel, TypeOK, Objects, chanVars
        <5>2. \E t \in Tasks : Goto(c, t) /\ WellFormed(t, allocated')
          <6> DEFINE t == Doing("add", task[c].name, allocated + 1, Nobody, TRUE, {})
          <6>1. allocated + 1 \in 1..(allocated + 1) /\ allocated + 1 \in Nat
            BY <2>0
          <6>2. /\ Nobody \in Conns \cup {Nobody}
                /\ allocated + 1 \in Objects \cup {0}
            BY <5>1
          <6>3. t \in Tasks /\ WellFormed(t, allocated + 1)
            BY <4>1, <6>1, <6>2, DoingType
          <6>4. t \in Tasks /\ WellFormed(t, allocated')
            BY <5>1, <6>3
          <6>5. Goto(c, t)
            BY <3>2, <4>3 DEF EnsureChannel
          <6> QED
            BY <6>4, <6>5
        <5>3. /\ task' \in [Conns -> Tasks]
              /\ \A d \in Conns : WellFormed(task'[d], allocated')
          BY <2>0, <5>1, <5>2, GotoType
        <5> QED
          BY <3>2, <4>1, <4>3, <5>1, <5>3 DEF EnsureChannel, TypeOK, userVars, connVars
      <4> QED
        BY <3>2, <4>2, <4>3 DEF EnsureChannel
    <3>3. CASE JoinUnknown(c) \/ CountMembers(c) \/ PartFind(c) \/ RecountMembers(c)
               \/ CloseConn(c) \/ CloseNext(c)
      <4>1. \E t \in Tasks : Goto(c, t) /\ WellFormed(t, allocated)
        <5>1. CASE JoinUnknown(c)
          BY <5>1, TaskValues DEF JoinUnknown
        <5>2. CASE CountMembers(c)
          <6>1. task[c].name \in Names /\ task[c].obj \in Objects /\ task[c].obj \in 1..allocated
            BY <3>0, <5>2 DEF CountMembers, WellFormed, Objects, TypeOK
          <6>2. \A v \in Conns \cup {Nobody} :
                  /\ Doing("add", task[c].name, task[c].obj, v, FALSE, {}) \in Tasks
                  /\ WellFormed(Doing("add", task[c].name, task[c].obj, v, FALSE, {}), allocated)
            BY <2>0, <6>1, DoingType
          <6> QED
            BY <5>2, <6>2 DEF CountMembers
        <5>3. CASE PartFind(c)
          BY <2>0, <3>0, <5>3, ReturnType, ProceedType DEF PartFind, WellFormed
        <5>4. CASE RecountMembers(c)
          <6>1. task[c].obj \in Objects /\ task[c].obj \in 1..allocated
            BY <3>0, <5>4 DEF RecountMembers, WellFormed, TypeOK, Objects
          <6> QED
            BY <2>0, <3>0, <5>4, <6>1, ReturnType, ProceedType DEF RecountMembers
        <5>5. CASE CloseConn(c)
          BY <5>5, TaskValues DEF CloseConn, Places
        <5>6. CASE CloseNext(c)
          <6>1. task[c].todo \in SUBSET Names
            BY <3>0 DEF Tasks
          <6> QED
            <7>1. \A n \in task[c].todo :
                    /\ Doing("part", n, 0, c, TRUE, task[c].todo \ {n}) \in Tasks
                    /\ WellFormed(Doing("part", n, 0, c, TRUE, task[c].todo \ {n}), allocated)
              BY <2>0, <6>1, DoingType
            <7>2. At("unregister", {}) \in Tasks /\ WellFormed(At("unregister", {}), allocated)
              BY TaskValues DEF Places
            <7> QED
              BY <5>6, <7>1, <7>2 DEF CloseNext
        <5> QED
          BY <3>3, <5>1, <5>2, <5>3, <5>4, <5>5, <5>6
      <4> QED
        BY <2>1, <3>3, <4>1
        DEF JoinUnknown, CountMembers, PartFind, RecountMembers, CloseConn, CloseNext,
            TypeOK, userVars, chanVars, connVars
    <3>4. CASE AddMember(c)
      <4>1. \E t \in Tasks : Goto(c, t) /\ WellFormed(t, allocated)
        <5>1. task[c].name \in Names /\ task[c].obj \in Objects /\ task[c].obj \in 1..allocated
          BY <3>0, <3>4 DEF AddMember, WellFormed, TypeOK, Objects
        <5>2. /\ Doing("reop", task[c].name, task[c].obj, Nobody, FALSE, {}) \in Tasks
              /\ WellFormed(Doing("reop", task[c].name, task[c].obj, Nobody, FALSE, {}), allocated)
          BY <2>0, <5>1, DoingType
        <5> QED
          BY <3>4, <5>2, TaskValues DEF AddMember
      <4>2. /\ members' \in [Objects -> SUBSET Conns]
            /\ ops' \in [Objects -> SUBSET Conns]
            /\ creators' \in [Objects -> SUBSET Conns]
        <5>1. members' \in [Objects -> SUBSET Conns]
          BY <3>4 DEF AddMember, TypeOK
        <5>2. ops' \in [Objects -> SUBSET Conns]
          BY <3>4 DEF AddMember, TypeOK
        <5>3. creators' \in [Objects -> SUBSET Conns]
          BY <3>4 DEF AddMember, TypeOK
        <5> QED
          BY <5>1, <5>2, <5>3
      <4>3. /\ task' \in [Conns -> Tasks]
            /\ \A d \in Conns : WellFormed(task'[d], allocated')
        BY <2>2, <3>4, <4>1 DEF AddMember
      <4> QED
        BY <3>4, <4>2, <4>3, Zenon DEF AddMember, TypeOK, userVars, connVars
    <3>5. CASE ReopMember(c)
      BY <2>2, <3>5, TaskValues DEF ReopMember, TypeOK, userVars, connVars
    <3>6. CASE RemoveMember(c)
      <4>1. task[c].obj \in Objects /\ task[c].obj \in 1..allocated
        BY <3>0, <3>6 DEF RemoveMember, WellFormed, TypeOK, Objects
      <4>2. \E t \in Tasks : Goto(c, t) /\ WellFormed(t, allocated)
        BY <2>0, <3>0, <3>6, <4>1, ReturnType, ProceedType DEF RemoveMember
      <4> QED
        BY <2>2, <3>6, <4>2 DEF RemoveMember, TypeOK, userVars, connVars
    <3>7. CASE DropChannel(c)
      <4>1. Return(c) \in Tasks /\ WellFormed(Return(c), allocated)
        BY <2>0, ReturnType
      <4> QED
        <5>1. byChannel' \in [Names -> 0..allocated'] /\ allocated' = allocated
          <6>1. byChannel \in [Names -> 0..allocated] /\ 0 \in 0..allocated
            BY <2>0 DEF TypeOK
          <6>2. byChannel' = [byChannel EXCEPT ![task[c].name] = 0]
            BY <3>7 DEF DropChannel
          <6>3. allocated' = allocated
            BY <3>7 DEF DropChannel
          <6> QED
            BY <6>1, <6>2, <6>3
        <5> QED
          BY <2>2, <3>7, <4>1, <5>1 DEF DropChannel, TypeOK, userVars, connVars
    <3>8. CASE UnregisterConn(c)
      BY <2>1, <3>8, TaskValues DEF UnregisterConn, TypeOK, userVars, chanVars, Places
    <3>9. CASE ForgetUser(c)
      <4>1. Goto(c, At("closed", {})) /\ UNCHANGED chanVars
        BY <3>9 DEF ForgetUser
      <4> QED
        BY <2>1, <2>4, <3>9, <4>1, TaskValues DEF ForgetUser, TypeOK, chanVars, connVars, Places
    <3>10. ASSUME NEW on \in BOOLEAN, SetReop(c, on) PROVE TypeOK'
      BY <2>2, <3>10, TaskValues DEF SetReop, TypeOK, userVars, connVars
    <3>11. ASSUME NEW l \in Limits, SetLimit(c, l) PROVE TypeOK'
      BY <2>2, <3>11, TaskValues DEF SetLimit, TypeOK, userVars, connVars
    <3>12. ASSUME NEW v \in Conns, NEW on \in BOOLEAN, SetOp(c, v, on) PROVE TypeOK'
      BY <2>2, <3>12, TaskValues DEF SetOp, TypeOK, userVars, connVars
    <3> QED
      BY <3>1, <3>2, <3>3, <3>4, <3>5, <3>6, <3>7, <3>8, <3>9, <3>10, <3>11, <3>12 DEF Continue
  <2>7. ASSUME NEW u \in Conns, ServiceFind(u) PROVE TypeOK'
    BY <2>7 DEF ServiceFind, TypeOK, userVars, chanVars, connVars
  <2>8. ASSUME NEW n \in Nicks, ServiceRename(n) PROVE TypeOK'
    <3>1. service \in Conns
      BY <2>8 DEF ServiceRename, TypeOK
    <3>2. CASE RenameUser(service, n)
      BY <2>3, <2>8, <3>1, <3>2 DEF ServiceRename, TypeOK, chanVars, connVars
    <3>3. CASE UNCHANGED userVars
      BY <2>8, <3>3 DEF ServiceRename, TypeOK, userVars, chanVars, connVars
    <3> QED
      BY <2>8, <3>2, <3>3 DEF ServiceRename
  <2>9. ASSUME NEW u \in Conns, LinkRemove(u) PROVE TypeOK'
    BY <2>4, <2>9 DEF LinkRemove, TypeOK, chanVars, connVars
  <2>10. CASE DropLocalUser
    BY <2>10 DEF DropLocalUser, TypeOK, userVars, chanVars
  <2>11. CASE UNCHANGED vars
    BY <2>11 DEF TypeOK, vars, userVars, chanVars, connVars
  <2> QED
    BY <2>5, <2>6, <2>7, <2>8, <2>9, <2>10, <2>11 DEF Next
<1> QED
  BY <1>2

(* Every map stays in its range and every operation in progress keeps in   *)
(* hand what it goes on to use: AddUser, JoinChannel, PartChannel, MODE,   *)
(* the close and the forced renames and removals of other goroutines.      *)
THEOREM TypeCorrect == Spec => []TypeOK
BY TypeInit, TypeStep, PTL DEF Spec

-----------------------------------------------------------------------------
(* The nickname index.                                                     *)

\* AddUser is only reached by a connection that has no record yet.
NewHasNoRecord == \A c \in Conns : task[c].at = "new" => c \notin byID

IndexInv == TypeOK /\ NickIndex /\ NewHasNoRecord

\* No goroutine goes back to the start of its life.
StaysOld == \A d \in Conns : task'[d].at = "new" => task[d].at = "new"

LEMMA NewIsLeftOnce ==
    ASSUME TypeOK, [Next]_vars
    PROVE  StaysOld
<1> USE DEF StaysOld, Goto, Doing, At, Idle
<1>0. task \in [Conns -> Tasks]
  BY DEF TypeOK
<1>1. ASSUME NEW c \in Conns, Continue(c) PROVE StaysOld
  <2>1. CASE RegisterConn(c)
    BY <1>0, <2>1 DEF RegisterConn
  <2>2. CASE JoinUnknown(c)
    BY <1>0, <2>2 DEF JoinUnknown
  <2>3. CASE EnsureChannel(c)
    BY <1>0, <2>3 DEF EnsureChannel
  <2>4. CASE CountMembers(c)
    BY <1>0, <2>4 DEF CountMembers
  <2>5. CASE AddMember(c)
    BY <1>0, <2>5 DEF AddMember
  <2>6. CASE ReopMember(c)
    BY <1>0, <2>6 DEF ReopMember
  <2>7. CASE PartFind(c)
    BY <1>0, <2>7 DEF PartFind, Return, Proceed
  <2>8. CASE RemoveMember(c)
    BY <1>0, <2>8 DEF RemoveMember, Return, Proceed
  <2>9. CASE RecountMembers(c)
    BY <1>0, <2>9 DEF RecountMembers, Return, Proceed
  <2>10. CASE DropChannel(c)
    BY <1>0, <2>10 DEF DropChannel, Return
  <2>11. CASE CloseConn(c)
    BY <1>0, <2>11 DEF CloseConn
  <2>12. CASE CloseNext(c)
    BY <1>0, <2>12 DEF CloseNext
  <2>13. CASE UnregisterConn(c)
    BY <1>0, <2>13 DEF UnregisterConn
  <2>14. CASE ForgetUser(c)
    BY <1>0, <2>14 DEF ForgetUser
  <2>15. CASE \E on \in BOOLEAN : SetReop(c, on)
    BY <1>0, <2>15 DEF SetReop
  <2>16. CASE \E l \in Limits : SetLimit(c, l)
    BY <1>0, <2>16 DEF SetLimit
  <2>17. CASE \E v \in Conns, on \in BOOLEAN : SetOp(c, v, on)
    BY <1>0, <2>17 DEF SetOp
  <2> QED
    BY <1>1, <2>1, <2>2, <2>3, <2>4, <2>5, <2>6, <2>7, <2>8, <2>9, <2>10, <2>11, <2>12, <2>13, <2>14, <2>15, <2>16, <2>17 DEF Continue
<1>2. ASSUME NEW c \in Conns, Command(c) PROVE StaysOld
  <2>1. CASE \E n \in Nicks : AddUser(c, n)
    BY <1>0, <2>1 DEF AddUser
  <2>2. CASE \E n \in Names : Knock(c, n) \/ Part(c, n) \/ ModeCheck(c, n)
    BY <1>0, <2>2 DEF Knock, Part, ModeCheck
  <2>3. CASE \E n \in Names, v \in Conns : Kick(c, v, n)
    BY <1>0, <2>3 DEF Kick
  <2>4. CASE Cancel(c) \/ \E n \in Nicks : ChangeNick(c, n)
    BY <2>4 DEF Cancel, ChangeNick
  <2> QED
    BY <1>2, <2>1, <2>2, <2>3, <2>4 DEF Command
<1>3. ASSUME UNCHANGED task PROVE StaysOld
  BY <1>3
<1> QED
  BY <1>1, <1>2, <1>3 DEF Next, vars, ServiceFind, ServiceRename, LinkRemove, DropLocalUser

\* What a step may do to the two indexes.
LEMMA UserSteps ==
    ASSUME TypeOK, [Next]_vars
    PROVE  \/ UNCHANGED userVars
           \/ \E c \in Conns, n \in Nicks : AddUser(c, n) /\ task'[c].at # "new"
           \/ \E u \in Conns, n \in Nicks : RenameUser(u, n)
           \/ \E u \in Conns : RemoveUser(u)
<1>1. ASSUME NEW c \in Conns, NEW n \in Nicks, AddUser(c, n) PROVE task'[c].at # "new"
  BY <1>1 DEF AddUser, Goto, At, Doing, TypeOK
<1>2. ASSUME NEW c \in Conns, Continue(c)
      PROVE  UNCHANGED userVars \/ RemoveUser(c)
  BY <1>2 DEF Continue, RegisterConn, JoinUnknown, EnsureChannel, CountMembers, AddMember,
     ReopMember, PartFind, RemoveMember, RecountMembers, DropChannel, CloseConn, CloseNext,
     UnregisterConn, ForgetUser, SetReop, SetLimit, SetOp
<1>3. ASSUME NEW c \in Conns, Command(c)
      PROVE  \/ UNCHANGED userVars
             \/ \E n \in Nicks : AddUser(c, n) \/ RenameUser(c, n)
  BY <1>3 DEF Command, ChangeNick, Knock, Part, ModeCheck, Kick, Cancel
<1>4. ASSUME NEW n \in Nicks, ServiceRename(n)
      PROVE  UNCHANGED userVars \/ \E u \in Conns : RenameUser(u, n)
  BY <1>4 DEF ServiceRename, TypeOK
<1> QED
  BY <1>1, <1>2, <1>3, <1>4 DEF Next, vars, ServiceFind, LinkRemove, DropLocalUser

LEMMA IndexStep == IndexInv /\ [Next]_vars => IndexInv'
<1> SUFFICES ASSUME IndexInv, [Next]_vars PROVE IndexInv'
  OBVIOUS
<1> USE FoldAssumption, NobodyAssumption
<1>1. TypeOK'
  BY TypeStep DEF IndexInv
<1>2. \A d \in Conns : task'[d].at = "new" => task[d].at = "new"
  BY NewIsLeftOnce DEF IndexInv, StaysOld
<1>3. CASE UNCHANGED userVars
  BY <1>1, <1>2, <1>3 DEF IndexInv, NickIndex, NewHasNoRecord, userVars
<1>4. ASSUME NEW c \in Conns, NEW n \in Nicks, AddUser(c, n), task'[c].at # "new"
      PROVE  NickIndex' /\ NewHasNoRecord'
  <2>1. c \notin byID /\ \A k \in Keys : byNick[k] # c
    BY <1>4 DEF AddUser, IndexInv, NickIndex, NewHasNoRecord
  <2>2. NickIndex'
    BY <1>4, <2>1 DEF AddUser, IndexInv, NickIndex, TypeOK
  <2>3. NewHasNoRecord'
    BY <1>2, <1>4 DEF AddUser, IndexInv, NewHasNoRecord
  <2> QED
    BY <2>2, <2>3
<1>5. ASSUME NEW u \in Conns, NEW n \in Nicks, RenameUser(u, n)
      PROVE  NickIndex' /\ NewHasNoRecord'
  BY <1>2, <1>5 DEF RenameUser, IndexInv, NickIndex, NewHasNoRecord, TypeOK
<1>6. ASSUME NEW u \in Conns, RemoveUser(u)
      PROVE  NickIndex' /\ NewHasNoRecord'
  BY <1>2, <1>6 DEF RemoveUser, IndexInv, NickIndex, NewHasNoRecord, TypeOK
<1>7. CASE \/ \E c \in Conns, n \in Nicks : AddUser(c, n) /\ task'[c].at # "new"
           \/ \E u \in Conns, n \in Nicks : RenameUser(u, n)
           \/ \E u \in Conns : RemoveUser(u)
  BY <1>1, <1>4, <1>5, <1>6, <1>7 DEF IndexInv
<1> QED
  BY <1>3, <1>7, UserSteps DEF IndexInv

LEMMA IndexInvariant == Spec => []IndexInv
<1>1. Init => IndexInv
  BY TypeInit, NobodyAssumption DEF Init, IndexInv, NickIndex, NewHasNoRecord
<1> QED
  BY <1>1, IndexStep, PTL DEF Spec

(* byNick and byID never disagree, whoever registers, renames, removes or  *)
(* closes concurrently.                                                    *)
THEOREM NickIndexCorrect == Spec => []NickIndex
<1>1. IndexInv => NickIndex
  BY DEF IndexInv
<1> QED
  BY <1>1, IndexInvariant, PTL

(* The nickname index implements the abstract registry: every step of the  *)
(* node is a claim, a move, a release or a stutter there, so a taken name  *)
(* is never handed over.                                                   *)
THEOREM RegistryImplemented == Spec => RegistrySpec
<1> USE FoldAssumption, NobodyAssumption
<1>1. Init => Registry!Init
  BY DEF Init, Registry!Init
<1>2. IndexInv /\ [Next]_vars => [Registry!Next]_byNick
  <2> SUFFICES ASSUME IndexInv, [Next]_vars, byNick' # byNick PROVE Registry!Next
    OBVIOUS
  <2>1. ASSUME NEW c \in Conns, NEW n \in Nicks, AddUser(c, n) PROVE Registry!Next
    <3>1. Fold[n] \in Keys /\ Registry!Claim(c, Fold[n])
      BY <2>1 DEF AddUser, Registry!Claim, Registry!Free, Registry!Holds,
                  IndexInv, NickIndex, NewHasNoRecord
    <3> QED
      BY <3>1 DEF Registry!Next
  <2>2. ASSUME NEW u \in Conns, NEW n \in Nicks, RenameUser(u, n) PROVE Registry!Next
    <3> DEFINE j == Fold[nick[u]]
               k == Fold[n]
    <3>1. j \in Keys /\ k \in Keys /\ byNick[j] = u
      BY <2>2 DEF RenameUser, IndexInv, TypeOK, NickIndex
    <3>2. byNick[k] = u => k = j
      BY <2>2, <3>1 DEF RenameUser, IndexInv, NickIndex
    <3>3. byNick[k] = Nobody
      <4>1. byNick[k] = u => byNick' = byNick
        BY <2>2, <3>1, <3>2 DEF RenameUser, IndexInv, TypeOK
      <4> QED
        BY <2>2, <4>1 DEF RenameUser
    <3>4. Registry!Move(u, j, k)
      BY <2>2, <3>1, <3>3 DEF RenameUser, Registry!Move, Registry!Free, Registry!Holds
    <3> QED
      BY <3>1, <3>4 DEF Registry!Next
  <2>3. ASSUME NEW u \in Conns, RemoveUser(u) PROVE Registry!Next
    <3>1. u \in byID
      BY <2>3 DEF RemoveUser
    <3>2. Fold[nick[u]] \in Keys /\ Registry!Release(u, Fold[nick[u]])
      BY <2>3, <3>1 DEF RemoveUser, Registry!Release, Registry!Holds, IndexInv, TypeOK, NickIndex
    <3> QED
      BY <3>2 DEF Registry!Next
  <2> QED
    BY <2>1, <2>2, <2>3, UserSteps DEF IndexInv, userVars
<1> QED
  BY <1>1, <1>2, IndexInvariant, PTL DEF Spec, RegistrySpec, Registry!Spec

-----------------------------------------------------------------------------
(* Channels that went empty.                                               *)

\* An object stands for one name, in the index and in every operation on it.
ObjectName ==
    \A n \in Names : byChannel[n] # 0 =>
        /\ \A m \in Names : byChannel[m] = byChannel[n] => m = n
        /\ \A c \in Conns : /\ task[c].at \in {"count", "add", "remove", "recount"}
                             /\ task[c].obj = byChannel[n]
                             => task[c].name = n

EmptyInv == TypeOK /\ ObjectName /\ EmptyChannelIsServed

\* A step that neither touches the channels nor was serving one.
LEMMA EmptyFrame ==
    ASSUME EmptyInv, TypeOK',
           UNCHANGED <<byChannel, members>>,
           NEW c \in Conns,
           \A d \in Conns : d # c => task'[d] = task[d],
           task[c].at \notin {"count", "add", "recount", "drop"},
           task'[c].at \notin {"count", "add", "remove", "recount"}
    PROVE  EmptyInv'
BY DEF EmptyInv, ObjectName, EmptyChannelIsServed, Serves

LEMMA EmptyStep == EmptyInv /\ [Next]_vars => EmptyInv'
<1> SUFFICES ASSUME EmptyInv, [Next]_vars PROVE EmptyInv'
  OBVIOUS
<1>0. TypeOK'
  BY TypeStep DEF EmptyInv
<1>1. /\ task \in [Conns -> Tasks]
      /\ members \in [Objects -> SUBSET Conns]
      /\ byChannel \in [Names -> 0..allocated]
      /\ allocated \in Nat
      /\ \A c \in Conns : WellFormed(task[c], allocated)
      /\ \A i \in 1..allocated : i \in Objects
  BY MaxObjectsAssumption DEF EmptyInv, TypeOK, Objects
<1>2. ASSUME NEW c \in Conns, NEW t, Goto(c, t)
      PROVE  task'[c] = t /\ \A d \in Conns : d # c => task'[d] = task[d]
  BY <1>1, <1>2 DEF Goto
<1>3. CASE UNCHANGED <<byChannel, members, task>>
  BY <1>0, <1>3 DEF EmptyInv, ObjectName, EmptyChannelIsServed, Serves
<1>4. ASSUME NEW c \in Conns, Command(c) PROVE EmptyInv'
  <2>1. CASE Cancel(c) \/ \E n \in Nicks : ChangeNick(c, n)
    BY <1>3, <2>1 DEF Cancel, ChangeNick, chanVars
  <2>2. CASE \E n \in Nicks : AddUser(c, n)
    <3>1. /\ task[c].at = "new" /\ Goto(c, At("registering", {}))
          /\ UNCHANGED <<byChannel, members>>
      BY <2>2 DEF AddUser, chanVars
    <3>2. task'[c].at = "registering"
      BY <1>2, <3>1 DEF At, Doing
    <3> QED
      BY <1>0, <1>2, <3>1, <3>2, EmptyFrame
  <2>3. ASSUME NEW n \in Names, NEW v \in Conns,
               Knock(c, n) \/ Part(c, n) \/ ModeCheck(c, n) \/ Kick(c, v, n)
        PROVE  EmptyInv'
    <3>1. /\ task[c].at = "idle"
          /\ task'[c].at \in {"ensure", "part", "mode"}
          /\ \A d \in Conns : d # c => task'[d] = task[d]
          /\ UNCHANGED <<byChannel, members>>
      BY <1>1, <2>3 DEF Knock, Part, ModeCheck, Kick, Goto, Doing, chanVars
    <3> QED
      BY <1>0, <3>1, EmptyFrame
  <2> QED
    BY <1>4, <2>1, <2>2, <2>3 DEF Command
<1>5. ASSUME NEW c \in Conns, Continue(c) PROVE EmptyInv'
  <2>1. CASE \/ RegisterConn(c) \/ JoinUnknown(c) \/ CloseConn(c) \/ CloseNext(c)
             \/ UnregisterConn(c) \/ ForgetUser(c)
    <3>1. /\ task[c].at \in {"registering", "ensure", "new", "idle", "closing",
                             "unregister", "forget"}
          /\ task'[c].at \in {"idle", "closing", "part", "unregister", "forget", "closed"}
          /\ \A d \in Conns : d # c => task'[d] = task[d]
          /\ UNCHANGED <<byChannel, members>>
      BY <1>1, <2>1
      DEF RegisterConn, JoinUnknown, CloseConn, CloseNext, UnregisterConn, ForgetUser,
          Goto, Idle, At, Doing, chanVars
    <3> QED
      BY <1>0, <3>1, EmptyFrame
  <2>2. CASE \/ ReopMember(c)
             \/ \E on \in BOOLEAN : SetReop(c, on)
             \/ \E l \in Limits : SetLimit(c, l)
             \/ \E v \in Conns, on \in BOOLEAN : SetOp(c, v, on)
    <3>1. /\ task[c].at \in {"reop", "mode"}
          /\ task'[c].at = "idle"
          /\ \A d \in Conns : d # c => task'[d] = task[d]
          /\ UNCHANGED <<byChannel, members>>
      <4> USE DEF Goto, Idle, At, Doing
      <4>1. CASE ReopMember(c)
        BY <1>1, <4>1 DEF ReopMember
      <4>2. CASE \E on \in BOOLEAN : SetReop(c, on)
        BY <1>1, <4>2 DEF SetReop
      <4>3. CASE \E l \in Limits : SetLimit(c, l)
        BY <1>1, <4>3 DEF SetLimit
      <4>4. CASE \E v \in Conns, on \in BOOLEAN : SetOp(c, v, on)
        BY <1>1, <4>4 DEF SetOp
      <4> QED
        BY <2>2, <4>1, <4>2, <4>3, <4>4
    <3> QED
      BY <1>0, <3>1, EmptyFrame
  <2>3. CASE EnsureChannel(c)
    <3> DEFINE n == task[c].name
    <3>1. n \in Names
      BY <1>1, <2>3 DEF EnsureChannel, WellFormed
    <3>2. CASE byChannel[n] # 0
      <4>1. /\ task'[c] = Doing("count", n, byChannel[n], Nobody, FALSE, {})
            /\ UNCHANGED <<byChannel, members>>
        BY <1>2, <2>3, <3>2 DEF EnsureChannel, chanVars
      <4>2. \A d \in Conns : d # c => task'[d] = task[d]
        BY <1>2, <2>3 DEF EnsureChannel
      <4>3. task[c].at = "ensure"
        BY <2>3 DEF EnsureChannel
      <4> QED
        BY <1>0, <3>1, <4>1, <4>2, <4>3
        DEF EmptyInv, ObjectName, EmptyChannelIsServed, Serves, Doing
    <3>3. CASE byChannel[n] = 0
      <4>1. /\ task'[c] = Doing("add", n, allocated + 1, Nobody, TRUE, {})
            /\ byChannel' = [byChannel EXCEPT ![n] = allocated + 1]
            /\ members' = members
        BY <1>2, <2>3, <3>3 DEF EnsureChannel
      <4>2. \A d \in Conns : d # c => task'[d] = task[d]
        BY <1>2, <2>3 DEF EnsureChannel
      <4>3. /\ task'[c].at = "add"
            /\ task'[c].obj = allocated + 1
            /\ task'[c].name = n
        BY <4>1 DEF Doing
      <4>4. \A d \in Conns : task[d].at \in {"count", "add", "remove", "recount"} =>
                             task[d].obj # allocated + 1
        BY <1>1 DEF WellFormed
      <4>5. \A m \in Names : byChannel[m] # allocated + 1
        BY <1>1
      <4>6. \A m \in Names : byChannel'[m] = IF m = n THEN allocated + 1 ELSE byChannel[m]
        BY <1>1, <4>1
      <4>7. ObjectName'
        BY <1>1, <3>1, <4>2, <4>3, <4>4, <4>5, <4>6 DEF EmptyInv, ObjectName
      <4>8. EmptyChannelIsServed'
        <5> SUFFICES ASSUME NEW m \in Names \ Safe, byChannel'[m] # 0, members'[byChannel'[m]] = {}
                     PROVE  \E d \in Conns : Serves(d, m, byChannel[m])'
          BY DEF EmptyChannelIsServed
        <5>1. CASE m = n
          BY <4>3, <4>6, <5>1 DEF Serves
        <5>2. CASE m # n
          <6>1. PICK d \in Conns : Serves(d, m, byChannel[m])
            BY <4>1, <4>6, <5>2 DEF EmptyInv, EmptyChannelIsServed
          <6>2. d # c
            BY <2>3, <6>1 DEF Serves, EnsureChannel
          <6> QED
            BY <4>2, <4>6, <5>2, <6>1, <6>2 DEF Serves
        <5> QED
          BY <5>1, <5>2
      <4> QED
        BY <1>0, <4>7, <4>8 DEF EmptyInv
    <3> QED
      BY <3>2, <3>3
  <2>4. CASE CountMembers(c)
    <3>1. /\ task[c].at = "count" /\ task'[c].at = "add"
          /\ task'[c].obj = task[c].obj /\ task'[c].name = task[c].name
          /\ \A d \in Conns : d # c => task'[d] = task[d]
          /\ UNCHANGED <<byChannel, members>>
      BY <1>1, <2>4 DEF CountMembers, Goto, Doing, chanVars
    <3>2. ObjectName'
      BY <3>1 DEF EmptyInv, ObjectName
    <3>3. EmptyChannelIsServed'
      BY <3>1 DEF EmptyInv, EmptyChannelIsServed, Serves
    <3> QED
      BY <1>0, <3>2, <3>3 DEF EmptyInv
  <2>5. CASE AddMember(c)
    <3>1. /\ task[c].at = "add" /\ task'[c].at \in {"reop", "idle"}
          /\ \A d \in Conns : d # c => task'[d] = task[d]
          /\ UNCHANGED byChannel
          /\ members' = [members EXCEPT ![task[c].obj] = @ \cup {c}]
      BY <1>1, <2>5 DEF AddMember, Goto, Idle, At, Doing
    <3>2. ObjectName'
      BY <3>1 DEF EmptyInv, ObjectName
    <3>3. task[c].obj \in Objects
      BY <1>1, <3>1 DEF WellFormed
    <3>4. EmptyChannelIsServed'
      BY <1>1, <3>1, <3>3 DEF EmptyInv, EmptyChannelIsServed, Serves
    <3> QED
      BY <1>0, <3>2, <3>4 DEF EmptyInv
  <2>6. CASE PartFind(c)
    <3>0. task[c].at = "part" /\ task[c].name \in Names /\ UNCHANGED <<byChannel, members>>
      BY <1>1, <2>6 DEF PartFind, WellFormed, chanVars
    <3>1. /\ \/ task'[c].at \in {"closing", "idle"}
             \/ /\ task'[c].at = "remove"
                /\ task'[c].obj = byChannel[task[c].name]
                /\ task'[c].name = task[c].name
          /\ \A d \in Conns : d # c => task'[d] = task[d]
      BY <1>1, <2>6 DEF PartFind, Return, Proceed, Goto, Idle, At, Doing
    <3>2. ObjectName'
      BY <3>0, <3>1 DEF EmptyInv, ObjectName
    <3>3. EmptyChannelIsServed'
      BY <3>0, <3>1 DEF EmptyInv, EmptyChannelIsServed, Serves
    <3> QED
      BY <1>0, <3>2, <3>3 DEF EmptyInv
  <2>7. CASE RemoveMember(c)
    <3> DEFINE o == task[c].obj
    <3>0. /\ task[c].at = "remove" /\ o \in Objects
          /\ UNCHANGED byChannel
          /\ members' = [members EXCEPT ![o] = @ \ {task[c].who}]
      BY <1>1, <2>7 DEF RemoveMember, WellFormed
    <3>1. /\ \A d \in Conns : d # c => task'[d] = task[d]
          /\ task[c].who \notin members[o] =>
                members' = members /\ task'[c].at \in {"closing", "idle"}
          /\ task[c].who \in members[o] =>
                task'[c].at = "recount" /\ task'[c].obj = o /\ task'[c].name = task[c].name
      BY <1>1, <2>7 DEF RemoveMember, Return, Proceed, Goto, Idle, At, Doing
    <3>2. ObjectName'
      BY <3>0, <3>1 DEF EmptyInv, ObjectName
    <3>3. EmptyChannelIsServed'
      <4> SUFFICES ASSUME NEW m \in Names \ Safe, byChannel'[m] # 0, members'[byChannel'[m]] = {}
                   PROVE  \E d \in Conns : Serves(d, m, byChannel[m])'
        BY DEF EmptyChannelIsServed
      <4>1. CASE byChannel[m] = o /\ task[c].who \in members[o]
        BY <3>0, <3>1, <4>1 DEF Serves
      <4>2. CASE ~ (byChannel[m] = o /\ task[c].who \in members[o])
        <5>1. members[byChannel[m]] = {}
          BY <1>1, <3>0, <3>1, <4>2
        <5>2. PICK d \in Conns : Serves(d, m, byChannel[m])
          BY <3>0, <5>1 DEF EmptyInv, EmptyChannelIsServed
        <5>3. d # c
          BY <3>0, <5>2 DEF Serves
        <5> QED
          BY <3>0, <3>1, <5>2, <5>3 DEF Serves
      <4> QED
        BY <4>1, <4>2
    <3> QED
      BY <1>0, <3>2, <3>3 DEF EmptyInv
  <2>8. CASE RecountMembers(c)
    <3> DEFINE o == task[c].obj
    <3>0. task[c].at = "recount" /\ UNCHANGED <<byChannel, members>>
      BY <2>8 DEF RecountMembers, chanVars
    <3>1. /\ \A d \in Conns : d # c => task'[d] = task[d]
          /\ task'[c].at \in {"drop", "closing", "idle"}
          /\ members[o] = {} /\ task[c].name \notin Safe =>
                task'[c].at = "drop" /\ task'[c].name = task[c].name
      BY <1>1, <2>8 DEF RecountMembers, Return, Proceed, Goto, Idle, At, Doing
    <3>2. ObjectName'
      BY <3>0, <3>1 DEF EmptyInv, ObjectName
    <3>3. EmptyChannelIsServed'
      <4> SUFFICES ASSUME NEW m \in Names \ Safe, byChannel'[m] # 0, members'[byChannel'[m]] = {}
                   PROVE  \E d \in Conns : Serves(d, m, byChannel[m])'
        BY DEF EmptyChannelIsServed
      <4>1. PICK d \in Conns : Serves(d, m, byChannel[m])
        BY <3>0 DEF EmptyInv, EmptyChannelIsServed
      <4>2. CASE d # c
        BY <3>0, <3>1, <4>1, <4>2 DEF Serves
      <4>3. CASE d = c
        <5>1. o = byChannel[m]
          BY <3>0, <4>1, <4>3 DEF Serves
        <5>2. task[c].name = m
          BY <3>0, <5>1 DEF EmptyInv, ObjectName
        <5> QED
          BY <3>0, <3>1, <5>1, <5>2 DEF Serves
      <4> QED
        BY <4>2, <4>3
    <3> QED
      BY <1>0, <3>2, <3>3 DEF EmptyInv
  <2>9. CASE DropChannel(c)
    <3>0. /\ task[c].at = "drop" /\ task[c].name \in Names
          /\ byChannel' = [byChannel EXCEPT ![task[c].name] = 0]
          /\ members' = members
      BY <1>1, <2>9 DEF DropChannel, WellFormed
    <3>1. /\ \A d \in Conns : d # c => task'[d] = task[d]
          /\ task'[c].at \in {"closing", "idle"}
      BY <1>1, <2>9 DEF DropChannel, Return, Goto, Idle, At, Doing
    <3>2. \A m \in Names : byChannel'[m] # 0 => byChannel'[m] = byChannel[m] /\ m # task[c].name
      BY <1>1, <3>0
    <3>3. ObjectName'
      BY <3>0, <3>1, <3>2 DEF EmptyInv, ObjectName
    <3>4. EmptyChannelIsServed'
      BY <3>0, <3>1, <3>2 DEF EmptyInv, EmptyChannelIsServed, Serves
    <3> QED
      BY <1>0, <3>3, <3>4 DEF EmptyInv
  <2> QED
    BY <1>5, <2>1, <2>2, <2>3, <2>4, <2>5, <2>6, <2>7, <2>8, <2>9 DEF Continue
<1> QED
  BY <1>3, <1>4, <1>5
  DEF Next, vars, ServiceFind, ServiceRename, LinkRemove, DropLocalUser, chanVars

(* No empty standard channel is left behind by any interleaving of JOIN,   *)
(* PART, KICK and close: the argument that PartChannel's unlocked recount  *)
(* and drop are enough to free every name, although they are not enough to *)
(* keep a late joiner.                                                     *)
THEOREM EmptyChannelsAreServed == Spec => []EmptyChannelIsServed
<1>1. Init => EmptyInv
  BY TypeInit DEF Init, EmptyInv, ObjectName, EmptyChannelIsServed
<1>2. EmptyInv => EmptyChannelIsServed
  BY DEF EmptyInv
<1> QED
  BY <1>1, <1>2, EmptyStep, PTL DEF Spec

-----------------------------------------------------------------------------
(* Operators and founders.                                                 *)

OpsInv == TypeOK /\ OpsAreMembers

\* Four critical sections change who is in an object, or with which flags.
LEMMA MemberSteps ==
    ASSUME TypeOK, [Next]_vars
    PROVE  \/ UNCHANGED <<members, ops, creators>>
           \/ \E c \in Conns : \/ AddMember(c) \/ ReopMember(c) \/ RemoveMember(c)
                               \/ \E v \in Conns, on \in BOOLEAN : SetOp(c, v, on)
<1>1. ASSUME NEW c \in Conns, Continue(c)
      PROVE  \/ UNCHANGED <<members, ops, creators>>
             \/ AddMember(c) \/ ReopMember(c) \/ RemoveMember(c)
             \/ \E v \in Conns, on \in BOOLEAN : SetOp(c, v, on)
  BY <1>1 DEF Continue, RegisterConn, JoinUnknown, EnsureChannel, CountMembers,
     PartFind, RecountMembers, DropChannel, CloseConn, CloseNext,
     UnregisterConn, ForgetUser, SetReop, SetLimit, chanVars
<1>2. ASSUME NEW c \in Conns, Command(c) PROVE UNCHANGED <<members, ops, creators>>
  BY <1>2 DEF Command, AddUser, ChangeNick, Knock, Part, ModeCheck, Kick, Cancel, chanVars
<1> QED
  BY <1>1, <1>2 DEF Next, vars, chanVars, ServiceFind, ServiceRename, LinkRemove, DropLocalUser

LEMMA OpsStep == OpsInv /\ [Next]_vars => OpsInv'
<1> SUFFICES ASSUME OpsInv, [Next]_vars PROVE OpsInv'
  OBVIOUS
<1> USE DEF OpsAreMembers
<1>1. TypeOK /\ TypeOK'
  BY TypeStep DEF OpsInv
<1>0. /\ members \in [Objects -> SUBSET Conns]
      /\ ops \in [Objects -> SUBSET Conns]
      /\ creators \in [Objects -> SUBSET Conns]
      /\ OpsAreMembers
  BY <1>1 DEF OpsInv, TypeOK
<1>2. CASE UNCHANGED <<members, ops, creators>>
  <2>1. members' = members /\ ops' = ops /\ creators' = creators
    BY <1>2
  <2> QED
    BY <1>0, <1>1, <2>1 DEF OpsInv
<1>3. ASSUME NEW c \in Conns, AddMember(c) PROVE OpsAreMembers'
  BY <1>0, <1>3 DEF AddMember
<1>4. ASSUME NEW c \in Conns, ReopMember(c) PROVE OpsAreMembers'
  BY <1>0, <1>4 DEF ReopMember
<1>5. ASSUME NEW c \in Conns, RemoveMember(c) PROVE OpsAreMembers'
  BY <1>0, <1>5 DEF RemoveMember
<1>6. ASSUME NEW c \in Conns, NEW v \in Conns, NEW on \in BOOLEAN, SetOp(c, v, on)
      PROVE  OpsAreMembers'
  BY <1>0, <1>6 DEF SetOp
<1> QED
  BY <1>1, <1>2, <1>3, <1>4, <1>5, <1>6, MemberSteps DEF OpsInv

(* Operator rights die with the membership, although MODE +o, the kick or  *)
(* part of its target and a rejoin are separate critical sections.         *)
THEOREM OperatorsAreMembers == Spec => []OpsAreMembers
<1>1. Init => OpsInv
  BY TypeInit DEF Init, OpsInv, OpsAreMembers
<1>2. OpsInv => OpsAreMembers
  BY DEF OpsInv
<1> QED
  BY <1>1, <1>2, OpsStep, PTL DEF Spec

\* c has created o and is about to become its first member.
Founding(c, o) == task[c].at = "add" /\ task[c].flag /\ task[c].obj = o

\* A new object has no creator, and at most one goroutine is to be it.
FounderInv ==
    /\ TypeOK
    /\ OneCreator
    /\ \A o \in Objects : o > allocated => creators[o] = {}
    /\ \A o \in Objects, c, d \in Conns :
          Founding(c, o) => creators[o] = {} /\ (Founding(d, o) => c = d)

\* Only the creation of an object makes a founder.
LEMMA FounderSteps ==
    ASSUME TypeOK, [Next]_vars
    PROVE  \/ /\ UNCHANGED <<creators, allocated>>
              /\ \A d \in Conns, o \in Objects : Founding(d, o)' => Founding(d, o)
           \/ \E c \in Conns : EnsureChannel(c) \/ AddMember(c) \/ RemoveMember(c)
<1> DEFINE Keeps == /\ UNCHANGED <<creators, allocated>>
                    /\ \A d \in Conns, o \in Objects : Founding(d, o)' => Founding(d, o)
<1> USE DEF Founding, Goto, Doing, At, Idle
<1>0. task \in [Conns -> Tasks]
  BY DEF TypeOK
<1>1. ASSUME NEW c \in Conns, Continue(c), ~ EnsureChannel(c), ~ AddMember(c), ~ RemoveMember(c)
      PROVE  Keeps
  <2>1. CASE RegisterConn(c)
    BY <1>0, <2>1 DEF RegisterConn, chanVars
  <2>2. CASE JoinUnknown(c)
    BY <1>0, <2>2 DEF JoinUnknown, chanVars
  <2>3. CASE CountMembers(c)
    BY <1>0, <2>3 DEF CountMembers, chanVars
  <2>4. CASE ReopMember(c)
    BY <1>0, <2>4 DEF ReopMember
  <2>5. CASE PartFind(c)
    BY <1>0, <2>5 DEF PartFind, Return, Proceed, chanVars
  <2>6. CASE RecountMembers(c)
    BY <1>0, <2>6 DEF RecountMembers, Return, Proceed, chanVars
  <2>7. CASE DropChannel(c)
    BY <1>0, <2>7 DEF DropChannel, Return
  <2>8. CASE CloseConn(c)
    BY <1>0, <2>8 DEF CloseConn, chanVars
  <2>9. CASE CloseNext(c)
    BY <1>0, <2>9 DEF CloseNext, chanVars
  <2>10. CASE UnregisterConn(c)
    BY <1>0, <2>10 DEF UnregisterConn, chanVars
  <2>11. CASE ForgetUser(c)
    BY <1>0, <2>11 DEF ForgetUser, chanVars
  <2>12. CASE \E on \in BOOLEAN : SetReop(c, on)
    BY <1>0, <2>12 DEF SetReop
  <2>13. CASE \E l \in Limits : SetLimit(c, l)
    BY <1>0, <2>13 DEF SetLimit
  <2>14. CASE \E v \in Conns, on \in BOOLEAN : SetOp(c, v, on)
    BY <1>0, <2>14 DEF SetOp
  <2> QED
    BY <1>1, <2>1, <2>2, <2>3, <2>4, <2>5, <2>6, <2>7, <2>8, <2>9, <2>10, <2>11, <2>12, <2>13,
       <2>14 DEF Continue
<1>2. ASSUME NEW c \in Conns, Command(c) PROVE Keeps
  <2>1. CASE \E n \in Nicks : AddUser(c, n)
    BY <1>0, <2>1 DEF AddUser, chanVars
  <2>2. CASE \E n \in Names : Knock(c, n) \/ Part(c, n) \/ ModeCheck(c, n)
    BY <1>0, <2>2 DEF Knock, Part, ModeCheck, chanVars
  <2>3. CASE \E n \in Names, v \in Conns : Kick(c, v, n)
    BY <1>0, <2>3 DEF Kick, chanVars
  <2>4. CASE Cancel(c) \/ \E n \in Nicks : ChangeNick(c, n)
    BY <2>4 DEF Cancel, ChangeNick, chanVars
  <2> QED
    BY <1>2, <2>1, <2>2, <2>3, <2>4 DEF Command
<1>3. ASSUME UNCHANGED <<chanVars, task>> PROVE Keeps
  BY <1>3 DEF chanVars
<1> QED
  BY <1>1, <1>2, <1>3 DEF Next, vars, ServiceFind, ServiceRename, LinkRemove, DropLocalUser

LEMMA FounderStep == FounderInv /\ [Next]_vars => FounderInv'
<1> SUFFICES ASSUME FounderInv, [Next]_vars PROVE FounderInv'
  OBVIOUS
<1> USE MaxObjectsAssumption DEF OneCreator, Objects
<1>1. TypeOK /\ TypeOK'
  BY TypeStep DEF FounderInv
<1>0. /\ task \in [Conns -> Tasks] /\ task' \in [Conns -> Tasks]
      /\ creators \in [Objects -> SUBSET Conns]
      /\ allocated \in 0..MaxObjects /\ allocated' \in 0..MaxObjects
      /\ \A d \in Conns : WellFormed(task[d], allocated)
  BY <1>1 DEF TypeOK
<1>2. CASE /\ UNCHANGED <<creators, allocated>>
           /\ \A d \in Conns, o \in Objects : Founding(d, o)' => Founding(d, o)
  BY <1>1, <1>2 DEF FounderInv
<1>3. ASSUME NEW c \in Conns, EnsureChannel(c) PROVE FounderInv'
  <2>1. UNCHANGED creators
    BY <1>3 DEF EnsureChannel, chanVars
  <2>2. \A d \in Conns : d # c => task'[d] = task[d]
    BY <1>0, <1>3 DEF EnsureChannel, Goto
  <2>3. CASE byChannel[task[c].name] # 0
    <3>1. allocated' = allocated /\ task'[c].at = "count"
      BY <1>0, <1>3, <2>3 DEF EnsureChannel, Goto, Doing, chanVars
    <3> QED
      BY <1>1, <2>1, <2>2, <3>1 DEF FounderInv, Founding
  <2>4. CASE byChannel[task[c].name] = 0
    <3>1. allocated' = allocated + 1 /\ task'[c].obj = allocated + 1
      BY <1>0, <1>3, <2>4 DEF EnsureChannel, Goto, Doing
    <3>2. PICK o \in Objects : o = allocated + 1
      BY <1>0, <3>1
    <3>3. creators[o] = {}
      BY <1>0, <3>2 DEF FounderInv
    <3>4. \A d \in Conns : d # c => ~ Founding(d, o)'
      <4> SUFFICES ASSUME NEW d \in Conns, d # c, Founding(d, o)' PROVE FALSE
        OBVIOUS
      <4>1. task[d].at = "add" /\ task[d].obj = allocated + 1
        BY <2>2, <3>1, <3>2 DEF Founding
      <4>2. task[d].obj \in 1..allocated
        BY <1>0, <4>1 DEF WellFormed
      <4> QED
        BY <1>0, <3>2, <4>1, <4>2
    <3>5. \A d \in Conns, p \in Objects : p # o => (Founding(d, p)' => Founding(d, p))
      BY <2>2, <3>1, <3>2 DEF Founding
    <3>6. OneCreator'
      BY <2>1 DEF FounderInv
    <3>7. (\A p \in Objects : p > allocated => creators[p] = {})'
      BY <1>0, <2>1, <3>1, <3>2 DEF FounderInv
    <3>8. (\A p \in Objects, d, e \in Conns :
             Founding(d, p) => creators[p] = {} /\ (Founding(e, p) => d = e))'
      <4> SUFFICES ASSUME NEW p \in Objects, NEW d \in Conns, NEW e \in Conns, Founding(d, p)'
                   PROVE  creators'[p] = {} /\ (Founding(e, p)' => d = e)
        OBVIOUS
      <4>1. CASE p = o
        BY <2>1, <3>3, <3>4, <4>1
      <4>2. CASE p # o
        BY <2>1, <3>5, <4>2 DEF FounderInv
      <4> QED
        BY <4>1, <4>2
    <3> QED
      BY <1>1, <3>6, <3>7, <3>8 DEF FounderInv
  <2> QED
    BY <2>3, <2>4
<1>4. ASSUME NEW c \in Conns, AddMember(c) PROVE FounderInv'
  <2>0. task[c].obj \in 1..allocated
    BY <1>0, <1>4 DEF AddMember, WellFormed
  <2>1. PICK o \in Objects : o = task[c].obj /\ o \in 1..allocated
    BY <1>0, <2>0
  <2>2. allocated' = allocated
    BY <1>4 DEF AddMember
  <2>3. \A d \in Conns : d # c => task'[d] = task[d]
    BY <1>0, <1>4 DEF AddMember, Goto
  <2>4. task'[c].at # "add"
    BY <1>0, <1>4 DEF AddMember, Goto, Doing, Idle, At
  <2>5. \A p \in Objects : p # o => creators'[p] = creators[p]
    BY <1>0, <1>4, <2>1 DEF AddMember
  <2>6. CASE Founding(c, o)
    <3>1. creators'[o] \subseteq {c}
      BY <1>0, <1>4, <2>1, <2>6 DEF AddMember, FounderInv
    <3>2. o \in Objects
      BY <1>0, <2>1
    <3>3. \A d \in Conns, p \in Objects : Founding(d, p)' => Founding(d, p) /\ d # c
      BY <2>3, <2>4 DEF Founding
    <3>4. \A d \in Conns : ~ Founding(d, o)'
      BY <2>6, <3>2, <3>3 DEF FounderInv
    <3>5. OneCreator'
      BY <2>5, <3>1 DEF FounderInv
    <3>6. (\A p \in Objects : p > allocated => creators[p] = {})'
      BY <1>0, <2>1, <2>2, <2>5 DEF FounderInv
    <3>7. (\A p \in Objects, d, e \in Conns :
             Founding(d, p) => creators[p] = {} /\ (Founding(e, p) => d = e))'
      <4> SUFFICES ASSUME NEW p \in Objects, NEW d \in Conns, NEW e \in Conns, Founding(d, p)'
                   PROVE  creators'[p] = {} /\ (Founding(e, p)' => d = e)
        OBVIOUS
      <4>1. p # o
        BY <3>4
      <4> QED
        BY <2>5, <3>3, <4>1 DEF FounderInv
    <3> QED
      BY <1>1, <3>5, <3>6, <3>7 DEF FounderInv
  <2>7. CASE ~ Founding(c, o)
    <3>1. creators' = creators
      BY <1>0, <1>4, <2>1, <2>7 DEF AddMember, Founding
    <3> QED
      BY <1>1, <2>2, <2>3, <2>4, <3>1 DEF FounderInv, Founding
  <2> QED
    BY <2>6, <2>7
<1>5. ASSUME NEW c \in Conns, RemoveMember(c) PROVE FounderInv'
  <2>1. allocated' = allocated
    BY <1>5 DEF RemoveMember
  <2>2. \A p \in Objects : creators'[p] \subseteq creators[p]
    BY <1>0, <1>5 DEF RemoveMember
  <2>3. \A d \in Conns, p \in Objects : Founding(d, p)' => Founding(d, p)
    BY <1>0, <1>5 DEF RemoveMember, Goto, Return, Proceed, Doing, At, Idle, Founding
  <2> QED
    BY <1>0, <1>1, <2>1, <2>2, <2>3 DEF FounderInv
<1> QED
  BY <1>2, <1>3, <1>4, <1>5, <1>1, FounderSteps

(* The creator status of a safe channel, which nobody can take away, goes  *)
(* to one of the goroutines that race to create the channel, and to none   *)
(* that finds it empty later.                                              *)
THEOREM CreatorIsUnique == Spec => []OneCreator
<1>1. Init => FounderInv
  BY TypeInit DEF Init, FounderInv, OneCreator, Founding, At, Doing
<1>2. FounderInv => OneCreator
  BY DEF FounderInv
<1> QED
  BY <1>1, <1>2, FounderStep, PTL DEF Spec

-----------------------------------------------------------------------------
(* What Conn.close leaves behind: it works from a snapshot of the user's   *)
(* channels, by name and one critical section at a time, while the others  *)
(* go on.                                                                  *)

PartPlaces == {"part", "remove", "recount", "drop"}

\* A goroutine inside close, PartChannel on behalf of it included.
Leaving(c) ==
    \/ task[c].at \in {"closing", "unregister", "forget", "closed"}
    \/ task[c].at \in PartPlaces /\ task[c].flag

\* c is a member of the channel that n stands for.
ListedIn(c, n) == byChannel[n] # 0 /\ c \in members[byChannel[n]]

\* The channel n is still in the snapshot, or the one being parted: between
\* the lookup and the removal the object in hand is the one the name has.
StillToPart(c, n) ==
    \/ n \in task[c].todo
    \/ task[c].at = "part" /\ task[c].name = n
    \/ task[c].at = "remove" /\ task[c].name = n /\ task[c].obj = byChannel[n]

\* Where the goroutine of one connection is, the world still, or no longer,
\* refers to its user.
Stage(c) ==
    /\ Leaving(c) => \A n \in Names : ListedIn(c, n) => StillToPart(c, n)
    /\ task[c].at \in PartPlaces /\ task[c].flag => task[c].who = c
    /\ task[c].at \in {"unregister", "forget", "closed"} => task[c].todo = {}
    /\ task[c].at = "new" => c \notin registry /\ \A o \in Objects : c \notin members[o]
    /\ task[c].at \in {"forget", "closed"} => c \notin registry
    /\ task[c].at = "closed" => c \notin byID

\* An object nobody has allocated yet has no members.
FreshIsEmpty == \A o \in Objects : o > allocated => members[o] = {}

ClosingInv == TypeOK /\ FreshIsEmpty /\ \A c \in Conns : Stage(c)

\* A goroutine that is not closing has nothing to show.
LEMMA OrdinaryStage ==
    ASSUME NEW c \in Conns,
           \/ task'[c].at \in {"registering", "idle", "ensure", "count", "add", "reop", "mode"}
           \/ task'[c].at \in PartPlaces /\ ~ task'[c].flag
    PROVE  Stage(c)'
BY DEF Stage, Leaving, PartPlaces

\* The others are where they were, if no step but their own makes them a
\* member and a name that changes hands goes to an object without them.
LEMMA OthersStay ==
    ASSUME ClosingInv, NEW c \in Conns, NEW d \in Conns, d # c, task'[d] = task[d],
           \A o \in Objects : d \in members'[o] => d \in members[o],
           \A n \in Names : ListedIn(d, n)' => ListedIn(d, n) /\ byChannel'[n] = byChannel[n],
           registry' \subseteq registry \cup {c}, byID' \subseteq byID \cup {c}
    PROVE  Stage(d)'
<1>0. Stage(d)
  BY DEF ClosingInv
<1>1. Leaving(d)' <=> Leaving(d)
  BY DEF Leaving
<1>2. \A n \in Names : StillToPart(d, n) /\ byChannel'[n] = byChannel[n] => StillToPart(d, n)'
  BY DEF StillToPart
<1>3. Leaving(d)' => \A n \in Names : ListedIn(d, n)' => StillToPart(d, n)'
  BY <1>0, <1>1, <1>2 DEF Stage
<1>4. (d \in registry' => d \in registry) /\ (d \in byID' => d \in byID)
  OBVIOUS
<1> QED BY <1>0, <1>3, <1>4 DEF Stage

\* A step of c that leaves the channels alone.
LEMMA MoveKeeps ==
    ASSUME ClosingInv, TypeOK', NEW c \in Conns, Stage(c)',
           \A d \in Conns : d # c => task'[d] = task[d],
           UNCHANGED <<byChannel, members, allocated>>,
           registry' \subseteq registry \cup {c}, byID' \subseteq byID \cup {c}
    PROVE  ClosingInv'
<1>1. FreshIsEmpty'
  BY DEF ClosingInv, FreshIsEmpty
<1>2. \A d \in Conns, n \in Names : ListedIn(d, n)' => ListedIn(d, n) /\ byChannel'[n] = byChannel[n]
  BY DEF ListedIn
<1>3. \A d \in Conns : d # c => Stage(d)'
  BY <1>2, OthersStay
<1> QED BY <1>1, <1>3 DEF ClosingInv

\* The goroutine that moves is where it goes, and the others stay.
LEMMA GoFacts ==
    ASSUME TypeOK, NEW c \in Conns, NEW t, Goto(c, t)
    PROVE  task'[c] = t /\ \A d \in Conns : d # c => task'[d] = task[d]
BY DEF Goto, TypeOK

\* Steps of connections that are not closing and leave the channels alone.
LEMMA OrdinaryMoves ==
    ASSUME ClosingInv, TypeOK', NEW c \in Conns,
           \/ RegisterConn(c) \/ JoinUnknown(c) \/ CountMembers(c) \/ ReopMember(c)
           \/ \E on \in BOOLEAN : SetReop(c, on)
           \/ \E l \in Limits : SetLimit(c, l)
           \/ \E v \in Conns, on \in BOOLEAN : SetOp(c, v, on)
           \/ \E n \in Nicks : AddUser(c, n)
           \/ \E n \in Names : Knock(c, n) \/ Part(c, n) \/ ModeCheck(c, n)
           \/ \E n \in Names, v \in Conns : Kick(c, v, n)
    PROVE  ClosingInv'
<1>0. TypeOK
  BY DEF ClosingInv
<1> DEFINE Ordinary ==
      /\ \A d \in Conns : d # c => task'[d] = task[d]
      /\ \/ task'[c].at \in {"registering", "idle", "ensure", "count", "add", "reop", "mode"}
         \/ task'[c].at = "part" /\ ~ task'[c].flag
<1>1. Ordinary
  <2>1. CASE RegisterConn(c) \/ JoinUnknown(c) \/ CountMembers(c) \/ ReopMember(c)
    BY <1>0, <2>1, GoFacts
       DEF RegisterConn, JoinUnknown, CountMembers, ReopMember, Doing, Idle, At
  <2>2. CASE \/ \E on \in BOOLEAN : SetReop(c, on)
             \/ \E l \in Limits : SetLimit(c, l)
             \/ \E v \in Conns, on \in BOOLEAN : SetOp(c, v, on)
    <3>1. Goto(c, Idle)
      BY <2>2 DEF SetReop, SetLimit, SetOp
    <3> QED BY <1>0, <3>1, GoFacts DEF Idle, At, Doing
  <2>3. CASE \E n \in Nicks : AddUser(c, n)
    BY <1>0, <2>3, GoFacts DEF AddUser, At, Doing
  <2>4. ASSUME NEW n \in Names, Knock(c, n) PROVE Ordinary
    BY <1>0, <2>4, GoFacts DEF Knock, Doing
  <2>5. ASSUME NEW n \in Names, Part(c, n) PROVE Ordinary
    BY <1>0, <2>5, GoFacts DEF Part, Doing
  <2>6. ASSUME NEW n \in Names, ModeCheck(c, n) PROVE Ordinary
    BY <1>0, <2>6, GoFacts DEF ModeCheck, Doing
  <2>7. ASSUME NEW n \in Names, NEW v \in Conns, Kick(c, v, n) PROVE Ordinary
    BY <1>0, <2>7, GoFacts DEF Kick, Doing
  <2> HIDE DEF Ordinary
  <2> QED BY <2>1, <2>2, <2>3, <2>4, <2>5, <2>6, <2>7
<1>2. Stage(c)' /\ \A d \in Conns : d # c => task'[d] = task[d]
  BY <1>1, OrdinaryStage DEF PartPlaces
<1>3. UNCHANGED <<byChannel, members, allocated>>
  BY DEF RegisterConn, JoinUnknown, CountMembers, ReopMember, SetReop, SetLimit, SetOp, AddUser,
         Knock, Part, ModeCheck, Kick, chanVars
<1>4. registry' \subseteq registry \cup {c} /\ byID' \subseteq byID \cup {c}
  BY DEF RegisterConn, JoinUnknown, CountMembers, ReopMember, SetReop, SetLimit, SetOp, AddUser,
         Knock, Part, ModeCheck, Kick, connVars, userVars
<1> QED BY <1>2, <1>3, <1>4, MoveKeeps

\* EnsureChannel publishes an object in which nobody is yet.
LEMMA EnsureKeeps ==
    ASSUME ClosingInv, TypeOK', NEW c \in Conns, EnsureChannel(c)
    PROVE  ClosingInv'
<1>0. TypeOK /\ registry' = registry /\ byID' = byID /\ members' = members
  BY DEF ClosingInv, EnsureChannel, connVars, userVars, chanVars
<1>1. Stage(c)' /\ \A d \in Conns : d # c => task'[d] = task[d]
  BY <1>0, GoFacts, OrdinaryStage DEF EnsureChannel, Doing
<1>2. CASE byChannel[task[c].name] # 0
  BY <1>0, <1>1, <1>2, MoveKeeps DEF EnsureChannel, chanVars
<1>3. CASE byChannel[task[c].name] = 0
  <2>1. /\ allocated < MaxObjects /\ allocated' = allocated + 1
        /\ byChannel' = [byChannel EXCEPT ![task[c].name] = allocated + 1]
    BY <1>3 DEF EnsureChannel
  <2>2. allocated \in Nat /\ allocated + 1 \in Objects
    BY <1>0, <2>1, MaxObjectsAssumption DEF TypeOK, Objects
  <2>3. members[allocated + 1] = {}
    BY <2>2 DEF ClosingInv, FreshIsEmpty
  <2>4. FreshIsEmpty'
    BY <1>0, <2>1, <2>2, MaxObjectsAssumption DEF ClosingInv, FreshIsEmpty, Objects
  <2>5. \A d \in Conns, n \in Names :
           ListedIn(d, n)' => ListedIn(d, n) /\ byChannel'[n] = byChannel[n]
    <3> SUFFICES ASSUME NEW d \in Conns, NEW n \in Names, ListedIn(d, n)'
                 PROVE  ListedIn(d, n) /\ byChannel'[n] = byChannel[n]
      OBVIOUS
    <3>1. n # task[c].name
      BY <1>0, <2>1, <2>3 DEF ListedIn, TypeOK
    <3>2. byChannel'[n] = byChannel[n]
      BY <1>0, <2>1, <3>1 DEF TypeOK
    <3> QED BY <1>0, <3>2 DEF ListedIn
  <2>6. \A d \in Conns : d # c => Stage(d)'
    BY <1>0, <1>1, <2>5, OthersStay
  <2> QED BY <1>1, <2>4, <2>6 DEF ClosingInv
<1> QED BY <1>2, <1>3

\* A joiner puts nobody in but itself.
LEMMA AddKeeps ==
    ASSUME ClosingInv, TypeOK', NEW c \in Conns, AddMember(c)
    PROVE  ClosingInv'
<1>0. /\ TypeOK /\ registry' = registry /\ byID' = byID
      /\ byChannel' = byChannel /\ allocated' = allocated
  BY DEF ClosingInv, AddMember, connVars, userVars
<1>1. Stage(c)' /\ \A d \in Conns : d # c => task'[d] = task[d]
  BY <1>0, GoFacts, OrdinaryStage DEF AddMember, Doing, Idle, At
<1>2. task[c].obj \in 1..allocated
  BY <1>0 DEF AddMember, TypeOK, WellFormed
<1>3. \A o \in Objects, d \in Conns : d # c /\ d \in members'[o] => d \in members[o]
  BY <1>0 DEF AddMember, TypeOK
<1>4. FreshIsEmpty'
  <2> SUFFICES ASSUME NEW o \in Objects, o > allocated PROVE members'[o] = {}
    BY <1>0 DEF FreshIsEmpty
  <2>1. o # task[c].obj
    BY <1>0, <1>2 DEF TypeOK
  <2>2. members'[o] = members[o]
    BY <1>0, <2>1 DEF AddMember, TypeOK
  <2> QED BY <2>2 DEF ClosingInv, FreshIsEmpty
<1>5. \A d \in Conns, n \in Names :
         d # c /\ ListedIn(d, n)' => ListedIn(d, n) /\ byChannel'[n] = byChannel[n]
  <2>1. \A n \in Names : byChannel[n] # 0 => byChannel[n] \in Objects
    BY <1>0, MaxObjectsAssumption DEF TypeOK, Objects
  <2> QED BY <1>0, <1>3, <2>1 DEF ListedIn
<1>6. \A d \in Conns : d # c => Stage(d)'
  BY <1>0, <1>1, <1>3, <1>5, OthersStay
<1> QED BY <1>1, <1>4, <1>6 DEF ClosingInv

\* PartChannel returns to close, or to the read loop.
LEMMA ReturnFacts ==
    ASSUME NEW c \in Conns
    PROVE  /\ task[c].flag => Return(c).at = "closing" /\ Return(c).todo = task[c].todo
           /\ ~ task[c].flag => Return(c).at = "idle"
           /\ \A p, o : LET t == Proceed(c, p, o) IN
                /\ t.at = p /\ t.name = task[c].name /\ t.obj = o /\ t.who = task[c].who
                /\ (t.flag <=> task[c].flag) /\ t.todo = task[c].todo
BY DEF Return, Proceed, Idle, At, Doing

\* PartChannel's lookup: a name that stands for nothing needs no part.
LEMMA FindKeeps ==
    ASSUME ClosingInv, TypeOK', NEW c \in Conns, PartFind(c)
    PROVE  ClosingInv'
<1>0. /\ TypeOK /\ registry' = registry /\ byID' = byID
      /\ UNCHANGED <<byChannel, members, allocated>> /\ Stage(c) /\ task[c].at = "part"
  BY DEF ClosingInv, PartFind, connVars, userVars, chanVars
<1> DEFINE o == byChannel[task[c].name]
           t == IF o = 0 THEN Return(c) ELSE Proceed(c, "remove", o)
<1>1. task'[c] = t /\ \A d \in Conns : d # c => task'[d] = task[d]
  <2>1. Goto(c, t)
    BY DEF PartFind
  <2> HIDE DEF t
  <2> QED BY <1>0, <2>1, GoFacts
<1>2. Stage(c)'
  <2>1. CASE ~ task[c].flag
    <3>1. \/ task'[c].at = "idle"
          \/ task'[c].at = "remove" /\ ~ task'[c].flag
      BY <1>1, <2>1, ReturnFacts
    <3> QED BY <3>1, OrdinaryStage DEF PartPlaces
  <2>2. CASE task[c].flag /\ o = 0
    <3>1. task'[c].at = "closing" /\ task'[c].todo = task[c].todo
      BY <1>1, <2>2, ReturnFacts
    <3>2. \A n \in Names : ListedIn(c, n) => n \in task[c].todo
      BY <1>0, <2>2 DEF Stage, Leaving, PartPlaces, StillToPart, ListedIn
    <3> QED BY <1>0, <3>1, <3>2 DEF Stage, StillToPart, ListedIn, PartPlaces
  <2>3. CASE task[c].flag /\ o # 0
    <3>1. /\ task'[c].at = "remove" /\ task'[c].name = task[c].name /\ task'[c].obj = o
          /\ task'[c].who = task[c].who /\ task'[c].todo = task[c].todo
      BY <1>1, <2>3, ReturnFacts
    <3>2. \A n \in Names : ListedIn(c, n) => n \in task[c].todo \/ n = task[c].name
      BY <1>0, <2>3 DEF Stage, Leaving, PartPlaces, StillToPart
    <3>3. task[c].who = c
      BY <1>0, <2>3 DEF Stage, PartPlaces
    <3> QED BY <1>0, <3>1, <3>2, <3>3 DEF Stage, StillToPart, ListedIn, PartPlaces
  <2> QED BY <2>1, <2>2, <2>3
<1> QED BY <1>0, <1>1, <1>2, MoveKeeps

\* The removal: the channel that was parted has the user no longer.
LEMMA RemoveKeeps ==
    ASSUME ClosingInv, TypeOK', NEW c \in Conns, RemoveMember(c)
    PROVE  ClosingInv'
<1> DEFINE o == task[c].obj
           v == task[c].who
           t == IF v \in members[o] THEN Proceed(c, "recount", o) ELSE Return(c)
<1>0. /\ TypeOK /\ registry' = registry /\ byID' = byID
      /\ byChannel' = byChannel /\ allocated' = allocated /\ Stage(c) /\ task[c].at = "remove"
      /\ members' = [members EXCEPT ![o] = @ \ {v}]
  BY DEF ClosingInv, RemoveMember, connVars, userVars
<1>1. task'[c] = t /\ \A d \in Conns : d # c => task'[d] = task[d]
  <2>1. Goto(c, t)
    BY DEF RemoveMember
  <2> HIDE DEF t
  <2> QED BY <1>0, <2>1, GoFacts
<1>2. \A p \in Objects : members'[p] \subseteq members[p]
  BY <1>0 DEF TypeOK
<1>3. \A n \in Names : byChannel[n] # 0 => byChannel[n] \in Objects
  BY <1>0, MaxObjectsAssumption DEF TypeOK, Objects
<1>4. \A d \in Conns, n \in Names :
         ListedIn(d, n)' => ListedIn(d, n) /\ byChannel'[n] = byChannel[n]
  BY <1>0, <1>2, <1>3 DEF ListedIn
<1>5. Stage(c)'
  <2>1. CASE ~ task[c].flag
    <3>1. \/ task'[c].at = "idle"
          \/ task'[c].at = "recount" /\ ~ task'[c].flag
      BY <1>1, <2>1, ReturnFacts
    <3> QED BY <3>1, OrdinaryStage DEF PartPlaces
  <2>2. CASE task[c].flag
    <3>1. v = c
      BY <1>0, <2>2 DEF Stage, PartPlaces
    <3>2. /\ task'[c].at \in {"closing", "recount"} /\ task'[c].todo = task[c].todo
          /\ task'[c].at = "recount" => task'[c].who = c
      BY <1>1, <2>2, <3>1, ReturnFacts
    <3>3. \A n \in Names : ListedIn(c, n)' => n \in task[c].todo
      <4> SUFFICES ASSUME NEW n \in Names, ListedIn(c, n)', n \notin task[c].todo PROVE FALSE
        OBVIOUS
      <4>1. task[c].obj = byChannel[n]
        BY <1>0, <1>4, <2>2 DEF Stage, Leaving, PartPlaces, StillToPart
      <4>2. byChannel[n] \in Objects
        BY <1>0, <1>3 DEF ListedIn
      <4> QED BY <1>0, <3>1, <4>1, <4>2 DEF ListedIn, TypeOK
    <3> QED BY <3>2, <3>3 DEF Stage, StillToPart, PartPlaces
  <2> QED BY <2>1, <2>2
<1>6. \A d \in Conns : d # c => Stage(d)'
  BY <1>0, <1>1, <1>2, <1>4, OthersStay
<1>7. FreshIsEmpty'
  BY <1>0, <1>2 DEF ClosingInv, FreshIsEmpty
<1> QED BY <1>5, <1>6, <1>7 DEF ClosingInv

\* The recount and the drop take no member's channel away from the snapshot.
LEMMA RecountKeeps ==
    ASSUME ClosingInv, TypeOK', NEW c \in Conns, RecountMembers(c) \/ DropChannel(c)
    PROVE  ClosingInv'
<1>0. /\ TypeOK /\ registry' = registry /\ byID' = byID /\ Stage(c)
      /\ members' = members /\ allocated' = allocated /\ task[c].at \in {"recount", "drop"}
  BY DEF ClosingInv, RecountMembers, DropChannel, connVars, userVars, chanVars
<1>1. \E t : /\ Goto(c, t) /\ t \in {Return(c), Proceed(c, "drop", task[c].obj)}
  BY DEF RecountMembers, DropChannel
<1>2. /\ task'[c] = Return(c) \/ task'[c] = Proceed(c, "drop", task[c].obj)
      /\ \A d \in Conns : d # c => task'[d] = task[d]
  BY <1>0, <1>1, GoFacts
<1>3. \A n \in Names : byChannel'[n] # 0 => byChannel'[n] = byChannel[n]
  BY <1>0 DEF RecountMembers, DropChannel, chanVars, TypeOK
<1>4. \A d \in Conns, n \in Names :
         ListedIn(d, n)' => ListedIn(d, n) /\ byChannel'[n] = byChannel[n]
  BY <1>0, <1>3 DEF ListedIn
<1>5. Stage(c)'
  <2>1. CASE ~ task[c].flag
    <3>1. \/ task'[c].at = "idle"
          \/ task'[c].at = "drop" /\ ~ task'[c].flag
      BY <1>2, <2>1, ReturnFacts
    <3> QED BY <3>1, OrdinaryStage DEF PartPlaces
  <2>2. CASE task[c].flag
    <3>1. /\ task'[c].at \in {"closing", "drop"} /\ task'[c].todo = task[c].todo
          /\ task'[c].at = "drop" => task'[c].who = task[c].who
      BY <1>2, <2>2, ReturnFacts
    <3>2. \A n \in Names : ListedIn(c, n)' => n \in task[c].todo
      BY <1>0, <1>4, <2>2 DEF Stage, Leaving, PartPlaces, StillToPart
    <3>3. task[c].who = c
      BY <1>0, <2>2 DEF Stage, PartPlaces
    <3> QED BY <3>1, <3>2, <3>3 DEF Stage, StillToPart, PartPlaces
  <2> QED BY <2>1, <2>2
<1>6. \A d \in Conns : d # c => Stage(d)'
  BY <1>0, <1>2, <1>4, OthersStay
<1>7. FreshIsEmpty'
  BY <1>0 DEF ClosingInv, FreshIsEmpty
<1> QED BY <1>5, <1>6, <1>7 DEF ClosingInv

\* The snapshot has every channel that lists the user, and a connection that
\* never had a user is in none.
LEMMA CloseConnKeeps ==
    ASSUME ClosingInv, NewHasNoRecord, TypeOK', NEW c \in Conns, CloseConn(c)
    PROVE  ClosingInv'
<1>0. /\ TypeOK /\ registry' = registry /\ byID' = byID /\ Stage(c)
      /\ UNCHANGED <<byChannel, members, allocated>>
  BY DEF ClosingInv, CloseConn, connVars, userVars, chanVars
<1> DEFINE snapshot == {n \in Names : byChannel[n] # 0 /\ c \in members[byChannel[n]]}
<1>1. CASE task[c].at = "new" /\ Goto(c, At("closed", {}))
  <2>1. /\ task'[c].at = "closed" /\ task'[c].todo = {}
        /\ \A d \in Conns : d # c => task'[d] = task[d]
    BY <1>0, <1>1, GoFacts DEF At, Doing
  <2>2. c \notin registry /\ c \notin byID
    BY <1>0, <1>1 DEF Stage, NewHasNoRecord
  <2>3. \A n \in Names : ~ ListedIn(c, n)
    <3>1. \A n \in Names : byChannel[n] # 0 => byChannel[n] \in Objects
      BY <1>0, MaxObjectsAssumption DEF TypeOK, Objects
    <3> QED BY <1>0, <1>1, <3>1 DEF Stage, ListedIn
  <2>4. Stage(c)'
    BY <1>0, <2>1, <2>2, <2>3 DEF Stage, ListedIn, PartPlaces
  <2> QED BY <1>0, <2>1, <2>4, MoveKeeps
<1>2. CASE task[c].at = "idle" /\ Goto(c, At("closing", snapshot))
  <2>1. /\ task'[c].at = "closing" /\ task'[c].todo = snapshot
        /\ \A d \in Conns : d # c => task'[d] = task[d]
    BY <1>0, <1>2, GoFacts DEF At, Doing
  <2>2. \A n \in Names : ListedIn(c, n)' => n \in snapshot
    BY <1>0 DEF ListedIn
  <2> HIDE DEF snapshot
  <2>3. Stage(c)'
    BY <2>1, <2>2 DEF Stage, StillToPart, PartPlaces
  <2> QED BY <1>0, <2>1, <2>3, MoveKeeps
<1> QED BY <1>1, <1>2 DEF CloseConn

\* The loop of broadcastQuit ends when no channel is left.
LEMMA CloseNextKeeps ==
    ASSUME ClosingInv, TypeOK', NEW c \in Conns, CloseNext(c)
    PROVE  ClosingInv'
<1>0. /\ TypeOK /\ registry' = registry /\ byID' = byID /\ Stage(c)
      /\ UNCHANGED <<byChannel, members, allocated>> /\ task[c].at = "closing"
  BY DEF ClosingInv, CloseNext, connVars, userVars, chanVars
<1>1. \A n \in Names : ListedIn(c, n)' => n \in task[c].todo
  BY <1>0 DEF Stage, Leaving, StillToPart, ListedIn
<1>2. CASE task[c].todo = {} /\ Goto(c, At("unregister", {}))
  <2>1. /\ task'[c].at = "unregister" /\ task'[c].todo = {}
        /\ \A d \in Conns : d # c => task'[d] = task[d]
    BY <1>0, <1>2, GoFacts DEF At, Doing
  <2>2. Stage(c)'
    BY <1>1, <1>2, <2>1 DEF Stage, PartPlaces
  <2> QED BY <1>0, <2>1, <2>2, MoveKeeps
<1>3. ASSUME NEW n \in task[c].todo, Goto(c, Doing("part", n, 0, c, TRUE, task[c].todo \ {n}))
      PROVE  ClosingInv'
  <2>1. /\ task'[c].at = "part" /\ task'[c].name = n /\ task'[c].who = c
        /\ task'[c].todo = task[c].todo \ {n}
        /\ \A d \in Conns : d # c => task'[d] = task[d]
    BY <1>0, <1>3, GoFacts DEF Doing
  <2>2. Stage(c)'
    BY <1>1, <2>1 DEF Stage, StillToPart, PartPlaces
  <2> QED BY <1>0, <2>1, <2>2, MoveKeeps
<1> QED BY <1>2, <1>3 DEF CloseNext

\* The last two steps of close.
LEMMA GoneKeeps ==
    ASSUME ClosingInv, TypeOK', NEW c \in Conns, UnregisterConn(c) \/ ForgetUser(c)
    PROVE  ClosingInv'
<1>0. /\ TypeOK /\ Stage(c) /\ UNCHANGED <<byChannel, members, allocated>>
  BY DEF ClosingInv, UnregisterConn, ForgetUser, chanVars
<1>1. CASE UnregisterConn(c)
  <2>1. /\ task'[c].at = "forget" /\ task'[c].todo = {}
        /\ \A d \in Conns : d # c => task'[d] = task[d]
    BY <1>0, <1>1, GoFacts DEF UnregisterConn, At, Doing
  <2>2. registry' = registry \ {c} /\ byID' = byID /\ task[c].at = "unregister"
    BY <1>1 DEF UnregisterConn, userVars
  <2>3. \A n \in Names : ~ ListedIn(c, n)'
    BY <1>0, <2>2 DEF Stage, Leaving, StillToPart, ListedIn
  <2>4. Stage(c)'
    BY <2>1, <2>2, <2>3 DEF Stage, PartPlaces
  <2> QED BY <1>0, <2>1, <2>2, <2>4, MoveKeeps
<1>2. CASE ForgetUser(c)
  <2>1. /\ task'[c].at = "closed" /\ task'[c].todo = {}
        /\ \A d \in Conns : d # c => task'[d] = task[d]
    BY <1>0, <1>2, GoFacts DEF ForgetUser, At, Doing
  <2>2. registry' = registry /\ byID' = byID \ {c} /\ task[c].at = "forget"
    BY <1>2 DEF ForgetUser, RemoveUser, connVars
  <2>3. \A n \in Names : ~ ListedIn(c, n)'
    BY <1>0, <2>2 DEF Stage, Leaving, StillToPart, ListedIn
  <2>4. Stage(c)'
    BY <1>0, <2>1, <2>2, <2>3 DEF Stage, PartPlaces
  <2> QED BY <1>0, <2>1, <2>2, <2>4, MoveKeeps
<1> QED BY <1>1, <1>2

\* What services, links and renames do visits neither channels nor tasks.
LEMMA OutsideKeeps ==
    ASSUME ClosingInv, TypeOK', UNCHANGED <<task, chanVars, registry>>, byID' \subseteq byID
    PROVE  ClosingInv'
<1>0. UNCHANGED <<byChannel, members, allocated>>
  BY DEF chanVars
<1>1. FreshIsEmpty'
  BY <1>0 DEF ClosingInv, FreshIsEmpty
<1>2. ASSUME NEW c \in Conns PROVE Stage(c)'
  <2>1. Stage(c) /\ task'[c] = task[c] /\ registry' = registry /\ (c \in byID' => c \in byID)
    BY DEF ClosingInv
  <2>2. \A n \in Names : ListedIn(c, n)' <=> ListedIn(c, n)
    BY <1>0 DEF ListedIn
  <2>3. \A n \in Names : StillToPart(c, n)' <=> StillToPart(c, n)
    BY <1>0, <2>1 DEF StillToPart
  <2>4. Leaving(c)' <=> Leaving(c)
    BY <2>1 DEF Leaving
  <2> QED BY <1>0, <2>1, <2>2, <2>3, <2>4 DEF Stage
<1> QED BY <1>1, <1>2 DEF ClosingInv

LEMMA ClosingStep ==
    ASSUME ClosingInv, NewHasNoRecord, [Next]_vars
    PROVE  ClosingInv'
<1>0. TypeOK'
  BY TypeStep DEF ClosingInv
<1>1. ASSUME NEW c \in Conns, Continue(c) PROVE ClosingInv'
  BY <1>0, <1>1, OrdinaryMoves, EnsureKeeps, AddKeeps, FindKeeps, RemoveKeeps, RecountKeeps,
     CloseConnKeeps, CloseNextKeeps, GoneKeeps DEF Continue
<1>2. ASSUME NEW c \in Conns, Cancel(c) \/ \E n \in Nicks : ChangeNick(c, n) PROVE ClosingInv'
  BY <1>0, <1>2, OutsideKeeps DEF Cancel, ChangeNick, RenameUser, userVars, connVars
<1>3. ASSUME NEW c \in Conns, Command(c) PROVE ClosingInv'
  BY <1>0, <1>2, <1>3, OrdinaryMoves DEF Command
<1>4. CASE \/ \E u \in Conns : ServiceFind(u) \/ LinkRemove(u)
           \/ \E n \in Nicks : ServiceRename(n)
           \/ DropLocalUser
  BY <1>0, <1>4, OutsideKeeps
     DEF ServiceFind, LinkRemove, RemoveUser, ServiceRename, RenameUser, DropLocalUser,
         userVars, connVars
<1>5. CASE UNCHANGED vars
  BY <1>0, <1>5, OutsideKeeps DEF vars, userVars, connVars
<1> QED BY <1>1, <1>3, <1>4, <1>5 DEF Next

(* After close has returned nothing in the world refers to the user: no    *)
(* index entry, no registry entry and no membership of a channel that can  *)
(* be found, whatever became meanwhile of the channels in its snapshot.    *)
THEOREM ClosedLeavesNothingHolds == Spec => []ClosedLeavesNothing
<1>1. Init => ClosingInv
  <2> SUFFICES ASSUME Init PROVE ClosingInv
    OBVIOUS
  <2>1. TypeOK /\ FreshIsEmpty
    BY TypeInit DEF Init, FreshIsEmpty
  <2>2. ASSUME NEW c \in Conns PROVE Stage(c)
    BY DEF Init, Stage, Leaving, PartPlaces, At, Doing
  <2> QED BY <2>1, <2>2 DEF ClosingInv
<1>2. IndexInv => NewHasNoRecord /\ NickIndex
  BY DEF IndexInv
<1>3. ClosingInv /\ NewHasNoRecord /\ [Next]_vars => ClosingInv'
  BY ClosingStep
<1>4. ClosingInv /\ NickIndex => ClosedLeavesNothing
  <2> SUFFICES ASSUME ClosingInv, NickIndex, NEW c \in Conns, task[c].at = "closed"
               PROVE  /\ c \notin byID \cup registry
                      /\ \A k \in Keys : byNick[k] # c
                      /\ \A n \in Names : byChannel[n] # 0 => c \notin members[byChannel[n]]
    BY DEF ClosedLeavesNothing
  <2>1. Stage(c)
    BY DEF ClosingInv
  <2>2. c \notin byID \cup registry
    BY <2>1 DEF Stage
  <2>3. \A k \in Keys : byNick[k] # c
    BY <2>2, NobodyAssumption DEF NickIndex
  <2>4. \A n \in Names : ~ ListedIn(c, n)
    BY <2>1 DEF Stage, Leaving, StillToPart
  <2> QED BY <2>2, <2>3, <2>4 DEF ListedIn
<1> QED BY <1>1, <1>2, <1>3, <1>4, IndexInvariant, PTL DEF Spec
=============================================================================

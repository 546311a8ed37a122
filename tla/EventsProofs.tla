----------------------------- MODULE EventsProofs -----------------------------
(***************************************************************************)
(* Events, for any number of producers and sinks, inboxes of any depth and *)
(* log files of any size: only a request's goroutine meets a closed inbox, *)
(* each sink gets the events of a producer in order, no event is lost      *)
(* without a trace, and the files of a log keep its newest lines whatever  *)
(* interrupts a rotation.  At the end, the rings: they hold the newest     *)
(* entries, and readers find those, for any capacity.                      *)
(***************************************************************************)
EXTENDS Events, FiniteSetTheorems, WellFoundedInduction, TLAPS

CONSTANTS Capacity, Empty    \* of a ring

Ring == INSTANCE Rings

-----------------------------------------------------------------------------
(* Only API requests meet a closed inbox. *)

\* Inboxes are closed in the phase of closing, when no connection publishes.
GuardInv ==
  /\ \A p \in Conns : caller[p].at \in {"idle", "sending"}
  /\ \A p \in Conns : caller[p].at = "sending" => phase = "running"
  /\ phase \in {"dead", "building", "running"} => shut = {}
  /\ DOMAIN caller = Producers

LEMMA AppendSet ==
  ASSUME NEW S, NEW q \in Seq(S), NEW e \in S
  PROVE  ToSet(Append(q, e)) = ToSet(q) \cup {e}
<1> DEFINE r == Append(q, e)
<1>1. /\ r \in Seq(S) /\ Len(r) = Len(q) + 1 /\ r[Len(q) + 1] = e
      /\ \A i \in 1..Len(q) : r[i] = q[i]
  OBVIOUS
<1>2. DOMAIN q = 1..Len(q) /\ DOMAIN r = 1..Len(r) /\ Len(q) \in Nat
  OBVIOUS
<1> HIDE DEF r
<1>3. \A x \in ToSet(r) : x \in ToSet(q) \cup {e}
  BY <1>1, <1>2 DEF ToSet
<1>4. ASSUME NEW x \in ToSet(q) PROVE x \in ToSet(r)
  <2>1. PICK i \in 1..Len(q) : x = q[i]
    BY <1>2 DEF ToSet
  <2>2. i \in 1..Len(r) /\ x = r[i]
    BY <1>1, <1>2, <2>1
  <2> QED BY <1>2, <2>2 DEF ToSet
<1>5. e \in ToSet(r)
  <2>1. Len(q) + 1 \in 1..Len(r)
    BY <1>1, <1>2
  <2> QED BY <1>1, <1>2, <2>1 DEF ToSet
<1>6. ToSet(r) = ToSet(q) \cup {e}
  BY <1>3, <1>4, <1>5
<1> QED BY <1>6 DEF r

LEMMA TailSet ==
  ASSUME NEW S, NEW q \in Seq(S), q # <<>>
  PROVE  /\ ToSet(q) = {Head(q)} \cup ToSet(Tail(q)) /\ Head(q) \in S /\ Tail(q) \in Seq(S)
         /\ Head(q) = q[1] /\ Len(Tail(q)) = Len(q) - 1 /\ Len(q) \in Nat \ {0}
         /\ \A i \in 1..Len(Tail(q)) : Tail(q)[i] = q[i + 1]
<1> DEFINE r == Tail(q)
<1>1. /\ Head(q) \in S /\ r \in Seq(S) /\ Head(q) = q[1] /\ Len(r) = Len(q) - 1
      /\ Len(q) \in Nat \ {0} /\ \A i \in 1..Len(r) : r[i] = q[i + 1]
  OBVIOUS
<1>2. DOMAIN q = 1..Len(q) /\ DOMAIN r = 1..Len(r)
  OBVIOUS
<1> HIDE DEF r
<1>3. ASSUME NEW x \in ToSet(q) PROVE x \in {q[1]} \cup ToSet(r)
  <2>1. PICK i \in 1..Len(q) : x = q[i]
    BY <1>2 DEF ToSet
  <2>2. CASE i = 1
    BY <2>1, <2>2
  <2>3. CASE i # 1
    <3>1. i - 1 \in 1..Len(r)
      BY <1>1, <2>3
    <3>2. r[i - 1] = q[i]
      BY <1>1, <3>1
    <3> QED BY <1>2, <2>1, <3>1, <3>2 DEF ToSet
  <2> QED BY <2>2, <2>3
<1>4. ASSUME NEW x \in ToSet(r) PROVE x \in ToSet(q)
  <2>1. PICK i \in 1..Len(r) : x = r[i]
    BY <1>2 DEF ToSet
  <2>2. i + 1 \in 1..Len(q) /\ x = q[i + 1]
    BY <1>1, <2>1
  <2> QED BY <1>2, <2>2 DEF ToSet
<1>5. q[1] \in ToSet(q)
  <2>1. 1 \in 1..Len(q)
    BY <1>1
  <2> QED BY <1>2, <2>1 DEF ToSet
<1>6. ToSet(q) = {q[1]} \cup ToSet(r)
  BY <1>3, <1>4, <1>5
<1> QED BY <1>1, <1>6 DEF r

LEMMA SetIndex ==
  ASSUME NEW S, NEW q \in Seq(S)
  PROVE  /\ DOMAIN q = 1..Len(q) /\ Len(q) \in Nat /\ ToSet(q) \subseteq S
         /\ \A x \in ToSet(q) : \E i \in 1..Len(q) : x = q[i]
         /\ \A i \in 1..Len(q) : q[i] \in ToSet(q) /\ q[i] \in S
<1>1. DOMAIN q = 1..Len(q) /\ Len(q) \in Nat /\ \A i \in 1..Len(q) : q[i] \in S
  OBVIOUS
<1> QED BY <1>1 DEF ToSet

LEMMA Apart ==
  ASSUME NEW A, NEW B, IsFiniteSet(A), IsFiniteSet(B), A \cap B = {}
  PROVE  IsFiniteSet(A \cup B) /\ Cardinality(A \cup B) = Cardinality(A) + Cardinality(B)
<1>1. /\ IsFiniteSet(A \cup B)
      /\ Cardinality(A \cup B) = Cardinality(A) + Cardinality(B) - Cardinality(A \cap B)
  BY FS_Union
<1>2. Cardinality(A \cap B) = 0
  BY FS_EmptySet
<1>3. Cardinality(A) \in Nat /\ Cardinality(B) \in Nat
  BY FS_CardinalityType
<1> HIDE DEF IsFiniteSet
<1> QED BY ONLY <1>1, <1>2, <1>3

LEMMA InitGuard == Init => GuardInv
BY DEF Init, GuardInv, Idle, Producers

\* The process is gone.
LEMMA DiesGuard ==
  ASSUME Dies PROVE GuardInv'
BY DEF Dies, GuardInv, Idle, Producers

LEMMA NextGuard == GuardInv /\ [Next]_vars => GuardInv'
<1> SUFFICES ASSUME GuardInv, [Next]_vars PROVE GuardInv'
  OBVIOUS
<1> USE DEF GuardInv
<1>1. CASE Start \/ Subscribe \/ Serve \/ BuildFails
  BY <1>1 DEF Start, Subscribe, Serve, BuildFails, queueVars, callVars, diskVars, bounds
<1>2. ASSUME NEW p \in Producers, EmitAudit(p) PROVE GuardInv'
  <2>1. p \in Conns => phase = "running"
    BY <1>2, EventsAssumption DEF EmitAudit
  <2>2. UNCHANGED busVars /\ \A q \in Producers : q # p => caller'[q] = caller[q]
    BY <1>2 DEF EmitAudit
  <2>3. DOMAIN caller' = Producers /\ (caller'[p] = caller[p] \/ caller'[p].at = "sending")
    BY <1>2 DEF EmitAudit
  <2> QED BY <2>1, <2>2, <2>3 DEF busVars, Producers
<1>3. ASSUME NEW p \in Producers, Offer(p) PROVE GuardInv'
  <2>1. UNCHANGED busVars /\ \A q \in Producers : q # p => caller'[q] = caller[q]
    BY <1>3 DEF Offer
  <2>2. DOMAIN caller' = Producers /\ caller'[p].at \in {"idle", caller[p].at}
    BY <1>3 DEF Offer, Onward, Idle
  <2> QED BY <2>1, <2>2 DEF busVars, Producers
<1>4. ASSUME NEW p \in Producers, OfferPanics(p) PROVE GuardInv'
  <2>1. p \notin Conns
    BY <1>4 DEF OfferPanics
  <2> QED BY <1>4, <2>1 DEF OfferPanics, busVars, Producers
<1>5. ASSUME NEW s \in Sinks, Work(s) PROVE GuardInv'
  BY <1>5 DEF Work, Take, Write, Attempt, busVars, callVars, queueVars
<1>6. CASE Shutdown
  BY <1>6 DEF Shutdown, callVars, Producers
<1>7. CASE Closing
  BY <1>7 DEF Closing, CloseInbox, Join, Stop, callVars
<1>8. CASE Crash \/ \E s \in Sinks : CrashRotating(s)
  BY <1>8, DiesGuard DEF Crash, CrashRotating
<1>9. CASE UNCHANGED vars
  BY <1>9 DEF vars, busVars, callVars
<1> QED BY <1>1, <1>2, <1>3, <1>4, <1>5, <1>6, <1>7, <1>8, <1>9 DEF Next

\* Shutdown waits for the connections before it closes the bus, so no goroutine
\* whose panic would end the process meets a closed inbox.
THEOREM NoPanicEscapes == Spec => []PanicsAreRecovered
<1>1. GuardInv => PanicsAreRecovered
  BY DEF GuardInv, PanicsAreRecovered
<1> QED BY <1>1, InitGuard, NextGuard, PTL DEF Spec

-----------------------------------------------------------------------------
(* The way of an event: it waits at its producer, in the inbox, in the hand *)
(* of the worker, and then is one of those that are settled.                *)

Calls == [at : {"idle", "sending", "panic"}, ev : Event \cup {NoEvent}, rest : Seq(Sinks)]
Works == [at : {"none", "idle", "busy", "done"}, ev : Event \cup {NoEvent}, tries : Nat]
SubsOK ==
  /\ config \in SinkLists /\ subs \in Seq(Sinks) /\ Len(subs) <= Len(config)
  /\ \A i \in 1..Len(subs) : subs[i] = config[i]
CallsOK ==
  /\ sent \in [Producers -> Nat] /\ caller \in [Producers -> Calls]
  /\ \A p \in Producers : caller[p].at = "sending" =>
       /\ caller[p].ev = <<p, sent[p]>> /\ caller[p].rest # <<>>
       /\ \A i, j \in 1..Len(caller[p].rest) :
            caller[p].rest[i] = caller[p].rest[j] => i = j
QueuesOK ==
  /\ inbox \in [Sinks -> Seq(Event)] /\ dropped \in [Sinks -> Nat]
  /\ offered \in [Sinks -> SUBSET Event]
WorkOK ==
  /\ worker \in [Sinks -> Works]
  /\ \A s \in Sinks : worker[s].at = "busy" => worker[s].ev \in Event
DiskOK ==
  /\ written \in [Logs -> Seq(Event)] /\ received \in [Hooks -> Seq(Event)]
  /\ dlq \in [Hooks -> SUBSET Event] /\ failed \in [Sinks -> SUBSET Event]
TypeInv == SubsOK /\ CallsOK /\ QueuesOK /\ WorkOK /\ DiskOK

Before(a, b) == a[1] = b[1] => a[2] < b[2]
NotAfter(a, b) == a[1] = b[1] => a[2] <= b[2]
Busy(s) == worker[s].at = "busy"
Got(s) == IF s \in Logs THEN written[s] ELSE received[s]
\* p has yet to offer its event to s.
Pending(p, s) == caller[p].at = "sending" /\ s \in ToSet(caller[p].rest)
\* Events that were offered and neither wait, nor are at hand, nor settled.
Gone(s) == offered[s] \ (ToSet(inbox[s]) \cup AtHand(s) \cup Settled(s))

FreshOK(s) ==
  \A e \in offered[s] \cup Settled(s) :
    e[2] <= sent[e[1]] /\ (Pending(e[1], s) => e[2] < sent[e[1]])
WithinOK(s) == ToSet(inbox[s]) \cup AtHand(s) \subseteq offered[s]
InboxOK(s) ==
  /\ \A i, j \in 1..Len(inbox[s]) : i < j => Before(inbox[s][i], inbox[s][j])
  /\ \A i \in 1..Len(inbox[s]) :
       /\ Busy(s) => Before(worker[s].ev, inbox[s][i])
       /\ \A e \in Settled(s) : Before(e, inbox[s][i])
HandOK(s) ==
  Busy(s) => /\ \A e \in Settled(s) : NotAfter(e, worker[s].ev)
             /\ s \in Logs => \A i \in 1..Len(Got(s)) : Before(Got(s)[i], worker[s].ev)
GotOK(s) ==
  \A i, j \in 1..Len(Got(s)) : i < j =>
    IF s \in Logs THEN Before(Got(s)[i], Got(s)[j]) ELSE NotAfter(Got(s)[i], Got(s)[j])
CountOK(s) ==
  /\ IsFiniteSet(offered[s]) /\ Cardinality(Gone(s)) = dropped[s]
  /\ Cardinality(ToSet(inbox[s])) = Len(inbox[s])
SinkOK(s) == /\ FreshOK(s) /\ WithinOK(s) /\ InboxOK(s) /\ HandOK(s) /\ GotOK(s)
             /\ CountOK(s)
\* Before the server serves there is nothing to do.
QuietOK ==
  phase \in {"dead", "building"} =>
    /\ \A p \in Producers : caller[p].at # "sending"
    /\ \A s \in Sinks : inbox[s] = <<>> /\ ~Busy(s)
FlowInv == TypeInv /\ QuietOK /\ \A s \in Sinks : SinkOK(s)

LEMMA SettledEvents ==
  ASSUME TypeInv, NEW s \in Sinks
  PROVE  /\ Settled(s) \subseteq Event /\ Got(s) \in Seq(Event) /\ ToSet(Got(s)) \subseteq Settled(s)
         /\ \A e \in Event : e[1] \in Producers /\ e[2] \in Nat /\ e = <<e[1], e[2]>>
         /\ AtHand(s) = IF Busy(s) THEN {worker[s].ev} ELSE {}
<1>1. CASE s \in Logs
  <2>1. written[s] \in Seq(Event) /\ failed[s] \subseteq Event
    BY <1>1 DEF TypeInv, DiskOK
  <2>2. ToSet(written[s]) \subseteq Event
    BY <2>1, SetIndex
  <2> QED BY <1>1, <2>1, <2>2 DEF Settled, Got, AtHand, Busy, Event
<1>2. CASE s \in Hooks /\ s \notin Logs
  <2>1. received[s] \in Seq(Event) /\ failed[s] \subseteq Event /\ dlq[s] \subseteq Event
    BY <1>2 DEF TypeInv, DiskOK
  <2>2. ToSet(received[s]) \subseteq Event
    BY <2>1, SetIndex
  <2> QED BY <1>2, <2>1, <2>2 DEF Settled, Got, AtHand, Busy, Event
<1> QED BY <1>1, <1>2 DEF Sinks

\* A sink with which nothing happens, except that a producer may come up with
\* a new event for it or have done with it.
LEMMA Untouched ==
  ASSUME TypeInv, TypeInv', NEW s \in Sinks, SinkOK(s),
         inbox'[s] = inbox[s], worker'[s].at = worker[s].at \/ (~Busy(s) /\ ~Busy(s)'),
         worker'[s].ev = worker[s].ev \/ ~Busy(s),
         offered'[s] = offered[s], dropped'[s] = dropped[s], Settled(s)' = Settled(s), Got(s)' = Got(s),
         \A p \in Producers :
           sent[p] <= sent'[p] /\ (Pending(p, s)' => Pending(p, s) \/ sent[p] < sent'[p])
  PROVE  SinkOK(s)'
<1>1. /\ Settled(s) \subseteq Event /\ offered[s] \subseteq Event
      /\ \A e \in Event : e[1] \in Producers /\ e[2] \in Nat
      /\ \A p \in Producers : sent[p] \in Nat /\ sent'[p] \in Nat
  BY SettledEvents DEF TypeInv, QueuesOK, CallsOK
<1>2. (Busy(s)' <=> Busy(s)) /\ (Busy(s) => worker'[s].ev = worker[s].ev)
  BY DEF Busy
<1>3. AtHand(s)' = AtHand(s)
  BY <1>2 DEF AtHand, Busy
<1>4. FreshOK(s)'
  <2>1. ASSUME NEW e \in offered[s] \cup Settled(s)
        PROVE  e[2] <= sent'[e[1]] /\ (Pending(e[1], s)' => e[2] < sent'[e[1]])
    <3>1. e[2] <= sent[e[1]] /\ (Pending(e[1], s) => e[2] < sent[e[1]])
      BY <2>1 DEF SinkOK, FreshOK
    <3>2. e[1] \in Producers /\ e[2] \in Nat
      BY <1>1
    <3> QED BY <1>1, <3>1, <3>2
  <2> QED BY <2>1 DEF FreshOK
<1>5. WithinOK(s)' /\ Gone(s)' = Gone(s)
  BY <1>3 DEF SinkOK, WithinOK, Gone
<1>6. InboxOK(s)'
  BY <1>2 DEF SinkOK, InboxOK
<1>7. HandOK(s)'
  BY <1>2 DEF SinkOK, HandOK
<1>8. GotOK(s)' /\ CountOK(s)'
  BY <1>5 DEF SinkOK, GotOK, CountOK
<1> QED BY <1>4, <1>5, <1>6, <1>7, <1>8 DEF SinkOK

\* p offers its event to the sink: it is newer than all the sink has seen of p.
LEMMA Offered ==
  ASSUME TypeInv, TypeInv', NEW s \in Sinks, SinkOK(s), NEW p \in Producers, NEW e \in Event,
         e = <<p, sent[p]>>, Pending(p, s), ~Pending(p, s)',
         \A q \in Producers : Pending(q, s)' => Pending(q, s), sent' = sent,
         worker' = worker, Settled(s)' = Settled(s), Got(s)' = Got(s),
         offered'[s] = offered[s] \cup {e},
         \/ inbox'[s] = Append(inbox[s], e) /\ dropped'[s] = dropped[s]
         \/ inbox'[s] = inbox[s] /\ dropped'[s] = dropped[s] + 1
  PROVE  SinkOK(s)'
<1>1. /\ Settled(s) \subseteq Event /\ offered[s] \subseteq Event /\ inbox[s] \in Seq(Event)
      /\ \A f \in Event : f[1] \in Producers /\ f[2] \in Nat
      /\ \A q \in Producers : sent[q] \in Nat
      /\ dropped[s] \in Nat /\ AtHand(s) = IF Busy(s) THEN {worker[s].ev} ELSE {}
  BY SettledEvents DEF TypeInv, QueuesOK, CallsOK
<1>2. (Busy(s)' <=> Busy(s)) /\ AtHand(s)' = AtHand(s)
  BY DEF Busy, AtHand
<1>3. \A f \in offered[s] \cup Settled(s) : Before(f, e) /\ f # e
  <2>1. \A f \in offered[s] \cup Settled(s) : f[1] = p => f[2] < sent[p]
    BY DEF SinkOK, FreshOK
  <2>2. e[1] = p /\ e[2] = sent[p] /\ sent[p] \in Nat
    BY <1>1
  <2> QED BY <1>1, <2>1, <2>2 DEF Before
<1>4. FreshOK(s)'
  <2>1. ASSUME NEW f \in offered[s] \cup Settled(s) \cup {e}
        PROVE  f[2] <= sent[f[1]] /\ (Pending(f[1], s)' => f[2] < sent[f[1]])
    <3>1. CASE f = e
      BY <1>1, <3>1
    <3>2. CASE f # e
      BY <1>1, <2>1, <3>2 DEF SinkOK, FreshOK
    <3> QED BY <3>1, <3>2
  <2> QED BY <2>1 DEF FreshOK
<1>5. /\ ToSet(inbox[s]) \subseteq offered[s] /\ AtHand(s) \subseteq offered[s]
      /\ \A i \in 1..Len(inbox[s]) : inbox[s][i] \in offered[s] /\ inbox[s][i] \in ToSet(inbox[s])
      /\ Len(inbox[s]) \in Nat
  BY <1>1, SetIndex DEF SinkOK, WithinOK
<1>6. Busy(s) => worker[s].ev \in offered[s]
  BY <1>1, <1>5
<1>7. HandOK(s)'
  BY <1>2 DEF SinkOK, HandOK
<1>8. GotOK(s)'
  BY DEF SinkOK, GotOK
<1>9. CASE inbox'[s] = Append(inbox[s], e) /\ dropped'[s] = dropped[s]
  <2>1. /\ Len(inbox'[s]) = Len(inbox[s]) + 1 /\ inbox'[s][Len(inbox[s]) + 1] = e
        /\ \A i \in 1..Len(inbox[s]) : inbox'[s][i] = inbox[s][i]
    BY <1>1, <1>9
  <2>2. ToSet(inbox'[s]) = ToSet(inbox[s]) \cup {e}
    BY <1>1, <1>9, AppendSet
  <2>3. WithinOK(s)'
    BY <1>2, <1>5, <2>2 DEF WithinOK
  <2>4. \A i \in 1..Len(inbox'[s]) : i \in 1..Len(inbox[s]) \/ (i = Len(inbox[s]) + 1 /\ inbox'[s][i] = e)
    BY <1>5, <2>1
  <2>5. \A i, j \in 1..Len(inbox'[s]) : i < j => Before(inbox'[s][i], inbox'[s][j])
    <3>1. ASSUME NEW i \in 1..Len(inbox'[s]), NEW j \in 1..Len(inbox'[s]), i < j
          PROVE  Before(inbox'[s][i], inbox'[s][j])
      <4>1. CASE j \in 1..Len(inbox[s])
        <5>1. i \in 1..Len(inbox[s])
          BY <1>5, <3>1, <4>1
        <5> QED BY <2>1, <3>1, <4>1, <5>1 DEF SinkOK, InboxOK
      <4>2. CASE j = Len(inbox[s]) + 1 /\ inbox'[s][j] = e
        <5>1. i \in 1..Len(inbox[s])
          BY <1>5, <3>1, <4>2
        <5> QED BY <1>3, <1>5, <2>1, <4>2, <5>1
      <4> QED BY <2>4, <4>1, <4>2
    <3> QED BY <3>1
  <2>6. \A i \in 1..Len(inbox'[s]) :
          /\ Busy(s) => Before(worker[s].ev, inbox'[s][i])
          /\ \A f \in Settled(s) : Before(f, inbox'[s][i])
    <3>1. ASSUME NEW i \in 1..Len(inbox'[s])
          PROVE  /\ Busy(s) => Before(worker[s].ev, inbox'[s][i])
                 /\ \A f \in Settled(s) : Before(f, inbox'[s][i])
      <4>1. CASE i \in 1..Len(inbox[s])
        BY <2>1, <4>1 DEF SinkOK, InboxOK
      <4>2. CASE inbox'[s][i] = e
        BY <1>3, <1>6, <4>2
      <4> QED BY <2>4, <4>1, <4>2
    <3> QED BY <3>1
  <2>7. InboxOK(s)'
    BY <1>2, <2>5, <2>6 DEF InboxOK
  <2>8. Gone(s)' = Gone(s)
    BY <1>2, <1>3, <1>5, <2>2 DEF Gone
  <2>9. IsFiniteSet(offered'[s])
    <3>1. IsFiniteSet(offered[s])
      BY DEF SinkOK, CountOK
    <3>2. IsFiniteSet(offered[s] \cup {e})
      BY <3>1, FS_AddElement
    <3> QED BY <3>2
  <2>10. Cardinality(ToSet(inbox'[s])) = Len(inbox'[s])
    <3>1. e \notin ToSet(inbox[s])
      BY <1>3, <1>5
    <3>2. IsFiniteSet(ToSet(inbox[s]))
      BY <1>5, FS_Subset DEF SinkOK, CountOK
    <3>3. Cardinality(ToSet(inbox[s]) \cup {e}) = Cardinality(ToSet(inbox[s])) + 1
      BY <3>1, <3>2, FS_AddElement
    <3>4. Cardinality(ToSet(inbox[s])) = Len(inbox[s])
      BY DEF SinkOK, CountOK
    <3> QED BY <2>1, <2>2, <3>3, <3>4
  <2>11. CountOK(s)'
    BY <1>9, <2>8, <2>9, <2>10 DEF SinkOK, CountOK
  <2> QED BY <1>4, <1>7, <1>8, <2>3, <2>7, <2>11 DEF SinkOK
<1>10. CASE inbox'[s] = inbox[s] /\ dropped'[s] = dropped[s] + 1
  <2>1. WithinOK(s)'
    BY <1>2, <1>5, <1>10 DEF WithinOK
  <2>2. InboxOK(s)'
    BY <1>2, <1>10 DEF SinkOK, InboxOK
  <2>3. Gone(s)' = Gone(s) \cup {e} /\ e \notin Gone(s)
    BY <1>2, <1>3, <1>5, <1>10 DEF Gone
  <2>4. IsFiniteSet(offered'[s]) /\ IsFiniteSet(offered[s])
    <3>1. IsFiniteSet(offered[s])
      BY DEF SinkOK, CountOK
    <3>2. IsFiniteSet(offered[s] \cup {e})
      BY <3>1, FS_AddElement
    <3> QED BY <3>1, <3>2
  <2>5. IsFiniteSet(Gone(s))
    BY <2>4, FS_Subset DEF Gone
  <2>6. Cardinality(Gone(s)') = dropped[s] + 1
    BY <2>3, <2>5, FS_AddElement DEF SinkOK, CountOK
  <2>7. CountOK(s)'
    BY <1>10, <2>4, <2>6 DEF SinkOK, CountOK
  <2> QED BY <1>4, <1>7, <1>8, <2>1, <2>2, <2>7 DEF SinkOK
<1> QED BY <1>9, <1>10

\* The worker takes the head of the inbox in hand.
LEMMA Taken ==
  ASSUME TypeInv, TypeInv', NEW s \in Sinks, SinkOK(s), inbox[s] # <<>>, ~Busy(s), Busy(s)',
         worker'[s].ev = Head(inbox[s]), inbox'[s] = Tail(inbox[s]),
         offered' = offered, dropped' = dropped, caller' = caller, sent' = sent,
         Settled(s)' = Settled(s), Got(s)' = Got(s)
  PROVE  SinkOK(s)'
<1> DEFINE e == Head(inbox[s])
<1>1. /\ inbox[s] \in Seq(Event) /\ ToSet(inbox[s]) = {e} \cup ToSet(inbox'[s])
      /\ e = inbox[s][1] /\ Len(inbox'[s]) = Len(inbox[s]) - 1 /\ Len(inbox[s]) \in Nat \ {0}
      /\ \A i \in 1..Len(inbox'[s]) : inbox'[s][i] = inbox[s][i + 1]
      /\ inbox'[s] \in Seq(Event) /\ e \in Event
  BY TailSet DEF TypeInv, QueuesOK
<1> HIDE DEF e
<1>2. worker'[s].ev = e /\ AtHand(s)' = {e} /\ AtHand(s) = {}
  BY DEF e, AtHand, Busy
<1>3. FreshOK(s)'
  BY DEF SinkOK, FreshOK, Pending
<1>4. WithinOK(s)'
  BY <1>1, <1>2 DEF SinkOK, WithinOK
<1>5. \A i \in 1..Len(inbox'[s]) : i + 1 \in 1..Len(inbox[s]) /\ 1 < i + 1
  BY <1>1
<1>6. 1 \in 1..Len(inbox[s])
  BY <1>1
<1>7. \A i \in 1..Len(inbox'[s]) : Before(e, inbox'[s][i])
  BY <1>1, <1>5, <1>6 DEF SinkOK, InboxOK
<1>8. InboxOK(s)'
  <2>1. \A i, j \in 1..Len(inbox'[s]) : i < j => Before(inbox'[s][i], inbox'[s][j])
    <3>1. \A i, j \in 1..Len(inbox'[s]) : i < j => i + 1 < j + 1
      BY <1>1
    <3> QED BY <1>1, <1>5, <3>1 DEF SinkOK, InboxOK
  <2>2. \A i \in 1..Len(inbox'[s]), f \in Settled(s) : Before(f, inbox'[s][i])
    BY <1>1, <1>5 DEF SinkOK, InboxOK
  <2> QED BY <1>2, <1>7, <2>1, <2>2 DEF InboxOK
<1>9. HandOK(s)'
  <2>1. \A f \in Settled(s) : Before(f, e)
    BY <1>1, <1>6 DEF SinkOK, InboxOK
  <2>2. /\ Got(s) \in Seq(Event) /\ ToSet(Got(s)) \subseteq Settled(s) /\ Settled(s) \subseteq Event
        /\ \A f \in Event : f[1] \in Producers /\ f[2] \in Nat
    BY SettledEvents
  <2>3. \A i \in 1..Len(Got(s)) : Got(s)[i] \in Settled(s)
    BY <2>2, SetIndex
  <2>4. \A f \in Settled(s) : NotAfter(f, e)
    BY <1>1, <2>1, <2>2 DEF Before, NotAfter
  <2> QED BY <1>2, <2>1, <2>3, <2>4 DEF HandOK
<1>10. GotOK(s)'
  BY DEF SinkOK, GotOK
<1>11. Gone(s)' = Gone(s)
  BY <1>1, <1>2 DEF Gone
<1>12. Cardinality(ToSet(inbox'[s])) = Len(inbox'[s])
  <2>1. e \notin ToSet(inbox'[s])
    <3>0. ~Before(e, e)
      BY <1>1 DEF Before, Event
    <3>1. \A i \in 1..Len(inbox'[s]) : inbox'[s][i] # e
      BY <1>7, <3>0
    <3>2. inbox'[s] \in Seq(Event)
      BY <1>1
    <3>3. \A x \in ToSet(inbox'[s]) : \E i \in 1..Len(inbox'[s]) : x = inbox'[s][i]
      BY ONLY <3>2, SetIndex
    <3> QED BY <3>1, <3>3
  <2>2. ToSet(inbox'[s]) = ToSet(inbox[s]) \ {e} /\ e \in ToSet(inbox[s])
    BY <1>1, <2>1
  <2>3. IsFiniteSet(ToSet(inbox[s]))
    BY FS_Subset DEF SinkOK, CountOK, WithinOK
  <2>4. Cardinality(ToSet(inbox[s]) \ {e}) = Cardinality(ToSet(inbox[s])) - 1
    BY <2>2, <2>3, FS_RemoveElement
  <2>5. Cardinality(ToSet(inbox[s])) = Len(inbox[s])
    BY DEF SinkOK, CountOK
  <2> QED BY <1>1, <2>2, <2>4, <2>5
<1>13. CountOK(s)'
  BY <1>11, <1>12 DEF SinkOK, CountOK
<1> QED BY <1>3, <1>4, <1>8, <1>9, <1>10, <1>13 DEF SinkOK

\* One more event is got: the one at hand, after all before it.
LEMMA GotNext ==
  ASSUME TypeInv, NEW s \in Sinks, SinkOK(s), Busy(s),
         Got(s)' = Got(s) \/ Got(s)' = Append(Got(s), worker[s].ev)
  PROVE  GotOK(s)'
<1>1. CASE Got(s)' = Got(s)
  BY <1>1 DEF SinkOK, GotOK
<1>2. CASE Got(s)' = Append(Got(s), worker[s].ev)
  <2> DEFINE q == Got(s)
             e == worker[s].ev
  <2>0. q \in Seq(Event) /\ ToSet(q) \subseteq Settled(s) /\ e \in Event
    BY SettledEvents DEF TypeInv, WorkOK, Busy
  <2>1. /\ \A i, j \in 1..Len(q) : i < j =>
             IF s \in Logs THEN Before(q[i], q[j]) ELSE NotAfter(q[i], q[j])
        /\ \A f \in Settled(s) : NotAfter(f, e)
        /\ s \in Logs => \A i \in 1..Len(q) : Before(q[i], e)
    BY DEF SinkOK, GotOK, HandOK
  <2>2. \A i \in 1..Len(q) : q[i] \in Settled(s)
    BY <2>0, SetIndex
  <2> HIDE DEF q, e
  <2>3. /\ Len(Append(q, e)) = Len(q) + 1 /\ Append(q, e)[Len(q) + 1] = e /\ Len(q) \in Nat
        /\ \A i \in 1..Len(q) : Append(q, e)[i] = q[i]
    BY <2>0
  <2>4. ASSUME NEW i \in 1..Len(q) + 1, NEW j \in 1..Len(q) + 1, i < j
        PROVE  IF s \in Logs THEN Before(Append(q, e)[i], Append(q, e)[j])
                              ELSE NotAfter(Append(q, e)[i], Append(q, e)[j])
    <3>1. i \in 1..Len(q) /\ (j \in 1..Len(q) \/ j = Len(q) + 1)
      BY <2>3, <2>4
    <3>2. CASE j \in 1..Len(q)
      BY <2>1, <2>3, <2>4, <3>1, <3>2
    <3>3. CASE j = Len(q) + 1
      BY <2>1, <2>2, <2>3, <3>1, <3>3
    <3> QED BY <3>1, <3>2, <3>3
  <2>5. \A i, j \in 1..Len(Append(q, e)) : i < j =>
          IF s \in Logs THEN Before(Append(q, e)[i], Append(q, e)[j])
                        ELSE NotAfter(Append(q, e)[i], Append(q, e)[j])
    BY <2>3, <2>4
  <2>6. Got(s)' = Append(q, e)
    BY <1>2 DEF q, e
  <2> QED BY <2>5, <2>6 DEF GotOK
<1> QED BY <1>1, <1>2

\* The worker handles what it has in hand, for good or to try once more.
LEMMA Handled ==
  ASSUME TypeInv, TypeInv', NEW s \in Sinks, SinkOK(s), Busy(s), NEW e \in Event, e = worker[s].ev,
         inbox' = inbox, offered' = offered, dropped' = dropped, caller' = caller, sent' = sent,
         Settled(s) \subseteq Settled(s)', Settled(s)' \subseteq Settled(s) \cup {e},
         Got(s)' = Got(s) \/ Got(s)' = Append(Got(s), e),
         \/ Busy(s)' /\ worker'[s].ev = e /\ s \notin Logs
         \/ ~Busy(s)' /\ e \in Settled(s)'
  PROVE  SinkOK(s)'
<1>1. AtHand(s) = {e} /\ e \in offered[s] /\ AtHand(s)' \subseteq {e}
      /\ (AtHand(s)' = {e} \/ e \in Settled(s)')
  BY DEF AtHand, Busy, SinkOK, WithinOK
<1>2. FreshOK(s)'
  BY <1>1 DEF SinkOK, FreshOK, Pending
<1>3. WithinOK(s)'
  BY <1>1 DEF SinkOK, WithinOK
<1>4. InboxOK(s)'
  <2>1. \A i \in 1..Len(inbox[s]) : Before(e, inbox[s][i])
    BY DEF SinkOK, InboxOK
  <2> QED BY <2>1 DEF SinkOK, InboxOK
<1>5. HandOK(s)'
  <2>1. NotAfter(e, e) /\ \A f \in Settled(s) : NotAfter(f, e)
    BY DEF SinkOK, HandOK, NotAfter, Event
  <2> QED BY <2>1 DEF HandOK
<1>6. GotOK(s)'
  BY GotNext
<1>7. Gone(s)' = Gone(s)
  BY <1>1 DEF Gone
<1>8. CountOK(s)'
  BY <1>7 DEF SinkOK, CountOK
<1> QED BY <1>2, <1>3, <1>4, <1>5, <1>6, <1>8 DEF SinkOK

\* The process is gone; the line it was writing may be there.
LEMMA Emptied ==
  ASSUME TypeInv, TypeInv', NEW s \in Sinks, SinkOK(s), sent' = sent,
         inbox'[s] = <<>>, offered'[s] = {}, dropped'[s] = 0, ~Busy(s)',
         \A p \in Producers : caller'[p].at = "idle",
         Settled(s)' \subseteq Settled(s) \cup AtHand(s),
         Got(s)' = Got(s) \/ (Busy(s) /\ Got(s)' = Append(Got(s), worker[s].ev))
  PROVE  SinkOK(s)'
<1>1. AtHand(s)' = {} /\ AtHand(s) \subseteq offered[s]
  BY DEF AtHand, Busy, SinkOK, WithinOK
<1>2. ToSet(inbox'[s]) = {} /\ Len(inbox'[s]) = 0
  BY DEF ToSet
<1>3. FreshOK(s)'
  <2>1. Settled(s) \subseteq Event /\ offered[s] \subseteq Event
        /\ \A e \in Event : e[1] \in Producers
    BY SettledEvents DEF TypeInv, QueuesOK
  <2>2. \A p \in Producers : ~Pending(p, s)'
    BY DEF Pending
  <2>3. \A e \in Settled(s)' : e \in Settled(s) \cup offered[s]
    BY <1>1
  <2> QED BY <2>1, <2>2, <2>3 DEF SinkOK, FreshOK
<1>4. WithinOK(s)' /\ InboxOK(s)' /\ HandOK(s)'
  BY <1>1, <1>2 DEF WithinOK, InboxOK, HandOK
<1>5. GotOK(s)'
  <2>1. CASE Got(s)' = Got(s)
    BY <2>1 DEF SinkOK, GotOK
  <2>2. CASE Busy(s) /\ Got(s)' = Append(Got(s), worker[s].ev)
    BY <2>2, GotNext
  <2> QED BY <2>1, <2>2
<1>6. CountOK(s)'
  <2>1. Gone(s)' = {}
    BY DEF Gone
  <2> QED BY <1>2, <2>1, FS_EmptySet DEF CountOK
<1> QED BY <1>3, <1>4, <1>5, <1>6 DEF SinkOK
-----------------------------------------------------------------------------
(* Every step keeps the way of an event. *)

\* A step that leaves the queues, the producers and the sinks' results alone.
LEMMA Aside ==
  ASSUME FlowInv, SubsOK', QuietOK', WorkOK',
         UNCHANGED <<inbox, dropped, offered, caller, sent, received, dlq, failed, written>>,
         \A s \in Sinks : worker'[s] = worker[s] \/ (~Busy(s) /\ ~Busy(s)')
  PROVE  FlowInv'
<1>1. TypeInv'
  BY DEF FlowInv, TypeInv, CallsOK, QueuesOK, DiskOK
<1>2. ASSUME NEW s \in Sinks PROVE SinkOK(s)'
  <2>1. Settled(s)' = Settled(s) /\ Got(s)' = Got(s)
    BY DEF Settled, Got
  <2>2. /\ worker'[s].at = worker[s].at \/ (~Busy(s) /\ ~Busy(s)')
        /\ worker'[s].ev = worker[s].ev \/ ~Busy(s)
    OBVIOUS
  <2>3. \A p \in Producers : sent[p] <= sent'[p] /\ (Pending(p, s)' => Pending(p, s))
    BY DEF FlowInv, TypeInv, CallsOK, Pending
  <2> QED BY <1>1, <2>1, <2>2, <2>3, Untouched DEF FlowInv
<1> QED BY <1>1, <1>2 DEF FlowInv

\* Start-up and shutdown of the bus, but for the subscription of a sink.
LEMMA BusFlow ==
  ASSUME FlowInv, Start \/ Serve \/ BuildFails \/ Shutdown \/ Closing
  PROVE  FlowInv'
<1>1. UNCHANGED <<inbox, dropped, offered, caller, sent, received, dlq, failed, written, worker, config, subs>>
  BY DEF Start, Serve, BuildFails, Shutdown, Closing, CloseInbox, Join, Stop, queueVars,
         callVars, diskVars
<1>2. phase' \in {"dead", "building"} => phase \in {"dead", "building"}
  BY DEF Start, Serve, BuildFails, Shutdown, Closing, CloseInbox, Join, Stop
<1>3. SubsOK' /\ WorkOK'
  BY <1>1 DEF FlowInv, TypeInv, SubsOK, WorkOK
<1>4. QuietOK'
  BY <1>1, <1>2 DEF FlowInv, QuietOK, Busy
<1> QED BY <1>1, <1>3, <1>4, Aside

LEMMA SubscribeFlow ==
  ASSUME FlowInv, Subscribe PROVE FlowInv'
<1>1. UNCHANGED <<inbox, dropped, offered, caller, sent, received, dlq, failed, written, config, phase>>
      /\ phase = "building" /\ Len(subs) < Len(config)
  BY DEF Subscribe, queueVars, callVars
<1> DEFINE k == Len(subs) + 1
           t == config[k]
<1>2. config \in Seq(Sinks) /\ subs \in Seq(Sinks)
  BY EventsAssumption DEF FlowInv, TypeInv, SubsOK
<1>3. k \in 1..Len(config) /\ t \in Sinks
  BY <1>1, <1>2
<1>4. subs' = Append(subs, t) /\ worker' = [worker EXCEPT ![t] = Waiting]
  BY DEF Subscribe
<1> HIDE DEF t
<1>5. /\ subs' \in Seq(Sinks) /\ Len(subs') = k /\ subs'[k] = t
      /\ \A i \in 1..Len(subs) : subs'[i] = subs[i]
      /\ \A i \in 1..k : i \in 1..Len(subs) \/ i = k
  BY <1>2, <1>3, <1>4
<1>6. SubsOK'
  BY <1>1, <1>3, <1>5 DEF FlowInv, TypeInv, SubsOK, t
<1>7. Waiting \in Works /\ Waiting.at = "idle"
  BY DEF Waiting, NoWork, Works
<1>8. worker \in [Sinks -> Works]
  BY DEF FlowInv, TypeInv, WorkOK
<1>9. /\ worker' \in [Sinks -> Works] /\ worker'[t].at = "idle"
      /\ \A s \in Sinks : s = t \/ worker'[s] = worker[s]
  BY <1>3, <1>4, <1>7, <1>8
<1>10. WorkOK'
  BY <1>9 DEF FlowInv, TypeInv, WorkOK
<1>11. \A s \in Sinks : ~Busy(s)
  BY <1>1 DEF FlowInv, QuietOK
<1>12. \A s \in Sinks : ~Busy(s)'
  BY <1>9, <1>11 DEF Busy
<1>13. QuietOK'
  BY <1>1, <1>12 DEF FlowInv, QuietOK
<1> QED BY <1>1, <1>6, <1>10, <1>11, <1>12, <1>13, Aside

\* A producer begins an event; its copy of the subscribers names each once.
LEMMA EmitFlow ==
  ASSUME FlowInv, NEW p \in Producers, EmitAudit(p) PROVE FlowInv'
<1> DEFINE e == <<p, sent[p] + 1>>
           c == [at |-> "sending", ev |-> e, rest |-> subs]
<1>1. /\ UNCHANGED <<inbox, dropped, offered, received, dlq, failed, written, worker, config, subs, phase>>
      /\ phase \in {"running", "closing", "stopped"} /\ caller[p].at = "idle"
      /\ sent' = [sent EXCEPT ![p] = @ + 1]
      /\ caller' = caller \/ (caller' = [caller EXCEPT ![p] = c] /\ subs # <<>>)
  BY DEF EmitAudit, busVars, queueVars, diskVars
<1>2. sent \in [Producers -> Nat] /\ caller \in [Producers -> Calls] /\ subs \in Seq(Sinks)
  BY DEF FlowInv, TypeInv, CallsOK, SubsOK
<1>3. e \in Event /\ c \in Calls /\ sent' \in [Producers -> Nat] /\ sent'[p] = sent[p] + 1
      /\ \A q \in Producers : q # p => sent'[q] = sent[q]
  BY <1>1, <1>2 DEF Event, Calls
<1>4. \A i, j \in 1..Len(subs) : subs[i] = subs[j] => i = j
  <2>1. config \in Seq(Sinks) /\ IsInjective(config) /\ Len(subs) <= Len(config)
        /\ \A i \in 1..Len(subs) : subs[i] = config[i]
    BY EventsAssumption DEF FlowInv, TypeInv, SubsOK
  <2>2. DOMAIN config = 1..Len(config) /\ Len(config) \in Nat /\ Len(subs) \in Nat
    BY <1>2, <2>1
  <2>3. \A i \in 1..Len(subs) : i \in DOMAIN config
    BY <2>1, <2>2
  <2> QED BY <2>1, <2>3 DEF IsInjective
<1>5. CallsOK'
  <2>1. CASE caller' = caller
    BY <1>1, <1>2, <1>3, <2>1 DEF FlowInv, TypeInv, CallsOK
  <2>2. CASE caller' = [caller EXCEPT ![p] = c] /\ subs # <<>>
    <3>1. caller' \in [Producers -> Calls] /\ caller'[p] = c
          /\ \A q \in Producers : q # p => caller'[q] = caller[q]
      BY <1>2, <1>3, <2>2
    <3>2. c.ev = <<p, sent'[p]>> /\ c.rest = subs
      BY <1>3
    <3> HIDE DEF c
    <3>3. ASSUME NEW q \in Producers, caller'[q].at = "sending"
          PROVE  /\ caller'[q].ev = <<q, sent'[q]>> /\ caller'[q].rest # <<>>
                 /\ \A i, j \in 1..Len(caller'[q].rest) :
                      caller'[q].rest[i] = caller'[q].rest[j] => i = j
      <4>1. CASE q = p
        BY <1>4, <2>2, <3>1, <3>2, <4>1
      <4>2. CASE q # p
        BY <1>3, <3>1, <3>3, <4>2 DEF FlowInv, TypeInv, CallsOK
      <4> QED BY <4>1, <4>2
    <3> QED BY <1>3, <3>1, <3>3 DEF CallsOK
  <2> QED BY <1>1, <2>1, <2>2
<1>6. TypeInv'
  BY <1>1, <1>5 DEF FlowInv, TypeInv, SubsOK, QueuesOK, WorkOK, DiskOK
<1>7. QuietOK'
  BY <1>1 DEF QuietOK
<1>8. ASSUME NEW s \in Sinks PROVE SinkOK(s)'
  <2>1. Settled(s)' = Settled(s) /\ Got(s)' = Got(s)
    BY <1>1 DEF Settled, Got
  <2>2. ASSUME NEW q \in Producers
        PROVE  sent[q] <= sent'[q] /\ (Pending(q, s)' => Pending(q, s) \/ sent[q] < sent'[q])
    <3>1. CASE q = p
      BY <1>2, <1>3, <3>1
    <3>2. CASE q # p
      <4>1. caller'[q] = caller[q]
        BY <1>1, <1>2, <3>2
      <4> QED BY <1>2, <1>3, <3>2, <4>1 DEF Pending
    <3> QED BY <3>1, <3>2
  <2> QED BY <1>1, <1>6, <2>1, <2>2, Untouched DEF FlowInv
<1> QED BY <1>6, <1>7, <1>8 DEF FlowInv
\* A producer offers its event to the sinks of its copy, each in its turn.
LEMMA OfferFlow ==
  ASSUME FlowInv, NEW p \in Producers, Offer(p) PROVE FlowInv'
<1> DEFINE c == caller[p]
           t == Head(c.rest)
           e == c.ev
           r == Tail(c.rest)
           d == IF Len(c.rest) = 1 THEN Idle ELSE [c EXCEPT !.rest = r]
<1>1. /\ UNCHANGED <<sent, received, dlq, failed, written, worker, config, subs, phase>>
      /\ c.at = "sending" /\ caller' = [caller EXCEPT ![p] = d]
      /\ offered' = [offered EXCEPT ![t] = @ \cup {e}]
      /\ \/ inbox' = [inbox EXCEPT ![t] = Append(@, e)] /\ dropped' = dropped
         \/ inbox' = inbox /\ dropped' = [dropped EXCEPT ![t] = @ + 1]
  BY DEF Offer, Onward, busVars, diskVars
<1>2. /\ sent \in [Producers -> Nat] /\ caller \in [Producers -> Calls]
      /\ inbox \in [Sinks -> Seq(Event)] /\ dropped \in [Sinks -> Nat]
      /\ offered \in [Sinks -> SUBSET Event]
  BY DEF FlowInv, TypeInv, CallsOK, QueuesOK
<1>3. /\ c \in Calls /\ c.rest \in Seq(Sinks) /\ c.rest # <<>> /\ e = <<p, sent[p]>>
      /\ \A i, j \in 1..Len(c.rest) : c.rest[i] = c.rest[j] => i = j
  BY <1>1, <1>2 DEF FlowInv, TypeInv, CallsOK, Calls
<1>4. e \in Event
  BY <1>2, <1>3 DEF Event
<1>5. /\ ToSet(c.rest) = {t} \cup ToSet(r) /\ t \in Sinks /\ r \in Seq(Sinks)
      /\ t = c.rest[1] /\ Len(r) = Len(c.rest) - 1 /\ Len(c.rest) \in Nat \ {0}
      /\ \A i \in 1..Len(r) : r[i] = c.rest[i + 1]
  BY <1>3, TailSet
<1> HIDE DEF t, r
<1>6. Idle \in Calls /\ Idle.at = "idle"
  BY DEF Idle, Calls, NoEvent
<1>7. /\ d \in Calls /\ d.at \in {"idle", "sending"}
      /\ d.at = "sending" => d.ev = e /\ d.rest = r /\ Len(c.rest) # 1
  <2>1. CASE Len(c.rest) = 1
    BY <1>6, <2>1
  <2>2. CASE Len(c.rest) # 1
    BY <1>1, <1>3, <1>5, <2>2 DEF Calls
  <2> QED BY <2>1, <2>2
<1> HIDE DEF d
<1>8. /\ caller' \in [Producers -> Calls] /\ caller'[p] = d
      /\ \A q \in Producers : q # p => caller'[q] = caller[q]
  BY <1>1, <1>2, <1>7
<1>9. \A i \in 1..Len(r) : r[i] # t
  BY <1>3, <1>5
<1>10. t \notin ToSet(r)
  BY <1>5, <1>9, SetIndex
<1>11. CallsOK'
  <2>1. ASSUME NEW q \in Producers, caller'[q].at = "sending"
        PROVE  /\ caller'[q].ev = <<q, sent[q]>> /\ caller'[q].rest # <<>>
               /\ \A i, j \in 1..Len(caller'[q].rest) :
                    caller'[q].rest[i] = caller'[q].rest[j] => i = j
    <3>1. CASE q = p
      <4>0. d.at = "sending" /\ caller'[q] = d
        BY <1>8, <2>1, <3>1
      <4>3. d.ev = e /\ d.rest = r /\ Len(c.rest) # 1
        BY <1>7, <4>0
      <4>4. Len(r) # 0
        BY <1>5, <4>3
      <4>1. caller'[q].ev = e /\ caller'[q].rest = r /\ r # <<>>
        BY <4>0, <4>3, <4>4
      <4>2. \A i, j \in 1..Len(r) : r[i] = r[j] => i = j
        <5>1. \A i \in 1..Len(r) : i + 1 \in 1..Len(c.rest)
          BY <1>5
        <5>2. \A i, j \in 1..Len(r) : r[i] = r[j] => i + 1 = j + 1
          BY <1>3, <1>5, <5>1
        <5> QED BY <1>5, <5>2
      <4> QED BY <1>3, <3>1, <4>1, <4>2
    <3>2. CASE q # p
      BY <1>8, <2>1, <3>2 DEF FlowInv, TypeInv, CallsOK
    <3> QED BY <3>1, <3>2
  <2> QED BY <1>1, <1>2, <1>8, <2>1 DEF CallsOK
<1>12. QueuesOK'
  <2>1. offered' \in [Sinks -> SUBSET Event]
    BY <1>1, <1>2, <1>4, <1>5
  <2>2. Append(inbox[t], e) \in Seq(Event) /\ dropped[t] + 1 \in Nat
    BY <1>2, <1>4, <1>5
  <2>3. inbox' \in [Sinks -> Seq(Event)]
    BY <1>1, <1>2, <2>2
  <2>4. dropped' \in [Sinks -> Nat]
    BY <1>1, <1>2, <2>2
  <2> QED BY <2>1, <2>3, <2>4 DEF QueuesOK
<1>13. TypeInv'
  BY <1>1, <1>11, <1>12 DEF FlowInv, TypeInv, SubsOK, WorkOK, DiskOK
<1>14. phase \notin {"dead", "building"}
  BY <1>1 DEF FlowInv, QuietOK
<1>15. QuietOK'
  BY <1>1, <1>14 DEF QuietOK
<1>16. \A q \in Producers, s \in Sinks : Pending(q, s)' => Pending(q, s)
  BY <1>1, <1>5, <1>7, <1>8 DEF Pending
<1>17. ASSUME NEW s \in Sinks, s = t PROVE Pending(p, s) /\ ~Pending(p, s)'
  <2>1. s \in ToSet(c.rest) /\ s \notin ToSet(r)
    BY <1>5, <1>10, <1>17
  <2>2. caller'[p].at = "sending" => caller'[p].rest = r
    BY <1>7, <1>8
  <2> QED BY <1>1, <2>1, <2>2 DEF Pending
<1>18. ASSUME NEW s \in Sinks PROVE SinkOK(s)'
  <2>1. Settled(s)' = Settled(s) /\ Got(s)' = Got(s)
    BY <1>1 DEF Settled, Got
  <2>2. CASE s = t
    <3>1. /\ offered'[s] = offered[s] \cup {e}
          /\ \/ inbox'[s] = Append(inbox[s], e) /\ dropped'[s] = dropped[s]
             \/ inbox'[s] = inbox[s] /\ dropped'[s] = dropped[s] + 1
      BY <1>1, <1>2, <1>5, <2>2
    <3> HIDE DEF e, c
    <3>2. TypeInv /\ SinkOK(s)
      BY DEF FlowInv
    <3>3. Pending(p, s) /\ ~Pending(p, s)'
      BY <1>17, <2>2
    <3>4. e = <<p, sent[p]>> /\ sent' = sent /\ worker' = worker
      BY <1>1, <1>3
    <3>5. \A q \in Producers : Pending(q, s)' => Pending(q, s)
      BY <1>16
    <3> QED BY <1>4, <1>13, <2>1, <3>1, <3>2, <3>3, <3>4, <3>5, Offered
  <2>3. CASE s # t
    <3>1. inbox'[s] = inbox[s] /\ offered'[s] = offered[s] /\ dropped'[s] = dropped[s]
      BY <1>1, <1>2, <2>3
    <3>2. \A q \in Producers : sent[q] <= sent'[q] /\ (Pending(q, s)' => Pending(q, s))
      BY <1>1, <1>2, <1>16
    <3> QED BY <1>1, <1>13, <2>1, <3>1, <3>2, Untouched DEF FlowInv
  <2> QED BY <2>2, <2>3
<1> QED BY <1>13, <1>15, <1>18 DEF FlowInv

\* A send on a closed inbox: the producer is done with its event.
LEMMA PanicFlow ==
  ASSUME FlowInv, NEW p \in Producers, OfferPanics(p) PROVE FlowInv'
<1> DEFINE d == IF p \in Handlers THEN Idle ELSE [caller[p] EXCEPT !.at = "panic"]
<1>1. /\ UNCHANGED <<inbox, dropped, offered, sent, received, dlq, failed, written, worker, config, subs, phase>>
      /\ caller[p].at = "sending" /\ caller' = [caller EXCEPT ![p] = d]
  BY DEF OfferPanics, busVars, queueVars, diskVars
<1>2. sent \in [Producers -> Nat] /\ caller \in [Producers -> Calls]
  BY DEF FlowInv, TypeInv, CallsOK
<1>3. d \in Calls /\ d.at # "sending"
  <2>1. caller[p] \in Calls
    BY <1>2
  <2>2. [caller[p] EXCEPT !.at = "panic"] \in Calls /\ [caller[p] EXCEPT !.at = "panic"].at = "panic"
    BY <2>1 DEF Calls
  <2>3. Idle \in Calls /\ Idle.at = "idle"
    BY DEF Idle, Calls, NoEvent
  <2> QED BY <2>2, <2>3
<1> HIDE DEF d
<1>4. /\ caller' \in [Producers -> Calls] /\ caller'[p] = d
      /\ \A q \in Producers : q # p => caller'[q] = caller[q]
  BY <1>1, <1>2, <1>3
<1>5. CallsOK'
  <2>1. ASSUME NEW q \in Producers, caller'[q].at = "sending"
        PROVE  /\ caller'[q].ev = <<q, sent[q]>> /\ caller'[q].rest # <<>>
               /\ \A i, j \in 1..Len(caller'[q].rest) :
                    caller'[q].rest[i] = caller'[q].rest[j] => i = j
    <3>1. q # p
      BY <1>3, <1>4, <2>1
    <3> QED BY <1>4, <2>1, <3>1 DEF FlowInv, TypeInv, CallsOK
  <2> QED BY <1>1, <1>2, <1>4, <2>1 DEF CallsOK
<1>6. TypeInv'
  BY <1>1, <1>5 DEF FlowInv, TypeInv, SubsOK, QueuesOK, WorkOK, DiskOK
<1>7. QuietOK'
  BY <1>1 DEF FlowInv, QuietOK
<1>8. ASSUME NEW s \in Sinks PROVE SinkOK(s)'
  <2>1. Settled(s)' = Settled(s) /\ Got(s)' = Got(s)
    BY <1>1 DEF Settled, Got
  <2>2. ASSUME NEW q \in Producers PROVE Pending(q, s)' => Pending(q, s)
    BY <1>3, <1>4 DEF Pending
  <2>3. \A q \in Producers : sent[q] <= sent'[q]
    BY <1>1, <1>2
  <2> QED BY <1>1, <1>6, <2>1, <2>2, <2>3, Untouched DEF FlowInv
<1> QED BY <1>6, <1>7, <1>8 DEF FlowInv
\* The worker takes the next event, or ends.
LEMMA TakeFlow ==
  ASSUME FlowInv, NEW t \in Sinks, Take(t) PROVE FlowInv'
<1>1. UNCHANGED <<config, subs, phase, sent, caller, dropped, offered, received, dlq, failed, written>>
      /\ ~Busy(t)
  BY DEF Take, Busy, busVars, callVars, diskVars
<1>2. worker \in [Sinks -> Works] /\ inbox \in [Sinks -> Seq(Event)]
      /\ \A s \in Sinks : Busy(s) => worker[s].ev \in Event
  BY DEF FlowInv, TypeInv, QueuesOK, WorkOK, Busy
<1>3. CASE inbox[t] = <<>> /\ worker' = [worker EXCEPT ![t] = Done] /\ inbox' = inbox
  <2>1. Done \in Works /\ Done.at = "done"
    BY DEF Done, NoWork, Works
  <2>2. /\ worker' \in [Sinks -> Works] /\ worker'[t].at = "done"
        /\ \A s \in Sinks : s = t \/ worker'[s] = worker[s]
    BY <1>2, <1>3, <2>1
  <2>3. WorkOK' /\ SubsOK'
    BY <1>1, <2>2 DEF FlowInv, TypeInv, WorkOK, SubsOK
  <2>4. QuietOK' /\ ~Busy(t)'
    BY <1>1, <1>3, <2>2 DEF FlowInv, QuietOK, Busy
  <2>5. \A s \in Sinks : worker'[s] = worker[s] \/ (~Busy(s) /\ ~Busy(s)')
    BY <1>1, <2>2, <2>4
  <2> QED BY <1>1, <1>3, <2>3, <2>4, <2>5, Aside
<1>4. CASE /\ inbox[t] # <<>> /\ inbox' = [inbox EXCEPT ![t] = Tail(@)]
           /\ worker' = [worker EXCEPT ![t] = [at |-> "busy", ev |-> Head(inbox[t]), tries |-> 0]]
  <2> DEFINE w == [at |-> "busy", ev |-> Head(inbox[t]), tries |-> 0]
  <2>1. Head(inbox[t]) \in Event /\ Tail(inbox[t]) \in Seq(Event)
    BY <1>2, <1>4, TailSet
  <2>2. w \in Works /\ w.at = "busy" /\ w.ev = Head(inbox[t]) /\ w.ev \in Event
    BY <2>1 DEF Works
  <2> HIDE DEF w
  <2>3. /\ worker' \in [Sinks -> Works] /\ worker'[t] = w
        /\ \A s \in Sinks : s # t => worker'[s] = worker[s]
    BY <1>2, <1>4, <2>2 DEF w
  <2>4. /\ inbox' \in [Sinks -> Seq(Event)] /\ inbox'[t] = Tail(inbox[t])
        /\ \A s \in Sinks : s # t => inbox'[s] = inbox[s]
    BY <1>2, <1>4, <2>1
  <2>5. WorkOK'
    <3>1. \A s \in Sinks : worker'[s].at = "busy" => worker'[s].ev \in Event
      BY <1>2, <2>2, <2>3 DEF Busy
    <3> QED BY <2>3, <3>1 DEF WorkOK
  <2>6. TypeInv'
    BY <1>1, <2>4, <2>5 DEF FlowInv, TypeInv, SubsOK, CallsOK, QueuesOK, DiskOK
  <2>7. phase \notin {"dead", "building"}
    BY <1>4 DEF FlowInv, QuietOK
  <2>8. QuietOK'
    BY <1>1, <2>7 DEF QuietOK
  <2>9. ASSUME NEW s \in Sinks PROVE SinkOK(s)'
    <3>1. Settled(s)' = Settled(s) /\ Got(s)' = Got(s)
      BY <1>1 DEF Settled, Got
    <3>2. CASE s = t
      <4>1. Busy(s)' /\ worker'[s].ev = Head(inbox[s]) /\ ~Busy(s) /\ inbox'[s] = Tail(inbox[s])
        BY <1>1, <2>2, <2>3, <2>4, <3>2 DEF Busy
      <4> QED BY <1>1, <1>4, <2>6, <3>1, <3>2, <4>1, Taken DEF FlowInv
    <3>3. CASE s # t
      <4>1. inbox'[s] = inbox[s] /\ worker'[s] = worker[s]
        BY <2>3, <2>4, <3>3
      <4>2. \A q \in Producers : sent[q] <= sent'[q] /\ (Pending(q, s)' => Pending(q, s))
        BY <1>1 DEF FlowInv, TypeInv, CallsOK, Pending
      <4> QED BY <1>1, <2>6, <3>1, <4>1, <4>2, Untouched DEF FlowInv
    <3> QED BY <3>2, <3>3
  <2> QED BY <2>6, <2>8, <2>9 DEF FlowInv
<1> QED BY <1>3, <1>4 DEF Take

\* The worker handles what it has in hand: what the sink's case comes to.
LEMMA HandleFlow ==
  ASSUME FlowInv, NEW t \in Sinks, Busy(t), NEW e \in Event, e = worker[t].ev,
         UNCHANGED <<config, subs, phase, sent, caller, inbox, dropped, offered>>,
         worker' \in [Sinks -> Works], \A s \in Sinks : s # t => worker'[s] = worker[s],
         DiskOK', \A s \in Sinks : s # t => Settled(s)' = Settled(s) /\ Got(s)' = Got(s),
         Settled(t) \subseteq Settled(t)', Settled(t)' \subseteq Settled(t) \cup {e},
         Got(t)' = Got(t) \/ Got(t)' = Append(Got(t), e),
         \/ Busy(t)' /\ worker'[t].ev = e /\ t \notin Logs
         \/ ~Busy(t)' /\ e \in Settled(t)'
  PROVE  FlowInv'
<1>1. WorkOK'
  <2>1. ASSUME NEW s \in Sinks, worker'[s].at = "busy" PROVE worker'[s].ev \in Event
    <3>1. CASE s = t
      BY <2>1, <3>1 DEF Busy
    <3>2. CASE s # t
      BY <2>1, <3>2 DEF FlowInv, TypeInv, WorkOK
    <3> QED BY <3>1, <3>2
  <2> QED BY <2>1 DEF WorkOK
<1>2. TypeInv'
  BY <1>1 DEF FlowInv, TypeInv, SubsOK, CallsOK, QueuesOK
<1>3. phase \notin {"dead", "building"}
  BY DEF FlowInv, QuietOK
<1>4. QuietOK'
  BY <1>3 DEF QuietOK
<1>5. ASSUME NEW s \in Sinks, s # t PROVE SinkOK(s)'
  <2>1. \A q \in Producers : sent[q] <= sent'[q] /\ (Pending(q, s)' => Pending(q, s))
    BY DEF FlowInv, TypeInv, CallsOK, Pending
  <2> QED BY <1>2, <1>5, <2>1, Untouched DEF FlowInv
<1>6. SinkOK(t)'
  BY <1>2, Handled DEF FlowInv
<1> QED BY <1>2, <1>4, <1>5, <1>6 DEF FlowInv
\* An event becomes one of those a sink has settled, in one way or another.
LEMMA Settles ==
  ASSUME TypeInv, NEW t \in Sinks, NEW e \in Event,
         NEW F, F <=> failed' = [failed EXCEPT ![t] = @ \cup {e}], F \/ failed' = failed,
         NEW D, D <=> t \in Hooks /\ dlq' = [dlq EXCEPT ![t] = @ \cup {e}], D \/ dlq' = dlq,
         NEW R, R <=> t \in Hooks /\ received' = [received EXCEPT ![t] = Append(@, e)], R \/ received' = received,
         NEW W, W <=> t \in Logs /\ written' = [written EXCEPT ![t] = Append(@, e)], W \/ written' = written
  PROVE  /\ DiskOK' /\ \A s \in Sinks : s # t => Settled(s)' = Settled(s) /\ Got(s)' = Got(s)
         /\ Settled(t) \subseteq Settled(t)' /\ Settled(t)' \subseteq Settled(t) \cup {e}
         /\ Got(t)' = Got(t) \/ Got(t)' = Append(Got(t), e)
         /\ F \/ D \/ R \/ W => e \in Settled(t)'
<1>1. /\ written \in [Logs -> Seq(Event)] /\ received \in [Hooks -> Seq(Event)]
      /\ dlq \in [Hooks -> SUBSET Event] /\ failed \in [Sinks -> SUBSET Event]
  BY DEF TypeInv, DiskOK
<1>2. failed' \in [Sinks -> SUBSET Event] /\ \A s \in Sinks : s # t => failed'[s] = failed[s]
  BY <1>1
<1>3. dlq' \in [Hooks -> SUBSET Event] /\ \A s \in Hooks : s # t => dlq'[s] = dlq[s]
  BY <1>1
<1>4. received' \in [Hooks -> Seq(Event)] /\ \A s \in Hooks : s # t => received'[s] = received[s]
  <2>1. t \in Hooks => Append(received[t], e) \in Seq(Event)
    BY <1>1
  <2> QED BY <1>1, <2>1
<1>5. written' \in [Logs -> Seq(Event)] /\ \A s \in Logs : s # t => written'[s] = written[s]
  <2>1. t \in Logs => Append(written[t], e) \in Seq(Event)
    BY <1>1
  <2> QED BY <1>1, <2>1
<1>6. DiskOK'
  BY <1>2, <1>3, <1>4, <1>5 DEF DiskOK
<1>7. \A s \in Sinks : s \in Logs \/ (s \in Hooks /\ s \notin Logs)
  BY DEF Sinks
<1>8. \A s \in Hooks : s \notin Logs
  BY EventsAssumption
<1>9. ASSUME NEW s \in Sinks, s # t PROVE Settled(s)' = Settled(s) /\ Got(s)' = Got(s)
  BY <1>2, <1>3, <1>4, <1>5, <1>7, <1>9 DEF Settled, Got
<1>10. failed'[t] = failed[t] \cup {e} \/ (failed'[t] = failed[t] /\ ~F)
  BY <1>1
<1>11. CASE t \in Logs
  <2>1. written'[t] = Append(written[t], e) \/ (written'[t] = written[t] /\ ~W)
    BY <1>1, <1>11
  <2>2. ToSet(Append(written[t], e)) = ToSet(written[t]) \cup {e}
    BY <1>1, <1>11, AppendSet
  <2>3. ~D /\ ~R
    BY <1>8, <1>11
  <2>4. /\ Settled(t) = failed[t] \cup ToSet(written[t]) /\ Got(t) = written[t]
        /\ Settled(t)' = failed'[t] \cup ToSet(written'[t]) /\ Got(t)' = written'[t]
    BY <1>11 DEF Settled, Got
  <2> QED BY <1>6, <1>9, <1>10, <2>1, <2>2, <2>3, <2>4
<1>12. CASE t \in Hooks /\ t \notin Logs
  <2>1. received'[t] = Append(received[t], e) \/ (received'[t] = received[t] /\ ~R)
    BY <1>1, <1>12
  <2>2. ToSet(Append(received[t], e)) = ToSet(received[t]) \cup {e}
    BY <1>1, <1>12, AppendSet
  <2>3. ~W
    BY <1>12
  <2>4. dlq'[t] = dlq[t] \cup {e} \/ (dlq'[t] = dlq[t] /\ ~D)
    BY <1>1, <1>12
  <2>5. /\ Settled(t) = failed[t] \cup (ToSet(received[t]) \cup dlq[t]) /\ Got(t) = received[t]
        /\ Settled(t)' = failed'[t] \cup (ToSet(received'[t]) \cup dlq'[t]) /\ Got(t)' = received'[t]
    BY <1>12 DEF Settled, Got
  <2> QED BY <1>6, <1>9, <1>10, <2>1, <2>2, <2>3, <2>4, <2>5
<1> QED BY <1>7, <1>11, <1>12

\* A log's line is written, or fails to be, or both.
LEMMA WriteFlow ==
  ASSUME FlowInv, NEW t \in Sinks, Write(t) PROVE FlowInv'
<1> DEFINE e == worker[t].ev
           F == failed' = [failed EXCEPT ![t] = @ \cup {e}]
           D == t \in Hooks /\ dlq' = [dlq EXCEPT ![t] = @ \cup {e}]
           R == t \in Hooks /\ received' = [received EXCEPT ![t] = Append(@, e)]
           W == t \in Logs /\ written' = [written EXCEPT ![t] = Append(@, e)]
<1>1. /\ UNCHANGED <<config, subs, phase, sent, caller, inbox, dropped, offered, received, dlq>>
      /\ t \in Logs /\ Busy(t) /\ worker' = [worker EXCEPT ![t] = Waiting]
  BY DEF Write, Busy, busVars, callVars, queueVars
<1>2. (F \/ failed' = failed) /\ (W \/ written' = written) /\ (F \/ W)
  BY <1>1 DEF Write, HandleFails
<1>3. TypeInv /\ worker \in [Sinks -> Works] /\ e \in Event
  BY <1>1 DEF FlowInv, TypeInv, WorkOK, Busy
<1>4. worker' \in [Sinks -> Works] /\ ~Busy(t)' /\ \A s \in Sinks : s # t => worker'[s] = worker[s]
  <2>1. Waiting \in Works /\ Waiting.at = "idle"
    BY DEF Waiting, NoWork, Works
  <2> QED BY <1>1, <1>3, <2>1 DEF Busy
<1>5. /\ DiskOK' /\ \A s \in Sinks : s # t => Settled(s)' = Settled(s) /\ Got(s)' = Got(s)
      /\ Settled(t) \subseteq Settled(t)' /\ Settled(t)' \subseteq Settled(t) \cup {e}
      /\ Got(t)' = Got(t) \/ Got(t)' = Append(Got(t), e)
      /\ F \/ D \/ R \/ W => e \in Settled(t)'
  <2>1. (D \/ dlq' = dlq) /\ (R \/ received' = received)
    BY <1>1
  <2> HIDE DEF e
  <2> QED BY <1>2, <1>3, <2>1, Settles
<1>6. e \in Settled(t)'
  BY <1>2, <1>5
<1> QED BY <1>1, <1>3, <1>4, <1>5, <1>6, HandleFlow

\* A webhook is posted to, or what it was to get is buried.
LEMMA AttemptFlow ==
  ASSUME FlowInv, NEW t \in Sinks, Attempt(t) PROVE FlowInv'
<1> DEFINE e == worker[t].ev
           F == failed' = [failed EXCEPT ![t] = @ \cup {e}]
           D == t \in Hooks /\ dlq' = [dlq EXCEPT ![t] = @ \cup {e}]
           R == t \in Hooks /\ received' = [received EXCEPT ![t] = Append(@, e)]
           W == t \in Logs /\ written' = [written EXCEPT ![t] = Append(@, e)]
           more == worker' = [worker EXCEPT ![t].tries = @ + 1]
           ends == worker' = [worker EXCEPT ![t] = Waiting]
<1>1. /\ UNCHANGED <<config, subs, phase, sent, caller, inbox, dropped, offered, written>>
      /\ t \in Hooks /\ t \notin Logs /\ Busy(t)
  BY EventsAssumption DEF Attempt, Busy, busVars, callVars, queueVars
<1>2. (F \/ failed' = failed) /\ (D \/ dlq' = dlq) /\ (R \/ received' = received)
      /\ (more \/ (ends /\ (F \/ D \/ R)))
  BY <1>1 DEF Attempt, Bury, HandleFails
<1>3. TypeInv /\ worker \in [Sinks -> Works] /\ e \in Event
  BY <1>1 DEF FlowInv, TypeInv, WorkOK, Busy
<1>4. /\ worker' \in [Sinks -> Works] /\ \A s \in Sinks : s # t => worker'[s] = worker[s]
      /\ (Busy(t)' /\ worker'[t].ev = e) \/ (~Busy(t)' /\ (F \/ D \/ R))
  <2>1. CASE more
    <3>1. worker[t].tries + 1 \in Nat
      BY <1>3 DEF Works
    <3> QED BY <1>1, <1>3, <2>1, <3>1 DEF Busy, Works
  <2>2. CASE ends /\ (F \/ D \/ R)
    <3>1. Waiting \in Works /\ Waiting.at = "idle"
      BY DEF Waiting, NoWork, Works
    <3> HIDE DEF F, D, R
    <3> QED BY <1>1, <1>3, <2>2, <3>1 DEF Busy
  <2> QED BY <1>2, <2>1, <2>2
<1>5. /\ DiskOK' /\ \A s \in Sinks : s # t => Settled(s)' = Settled(s) /\ Got(s)' = Got(s)
      /\ Settled(t) \subseteq Settled(t)' /\ Settled(t)' \subseteq Settled(t) \cup {e}
      /\ Got(t)' = Got(t) \/ Got(t)' = Append(Got(t), e)
      /\ F \/ D \/ R \/ W => e \in Settled(t)'
  <2>1. W \/ written' = written
    BY <1>1
  <2> HIDE DEF e
  <2> QED BY <1>2, <1>3, <2>1, Settles
<1>6. \/ Busy(t)' /\ worker'[t].ev = e /\ t \notin Logs
      \/ ~Busy(t)' /\ e \in Settled(t)'
  BY <1>1, <1>4, <1>5
<1> QED BY <1>1, <1>3, <1>4, <1>5, <1>6, HandleFlow
\* The process is gone, and with it all that it had not settled; the line a log
\* was writing may be there.
LEMMA CrashFlow ==
  ASSUME FlowInv, NEW t \in Sinks, Crash \/ CrashRotating(t) PROVE FlowInv'
<1> DEFINE e == worker[t].ev
           W == t \in Logs /\ written' = [written EXCEPT ![t] = Append(@, e)]
<1>1. /\ UNCHANGED <<config, sent, received, dlq, failed>> /\ subs' = <<>>
      /\ inbox' = [s \in Sinks |-> <<>>] /\ dropped' = [s \in Sinks |-> 0]
      /\ offered' = [s \in Sinks |-> {}] /\ worker' = [s \in Sinks |-> NoWork]
      /\ caller' = [p \in Producers |-> Idle]
  BY DEF Crash, CrashRotating, Dies
<1>2. written' = written \/ (W /\ Busy(t))
  BY DEF Crash, CrashRotating, Busy
<1>3. Idle \in Calls /\ Idle.at = "idle" /\ NoWork \in Works /\ NoWork.at = "none"
  BY DEF Idle, NoWork, Calls, Works, NoEvent
<1>4. SubsOK'
  <2>1. config \in Seq(Sinks)
    BY EventsAssumption DEF FlowInv, TypeInv, SubsOK
  <2> QED BY <1>1, <2>1 DEF FlowInv, TypeInv, SubsOK
<1>5. CallsOK'
  BY <1>1, <1>3 DEF FlowInv, TypeInv, CallsOK
<1>6. QueuesOK' /\ WorkOK'
  BY <1>1, <1>3 DEF QueuesOK, WorkOK
<1>7. /\ DiskOK' /\ \A s \in Sinks : s # t => Settled(s)' = Settled(s) /\ Got(s)' = Got(s)
      /\ Settled(t)' = Settled(t) \/ (Busy(t) /\ Settled(t)' \subseteq Settled(t) \cup {e})
      /\ Got(t)' = Got(t) \/ (Busy(t) /\ Got(t)' = Append(Got(t), e))
  <2>1. CASE written' = written
    <3>1. DiskOK' /\ \A s \in Sinks : Settled(s)' = Settled(s) /\ Got(s)' = Got(s)
      BY <1>1, <2>1 DEF FlowInv, TypeInv, DiskOK, Settled, Got
    <3> QED BY <3>1
  <2>2. CASE W /\ Busy(t)
    <3>1. TypeInv /\ e \in Event /\ t \notin Hooks
      BY <2>2, EventsAssumption DEF FlowInv, TypeInv, WorkOK, Busy
    <3> DEFINE F == failed' = [failed EXCEPT ![t] = @ \cup {e}]
               D == t \in Hooks /\ dlq' = [dlq EXCEPT ![t] = @ \cup {e}]
               R == t \in Hooks /\ received' = [received EXCEPT ![t] = Append(@, e)]
    <3>2. (F \/ failed' = failed) /\ (D \/ dlq' = dlq) /\ (R \/ received' = received) /\ W
      BY <1>1, <2>2
    <3>3. /\ DiskOK' /\ \A s \in Sinks : s # t => Settled(s)' = Settled(s) /\ Got(s)' = Got(s)
          /\ Settled(t)' \subseteq Settled(t) \cup {e}
          /\ Got(t)' = Got(t) \/ Got(t)' = Append(Got(t), e)
      <4> HIDE DEF e
      <4> QED BY <3>1, <3>2, Settles
    <3> QED BY <2>2, <3>3
  <2> QED BY <1>2, <2>1, <2>2
<1>8. TypeInv'
  BY <1>4, <1>5, <1>6, <1>7 DEF TypeInv
<1>9. QuietOK'
  BY <1>1, <1>3 DEF QuietOK, Busy
<1>10. ASSUME NEW s \in Sinks PROVE SinkOK(s)'
  <2>1. /\ inbox'[s] = <<>> /\ offered'[s] = {} /\ dropped'[s] = 0 /\ ~Busy(s)'
        /\ \A p \in Producers : caller'[p].at = "idle"
    BY <1>1, <1>3 DEF Busy
  <2>2. /\ Settled(s)' \subseteq Settled(s) \cup AtHand(s)
        /\ Got(s)' = Got(s) \/ (Busy(s) /\ Got(s)' = Append(Got(s), worker[s].ev))
    BY <1>7 DEF AtHand, Busy
  <2> QED BY <1>1, <1>8, <2>1, <2>2, Emptied DEF FlowInv
<1> QED BY <1>8, <1>9, <1>10 DEF FlowInv

LEMMA InitFlow == Init => FlowInv
<1> SUFFICES ASSUME Init PROVE FlowInv
  OBVIOUS
<1>1. Idle \in Calls /\ Idle.at = "idle" /\ NoWork \in Works /\ NoWork.at = "none"
  BY DEF Idle, NoWork, Calls, Works, NoEvent
<1>2. SubsOK
  <2>1. config \in Seq(Sinks) /\ config \in SinkLists
    BY EventsAssumption DEF Init
  <2> QED BY <2>1 DEF Init, SubsOK
<1>3. CallsOK /\ QueuesOK /\ WorkOK /\ DiskOK
  BY <1>1 DEF Init, CallsOK, QueuesOK, WorkOK, DiskOK
<1>4. QuietOK
  BY <1>1 DEF Init, QuietOK, Busy
<1>5. ASSUME NEW s \in Sinks PROVE SinkOK(s)
  <2>1. /\ inbox[s] = <<>> /\ offered[s] = {} /\ dropped[s] = 0 /\ ~Busy(s)
        /\ AtHand(s) = {}
    BY <1>1 DEF Init, Busy, AtHand
  <2>2. ToSet(<<>>) = {} /\ Len(<<>>) = 0
    BY DEF ToSet
  <2>3. Got(s) = <<>> /\ Settled(s) = {}
    BY <2>2 DEF Init, Got, Settled, Sinks
  <2>4. FreshOK(s) /\ WithinOK(s) /\ InboxOK(s) /\ HandOK(s) /\ GotOK(s)
    BY <2>1, <2>2, <2>3 DEF FreshOK, WithinOK, InboxOK, HandOK, GotOK
  <2>5. CountOK(s)
    BY <2>1, <2>2, FS_EmptySet DEF CountOK, Gone
  <2> QED BY <2>4, <2>5 DEF SinkOK
<1> QED BY <1>2, <1>3, <1>4, <1>5 DEF FlowInv, TypeInv

LEMMA NextFlow == FlowInv /\ [Next]_vars => FlowInv'
<1> SUFFICES ASSUME FlowInv, [Next]_vars PROVE FlowInv'
  OBVIOUS
<1>1. CASE Start \/ Serve \/ BuildFails \/ Shutdown \/ Closing
  BY <1>1, BusFlow
<1>2. CASE Subscribe
  BY <1>2, SubscribeFlow
<1>3. ASSUME NEW p \in Producers, EmitAudit(p) \/ Offer(p) \/ OfferPanics(p) PROVE FlowInv'
  BY <1>3, EmitFlow, OfferFlow, PanicFlow
<1>4. ASSUME NEW s \in Sinks, Work(s) \/ CrashRotating(s) PROVE FlowInv'
  BY <1>4, TakeFlow, WriteFlow, AttemptFlow, CrashFlow DEF Work
<1>5. CASE Crash
  <2>1. CASE Sinks # {}
    BY <1>5, <2>1, CrashFlow
  <2>2. CASE Sinks = {}
    <3>1. Idle \in Calls /\ Idle.at = "idle"
      BY DEF Idle, Calls, NoEvent
    <3>2. config \in Seq(Sinks) /\ config \in SinkLists
      BY EventsAssumption DEF FlowInv, TypeInv, SubsOK
    <3>3. SubsOK'
      BY <1>5, <3>2 DEF Crash, Dies, SubsOK
    <3>4. CallsOK'
      BY <1>5, <3>1 DEF Crash, Dies, FlowInv, TypeInv, CallsOK
    <3>5. QueuesOK' /\ WorkOK' /\ DiskOK'
      BY <1>5, <2>2 DEF Crash, Dies, FlowInv, TypeInv, QueuesOK, WorkOK, DiskOK
    <3>6. QuietOK'
      BY <1>5, <2>2, <3>1 DEF Crash, Dies, QuietOK
    <3> QED BY <2>2, <3>3, <3>4, <3>5, <3>6 DEF FlowInv, TypeInv
  <2> QED BY <2>1, <2>2
<1>6. CASE UNCHANGED vars
  <2>1. /\ UNCHANGED <<inbox, dropped, offered, caller, sent, received, dlq, failed, written>>
        /\ UNCHANGED <<worker, config, subs, phase>>
    BY <1>6 DEF vars, busVars, queueVars, callVars, diskVars
  <2>2. SubsOK' /\ WorkOK'
    BY <2>1 DEF FlowInv, TypeInv, SubsOK, WorkOK
  <2>3. QuietOK'
    BY <2>1 DEF FlowInv, QuietOK, Busy
  <2> QED BY <2>1, <2>2, <2>3, Aside
<1> QED BY <1>1, <1>2, <1>3, <1>4, <1>5, <1>6 DEF Next

\* Inboxes are first in first out and one worker serves each, so a sink gets
\* the events of a producer in the order in which it began them, whatever fails
\* or dies in between, and again and again over restarts.
THEOREM OrderIsKept == Spec => []InOrder
<1>1. ASSUME FlowInv, NEW s \in Sinks, NEW i \in 1..Len(Got(s)), NEW j \in 1..Len(Got(s)),
             i < j, Got(s)[i][1] = Got(s)[j][1]
      PROVE  IF s \in Logs THEN Got(s)[i][2] < Got(s)[j][2] ELSE Got(s)[i][2] <= Got(s)[j][2]
  BY <1>1 DEF FlowInv, SinkOK, GotOK, Before, NotAfter
<1>2. FlowInv => InOrder
  BY <1>1 DEF InOrder, Got
<1> QED BY <1>2, InitFlow, NextFlow, PTL DEF Spec

\* An event offered to a sink is dropped and counted, waits, is at hand, or is
\* settled, and never two of these: the numbers add up while the process lives.
THEOREM NothingGetsLost == Spec => []EveryEventAccounted
<1>1. ASSUME FlowInv, NEW s \in Sinks
      PROVE  Cardinality(offered[s]) =
               dropped[s] + Len(inbox[s]) + Cardinality(AtHand(s))
                 + Cardinality((offered[s] \cap Settled(s)) \ AtHand(s))
  <2> DEFINE I == ToSet(inbox[s])
             H == AtHand(s)
             D == (offered[s] \cap Settled(s)) \ H
             G == Gone(s)
  <2>1. /\ SinkOK(s) /\ TypeInv /\ inbox[s] \in Seq(Event)
        /\ \A e \in Event : e[2] \in Nat /\ ~Before(e, e)
    BY <1>1 DEF FlowInv, TypeInv, QueuesOK, Event, Before
  <2>2. offered[s] = G \cup (I \cup (H \cup D))
    BY <2>1 DEF SinkOK, WithinOK, Gone
  <2>3. I \cap (H \cup D) = {}
    <3>1. ASSUME NEW x \in I PROVE x \notin H /\ x \notin Settled(s)
      <4>1. PICK i \in 1..Len(inbox[s]) : x = inbox[s][i]
        BY <2>1, SetIndex
      <4>2. x \in Event
        BY <2>1, <4>1
      <4> QED BY <2>1, <4>1, <4>2, SettledEvents DEF SinkOK, InboxOK
    <3> QED BY <3>1
  <2>4. H \cap D = {} /\ G \cap (I \cup (H \cup D)) = {}
    BY DEF Gone
  <2>5. IsFiniteSet(offered[s]) /\ Cardinality(G) = dropped[s] /\ Cardinality(I) = Len(inbox[s])
    BY <2>1 DEF SinkOK, CountOK
  <2>6. /\ G \subseteq offered[s] /\ I \subseteq offered[s] /\ H \subseteq offered[s]
        /\ D \subseteq offered[s]
    BY <2>2
  <2> HIDE DEF I, H, D, G
  <2>7. IsFiniteSet(G) /\ IsFiniteSet(I) /\ IsFiniteSet(H) /\ IsFiniteSet(D)
    BY <2>5, <2>6, FS_Subset
  <2>8. Cardinality(H \cup D) = Cardinality(H) + Cardinality(D) /\ IsFiniteSet(H \cup D)
    BY <2>4, <2>7, Apart
  <2>9. /\ Cardinality(I \cup (H \cup D)) = Cardinality(I) + Cardinality(H \cup D)
        /\ IsFiniteSet(I \cup (H \cup D))
    BY <2>3, <2>7, <2>8, Apart
  <2>10. Cardinality(offered[s]) = Cardinality(G) + Cardinality(I \cup (H \cup D))
    BY <2>2, <2>4, <2>7, <2>9, Apart
  <2>11. /\ Cardinality(G) \in Nat /\ Cardinality(I) \in Nat
         /\ Cardinality(H) \in Nat /\ Cardinality(D) \in Nat
    BY <2>7, FS_CardinalityType
  <2>12. Cardinality(offered[s]) = dropped[s] + Len(inbox[s]) + Cardinality(H) + Cardinality(D)
    BY <2>5, <2>8, <2>9, <2>10, <2>11
  <2> QED BY <2>12 DEF H, D
<1>2. FlowInv => EveryEventAccounted
  BY <1>1 DEF EveryEventAccounted
<1> QED BY <1>2, InitFlow, NextFlow, PTL DEF Spec
-----------------------------------------------------------------------------
(* The files of a log hold the newest part of what was written.  The       *)
(* invariant names, for every log, where its files cut the lines; the      *)
(* lemmas say where the renames of a rotation leave each file, what the    *)
(* files flattened come to, and that a rotation cut short keeps the cuts.  *)

\* A set of numbers has a least one.
LEMMA Least ==
  ASSUME NEW T, T \subseteq Nat, T # {}
  PROVE  \E x \in T : \A y \in T : ~(y < x)
<1>1. IsWellFoundedOn(OpToRel(<, Nat), Nat)
  BY NatLessThanWellFounded, Zenon
<1>2. \E x \in T : \A y \in T : ~(<<y, x>> \in OpToRel(<, Nat))
  BY <1>1, WFMin, Zenon
<1>3. \A x, y \in Nat : y < x => <<y, x>> \in OpToRel(<, Nat)
  BY Zenon DEF OpToRel
<1> QED BY <1>2, <1>3, Zenon

\* Induction, over the numbers of which something holds.
LEMMA Induct ==
  ASSUME NEW S, 0 \in S, \A n \in Nat : n \in S => n + 1 \in S
  PROVE  Nat \subseteq S
<1> DEFINE T == Nat \ S
<1>1. SUFFICES ASSUME T # {} PROVE FALSE
  OBVIOUS
<1>2. PICK x \in T : \A y \in T : ~(y < x)
  BY <1>1, Least, Zenon
<1>3. x \in Nat /\ x \notin S /\ x # 0
  BY <1>2
<1>4. x - 1 \in Nat /\ x - 1 < x /\ (x - 1) + 1 = x
  BY <1>3
<1>5. x - 1 \in S
  BY <1>2, <1>4
<1> QED BY <1>3, <1>4, <1>5

\* The numbers of N rotated files, without one, and those of the i newest.  Where a
\* rotation was cut short there is a gap.
Spot(g, i) == IF i < g THEN i ELSE i + 1
Numbers(N, g) == (1..(N + 1)) \ {g}

LEMMA Spots ==
  ASSUME NEW N \in Nat, NEW g \in 1..(N + 1)
  PROVE  /\ \A i \in 1..N : Spot(g, i) \in Numbers(N, g) /\ Spot(g, i) \in Nat /\ Spot(g, i) \in {i, i + 1}
         /\ \A i, j \in 1..N : i < j => Spot(g, i) < Spot(g, j)
         /\ \A m \in Numbers(N, g) : \E i \in 1..N : m = Spot(g, i)
<1>1. \A i \in 1..N : Spot(g, i) \in Numbers(N, g) /\ Spot(g, i) \in Nat /\ Spot(g, i) \in {i, i + 1}
  BY DEF Spot, Numbers
<1>2. \A i, j \in 1..N : i < j => Spot(g, i) < Spot(g, j)
  BY DEF Spot
<1>3. ASSUME NEW m \in Numbers(N, g) PROVE \E i \in 1..N : m = Spot(g, i)
  <2>1. CASE m < g
    <3>1. m \in 1..N /\ m = Spot(g, m)
      BY <2>1 DEF Spot, Numbers
    <3> QED BY <3>1
  <2>2. CASE ~(m < g)
    <3>1. m - 1 \in 1..N /\ m = Spot(g, m - 1)
      BY <2>2 DEF Spot, Numbers
    <3> QED BY <3>1
  <2> QED BY <2>1, <2>2
<1> QED BY <1>1, <1>2, <1>3

LEMMA Below ==
  ASSUME NEW N \in Nat, NEW g \in 1..(N + 1)
  PROVE  /\ Cardinality(Numbers(N, g)) = N
         /\ \A i \in 1..N : Cardinality({l \in Numbers(N, g) : l < Spot(g, i)}) = i - 1
<1>1. \A a \in Nat : IsFiniteSet(1..a) /\ Cardinality(1..a) = a
  BY FS_Interval
<1>2. Cardinality(Numbers(N, g)) = N
  <2>1. N + 1 \in Nat /\ g \in 1..(N + 1)
    OBVIOUS
  <2>2. Cardinality((1..(N + 1)) \ {g}) = Cardinality(1..(N + 1)) - 1
    BY <1>1, <2>1, FS_RemoveElement
  <2> QED BY <1>1, <2>1, <2>2 DEF Numbers
<1>3. ASSUME NEW i \in 1..N PROVE Cardinality({l \in Numbers(N, g) : l < Spot(g, i)}) = i - 1
  <2>1. CASE i < g
    <3>1. {l \in Numbers(N, g) : l < Spot(g, i)} = 1..(i - 1)
      BY <2>1 DEF Numbers, Spot
    <3>2. i - 1 \in Nat
      OBVIOUS
    <3>3. Cardinality(1..(i - 1)) = i - 1
      BY ONLY <1>1, <3>2
    <3> QED BY <3>1, <3>3
  <2>2. CASE ~(i < g)
    <3>1. {l \in Numbers(N, g) : l < Spot(g, i)} = (1..i) \ {g}
      BY <2>2 DEF Numbers, Spot
    <3>2. g \in 1..i /\ i \in Nat
      BY <2>2
    <3>3. Cardinality((1..i) \ {g}) = Cardinality(1..i) - 1
      BY <1>1, <3>2, FS_RemoveElement
    <3> QED BY <1>1, <3>1, <3>2, <3>3
  <2> QED BY <2>1, <2>2
<1> QED BY <1>2, <1>3

\* The list has the files by age, newest first.
LEMMA Listed ==
  ASSUME NEW N \in Nat, NEW g \in 1..(N + 1), NEW r, DOMAIN r = Numbers(N, g)
  PROVE  /\ Cardinality(DOMAIN r) = N /\ DOMAIN ListRotated(r) = 1..N
         /\ \A i \in 1..N : ListRotated(r)[i] = Spot(g, i)
<1>1. /\ Cardinality(DOMAIN r) = N
      /\ \A i \in 1..N : Cardinality({l \in DOMAIN r : l < Spot(g, i)}) = i - 1
  <2>1. /\ Cardinality(Numbers(N, g)) = N
        /\ \A i \in 1..N : Cardinality({l \in Numbers(N, g) : l < Spot(g, i)}) = i - 1
    BY Below
  <2> QED BY <2>1
<1>2. ASSUME NEW i \in 1..N
      PROVE  (CHOOSE m \in DOMAIN r : Cardinality({l \in DOMAIN r : l < m}) = i - 1) = Spot(g, i)
  <2>1. Spot(g, i) \in DOMAIN r /\ Cardinality({l \in DOMAIN r : l < Spot(g, i)}) = i - 1
    BY <1>1, Spots
  <2>2. ASSUME NEW m \in DOMAIN r, Cardinality({l \in DOMAIN r : l < m}) = i - 1
        PROVE  m = Spot(g, i)
    <3>1. PICK j \in 1..N : m = Spot(g, j)
      BY Spots
    <3>2. j - 1 = i - 1
      BY <1>1, <2>2, <3>1
    <3> QED BY <3>1, <3>2
  <2> QED BY <2>1, <2>2
<1> QED BY <1>1, <1>2 DEF ListRotated

\* A rotation moves file after file into the place of the next: what the first
\* k moves make of the n files that stay.
Moved(r, g, n, k) ==
  [m \in {Spot(g, i) : i \in 1..(n - k)} \cup ((n - k + 2)..(n + 1)) |->
     IF m >= n - k + 2 THEN r[Spot(g, m - 1)] ELSE r[m]]

LEMMA MovesOn ==
  ASSUME NEW N \in Nat, NEW g \in 1..(N + 1), NEW n \in 0..N, NEW r, NEW k \in 1..n
  PROVE  Renamed(Moved(r, g, n, k - 1), Spot(g, n - k + 1), n - k + 2) = Moved(r, g, n, k)
<1> DEFINE p == Moved(r, g, n, k - 1)
           D == {Spot(g, i) : i \in 1..(n - (k - 1))} \cup ((n - (k - 1) + 2)..(n + 1))
           E == {Spot(g, i) : i \in 1..(n - k)} \cup ((n - k + 2)..(n + 1))
           from == Spot(g, n - k + 1)
           to == n - k + 2
<1>1. /\ n \in Nat /\ k \in Nat /\ n - k \in Nat /\ n - k + 1 \in 1..n /\ n - (k - 1) = n - k + 1
      /\ n - (k - 1) + 2 = n - k + 3
  OBVIOUS
<1>2. /\ DOMAIN p = D
      /\ \A m \in D : p[m] = IF m >= n - k + 3 THEN r[Spot(g, m - 1)] ELSE r[m]
  BY <1>1 DEF Moved
<1>3. from \in D /\ ~(from >= n - k + 3)
  <2>1. PICK i : i = n - k + 1
    OBVIOUS
  <2>2. i \in 1..(n - (k - 1)) /\ from = Spot(g, i)
    BY <1>1, <2>1
  <2>3. i \in Nat /\ Spot(g, i) \in {i, i + 1}
    BY <1>1, <2>1 DEF Spot
  <2>4. from \in {Spot(g, l) : l \in 1..(n - (k - 1))}
    BY <2>2
  <2>5. ~(from >= n - k + 3)
    BY <1>1, <2>1, <2>2, <2>3
  <2> QED BY <2>4, <2>5
<1>4. (D \ {from}) \cup {to} = E
  <2>1. ASSUME NEW m \in D, m # from PROVE m \in E
    BY <1>1, <2>1 DEF Spot
  <2>2. to \in E
    BY <1>1
  <2>3. ASSUME NEW m \in E, m # to PROVE m \in D /\ m # from
    BY <1>1, <2>3 DEF Spot
  <2> QED BY <2>1, <2>2, <2>3
<1>5. p[from] = r[Spot(g, to - 1)] /\ to >= n - k + 2
  <2>1. to - 1 = n - k + 1
    BY <1>1
  <2> QED BY <1>1, <1>2, <1>3, <2>1
<1>6. ASSUME NEW m \in E, m # to
      PROVE  p[m] = IF m >= n - k + 2 THEN r[Spot(g, m - 1)] ELSE r[m]
  <2>1. m \in D
    BY <1>4, <1>6
  <2>2. m \in Int /\ (m >= n - k + 2 <=> m >= n - k + 3)
    BY <1>1, <1>6 DEF Spot
  <2> QED BY <1>2, <2>1, <2>2
<1>7. Renamed(p, from, to) = [m \in E |-> IF m = to THEN p[from] ELSE p[m]]
  BY <1>2, <1>4 DEF Renamed
<1>8. Moved(r, g, n, k) = [m \in E |-> IF m >= n - k + 2 THEN r[Spot(g, m - 1)] ELSE r[m]]
  BY DEF Moved
<1> HIDE DEF p, D, E, from, to
<1>9. \A m \in E : (IF m = to THEN p[from] ELSE p[m]) = IF m >= n - k + 2 THEN r[Spot(g, m - 1)] ELSE r[m]
  BY <1>5, <1>6
<1>10. Renamed(p, from, to) = Moved(r, g, n, k)
  BY <1>7, <1>8, <1>9
<1> QED BY <1>10 DEF p, from, to

\* The loop of a rotation, whatever its way through it: a function that it
\* computes is this one.
Turn(r, list, n, h, j) ==
  IF j = 0 THEN [m \in {list[i] : i \in 1..n} |-> r[m]]
  ELSE Renamed(h[j - 1], list[n - j + 1], n - j + 2)
Turned(r, list, n, k) == CHOOSE h : h = [j \in 0..k |-> Turn(r, list, n, h, j)]

LEMMA TurnedIs ==
  ASSUME NEW N \in Nat, NEW g \in 1..(N + 1), NEW n \in 0..N, NEW r, NEW k \in 0..n,
         NEW list, \A i \in 1..N : list[i] = Spot(g, i)
  PROVE  Turned(r, list, n, k)[k] = Moved(r, g, n, k)
<1> DEFINE F == [j \in 0..k |-> Moved(r, g, n, j)]
           Is(h) == h = [j \in 0..k |-> Turn(r, list, n, h, j)]
<1>0. n \in Nat /\ k \in Nat /\ N \in Nat /\ g \in Nat
  OBVIOUS
<1>1. ASSUME NEW h PROVE Turn(r, list, n, h, 0) = Moved(r, g, n, 0)
  <2>1. {list[i] : i \in 1..n} = {Spot(g, i) : i \in 1..n}
    OBVIOUS
  <2>2. PICK D : D = {Spot(g, i) : i \in 1..n}
    OBVIOUS
  <2>3. [m \in {list[i] : i \in 1..n} |-> r[m]] = [m \in D |-> r[m]]
    BY <2>1, <2>2, Zenon
  <2>4. [m \in {Spot(g, i) : i \in 1..n} |-> r[m]] = [m \in D |-> r[m]]
    BY <2>2, Zenon
  <2>5. Moved(r, g, n, 0) = [m \in {Spot(g, i) : i \in 1..n} |-> r[m]]
    <3>1. (n - 0 + 2)..(n + 1) = {} /\ n - 0 = n
      BY <1>0
    <3>2. \A m \in {Spot(g, i) : i \in 1..n} : ~(m >= n - 0 + 2)
      BY <1>0 DEF Spot
    <3> QED BY <3>1, <3>2 DEF Moved
  <2>6. Turn(r, list, n, h, 0) = [m \in {list[i] : i \in 1..n} |-> r[m]]
    BY Zenon DEF Turn
  <2> QED BY <2>3, <2>4, <2>5, <2>6, Zenon
<1>2. ASSUME NEW h, NEW j \in 1..k, h[j - 1] = Moved(r, g, n, j - 1)
      PROVE  Turn(r, list, n, h, j) = Moved(r, g, n, j)
  <2>1. j \in 1..n /\ n - j + 1 \in 1..N /\ j # 0
    BY <1>0
  <2>2. list[n - j + 1] = Spot(g, n - j + 1)
    BY <2>1
  <2> QED BY <1>2, <2>1, <2>2, MovesOn DEF Turn
<1>3. Is(F)
  <2>1. ASSUME NEW j \in 0..k PROVE Turn(r, list, n, F, j) = Moved(r, g, n, j)
    <3>1. CASE j = 0
      BY <1>1, <3>1
    <3>2. CASE j # 0
      <4>1. j \in 1..k /\ j - 1 \in 0..k
        BY <1>0, <3>2
      <4>2. F[j - 1] = Moved(r, g, n, j - 1)
        BY <4>1
      <4> HIDE DEF F
      <4> QED BY <1>2, <4>1, <4>2
    <3> QED BY <3>1, <3>2
  <2> QED BY <2>1
<1> HIDE DEF F
<1>4. PICK h : h = Turned(r, list, n, k)
  OBVIOUS
<1>5. Is(h)
  BY <1>3, <1>4 DEF Turned
<1>6. \A j \in 0..k : h[j] = Turn(r, list, n, h, j)
  BY <1>5
<1> DEFINE S == {j \in Nat : j <= k => h[j] = Moved(r, g, n, j)}
<1>7. 0 \in S
  BY <1>0, <1>1, <1>6
<1>8. ASSUME NEW j \in Nat, j \in S PROVE j + 1 \in S
  <2>1. CASE j + 1 <= k
    <3>1. j + 1 \in 1..k /\ (j + 1) - 1 = j /\ j <= k /\ j + 1 \in 0..k
      BY <1>0, <2>1
    <3>2. h[(j + 1) - 1] = Moved(r, g, n, (j + 1) - 1)
      BY <1>8, <3>1
    <3>3. h[j + 1] = Turn(r, list, n, h, j + 1)
      BY <1>6, <3>1
    <3>4. Turn(r, list, n, h, j + 1) = Moved(r, g, n, j + 1)
      BY <1>2, <3>1, <3>2
    <3> QED BY <3>3, <3>4
  <2>2. CASE ~(j + 1 <= k)
    BY <2>2
  <2> QED BY <2>1, <2>2
<1>9. Nat \subseteq S
  <2> HIDE DEF S
  <2> QED BY <1>7, <1>8, Induct
<1> QED BY <1>0, <1>4, <1>9

\* The lines of w after the first a, up to the b-th.
Piece(w, a, b) == [i \in 1..(b - a) |-> w[a + i]]

LEMMA PieceType ==
  ASSUME NEW S, NEW w \in Seq(S), NEW a \in Nat, NEW b \in Nat, a <= b, b <= Len(w)
  PROVE  Piece(w, a, b) \in Seq(S)
<1>1. PICK n \in Nat : n = b - a
  OBVIOUS
<1>2. \A i \in 1..n : w[a + i] \in S
  BY <1>1
<1>3. Piece(w, a, b) = [i \in 1..n |-> w[a + i]]
  BY <1>1 DEF Piece
<1> QED BY <1>2, <1>3

LEMMA PieceLen ==
  ASSUME NEW w, NEW a \in Nat, NEW b \in Nat, a <= b
  PROVE  Len(Piece(w, a, b)) = b - a
<1>1. PICK n \in Nat : n = b - a
  OBVIOUS
<1>2. Piece(w, a, b) = [i \in 1..n |-> w[a + i]]
  BY <1>1 DEF Piece
<1> QED BY <1>1, <1>2

LEMMA PieceAt ==
  ASSUME NEW w, NEW a \in Nat, NEW b \in Nat, NEW i \in 1..(b - a)
  PROVE  Piece(w, a, b)[i] = w[a + i]
BY DEF Piece

\* Two sequences of the same length and elements.
LEMMA SameSeq ==
  ASSUME NEW S, NEW p \in Seq(S), NEW q \in Seq(S), Len(p) = Len(q),
         \A i \in 1..Len(p) : p[i] = q[i]
  PROVE  p = q
OBVIOUS

LEMMA PieceNone ==
  ASSUME NEW w, NEW a \in Nat
  PROVE  Piece(w, a, a) = <<>>
<1>1. 1..(a - a) = {}
  OBVIOUS
<1> QED BY <1>1 DEF Piece

LEMMA PieceWhole ==
  ASSUME NEW S, NEW w \in Seq(S)
  PROVE  Piece(w, 0, Len(w)) = w
<1>1. PICK n \in Nat : n = Len(w)
  OBVIOUS
<1>2. PICK p : p = Piece(w, 0, n)
  OBVIOUS
<1>3. p \in Seq(S) /\ Len(p) = n
  <2>1. 0 \in Nat /\ 0 <= n /\ n <= Len(w) /\ n - 0 = n
    BY <1>1
  <2>2. Len(Piece(w, 0, n)) = n - 0
    BY <2>1, PieceLen
  <2>3. Piece(w, 0, n) \in Seq(S)
    BY <2>1, PieceType
  <2> QED BY <1>2, <2>1, <2>2, <2>3
<1>4. ASSUME NEW i \in 1..n PROVE p[i] = w[i]
  <2>1. 0 + i = i /\ n - 0 = n /\ i \in 1..(n - 0)
    OBVIOUS
  <2>2. Piece(w, 0, n)[i] = w[0 + i]
    BY <2>1, PieceAt
  <2> QED BY <1>2, <2>1, <2>2
<1>5. p = w
  BY <1>1, <1>3, <1>4, SameSeq
<1> QED BY <1>1, <1>2, <1>5

Joined(p, q) == p \o q

LEMMA JoinedAt ==
  ASSUME NEW S, NEW p \in Seq(S), NEW q \in Seq(S)
  PROVE  /\ Joined(p, q) \in Seq(S) /\ Len(Joined(p, q)) = Len(p) + Len(q)
         /\ \A i \in 1..Len(p) : Joined(p, q)[i] = p[i]
BY DEF Joined

LEMMA JoinedLater ==
  ASSUME NEW S, NEW p \in Seq(S), NEW q \in Seq(S), NEW i \in 1..Len(q)
  PROVE  Joined(p, q)[Len(p) + i] = q[i]
BY DEF Joined

LEMMA PiecesJoin ==
  ASSUME NEW S, NEW w \in Seq(S), NEW a \in Nat, NEW b \in Nat, NEW c \in Nat,
         a <= b, b <= c, c <= Len(w)
  PROVE  Joined(Piece(w, a, b), Piece(w, b, c)) = Piece(w, a, c)
<1>1. PICK p, q, r : p = Piece(w, a, b) /\ q = Piece(w, b, c) /\ r = Piece(w, a, c)
  OBVIOUS
<1>2. PICK t : t = Joined(p, q)
  OBVIOUS
<1>0. Len(w) \in Nat /\ a <= c /\ b <= Len(w)
  OBVIOUS
<1>3. p \in Seq(S) /\ q \in Seq(S) /\ r \in Seq(S)
  BY <1>0, <1>1, PieceType
<1>4. Len(p) = b - a /\ Len(q) = c - b /\ Len(r) = c - a
  BY <1>0, <1>1, PieceLen
<1>5. t \in Seq(S) /\ Len(t) = Len(p) + Len(q)
  BY <1>2, <1>3, JoinedAt
<1>6. ASSUME NEW i \in 1..(c - a) PROVE t[i] = r[i]
  <2>0. r[i] = w[a + i]
    BY <1>1, PieceAt
  <2>1. CASE i <= b - a
    <3>1. i \in 1..(b - a) /\ i \in 1..Len(p)
      BY <1>4, <2>1
    <3>2. p[i] = w[a + i]
      BY <1>1, <3>1, PieceAt
    <3>3. t[i] = p[i]
      BY <1>2, <1>3, <3>1, JoinedAt
    <3> QED BY <2>0, <3>2, <3>3
  <2>2. CASE ~(i <= b - a)
    <3>1. PICK j \in 1..(c - b) : i = Len(p) + j /\ b + j = a + i
      <4>1. i - (b - a) \in 1..(c - b) /\ i = Len(p) + (i - (b - a)) /\ b + (i - (b - a)) = a + i
        BY <1>4, <2>2
      <4> QED BY <4>1
    <3>2. q[j] = w[b + j]
      BY <1>1, PieceAt
    <3>3. t[Len(p) + j] = q[j]
      BY <1>2, <1>3, <1>4, JoinedLater
    <3> QED BY <2>0, <3>1, <3>2, <3>3
  <2> QED BY <2>1, <2>2
<1>7. Len(t) = Len(r) /\ Len(t) = c - a
  BY <1>4, <1>5
<1>8. t = r
  BY <1>3, <1>5, <1>6, <1>7, SameSeq
<1> QED BY <1>1, <1>2, <1>8

\* Cuts through m lines, and the pieces between them.
Chain(d, n, m) == /\ \A i \in 0..n : d[i] \in Nat /\ d[i] <= m
                  /\ \A i \in 1..n : d[i - 1] <= d[i]
Pieces(s, w, d, n) == \A i \in 1..n : s[i] = Piece(w, d[i - 1], d[i])

\* What the flattening of pieces that follow each other comes to.
Flat(s, n) == CHOOSE h : h = [i \in 1..n |-> IF i = 1 THEN s[i] ELSE Joined(h[i - 1], s[i])]

LEMMA FlatIs ==
  ASSUME NEW S, NEW w \in Seq(S), NEW n \in Nat, n # 0, NEW d,
         Chain(d, n, Len(w)),          NEW s, Pieces(s, w, d, n)
  PROVE  Flat(s, n)[n] = Piece(w, d[0], d[n]) /\ d[0] <= d[n]
<1>0. /\ \A i \in 0..n : d[i] \in Nat /\ d[i] <= Len(w)
      /\ \A i \in 1..n : d[i - 1] <= d[i]
      /\ \A i \in 1..n : s[i] = Piece(w, d[i - 1], d[i])
  BY DEF Chain, Pieces
<1> DEFINE T == {i \in Nat : i <= n => d[0] <= d[i]}
<1>1. Nat \subseteq T
  <2>1. 0 \in T
    BY <1>0
  <2>2. ASSUME NEW i \in Nat, i \in T PROVE i + 1 \in T
    <3>1. CASE i + 1 <= n
      <4>1. i + 1 \in 1..n /\ (i + 1) - 1 = i /\ i \in 0..n /\ i <= n /\ i + 1 \in 0..n /\ 0 \in 0..n
        BY <3>1
      <4>2. d[i] <= d[i + 1] /\ d[0] \in Nat /\ d[i] \in Nat /\ d[i + 1] \in Nat
        BY <1>0, <4>1
      <4> QED BY <2>2, <4>1, <4>2
    <3>2. CASE ~(i + 1 <= n)
      BY <3>2
    <3> QED BY <3>1, <3>2
  <2> HIDE DEF T
  <2> QED BY <2>1, <2>2, Induct
<1>2. \A i \in 0..n : i \in T /\ i <= n
  BY <1>1
<1>3. \A i \in 0..n : d[0] <= d[i]
  BY <1>2
<1> HIDE DEF T
<1> DEFINE P(i) == Piece(w, d[0], d[i])
           F == [i \in 1..n |-> P(i)]
           Is(h) == h = [i \in 1..n |-> IF i = 1 THEN s[i] ELSE Joined(h[i - 1], s[i])]
<1>4. ASSUME NEW i \in 1..n, i # 1 PROVE Joined(P(i - 1), s[i]) = P(i)
  <2>1. PICK j : j = i - 1
    OBVIOUS
  <2>2. j \in 0..n /\ i \in 0..n /\ 0 \in 0..n
    BY <2>1
  <2>3. PICK a, b, c : a = d[0] /\ b = d[j] /\ c = d[i]
    OBVIOUS
  <2>4. a \in Nat /\ b \in Nat /\ c \in Nat /\ a <= b /\ b <= c /\ c <= Len(w)
    BY <1>0, <1>3, <2>1, <2>2, <2>3
  <2>5. Joined(Piece(w, a, b), Piece(w, b, c)) = Piece(w, a, c)
    BY <2>4, PiecesJoin
  <2>6. s[i] = Piece(w, b, c)
    BY <1>0, <2>1, <2>3
  <2> QED BY <2>1, <2>3, <2>5, <2>6
<1>5. s[1] = P(1)
  <2>1. 1 \in 1..n /\ 1 - 1 = 0
    OBVIOUS
  <2> QED BY <1>0, <2>1
<1> HIDE DEF P
<1>6. Is(F)
  <2>1. ASSUME NEW i \in 1..n
        PROVE  (IF i = 1 THEN s[i] ELSE Joined(F[i - 1], s[i])) = P(i)
    <3>1. CASE i = 1
      BY <1>5, <3>1
    <3>2. CASE i # 1
      <4>1. i - 1 \in 1..n
        BY <3>2
      <4>2. F[i - 1] = P(i - 1)
        BY <4>1
      <4> HIDE DEF F
      <4> QED BY <1>4, <3>2, <4>2
    <3> QED BY <3>1, <3>2
  <2> QED BY <2>1
<1> HIDE DEF F
<1>7. PICK h : h = Flat(s, n)
  OBVIOUS
<1>8. Is(h)
  BY <1>6, <1>7 DEF Flat
<1>9. \A i \in 1..n : h[i] = IF i = 1 THEN s[i] ELSE Joined(h[i - 1], s[i])
  BY <1>8
<1> HIDE DEF Is
<1> DEFINE U == {i \in Nat : i \in 1..n => h[i] = P(i)}
<1>10. 0 \in U
  OBVIOUS
<1>11. ASSUME NEW i \in Nat, i \in U PROVE i + 1 \in U
  <2>1. CASE i + 1 \in 1..n /\ i # 0
    <3>1. (i + 1) - 1 = i /\ i \in 1..n /\ i + 1 # 1
      BY <2>1
    <3>2. h[i] = P(i)
      BY <1>11, <3>1
    <3>3. h[i + 1] = Joined(h[i], s[i + 1])
      BY <1>9, <2>1, <3>1
    <3>4. Joined(P(i), s[i + 1]) = P(i + 1)
      BY <1>4, <2>1, <3>1
    <3> QED BY <3>2, <3>3, <3>4
  <2>2. CASE i = 0
    <3>1. 1 \in 1..n /\ i + 1 = 1
      BY <2>2
    <3>2. h[1] = s[1]
      BY <1>9, <3>1
    <3> QED BY <1>5, <3>1, <3>2
  <2>3. CASE ~(i + 1 \in 1..n)
    BY <2>3
  <2> QED BY <2>1, <2>2, <2>3
<1>12. Nat \subseteq U
  <2> HIDE DEF U
  <2> QED BY <1>10, <1>11, Induct
<1>13. n \in U /\ n \in 1..n /\ n \in 0..n
  BY <1>12
<1>14. h[n] = P(n) /\ d[0] <= d[n]
  BY <1>3, <1>13
<1> QED BY <1>7, <1>14 DEF P

LEMMA FlattenIs ==
  ASSUME NEW S, NEW w \in Seq(S), NEW n \in Nat, NEW d,
         Chain(d, n, Len(w)),          NEW s, DOMAIN s = 1..n, s = [i \in 1..n |-> s[i]], Len(s) = n,
         Pieces(s, w, d, n)
  PROVE  FlattenSeq(s) = Piece(w, d[0], d[n]) /\ d[0] <= d[n]
<1>1. CASE n = 0
  <2>1. 0 \in 0..n
    BY <1>1
  <2>2. d[0] \in Nat /\ Piece(w, d[0], d[0]) = <<>>
    BY <2>1, PieceNone DEF Chain
  <2>3. s = <<>>
    BY <1>1
  <2>4. FlattenSeq(s) = s
    BY <1>1 DEF FlattenSeq
  <2> QED BY <1>1, <2>1, <2>2, <2>3, <2>4
<1>2. CASE n # 0
  <2>1. FlattenSeq(s) = Flat(s, n)[n]
    BY <1>2 DEF FlattenSeq, Flat, Joined
  <2> QED BY <1>2, <2>1, FlatIs
<1> QED BY <1>1, <1>2

\* The files of a log hold the lines of w from a cut in the distance on, each
\* rotated file a piece of at least FileSize lines.  As much is left as the
\* least "keep" promises, and no file has a number that no "keep" allowed.
Trim(f, w, N, cut) == cut[N] = 0 \/ \E k \in f.keeps : cut[N] + k * FileSize <= Len(w)
Allowed(f, N, g) == \A n \in Numbers(N, g) : \E k \in f.keeps : n <= k
Bounds(w, N, cut) == /\ \A i \in 0..N : cut[i] \in Nat /\ cut[i] <= Len(w)
                     /\ \A i \in 1..N : cut[i] + FileSize <= cut[i - 1]
Held(f, w, N, g, cut) == /\ DOMAIN f.rotated = Numbers(N, g)
                         /\ \A i \in 1..N : f.rotated[Spot(g, i)] = Piece(w, cut[i], cut[i - 1])
                         /\ f.current = Piece(w, cut[0], Len(w))
Cuts(f, w, N, g, cut) ==
  Bounds(w, N, cut) /\ Held(f, w, N, g, cut) /\ Trim(f, w, N, cut) /\ Allowed(f, N, g)

LEMMA SizePos == FileSize \in Nat /\ FileSize >= 1
BY EventsAssumption

\* The lines of the files, from the oldest on, are one piece.
LEMMA LinesAre ==
  ASSUME NEW S, NEW w \in Seq(S), NEW N \in Nat, NEW g \in 1..(N + 1), NEW cut, NEW f,
         Bounds(w, N, cut), Held(f, w, N, g, cut)
  PROVE  Lines(f, N) = Piece(w, cut[N], Len(w))
<1>1. PICK L, r : L = ListRotated(r) /\ r = f.rotated
  OBVIOUS
<1>2. DOMAIN r = Numbers(N, g)
  BY <1>1 DEF Held
<1>3. Cardinality(DOMAIN r) = N /\ DOMAIN L = 1..N /\ \A i \in 1..N : L[i] = Spot(g, i)
  BY <1>1, <1>2, Listed
<1> DEFINE s == [i \in 1..N |-> r[L[N - i + 1]]]
           d == [i \in 0..N |-> cut[N - i]]
<1>5. FlattenSeq(s) = Piece(w, d[0], d[N]) /\ d[0] <= d[N]
  <2>1. DOMAIN s = 1..N /\ s = [i \in 1..N |-> s[i]] /\ Len(s) = N
    OBVIOUS
  <2>2. Chain(d, N, Len(w))
    <3>1. ASSUME NEW i \in 0..N PROVE d[i] \in Nat /\ d[i] <= Len(w)
      <4>1. N - i \in 0..N
        OBVIOUS
      <4> QED BY <4>1 DEF Bounds
    <3>2. ASSUME NEW i \in 1..N PROVE d[i - 1] <= d[i]
      <4>1. PICK j : j = N - i + 1
        OBVIOUS
      <4>2. j \in 1..N /\ j - 1 = N - i /\ j = N - (i - 1) /\ i \in 0..N /\ i - 1 \in 0..N
            /\ j \in 0..N /\ j - 1 \in 0..N
        BY <4>1
      <4>3. d[i - 1] = cut[j] /\ d[i] = cut[j - 1]
        BY <4>2
      <4>4. cut[j] + FileSize <= cut[j - 1] /\ cut[j] \in Nat /\ cut[j - 1] \in Nat
        BY <4>2 DEF Bounds
      <4> QED BY <4>3, <4>4, SizePos
    <3> QED BY <3>1, <3>2 DEF Chain
  <2>3. Pieces(s, w, d, N)
    <3>1. ASSUME NEW i \in 1..N PROVE s[i] = Piece(w, d[i - 1], d[i])
      <4>1. PICK j : j = N - i + 1
        OBVIOUS
      <4>2. j \in 1..N /\ j - 1 = N - i /\ j = N - (i - 1) /\ i \in 0..N /\ i - 1 \in 0..N
        BY <4>1
      <4>3. d[i - 1] = cut[j] /\ d[i] = cut[j - 1]
        BY <4>2
      <4>4. L[N - i + 1] = Spot(g, j)
        BY <1>3, <4>1, <4>2
      <4>5. r[Spot(g, j)] = Piece(w, cut[j], cut[j - 1])
        BY <1>1, <4>2 DEF Held
      <4> QED BY <4>3, <4>4, <4>5
    <3> QED BY <3>1 DEF Pieces
  <2> HIDE DEF s, d
  <2> QED BY <2>1, <2>2, <2>3, FlattenIs
<1>6. d[0] = cut[N] /\ d[N] = cut[0]
  <2>1. N - 0 = N /\ N - N = 0 /\ 0 \in 0..N /\ N \in 0..N
    OBVIOUS
  <2> QED BY <2>1
<1>7. Lines(f, N) = Joined(FlattenSeq(s), f.current)
  BY <1>1 DEF Lines, Joined
<1> HIDE DEF s, d
<1>8. PICK a, b, c : a = cut[N] /\ b = cut[0] /\ c = Len(w)
  OBVIOUS
<1>9. a \in Nat /\ b \in Nat /\ c \in Nat /\ a <= b /\ b <= c /\ c <= Len(w)
  <2>1. N \in 0..N /\ 0 \in 0..N
    OBVIOUS
  <2>2. cut[N] \in Nat /\ cut[0] \in Nat /\ cut[0] <= Len(w)
    BY <2>1 DEF Bounds
  <2> QED BY <1>5, <1>6, <1>8, <2>2
<1>10. Joined(Piece(w, a, b), Piece(w, b, c)) = Piece(w, a, c)
  BY <1>9, PiecesJoin
<1>11. f.current = Piece(w, b, c)
  BY <1>8 DEF Held
<1> QED BY <1>5, <1>6, <1>7, <1>8, <1>10, <1>11

\* A piece that reaches to the end.
LEMMA PieceIsSuffix ==
  ASSUME NEW S, NEW w \in Seq(S), NEW a \in Nat, a <= Len(w)
  PROVE  IsSuffix(Piece(w, a, Len(w)), w)
<1>1. PICK n \in Nat : n = Len(w)
  OBVIOUS
<1>2. PICK p : p = Piece(w, a, n)
  OBVIOUS
<1>3. Len(p) = n - a /\ n - a \in Nat
  BY <1>1, <1>2, PieceLen
<1>4. \A i \in 1..(n - a) : p[i] = w[a + i]
  BY <1>2, PieceAt
<1>5. PICK q, v : q = Reverse(p) /\ v = Reverse(w)
  OBVIOUS
<1>6. q = [i \in 1..(n - a) |-> p[(n - a) - i + 1]] /\ v = [i \in 1..n |-> w[n - i + 1]]
  BY <1>1, <1>3, <1>5 DEF Reverse
<1>7. Len(q) = n - a /\ Len(v) = n
  BY <1>3, <1>6
<1>8. ASSUME NEW i \in 1..(n - a) PROVE q[i] = v[i]
  <2>1. PICK j : j = (n - a) - i + 1
    OBVIOUS
  <2>2. j \in 1..(n - a) /\ a + j = n - i + 1 /\ i \in 1..n
    BY <1>3, <2>1
  <2>3. q[i] = p[j] /\ v[i] = w[a + j]
    BY <1>6, <2>1, <2>2
  <2> QED BY <1>4, <2>2, <2>3
<1>9. SubSeq(q, 1, n - a) = [i \in 1..(n - a) |-> q[i]] /\ SubSeq(v, 1, n - a) = [i \in 1..(n - a) |-> v[i]]
  <2>1. \A t : SubSeq(t, 1, n - a) = [i \in 1..(n - a) |-> t[i]]
    BY <1>3
  <2> QED BY <2>1
<1>10. SubSeq(q, 1, n - a) = SubSeq(v, 1, n - a)
  BY <1>8, <1>9
<1>11. IsPrefix(q, v)
  BY <1>3, <1>7, <1>10 DEF IsPrefix
<1> QED BY <1>1, <1>2, <1>5, <1>11 DEF IsSuffix

\* What such files promise.
LEMMA CutsKeep ==
  ASSUME NEW S, NEW w \in Seq(S), NEW N \in Nat, NEW g \in 1..(N + 1), NEW cut, NEW f,
         Cuts(f, w, N, g, cut), f.keeps \subseteq Nat
  PROVE  /\ Cardinality(DOMAIN f.rotated) = N /\ IsSuffix(Lines(f, N), w)
         /\ \A n \in DOMAIN f.rotated : \E k \in f.keeps : n <= k
         /\ Lines(f, N) = w \/ \E k \in f.keeps : Len(Lines(f, N)) >= k * FileSize
<1>1. Bounds(w, N, cut) /\ Held(f, w, N, g, cut) /\ Trim(f, w, N, cut) /\ Allowed(f, N, g)
  BY DEF Cuts
<1>2. Lines(f, N) = Piece(w, cut[N], Len(w))
  BY <1>1, LinesAre
<1>3. N \in 0..N /\ Len(w) \in Nat
  OBVIOUS
<1>4. PICK a \in Nat : a = cut[N] /\ a <= Len(w)
  BY <1>1, <1>3 DEF Bounds
<1>5. Lines(f, N) = Piece(w, a, Len(w))
  BY <1>2, <1>4
<1>6. IsSuffix(Lines(f, N), w)
  BY <1>4, <1>5, PieceIsSuffix
<1>7. Len(Lines(f, N)) = Len(w) - a
  <2>1. PICK n \in Nat : n = Len(w)
    BY <1>3
  <2>2. Len(Piece(w, a, n)) = n - a
    BY <1>4, <2>1, PieceLen
  <2> QED BY <1>5, <2>1, <2>2
<1>10. Cardinality(DOMAIN f.rotated) = N
  <2>1. PICK r : r = f.rotated
    OBVIOUS
  <2>2. DOMAIN r = Numbers(N, g)
    BY <1>1, <2>1 DEF Held
  <2> QED BY <2>1, <2>2, Listed
<1>8. CASE a = 0
  <2>1. Lines(f, N) = w
    BY <1>5, <1>8, PieceWhole
  <2> QED BY <1>1, <1>6, <1>10, <2>1 DEF Allowed, Held
<1>9. CASE \E k \in f.keeps : a + k * FileSize <= Len(w)
  <2>1. PICK k \in f.keeps : a + k * FileSize <= Len(w)
    BY <1>9
  <2>2. PICK t : t = k * FileSize
    OBVIOUS
  <2>3. t \in Nat
    BY <2>2, SizePos
  <2>4. Len(Lines(f, N)) >= t
    BY <1>3, <1>4, <1>7, <2>1, <2>2, <2>3
  <2> QED BY <1>1, <1>6, <1>10, <2>2, <2>4 DEF Allowed, Held
<1> QED BY <1>1, <1>4, <1>8, <1>9 DEF Trim

\* Only the files and what "keep" was count.
LEMMA CutsOfSame ==
  ASSUME NEW w, NEW N, NEW g, NEW cut, NEW f, NEW h, Cuts(f, w, N, g, cut),
         h.rotated = f.rotated, h.current = f.current, f.keeps \subseteq h.keeps
  PROVE  Cuts(h, w, N, g, cut)
<1>1. Bounds(w, N, cut) /\ Held(f, w, N, g, cut) /\ Trim(f, w, N, cut) /\ Allowed(f, N, g)
  BY DEF Cuts
<1>2. Held(h, w, N, g, cut)
  BY <1>1 DEF Held
<1>3. Trim(h, w, N, cut)
  BY <1>1 DEF Trim
<1>4. Allowed(h, N, g)
  BY <1>1 DEF Allowed
<1> QED BY <1>1, <1>2, <1>3, <1>4 DEF Cuts

\* w with one more line.
LEMMA OneMore ==
  ASSUME NEW S, NEW w \in Seq(S), NEW e \in S
  PROVE  /\ Append(w, e) \in Seq(S) /\ Len(Append(w, e)) = Len(w) + 1
         /\ \A i \in 1..Len(w) : Append(w, e)[i] = w[i]
OBVIOUS

LEMMA OneMoreAtEnd ==
  ASSUME NEW S, NEW w \in Seq(S), NEW e \in S
  PROVE  Append(w, e)[Len(w) + 1] = e
OBVIOUS

LEMMA PieceOfMore ==
  ASSUME NEW S, NEW w \in Seq(S), NEW e \in S, NEW a \in Nat, NEW b \in Nat, a <= b, b <= Len(w)
  PROVE  Piece(Append(w, e), a, b) = Piece(w, a, b)
<1>1. PICK v : v = Append(w, e)
  OBVIOUS
<1>2. \A i \in 1..Len(w) : v[i] = w[i]
  BY <1>1, OneMore
<1>3. ASSUME NEW i \in 1..(b - a) PROVE v[a + i] = w[a + i]
  <2>1. Len(w) \in Nat /\ a + i \in 1..Len(w)
    OBVIOUS
  <2> QED BY <1>2, <2>1
<1>4. Piece(v, a, b) = Piece(w, a, b)
  BY <1>3 DEF Piece
<1> QED BY <1>1, <1>4

LEMMA LongerPiece ==
  ASSUME NEW S, NEW w \in Seq(S), NEW e \in S, NEW a \in Nat, a <= Len(w)
  PROVE  Append(Piece(w, a, Len(w)), e) = Piece(Append(w, e), a, Len(Append(w, e)))
<1>1. PICK v, n : v = Append(w, e) /\ n = Len(w)
  OBVIOUS
<1>2. n \in Nat /\ n + 1 \in Nat /\ a <= n /\ a <= n + 1 /\ n <= Len(w)
  BY <1>1
<1>3. v \in Seq(S) /\ Len(v) = n + 1 /\ v[n + 1] = e
  BY <1>1, OneMore, OneMoreAtEnd
<1>4. PICK p, q, t : p = Piece(w, a, n) /\ q = Piece(v, a, n + 1) /\ t = Append(p, e)
  OBVIOUS
<1>5. p \in Seq(S) /\ Len(p) = n - a
  <2>1. p \in Seq(S)
    BY <1>2, <1>4, PieceType
  <2>2. Len(p) = n - a
    BY <1>2, <1>4, PieceLen
  <2> QED BY <2>1, <2>2
<1>6. q \in Seq(S) /\ Len(q) = (n + 1) - a
  <2>0. n + 1 <= Len(v)
    BY <1>2, <1>3
  <2>1. q \in Seq(S)
    BY <1>2, <1>3, <1>4, <2>0, PieceType
  <2>2. Len(q) = (n + 1) - a
    BY <1>2, <1>4, PieceLen
  <2> QED BY <2>1, <2>2
<1>7. t \in Seq(S) /\ Len(t) = (n + 1) - a
  <2>1. t \in Seq(S) /\ Len(t) = Len(p) + 1
    BY <1>4, <1>5, OneMore
  <2> QED BY <1>2, <1>5, <2>1
<1>8. ASSUME NEW i \in 1..((n + 1) - a) PROVE t[i] = q[i]
  <2>1. q[i] = v[a + i]
    BY <1>2, <1>4, PieceAt
  <2>2. CASE i <= n - a
    <3>1. i \in 1..(n - a) /\ a + i \in 1..n
      BY <1>2, <2>2
    <3>2. t[i] = p[i]
      BY <1>4, <1>5, <3>1, OneMore
    <3>3. p[i] = w[a + i]
      BY <1>2, <1>4, <3>1, PieceAt
    <3>4. v[a + i] = w[a + i]
      BY <1>1, <3>1, OneMore
    <3> QED BY <2>1, <3>2, <3>3, <3>4
  <2>3. CASE ~(i <= n - a)
    <3>1. i = Len(p) + 1 /\ a + i = n + 1
      BY <1>2, <1>5, <2>3
    <3>2. t[Len(p) + 1] = e
      BY <1>4, <1>5, OneMoreAtEnd
    <3> QED BY <1>3, <2>1, <3>1, <3>2
  <2> QED BY <2>2, <2>3
<1>9. Len(t) = Len(q) /\ \A i \in 1..Len(t) : t[i] = q[i]
  BY <1>6, <1>7, <1>8
<1>10. t = q
  BY <1>6, <1>7, <1>9, SameSeq
<1> QED BY <1>1, <1>3, <1>4, <1>10

LEMMA CutsGrow ==
  ASSUME NEW S, NEW w \in Seq(S), NEW e \in S, NEW N \in Nat, NEW g \in 1..(N + 1), NEW cut,
         NEW f, NEW h, Cuts(f, w, N, g, cut), f.keeps \subseteq Nat,
         h.rotated = f.rotated, h.keeps = f.keeps, h.current = Append(f.current, e)
  PROVE  Cuts(h, Append(w, e), N, g, cut)
<1>1. Bounds(w, N, cut) /\ Held(f, w, N, g, cut) /\ Trim(f, w, N, cut) /\ Allowed(f, N, g)
  BY DEF Cuts
<1>2. PICK v, n : v = Append(w, e) /\ n = Len(w)
  OBVIOUS
<1>3. n \in Nat /\ Len(v) = n + 1 /\ 0 \in 0..N /\ N \in 0..N
  BY <1>2, OneMore
<1>4. Bounds(v, N, cut)
  <2>1. ASSUME NEW i \in 0..N PROVE cut[i] \in Nat /\ cut[i] <= Len(v)
    <3>1. cut[i] \in Nat /\ cut[i] <= n
      BY <1>1, <1>2 DEF Bounds
    <3> QED BY <1>3, <3>1
  <2> QED BY <1>1, <2>1 DEF Bounds
<1>5. Held(h, v, N, g, cut)
  <2>1. h.current = Piece(v, cut[0], Len(v))
    <3>1. PICK a \in Nat : a = cut[0] /\ a <= Len(w)
      BY <1>1, <1>3 DEF Bounds
    <3>2. Append(Piece(w, a, Len(w)), e) = Piece(Append(w, e), a, Len(Append(w, e)))
      BY <3>1, LongerPiece
    <3>3. f.current = Piece(w, a, Len(w))
      BY <1>1, <3>1 DEF Held
    <3> QED BY <1>2, <3>1, <3>2, <3>3
  <2>2. ASSUME NEW i \in 1..N PROVE h.rotated[Spot(g, i)] = Piece(v, cut[i], cut[i - 1])
    <3>1. PICK a, b : a = cut[i] /\ b = cut[i - 1]
      OBVIOUS
    <3>2. i \in 0..N /\ i - 1 \in 0..N
      OBVIOUS
    <3>3. a \in Nat /\ b \in Nat /\ a + FileSize <= b /\ b <= Len(w)
      BY <1>1, <3>1, <3>2 DEF Bounds
    <3>4. a <= b
      BY <3>3, SizePos
    <3>5. Piece(Append(w, e), a, b) = Piece(w, a, b)
      BY <3>3, <3>4, PieceOfMore
    <3>6. f.rotated[Spot(g, i)] = Piece(w, a, b)
      BY <1>1, <3>1 DEF Held
    <3> QED BY <1>2, <3>1, <3>5, <3>6
  <2> QED BY <1>1, <2>1, <2>2 DEF Held
<1>6. Trim(h, v, N, cut)
  <2>1. CASE cut[N] = 0
    BY <2>1 DEF Trim
  <2>2. CASE \E k \in f.keeps : cut[N] + k * FileSize <= Len(w)
    <3>1. PICK k \in f.keeps : cut[N] + k * FileSize <= Len(w)
      BY <2>2
    <3>2. PICK t : t = k * FileSize
      OBVIOUS
    <3>3. t \in Nat /\ cut[N] \in Nat
      <4>1. k \in Nat
        OBVIOUS
      <4> QED BY <1>1, <1>3, <3>2, <4>1, SizePos DEF Bounds
    <3>4. cut[N] + t <= Len(v)
      BY <1>2, <1>3, <3>1, <3>2, <3>3
    <3> QED BY <3>2, <3>4 DEF Trim
  <2> QED BY <1>1, <2>1, <2>2 DEF Trim
<1>7. Allowed(h, N, g)
  BY <1>1 DEF Allowed
<1> QED BY <1>2, <1>4, <1>5, <1>6, <1>7 DEF Cuts

\* Where the gap is once the files from the i-th on were moved.
Gap(g, i) == IF i < g THEN i + 1 ELSE g

\* How many files a rotation leaves is what "keep" allows beside the new one.
LEMMA SurvivorsAre ==
  ASSUME NEW N \in Nat, NEW g \in 1..(N + 1), NEW cut, NEW f, NEW w, Held(f, w, N, g, cut),
         Allowed(f, N, g), Kept(f.keep) \in f.keeps, f.keeps \subseteq Nat \ {0}
  PROVE  /\ Survivors(f) \in 0..N /\ Survivors(f) + 1 <= Kept(f.keep)
         /\ Survivors(f) = N \/ Survivors(f) + 1 = Kept(f.keep)
<1>1. PICK r : r = f.rotated
  OBVIOUS
<1>2. DOMAIN r = Numbers(N, g)
  BY <1>1 DEF Held
<1>3. Cardinality(DOMAIN r) = N
  BY <1>2, Listed
<1>4. PICK K : K = Kept(f.keep)
  OBVIOUS
<1>5. K \in Nat \ {0}
  BY <1>4
<1>6. Survivors(f) = IF N < K THEN N ELSE K - 1
  BY <1>1, <1>3, <1>4 DEF Survivors
<1> QED BY <1>4, <1>5, <1>6

\* The files are moved, not changed, and stay in their order.
LEMMA MovedFiles ==
  ASSUME NEW g \in Nat \ {0}, NEW n \in Nat, NEW k \in 0..n, NEW r
  PROVE  /\ DOMAIN Moved(r, g, n, k) = Numbers(n, Gap(g, n - k))
         /\ Gap(g, n - k) \in 1..(n + 1)
         /\ \A i \in 1..n : Moved(r, g, n, k)[Spot(Gap(g, n - k), i)] = r[Spot(g, i)]
<1>1. PICK c, h : c = n - k /\ h = Gap(g, c)
  OBVIOUS
<1>2. c \in 0..n /\ n \in Nat /\ n - k + 2 = c + 2 /\ h \in 1..(n + 1)
  BY <1>1 DEF Gap
<1> DEFINE E == {Spot(g, i) : i \in 1..c} \cup ((c + 2)..(n + 1))
<1>3. Moved(r, g, n, k) = [m \in E |-> IF m >= c + 2 THEN r[Spot(g, m - 1)] ELSE r[m]]
  BY <1>1, <1>2 DEF Moved
<1>4. E = Numbers(n, h)
  <2>1. ASSUME NEW m \in E PROVE m \in Numbers(n, h)
    <3>1. CASE m \in (c + 2)..(n + 1)
      BY <1>1, <1>2, <3>1 DEF Numbers, Gap
    <3>2. CASE m \in {Spot(g, i) : i \in 1..c}
      <4>1. PICK i \in 1..c : m = Spot(g, i)
        BY <3>2
      <4> QED BY <1>1, <1>2, <4>1 DEF Numbers, Gap, Spot
    <3> QED BY <3>1, <3>2
  <2>2. ASSUME NEW m \in Numbers(n, h) PROVE m \in E
    <3>1. m \in 1..(n + 1) /\ m # h
      BY DEF Numbers
    <3>2. CASE m >= c + 2
      BY <1>2, <3>1, <3>2
    <3>3. CASE ~(m >= c + 2) /\ m < g
      <4>1. m \in 1..c /\ m = Spot(g, m)
        BY <1>1, <1>2, <3>1, <3>3 DEF Gap, Spot
      <4> QED BY <4>1
    <3>4. CASE ~(m >= c + 2) /\ ~(m < g)
      <4>1. m - 1 \in 1..c /\ m = Spot(g, m - 1)
        BY <1>1, <1>2, <3>1, <3>4 DEF Gap, Spot
      <4> QED BY <4>1
    <3> QED BY <3>2, <3>3, <3>4
  <2> QED BY <2>1, <2>2
<1>5. ASSUME NEW i \in 1..n
      PROVE  LET m == Spot(h, i) IN m \in E /\ (IF m >= c + 2 THEN m - 1 ELSE m) =
                                          IF m >= c + 2 THEN i ELSE Spot(g, i)
  <2>1. Spot(h, i) \in E
    BY <1>2, <1>4 DEF Spot, Numbers
  <2>2. PICK m : m = Spot(h, i)
    OBVIOUS
  <2>3. CASE i <= c
    <3>1. m = Spot(g, i) /\ ~(m >= c + 2)
      BY <1>1, <1>2, <2>2, <2>3 DEF Gap, Spot
    <3> QED BY <2>1, <2>2, <3>1
  <2>4. CASE ~(i <= c)
    <3>1. m = i + 1 /\ m >= c + 2
      BY <1>1, <1>2, <2>2, <2>4 DEF Gap, Spot
    <3>2. m - 1 = i
      BY <3>1
    <3> QED BY <2>1, <2>2, <3>1, <3>2
  <2> QED BY <2>3, <2>4
<1>6. ASSUME NEW i \in 1..n PROVE Moved(r, g, n, k)[Spot(h, i)] = r[Spot(g, i)]
  <2>1. PICK m : m = Spot(h, i)
    OBVIOUS
  <2>2. m \in E /\ (IF m >= c + 2 THEN m - 1 ELSE m) = IF m >= c + 2 THEN i ELSE Spot(g, i)
    BY <1>5, <2>1
  <2>3. Moved(r, g, n, k)[m] = IF m >= c + 2 THEN r[Spot(g, m - 1)] ELSE r[m]
    <3> HIDE DEF E
    <3> QED BY <1>3, <2>2
  <2>4. CASE m >= c + 2
    BY <2>1, <2>2, <2>3, <2>4
  <2>5. CASE ~(m >= c + 2)
    BY <2>1, <2>2, <2>3, <2>5
  <2> QED BY <2>4, <2>5
<1>7. DOMAIN Moved(r, g, n, k) = E
  BY <1>3
<1> QED BY <1>1, <1>2, <1>4, <1>6, <1>7

\* The cuts lie at least a file apart.
LEMMA Distance ==
  ASSUME NEW w, NEW N \in Nat, NEW cut, Bounds(w, N, cut), NEW n \in 0..N
  PROVE  cut[n] + n * FileSize <= cut[0]
<1>0. /\ \A i \in 0..N : cut[i] \in Nat
      /\ \A i \in 1..N : cut[i] + FileSize <= cut[i - 1]
  BY DEF Bounds
<1> DEFINE S == {i \in Nat : i <= N => cut[i] + i * FileSize <= cut[0]}
<1>1. 0 \in S
  <2>1. 0 * FileSize = 0 /\ cut[0] \in Nat
    BY <1>0, SizePos
  <2> QED BY <2>1
<1>2. ASSUME NEW i \in Nat, i \in S PROVE i + 1 \in S
  <2>1. CASE i + 1 <= N
    <3>1. i + 1 \in 1..N /\ (i + 1) - 1 = i /\ i <= N /\ i \in 0..N /\ i + 1 \in 0..N /\ 0 \in 0..N
      BY <2>1
    <3>2. PICK a, b, c : a = cut[i] /\ b = cut[i + 1] /\ c = cut[0]
      OBVIOUS
    <3>3. a \in Nat /\ b \in Nat /\ c \in Nat /\ b + FileSize <= a
      BY <1>0, <3>1, <3>2
    <3>4. PICK t : t = i * FileSize
      OBVIOUS
    <3>5. t \in Nat /\ (i + 1) * FileSize = t + FileSize
      BY <3>4, SizePos
    <3>6. a + t <= c
      BY <1>2, <3>1, <3>2, <3>4
    <3>7. b + (t + FileSize) <= c
      BY <3>3, <3>5, <3>6, SizePos
    <3> QED BY <3>2, <3>5, <3>7
  <2>2. CASE ~(i + 1 <= N)
    BY <2>2
  <2> QED BY <2>1, <2>2
<1>3. Nat \subseteq S
  <2> HIDE DEF S
  <2> QED BY <1>1, <1>2, Induct
<1>4. n \in S /\ n <= N
  BY <1>3
<1> QED BY <1>4

\* What a full log loses when it is rotated.
LEMMA TrimAgain ==
  ASSUME NEW w, Len(w) \in Nat, NEW N \in Nat, NEW cut, NEW f, Bounds(w, N, cut), Trim(f, w, N, cut),
         cut[0] + FileSize <= Len(w), NEW K \in f.keeps, NEW n \in 0..N,
         n = N \/ n + 1 = K
  PROVE  cut[n] = 0 \/ \E k \in f.keeps : cut[n] + k * FileSize <= Len(w)
<1>1. CASE n = N
  BY <1>1 DEF Trim
<1>2. CASE n + 1 = K
  <2>1. PICK a, c, m : a = cut[n] /\ c = cut[0] /\ m = Len(w)
    OBVIOUS
  <2>2. a \in Nat /\ c \in Nat /\ m \in Nat /\ c + FileSize <= m
    <3>1. 0 \in 0..N
      OBVIOUS
    <3> QED BY <2>1, <3>1 DEF Bounds
  <2>3. PICK t : t = n * FileSize
    OBVIOUS
  <2>4. t \in Nat /\ K * FileSize = t + FileSize
    BY <1>2, <2>3, SizePos
  <2>5. a + t <= c
    BY <2>1, <2>3, Distance
  <2>6. a + (t + FileSize) <= m
    BY <2>2, <2>4, <2>5, SizePos
  <2>7. cut[n] + K * FileSize <= Len(w)
    BY <2>1, <2>4, <2>6
  <2> QED BY <2>7
<1> QED BY <1>1, <1>2

\* A log of which the files hold all that is left of w.
FileOK(f, w) ==
  /\ f.keeps \subseteq Nat \ {0}
  /\ f.open => Kept(f.keep) \in f.keeps
  /\ \E N \in Nat : \E g \in 1..(N + 1) : \E cut : Cuts(f, w, N, g, cut)

\* A rotation of a full file, k files into it.
LEMMA CutsMove ==
  ASSUME NEW S, NEW w \in Seq(S), NEW N \in Nat, NEW g \in 1..(N + 1), NEW cut, NEW f,
         Cuts(f, w, N, g, cut), f.keeps \subseteq Nat \ {0}, Kept(f.keep) \in f.keeps,
         cut[0] + FileSize <= Len(w), NEW n, n = Survivors(f), NEW k \in 0..n, NEW h,
         h.rotated = Moved(f.rotated, g, n, k), h.current = f.current, h.keeps = f.keeps
  PROVE  Cuts(h, w, n, Gap(g, n - k), cut)
<1>0. Bounds(w, N, cut) /\ Held(f, w, N, g, cut) /\ Trim(f, w, N, cut) /\ Allowed(f, N, g)
  BY DEF Cuts
<1>1. PICK K : K = Kept(f.keep)
  OBVIOUS
<1>2. n \in 0..N /\ n + 1 <= K /\ (n = N \/ n + 1 = K) /\ K \in f.keeps /\ K \in Nat
  BY <1>0, <1>1, SurvivorsAre
<1>3. PICK r, v : r = f.rotated /\ v = Gap(g, n - k)
  OBVIOUS
<1>4. /\ DOMAIN h.rotated = Numbers(n, v) /\ v \in 1..(n + 1)
      /\ \A i \in 1..n : h.rotated[Spot(v, i)] = r[Spot(g, i)]
  <2>1. g \in Nat \ {0} /\ n \in Nat
    BY <1>2
  <2>2. PICK p : p = Moved(r, g, n, k)
    OBVIOUS
  <2>3. /\ DOMAIN p = Numbers(n, v) /\ v \in 1..(n + 1)
        /\ \A i \in 1..n : p[Spot(v, i)] = r[Spot(g, i)]
    BY <1>3, <2>1, <2>2, MovedFiles
  <2> QED BY <1>3, <2>2, <2>3
<1>5. Bounds(w, n, cut)
  <2>1. \A i \in 0..n : i \in 0..N
    BY <1>2
  <2>2. \A i \in 1..n : i \in 1..N
    BY <1>2
  <2>3. \A i \in 0..n : cut[i] \in Nat /\ cut[i] <= Len(w)
    BY <1>0, <2>1 DEF Bounds
  <2>4. \A i \in 1..n : cut[i] + FileSize <= cut[i - 1]
    BY <1>0, <2>2 DEF Bounds
  <2> QED BY <2>3, <2>4 DEF Bounds
<1>6. Held(h, w, n, v, cut)
  <2>1. ASSUME NEW i \in 1..n PROVE h.rotated[Spot(v, i)] = Piece(w, cut[i], cut[i - 1])
    <3>1. i \in 1..N
      BY <1>2
    <3>2. r[Spot(g, i)] = Piece(w, cut[i], cut[i - 1])
      BY <1>0, <1>3, <3>1 DEF Held
    <3> QED BY <1>4, <3>2
  <2>2. h.current = Piece(w, cut[0], Len(w))
    BY <1>0 DEF Held
  <2> QED BY <1>4, <2>1, <2>2 DEF Held
<1>7. Trim(h, w, n, cut)
  <2>1. Len(w) \in Nat
    OBVIOUS
  <2>2. cut[n] = 0 \/ \E j \in f.keeps : cut[n] + j * FileSize <= Len(w)
    BY <1>0, <1>2, <2>1, TrimAgain
  <2> QED BY <2>2 DEF Trim
<1>8. Allowed(h, n, v)
  <2>1. ASSUME NEW m \in Numbers(n, v) PROVE m <= K
    BY <1>2 DEF Numbers
  <2> QED BY <1>2, <2>1 DEF Allowed
<1> QED BY <1>3, <1>5, <1>6, <1>7, <1>8 DEF Cuts

\* The end of a rotation.
Renewed(h, f, r) ==
  /\ h.rotated = [m \in DOMAIN r \cup {1} |-> IF m = 1 THEN f.current ELSE r[m]]
  /\ h.current = <<>> /\ h.keeps = f.keeps
Cutting(d, w, n, cut) == d = [i \in 0..(n + 1) |-> IF i = 0 THEN Len(w) ELSE cut[i - 1]]

LEMMA CutsShelve ==
  ASSUME NEW S, NEW w \in Seq(S), NEW N \in Nat, NEW g \in 1..(N + 1), NEW cut, NEW f,
         Cuts(f, w, N, g, cut), f.keeps \subseteq Nat \ {0}, Kept(f.keep) \in f.keeps,
         cut[0] + FileSize <= Len(w), NEW n, n = Survivors(f), NEW h, NEW r,
         r = Moved(f.rotated, g, n, n), Renewed(h, f, r), NEW d, Cutting(d, w, n, cut)
  PROVE  Cuts(h, w, n + 1, n + 2, d)
<1>0. Bounds(w, N, cut) /\ Held(f, w, N, g, cut) /\ Trim(f, w, N, cut) /\ Allowed(f, N, g)
  BY DEF Cuts
<1>1. PICK K : K = Kept(f.keep)
  OBVIOUS
<1>2. n \in 0..N /\ n + 1 <= K /\ (n = N \/ n + 1 = K) /\ K \in f.keeps /\ K \in Nat
  BY <1>0, <1>1, SurvivorsAre
<1>3. /\ d = [i \in 0..(n + 1) |-> IF i = 0 THEN Len(w) ELSE cut[i - 1]]
      /\ h.rotated = [m \in DOMAIN r \cup {1} |-> IF m = 1 THEN f.current ELSE r[m]]
      /\ h.current = <<>> /\ h.keeps = f.keeps
  BY DEF Cutting, Renewed
<1>4. /\ DOMAIN r = Numbers(n, 1) /\ \A i \in 1..n : r[Spot(1, i)] = f.rotated[Spot(g, i)]
  <2>1. n - n = 0 /\ Gap(g, 0) = 1 /\ n \in 0..n
    BY <1>2 DEF Gap
  <2>2. /\ DOMAIN r = Numbers(n, Gap(g, n - n))
        /\ \A i \in 1..n : r[Spot(Gap(g, n - n), i)] = f.rotated[Spot(g, i)]
    <3>1. g \in Nat \ {0} /\ n \in Nat
      BY <1>2
    <3>2. PICK q : q = f.rotated
      OBVIOUS
    <3>3. r = Moved(q, g, n, n)
      BY <3>2
    <3> QED BY <2>1, <3>1, <3>2, <3>3, MovedFiles
  <2> QED BY <2>1, <2>2
<1>5. DOMAIN h.rotated = Numbers(n + 1, n + 2) /\ n + 2 \in 1..((n + 1) + 1) /\ n + 1 \in Nat
  <2>1. Numbers(n, 1) \cup {1} = Numbers(n + 1, n + 2)
    BY <1>2 DEF Numbers
  <2> QED BY <1>2, <1>3, <1>4, <2>1
<1>6. d[0] = Len(w) /\ \A i \in 1..(n + 1) : d[i] = cut[i - 1]
  BY <1>2, <1>3
<1>7. ASSUME NEW i \in 0..n PROVE cut[i] \in Nat /\ cut[i] <= Len(w) /\ Len(w) \in Nat
  <2>1. i \in 0..N
    BY <1>2
  <2> QED BY <1>0, <2>1 DEF Bounds
<1>8. Bounds(w, n + 1, d)
  <2>1. ASSUME NEW i \in 0..(n + 1) PROVE d[i] \in Nat /\ d[i] <= Len(w)
    <3>1. CASE i = 0
      BY <1>6, <3>1
    <3>2. CASE i # 0
      <4>1. i - 1 \in 0..n /\ i \in 1..(n + 1)
        BY <1>2, <3>2
      <4> QED BY <1>6, <1>7, <4>1
    <3> QED BY <3>1, <3>2
  <2>2. ASSUME NEW i \in 1..(n + 1) PROVE d[i] + FileSize <= d[i - 1]
    <3>1. CASE i = 1
      BY <1>6, <3>1
    <3>2. CASE i # 1
      <4>1. i - 1 \in 1..N /\ i - 1 \in 1..(n + 1)
        BY <1>2, <3>2
      <4>2. cut[i - 1] + FileSize <= cut[(i - 1) - 1]
        BY <1>0, <4>1 DEF Bounds
      <4> QED BY <1>6, <4>1, <4>2
    <3> QED BY <3>1, <3>2
  <2> QED BY <2>1, <2>2 DEF Bounds
<1>9. Held(h, w, n + 1, n + 2, d)
  <2>1. ASSUME NEW i \in 1..(n + 1)
        PROVE  h.rotated[Spot(n + 2, i)] = Piece(w, d[i], d[i - 1])
    <3>1. Spot(n + 2, i) = i /\ i \in DOMAIN r \cup {1}
      BY <1>2, <1>4 DEF Spot, Numbers
    <3>2. CASE i = 1
      <4>1. f.current = Piece(w, cut[0], Len(w))
        BY <1>0 DEF Held
      <4>2. d[1] = cut[0] /\ 1 - 1 = 0
        BY <1>2, <1>6
      <4> QED BY <1>3, <1>6, <3>1, <3>2, <4>1, <4>2
    <3>3. CASE i # 1
      <4>1. PICK j : j = i - 1
        OBVIOUS
      <4>2. j \in 1..n /\ j \in 1..N /\ Spot(1, j) = i /\ j \in 1..(n + 1)
        BY <1>2, <3>3, <4>1 DEF Spot
      <4>3. r[Spot(1, j)] = f.rotated[Spot(g, j)]
        BY <1>4, <4>2
      <4>4. f.rotated[Spot(g, j)] = Piece(w, cut[j], cut[j - 1])
        BY <1>0, <4>2 DEF Held
      <4>5. d[i] = cut[j] /\ d[i - 1] = cut[j - 1]
        BY <1>6, <4>1, <4>2
      <4>6. h.rotated[i] = r[i]
        BY <1>3, <3>1, <3>3
      <4> QED BY <3>1, <4>2, <4>3, <4>4, <4>5, <4>6
    <3> QED BY <3>2, <3>3
  <2>2. h.current = Piece(w, d[0], Len(w))
    <3>1. PICK a \in Nat : a = Len(w)
      OBVIOUS
    <3>2. Piece(w, a, a) = <<>>
      BY PieceNone
    <3> QED BY <1>3, <1>6, <3>1, <3>2
  <2> QED BY <1>5, <2>1, <2>2 DEF Held
<1>10. Trim(h, w, n + 1, d)
  <2>1. Len(w) \in Nat
    OBVIOUS
  <2>2. cut[n] = 0 \/ \E j \in f.keeps : cut[n] + j * FileSize <= Len(w)
    BY <1>0, <1>2, <2>1, TrimAgain
  <2>3. d[n + 1] = cut[n]
    <3>1. n + 1 \in 1..(n + 1) /\ (n + 1) - 1 = n
      BY <1>2
    <3> QED BY <1>6, <3>1
  <2> QED BY <1>3, <2>2, <2>3 DEF Trim
<1>11. Allowed(h, n + 1, n + 2)
  <2>1. ASSUME NEW m \in Numbers(n + 1, n + 2) PROVE m <= K
    BY <1>2 DEF Numbers
  <2> QED BY <1>2, <1>3, <2>1 DEF Allowed
<1> QED BY <1>8, <1>9, <1>10, <1>11 DEF Cuts

IsFile(f) == f = [open |-> f.open, keep |-> f.keep, keeps |-> f.keeps, torn |-> f.torn,
                  current |-> f.current, rotated |-> f.rotated]
Whole(f, w) == IsFile(f) /\ FileOK(f, w)

LEMMA WithFields ==
  ASSUME NEW f, IsFile(f), NEW x
  PROVE  /\ IsFile([f EXCEPT !.rotated = x]) /\ [f EXCEPT !.rotated = x].rotated = x
         /\ [f EXCEPT !.rotated = x].current = f.current /\ [f EXCEPT !.rotated = x].keeps = f.keeps
         /\ [f EXCEPT !.rotated = x].keep = f.keep /\ [f EXCEPT !.rotated = x].open = f.open
         /\ [f EXCEPT !.rotated = x].torn = f.torn
<1>1. PICK a, b, c, d, e, t : /\ t = f.torn /\ a = f.open /\ b = f.keep /\ c = f.keeps /\ d = f.current /\ e = f.rotated
  OBVIOUS
<1>2. f = [open |-> a, keep |-> b, keeps |-> c, torn |-> t, current |-> d, rotated |-> e]
  BY <1>1 DEF IsFile
<1>3. [f EXCEPT !.rotated = x] = [open |-> a, keep |-> b, keeps |-> c, torn |-> t, current |-> d, rotated |-> x]
  BY <1>2
<1> QED BY <1>1, <1>3 DEF IsFile

LEMMA WithCurrent ==
  ASSUME NEW f, IsFile(f), NEW x
  PROVE  /\ IsFile([f EXCEPT !.current = x]) /\ [f EXCEPT !.current = x].rotated = f.rotated
         /\ [f EXCEPT !.current = x].current = x /\ [f EXCEPT !.current = x].keeps = f.keeps
         /\ [f EXCEPT !.current = x].keep = f.keep /\ [f EXCEPT !.current = x].open = f.open
         /\ [f EXCEPT !.current = x].torn = f.torn
<1>1. PICK a, b, c, d, e, t : /\ t = f.torn /\ a = f.open /\ b = f.keep /\ c = f.keeps /\ d = f.current /\ e = f.rotated
  OBVIOUS
<1>2. f = [open |-> a, keep |-> b, keeps |-> c, torn |-> t, current |-> d, rotated |-> e]
  BY <1>1 DEF IsFile
<1>3. [f EXCEPT !.current = x] = [open |-> a, keep |-> b, keeps |-> c, torn |-> t, current |-> x, rotated |-> e]
  BY <1>2
<1> QED BY <1>1, <1>3 DEF IsFile

LEMMA WithOpen ==
  ASSUME NEW f, IsFile(f), NEW x
  PROVE  /\ IsFile([f EXCEPT !.open = x]) /\ [f EXCEPT !.open = x].rotated = f.rotated
         /\ [f EXCEPT !.open = x].current = f.current /\ [f EXCEPT !.open = x].keeps = f.keeps
         /\ [f EXCEPT !.open = x].keep = f.keep /\ [f EXCEPT !.open = x].open = x
         /\ [f EXCEPT !.open = x].torn = f.torn
<1>1. PICK a, b, c, d, e, t : /\ t = f.torn /\ a = f.open /\ b = f.keep /\ c = f.keeps /\ d = f.current /\ e = f.rotated
  OBVIOUS
<1>2. f = [open |-> a, keep |-> b, keeps |-> c, torn |-> t, current |-> d, rotated |-> e]
  BY <1>1 DEF IsFile
<1>3. [f EXCEPT !.open = x] = [open |-> x, keep |-> b, keeps |-> c, torn |-> t, current |-> d, rotated |-> e]
  BY <1>2
<1> QED BY <1>1, <1>3 DEF IsFile

\* The file of a log is closed, for whatever reason.
LEMMA Closed ==
  ASSUME NEW f, NEW w, Whole(f, w)
  PROVE  Whole([f EXCEPT !.open = FALSE], w)
<1>1. PICK h : h = [f EXCEPT !.open = FALSE]
  OBVIOUS
<1>2. IsFile(h) /\ h.rotated = f.rotated /\ h.current = f.current /\ h.keeps = f.keeps /\ h.open = FALSE
  BY <1>1, WithOpen DEF Whole
<1>3. PICK N, g, cut : N \in Nat /\ g \in 1..(N + 1) /\ Cuts(f, w, N, g, cut)
  BY DEF Whole, FileOK
<1>4. Cuts(h, w, N, g, cut)
  BY <1>2, <1>3, CutsOfSame
<1>5. h.keeps \subseteq Nat \ {0}
  BY <1>2 DEF Whole, FileOK
<1> QED BY <1>1, <1>2, <1>3, <1>4, <1>5 DEF Whole, FileOK

\* ... and opened at the next start.
LEMMA Reopened ==
  ASSUME NEW s, NEW w, Whole(log[s], w), NEW h \in Opened(s)
  PROVE  Whole(h, w)
<1>1. PICK f : f = log[s]
  OBVIOUS
<1>2. PICK k \in Keeps : h = [f EXCEPT !.open = TRUE, !.keep = k, !.keeps = @ \cup {Kept(k)}]
  BY <1>1 DEF Opened
<1>3. PICK a, b, c, d, e, t : /\ t = f.torn /\ a = f.open /\ b = f.keep /\ c = f.keeps /\ d = f.current /\ e = f.rotated
  OBVIOUS
<1>4. f = [open |-> a, keep |-> b, keeps |-> c, torn |-> t, current |-> d, rotated |-> e]
  BY <1>1, <1>3 DEF Whole, IsFile
<1>5. PICK K : K = Kept(k)
  OBVIOUS
<1>6. h = [open |-> TRUE, keep |-> k, keeps |-> c \cup {K}, torn |-> t, current |-> d, rotated |-> e]
  BY <1>2, <1>4, <1>5
<1>7. IsFile(h) /\ h.rotated = f.rotated /\ h.current = f.current /\ h.keeps = f.keeps \cup {K} /\ h.keep = k
  BY <1>3, <1>6 DEF IsFile
<1>8. PICK N, g, cut : N \in Nat /\ g \in 1..(N + 1) /\ Cuts(f, w, N, g, cut)
  BY <1>1 DEF Whole, FileOK
<1>9. Cuts(h, w, N, g, cut)
  BY <1>7, <1>8, CutsOfSame
<1>10. K \in Nat \ {0}
  <2>1. k \in Int
    BY EventsAssumption
  <2> QED BY <1>5, <2>1 DEF Kept
<1>11. h.keeps \subseteq Nat \ {0} /\ Kept(h.keep) \in h.keeps
  BY <1>1, <1>5, <1>7, <1>10 DEF Whole, FileOK
<1> QED BY <1>7, <1>8, <1>9, <1>11 DEF Whole, FileOK

\* A line is appended.
LEMMA Grown ==
  ASSUME NEW S, NEW w \in Seq(S), NEW e \in S, NEW f, Whole(f, w)
  PROVE  Whole(Longer(f, e), Append(w, e)) /\ Longer(f, e).open = f.open
<1>1. PICK h, x : h = Longer(f, e) /\ x = Append(f.current, e)
  OBVIOUS
<1>2. h = [f EXCEPT !.current = x]
  BY <1>1 DEF Longer
<1>3. /\ IsFile(h) /\ h.rotated = f.rotated /\ h.current = x /\ h.keeps = f.keeps
      /\ h.keep = f.keep /\ h.open = f.open
  BY <1>2, WithCurrent DEF Whole
<1>4. PICK N, g, cut : N \in Nat /\ g \in 1..(N + 1) /\ Cuts(f, w, N, g, cut)
  BY DEF Whole, FileOK
<1>5. PICK v : v = Append(w, e)
  OBVIOUS
<1>6. f.keeps \subseteq Nat /\ h.current = Append(f.current, e)
  BY <1>1, <1>3 DEF Whole, FileOK
<1>7. Cuts(h, v, N, g, cut)
  BY <1>3, <1>4, <1>5, <1>6, CutsGrow
<1>8. h.keeps \subseteq Nat \ {0} /\ (h.open => Kept(h.keep) \in h.keeps)
  BY <1>3 DEF Whole, FileOK
<1> QED BY <1>1, <1>3, <1>4, <1>5, <1>7, <1>8 DEF Whole, FileOK

\* The first k renames of a rotation.
LEMMA ShiftedIs ==
  ASSUME NEW N \in Nat, NEW g \in 1..(N + 1), NEW f, IsFile(f), DOMAIN f.rotated = Numbers(N, g),
         Survivors(f) \in 0..N, NEW k \in 0..Survivors(f)
  PROVE  Shifted(f, k) = [f EXCEPT !.rotated = Moved(f.rotated, g, Survivors(f), k)]
<1>2. PICK r, n, list : r = f.rotated /\ n = Survivors(f) /\ list = ListRotated(f.rotated)
  OBVIOUS
<1>5. Trimmed(f, Excess(f)).rotated = [m \in {list[i] : i \in 1..n} |-> r[m]]
  <2>1. Cardinality(DOMAIN r) = N
    BY <1>2, Listed
  <2>2. n \in Nat /\ Excess(f) = N - n
    BY <1>2, <2>1 DEF Excess
  <2>3. (1..n) \cup ((n + Excess(f) + 1)..N) = 1..n
    BY <2>2
  <2>4. PICK x : x = [m \in {list[i] : i \in 1..n} |-> r[m]]
    OBVIOUS
  <2>5. Trimmed(f, Excess(f)) = [f EXCEPT !.rotated = x]
    BY <1>2, <2>1, <2>3, <2>4, Zenon DEF Trimmed
  <2> QED BY <2>4, <2>5, WithFields
<1>1. Shifted(f, k) = [f EXCEPT !.rotated = Turned(r, list, n, k)[k]]
  BY <1>2, <1>5 DEF Shifted, Turned, Turn
<1>3. \A i \in 1..N : list[i] = Spot(g, i)
  BY <1>2, Listed
<1>4. Turned(r, list, n, k)[k] = Moved(r, g, n, k)
  BY <1>2, <1>3, TurnedIs
<1> QED BY <1>1, <1>2, <1>4

\* A full file is rotated: some way, or all of it.
LEMMA Rotated ==
  ASSUME NEW S, NEW w \in Seq(S), NEW f, Whole(f, w), IsFull(f), f.open
  PROVE  /\ \A k \in 0..Survivors(f) : Whole(Shifted(f, k), w)
         /\ Whole(Shelved(f), w)
<1>1. /\ IsFile(f) /\ f.keeps \subseteq Nat \ {0} /\ Kept(f.keep) \in f.keeps
  BY DEF Whole, FileOK
<1>2. PICK N, g, cut : N \in Nat /\ g \in 1..(N + 1) /\ Cuts(f, w, N, g, cut)
  BY DEF Whole, FileOK
<1>3. cut[0] + FileSize <= Len(w)
  <2>1. f.current = Piece(w, cut[0], Len(w))
    BY <1>2 DEF Cuts, Held
  <2>2. 0 \in 0..N
    BY <1>2
  <2>3. PICK a, m : a = cut[0] /\ m = Len(w)
    OBVIOUS
  <2>4. a \in Nat /\ m \in Nat /\ a <= m
    BY <1>2, <2>2, <2>3 DEF Cuts, Bounds
  <2>5. Len(Piece(w, a, m)) = m - a
    BY <2>4, PieceLen
  <2>6. Len(f.current) >= FileSize
    BY DEF IsFull
  <2>7. m - a >= FileSize
    BY <2>1, <2>3, <2>5, <2>6
  <2> QED BY <2>3, <2>4, <2>7, SizePos
<1>4. PICK n, r : n = Survivors(f) /\ r = f.rotated
  OBVIOUS
<1>5. n \in 0..N /\ DOMAIN f.rotated = Numbers(N, g) /\ n \in Nat
  <2>1. Held(f, w, N, g, cut) /\ Allowed(f, N, g)
    BY <1>2 DEF Cuts
  <2>2. n \in 0..N
    BY <1>1, <1>2, <1>4, <2>1, SurvivorsAre
  <2> QED BY <2>1, <2>2 DEF Held
<1>6. ASSUME NEW k \in 0..n
      PROVE  Shifted(f, k) = [f EXCEPT !.rotated = Moved(f.rotated, g, Survivors(f), k)]
  BY <1>1, <1>2, <1>4, <1>5, ShiftedIs
<1>7. ASSUME NEW k \in 0..n PROVE Whole(Shifted(f, k), w)
  <2>1. PICK h, x : h = Shifted(f, k) /\ x = Moved(f.rotated, g, n, k)
    OBVIOUS
  <2>2. h = [f EXCEPT !.rotated = x]
    BY <1>4, <1>6, <2>1
  <2>3. /\ IsFile(h) /\ h.rotated = x /\ h.current = f.current /\ h.keeps = f.keeps
        /\ h.keep = f.keep /\ h.open = f.open
    BY <1>1, <2>2, WithFields
  <2>4. h.rotated = Moved(f.rotated, g, n, k) /\ h.current = f.current /\ h.keeps = f.keeps
    BY <2>1, <2>3
  <2>5. Cuts(h, w, n, Gap(g, n - k), cut)
    BY <1>1, <1>2, <1>3, <1>4, <2>4, CutsMove
  <2>6. Gap(g, n - k) \in 1..(n + 1)
    BY <1>2, <1>5 DEF Gap
  <2>7. h.keeps \subseteq Nat \ {0} /\ Kept(h.keep) \in h.keeps
    BY <1>1, <2>3
  <2> QED BY <1>5, <2>1, <2>3, <2>5, <2>6, <2>7 DEF Whole, FileOK
<1>8. Whole(Shelved(f), w)
  <2>1. PICK x : x = Moved(f.rotated, g, n, n)
    OBVIOUS
  <2>2. PICK q : q = Shifted(f, n)
    OBVIOUS
  <2>3. q = [f EXCEPT !.rotated = x]
    BY <1>4, <1>5, <1>6, <2>1, <2>2
  <2>4. /\ IsFile(q) /\ q.rotated = x /\ q.current = f.current /\ q.keeps = f.keeps
        /\ q.keep = f.keep /\ q.open = f.open
    BY <1>1, <2>3, WithFields
  <2>5. PICK y : y = [m \in DOMAIN x \cup {1} |-> IF m = 1 THEN f.current ELSE x[m]]
    OBVIOUS
  <2>6. PICK p : p = [q EXCEPT !.rotated = y]
    OBVIOUS
  <2>7. PICK h : h = [p EXCEPT !.current = <<>>]
    OBVIOUS
  <2>8. Shelved(f) = h
    <3>1. Shelved(f) = [q EXCEPT !.rotated = y, !.current = <<>>]
      BY <1>4, <2>2, <2>4, <2>5 DEF Shelved
    <3> QED BY <2>6, <2>7, <3>1
  <2>9. /\ IsFile(p) /\ p.rotated = y /\ p.keeps = f.keeps /\ p.keep = f.keep /\ p.open = f.open
    <3>1. IsFile(q)
      BY <2>4
    <3>2. IsFile(p) /\ p.rotated = y
      BY <2>6, <3>1, WithFields
    <3>3. p.keeps = q.keeps /\ p.keep = q.keep /\ p.open = q.open
      BY <2>6, <3>1, WithFields
    <3> QED BY <2>4, <3>2, <3>3
  <2>10. /\ IsFile(h) /\ h.rotated = y /\ h.current = <<>> /\ h.keeps = f.keeps
         /\ h.keep = f.keep /\ h.open = f.open
    BY <2>7, <2>9, WithCurrent
  <2>11. PICK d : Cutting(d, w, n, cut)
    BY DEF Cutting
  <2>12. Renewed(h, f, x)
    BY <2>5, <2>10 DEF Renewed
  <2>13. Cuts(h, w, n + 1, n + 2, d)
    BY <1>1, <1>2, <1>3, <1>4, <2>1, <2>11, <2>12, CutsShelve
  <2>14. n + 1 \in Nat /\ n + 2 \in 1..((n + 1) + 1)
    BY <1>5
  <2>15. h.keeps \subseteq Nat \ {0} /\ Kept(h.keep) \in h.keeps
    BY <1>1, <2>10
  <2> QED BY <2>8, <2>10, <2>13, <2>14, <2>15 DEF Whole, FileOK
<1> QED BY <1>4, <1>7, <1>8

\* What is left of a rotation that fails or is killed.
TornOff(f, h) ==
  \E d \in 1..(Excess(f) - 1) : h = [Trimmed(f, d) EXCEPT !.open = FALSE, !.torn = TRUE]

LEMMA Interrupted ==
  ASSUME NEW S, NEW w \in Seq(S), NEW f, Whole(f, w), IsFull(f), f.open,
         NEW h \in Stuck(f) \cup Cut(f)
  PROVE  h.torn \/ Whole(h, w)
<1>0. CASE TornOff(f, h)
  <2>1. PICK d : h = [Trimmed(f, d) EXCEPT !.open = FALSE, !.torn = TRUE]
    BY <1>0 DEF TornOff
  <2>2. PICK x : Trimmed(f, d) = [f EXCEPT !.rotated = x]
    BY DEF Trimmed
  <2>4. IsFile([f EXCEPT !.rotated = x])
    BY WithFields DEF Whole
  <2>3. IsFile(Trimmed(f, d))
    BY <2>2, <2>4, Zenon
  <2> QED BY <2>1, <2>3 DEF IsFile
<1> SUFFICES ASSUME ~TornOff(f, h) PROVE Whole(h, w)
  BY <1>0
<1>1. PICK g : /\ h = [g EXCEPT !.open = FALSE]
               /\ \/ g \in {f, Shelved(f), Shifted(f, Survivors(f))}
                  \/ \E k \in 0..Survivors(f) : g = Shifted(f, k)
  BY DEF Stuck, Cut, TornOff
<1>2. Survivors(f) \in 0..Survivors(f)
  <2>1. f.keeps \subseteq Nat \ {0} /\ Kept(f.keep) \in f.keeps
    BY DEF Whole, FileOK
  <2>2. PICK N, c, cut : N \in Nat /\ c \in 1..(N + 1) /\ Cuts(f, w, N, c, cut)
    BY DEF Whole, FileOK
  <2>3. Held(f, w, N, c, cut) /\ Allowed(f, N, c)
    BY <2>2 DEF Cuts
  <2>4. Survivors(f) \in 0..N
    BY <2>1, <2>2, <2>3, SurvivorsAre
  <2>5. PICK n : n = Survivors(f)
    OBVIOUS
  <2>6. n \in Nat
    BY <2>2, <2>4, <2>5
  <2> QED BY <2>5, <2>6
<1>3. Whole(g, w)
  BY <1>1, <1>2, Rotated
<1> QED BY <1>1, <1>3, Closed

\* A log that a kill between two removals tore keeps that mark.
LogOK(f, w) == IsFile(f) /\ (f.torn \/ Whole(f, w))

LEMMA ShapeKept ==
  ASSUME NEW f, IsFile(f), NEW k
  PROVE  /\ IsFile(Shifted(f, k)) /\ Shifted(f, k).torn = f.torn
         /\ IsFile(Shelved(f)) /\ Shelved(f).torn = f.torn
<1>1. ASSUME NEW l PROVE IsFile(Shifted(f, l)) /\ Shifted(f, l).torn = f.torn
  <2>1. PICK x : Shifted(f, l) = [f EXCEPT !.rotated = x]
    BY DEF Shifted
  <2> QED BY <2>1, WithFields
<1>2. PICK g : g = Shifted(f, Survivors(f))
  OBVIOUS
<1>3. IsFile(g) /\ g.torn = f.torn
  BY <1>1, <1>2
<1>4. PICK x : Shelved(f) = [g EXCEPT !.rotated = x, !.current = <<>>]
  BY <1>2 DEF Shelved
<1>5. PICK h : h = [g EXCEPT !.rotated = x]
  OBVIOUS
<1>6. IsFile(h) /\ h.torn = g.torn
  BY <1>3, <1>5, WithFields
<1>7. Shelved(f) = [h EXCEPT !.current = <<>>]
  BY <1>4, <1>5
<1>8. IsFile(Shelved(f)) /\ Shelved(f).torn = h.torn
  BY <1>6, <1>7, WithCurrent
<1> QED BY <1>1, <1>3, <1>6, <1>8

\* What a start, a write, a rotation and a kill make of a log, torn or not.
LEMMA ClosedOK ==
  ASSUME NEW f, NEW w, LogOK(f, w)
  PROVE  LogOK([f EXCEPT !.open = FALSE], w)
<1>1. IsFile([f EXCEPT !.open = FALSE]) /\ [f EXCEPT !.open = FALSE].torn = f.torn
  BY WithOpen DEF LogOK
<1>2. CASE f.torn
  BY <1>1, <1>2 DEF LogOK
<1>3. CASE Whole(f, w)
  BY <1>1, <1>3, Closed DEF LogOK
<1> QED BY <1>2, <1>3 DEF LogOK

LEMMA ReopenedOK ==
  ASSUME NEW s, NEW w, LogOK(log[s], w), NEW h \in Opened(s)
  PROVE  LogOK(h, w)
<1>9. PICK f : f = log[s]
  OBVIOUS
<1>1. PICK k \in Keeps : h = [f EXCEPT !.open = TRUE, !.keep = k, !.keeps = @ \cup {Kept(k)}]
  BY <1>9 DEF Opened
<1>2. PICK a, b, c, d, e, t : /\ t = f.torn /\ a = f.open /\ b = f.keep /\ c = f.keeps /\ d = f.current /\ e = f.rotated
  OBVIOUS
<1>3. f = [open |-> a, keep |-> b, keeps |-> c, torn |-> t, current |-> d, rotated |-> e]
  BY <1>2, <1>9 DEF LogOK, IsFile
<1>8. PICK K : K = Kept(k)
  OBVIOUS
<1>4. h = [open |-> TRUE, keep |-> k, keeps |-> c \cup {K}, torn |-> t, current |-> d, rotated |-> e]
  BY <1>1, <1>3, <1>8
<1>5. IsFile(h) /\ h.torn = f.torn
  BY <1>2, <1>4 DEF IsFile
<1>6. CASE f.torn
  BY <1>5, <1>6 DEF LogOK
<1>7. CASE Whole(f, w)
  BY <1>5, <1>7, <1>9, Reopened DEF LogOK
<1> QED BY <1>6, <1>7, <1>9 DEF LogOK

LEMMA GrownOK ==
  ASSUME NEW S, NEW w \in Seq(S), NEW e \in S, NEW f, LogOK(f, w)
  PROVE  LogOK(Longer(f, e), Append(w, e)) /\ Longer(f, e).open = f.open
<1>1. PICK h, x : h = Longer(f, e) /\ x = Append(f.current, e)
  OBVIOUS
<1>2. h = [f EXCEPT !.current = x]
  BY <1>1 DEF Longer
<1>3. IsFile(h) /\ h.torn = f.torn /\ h.open = f.open
  BY <1>2, WithCurrent DEF LogOK
<1>4. CASE f.torn
  BY <1>1, <1>3, <1>4 DEF LogOK
<1>5. CASE Whole(f, w)
  BY <1>1, <1>3, <1>5, Grown DEF LogOK
<1> QED BY <1>4, <1>5 DEF LogOK

LEMMA RotatedOK ==
  ASSUME NEW S, NEW w \in Seq(S), NEW f, LogOK(f, w), IsFull(f), f.open
  PROVE  LogOK(Shelved(f), w)
<1>1. IsFile(Shelved(f)) /\ Shelved(f).torn = f.torn
  BY ShapeKept DEF LogOK
<1>2. CASE f.torn
  BY <1>1, <1>2 DEF LogOK
<1>3. CASE Whole(f, w)
  BY <1>1, <1>3, Rotated DEF LogOK
<1> QED BY <1>2, <1>3 DEF LogOK

LEMMA InterruptedOK ==
  ASSUME NEW S, NEW w \in Seq(S), NEW f, LogOK(f, w), IsFull(f), f.open,
         NEW h \in Stuck(f) \cup Cut(f)
  PROVE  LogOK(h, w)
<1>1. IsFile(h) /\ (f.torn => h.torn)
  <2>1. ASSUME NEW g, IsFile(g), g.torn = f.torn, h = [g EXCEPT !.open = FALSE]
        PROVE  IsFile(h) /\ h.torn = f.torn
    BY <2>1, WithOpen
  <2>2. ASSUME NEW d, h = [Trimmed(f, d) EXCEPT !.open = FALSE, !.torn = TRUE]
        PROVE  IsFile(h) /\ h.torn
    <3>1. PICK x : Trimmed(f, d) = [f EXCEPT !.rotated = x]
      BY DEF Trimmed
    <3>7. IsFile([f EXCEPT !.rotated = x])
      BY WithFields DEF LogOK
    <3>2. IsFile(Trimmed(f, d))
      BY <3>1, <3>7, Zenon
    <3>3. PICK g : g = Trimmed(f, d)
      OBVIOUS
    <3>8. h = [g EXCEPT !.open = FALSE, !.torn = TRUE]
      BY <2>2, <3>3, Zenon
    <3>4. PICK a, b, c, i, e, t : /\ t = g.torn /\ a = g.open /\ b = g.keep /\ c = g.keeps /\ i = g.current /\ e = g.rotated
      OBVIOUS
    <3>5. g = [open |-> a, keep |-> b, keeps |-> c, torn |-> t, current |-> i, rotated |-> e]
      BY <3>2, <3>3, <3>4 DEF IsFile
    <3>6. h = [open |-> FALSE, keep |-> b, keeps |-> c, torn |-> TRUE, current |-> i, rotated |-> e]
      BY <3>5, <3>8
    <3> QED BY <3>6 DEF IsFile
  <2>3. \A k : /\ IsFile(Shifted(f, k)) /\ Shifted(f, k).torn = f.torn
               /\ IsFile(Shelved(f)) /\ Shelved(f).torn = f.torn
    BY ShapeKept DEF LogOK
  <2> QED BY <2>1, <2>2, <2>3 DEF Stuck, Cut, LogOK
<1>2. CASE f.torn
  BY <1>1, <1>2 DEF LogOK
<1>3. CASE Whole(f, w)
  BY <1>1, <1>3, Interrupted DEF LogOK
<1> QED BY <1>2, <1>3 DEF LogOK

\* Every log has its six fields, and files that hold the end of its lines.
LogInv == log = [s \in Logs |-> log[s]] /\ \A s \in Logs : LogOK(log[s], written[s])

LEMMA InitLog == Init => LogInv
<1> SUFFICES ASSUME Init PROVE LogInv
  OBVIOUS
<1>1. ASSUME NEW s \in Logs PROVE LogOK(log[s], written[s])
  <2>1. PICK f, w : f = log[s] /\ w = written[s]
    OBVIOUS
  <2>2. f = [open |-> FALSE, keep |-> 0, keeps |-> {}, torn |-> FALSE,
            current |-> <<>>, rotated |-> <<>>] /\ w = <<>>
    BY <2>1 DEF Init, NoFiles
  <2>3. /\ IsFile(f) /\ f.open = FALSE /\ f.keeps = {} /\ f.current = <<>> /\ f.rotated = <<>>
        /\ Len(w) = 0
    BY <2>2 DEF IsFile
  <2>4. PICK cut : cut = [i \in {0} |-> 0]
    OBVIOUS
  <2>5. cut[0] = 0 /\ 1..0 = {} /\ Numbers(0, 1) = {} /\ 0..0 = {0}
    BY <2>4 DEF Numbers
  <2>6. Bounds(w, 0, cut)
    BY <2>3, <2>5 DEF Bounds
  <2>7. Held(f, w, 0, 1, cut)
    <3>1. DOMAIN f.rotated = Numbers(0, 1)
      BY <2>3, <2>5
    <3>2. Piece(w, 0, 0) = <<>>
      BY PieceNone
    <3> QED BY <2>3, <2>5, <3>1, <3>2 DEF Held
  <2>8. Cuts(f, w, 0, 1, cut)
    BY <2>5, <2>6, <2>7 DEF Cuts, Trim, Allowed
  <2>9. 0 \in Nat /\ 1 \in 1..(0 + 1)
    OBVIOUS
  <2> QED BY <2>1, <2>3, <2>8, <2>9 DEF LogOK, Whole, FileOK
<1>2. log = [s \in Logs |-> log[s]]
  BY DEF Init
<1> QED BY <1>1, <1>2 DEF LogInv

\* One log changes.
LEMMA OneLog ==
  ASSUME LogInv, NEW s \in Logs, NEW f, log' = [log EXCEPT ![s] = f], LogOK(f, written'[s]),
         \A t \in Logs : t # s => written'[t] = written[t]
  PROVE  LogInv'
<1>1. log' = [t \in Logs |-> IF t = s THEN f ELSE log[t]]
  BY DEF LogInv
<1>2. log'[s] = f /\ \A t \in Logs : t # s => log'[t] = log[t]
  BY <1>1
<1>3. log' = [t \in Logs |-> log'[t]]
  BY <1>1
<1>4. ASSUME NEW t \in Logs PROVE LogOK(log'[t], written'[t])
  <2>1. CASE t = s
    BY <1>2, <2>1
  <2>2. CASE t # s
    <3>1. log'[t] = log[t] /\ written'[t] = written[t] /\ LogOK(log[t], written[t])
      BY <1>2, <2>2 DEF LogInv
    <3> QED BY <3>1
  <2> QED BY <2>1, <2>2
<1> QED BY <1>3, <1>4 DEF LogInv

\* Neither a file nor what was written changes.
LEMMA LogSame == LogInv /\ UNCHANGED <<log, written>> => LogInv'
<1> SUFFICES ASSUME LogInv, UNCHANGED <<log, written>> PROVE LogInv'
  OBVIOUS
<1> QED BY DEF LogInv

\* JSONLSink.Handle.
LEMMA WriteLog ==
  ASSUME FlowInv, LogInv, NEW s \in Sinks, Write(s) PROVE LogInv'
<1>1. /\ s \in Logs /\ worker[s].at = "busy" /\ written \in [Logs -> Seq(Event)] /\ worker[s].ev \in Event
  BY DEF Write, FlowInv, TypeInv, DiskOK, WorkOK
<1>2. PICK e, w, f : e = worker[s].ev /\ w = written[s] /\ f = Longer(log[s], e)
  OBVIOUS
<1>3. w \in Seq(Event) /\ e \in Event /\ LogOK(log[s], w)
  BY <1>1, <1>2 DEF LogInv
<1>4. PICK v : v = Append(w, e)
  OBVIOUS
<1>5. v \in Seq(Event) /\ LogOK(f, v) /\ f.open = log[s].open
  BY <1>2, <1>3, <1>4, OneMore, GrownOK
<1>6. CASE /\ log[s].open /\ written' = [written EXCEPT ![s] = Append(@, e)]
           /\ log' = [log EXCEPT ![s] = IF IsFull(f) THEN Shelved(f) ELSE f]
  <2>1. written'[s] = v /\ \A t \in Logs : t # s => written'[t] = written[t]
    BY <1>1, <1>2, <1>4, <1>6
  <2>2. PICK h : h = IF IsFull(f) THEN Shelved(f) ELSE f
    OBVIOUS
  <2>3. LogOK(h, v)
    BY <1>5, <1>6, <2>2, RotatedOK
  <2>4. log' = [log EXCEPT ![s] = h]
    BY <1>6, <2>2
  <2> QED BY <1>1, <2>1, <2>3, <2>4, OneLog
<1>7. CASE /\ log[s].open /\ IsFull(f) /\ written' = [written EXCEPT ![s] = Append(@, e)]
           /\ \E g \in Stuck(f) : log' = [log EXCEPT ![s] = g]
  <2>1. written'[s] = v /\ \A t \in Logs : t # s => written'[t] = written[t]
    BY <1>1, <1>2, <1>4, <1>7
  <2>2. PICK h \in Stuck(f) : log' = [log EXCEPT ![s] = h]
    BY <1>7
  <2>3. LogOK(h, v)
    BY <1>5, <1>7, InterruptedOK
  <2> QED BY <1>1, <2>1, <2>2, <2>3, OneLog
<1>8. CASE UNCHANGED <<log, written>>
  BY <1>8, LogSame
<1> QED BY <1>2, <1>6, <1>7, <1>8 DEF Write

\* NewJSONLSink opens the file again.
LEMMA SubscribeLog ==
  ASSUME LogInv, Subscribe PROVE LogInv'
<1>1. written' = written
  BY DEF Subscribe
<1>2. PICK s : IF s \in Logs THEN \E f \in Opened(s) : log' = [log EXCEPT ![s] = f]
                             ELSE log' = log
  BY DEF Subscribe
<1>3. CASE s \in Logs
  <2>1. PICK f \in Opened(s) : log' = [log EXCEPT ![s] = f]
    BY <1>2, <1>3
  <2>2. LogOK(log[s], written[s])
    BY <1>3 DEF LogInv
  <2>3. LogOK(f, written'[s])
    BY <1>1, <2>2, ReopenedOK
  <2> QED BY <1>1, <1>3, <2>1, <2>3, OneLog
<1>4. CASE s \notin Logs
  BY <1>1, <1>2, <1>4, LogSame
<1> QED BY <1>3, <1>4

\* Close closes the file.
LEMMA JoinLog ==
  ASSUME LogInv, Join PROVE LogInv'
<1>1. written' = written
  BY DEF Join
<1>2. PICK s : log' = IF s \in Logs THEN [log EXCEPT ![s].open = FALSE] ELSE log
  BY DEF Join
<1>3. CASE s \in Logs
  <2>1. PICK f : f = [log[s] EXCEPT !.open = FALSE]
    OBVIOUS
  <2>2. log' = [log EXCEPT ![s] = f]
    BY <1>2, <1>3, <2>1
  <2>3. LogOK(log[s], written[s])
    BY <1>3 DEF LogInv
  <2>4. LogOK(f, written'[s])
    BY <1>1, <2>1, <2>3, ClosedOK
  <2> QED BY <1>1, <1>3, <2>2, <2>4, OneLog
<1>4. CASE s \notin Logs
  BY <1>1, <1>2, <1>4, LogSame
<1> QED BY <1>3, <1>4

\* The process dies between two writes, or in the middle of a rotation.
LEMMA CrashLog ==
  ASSUME LogInv, Crash PROVE LogInv'
<1>1. log' = [s \in Logs |-> [log[s] EXCEPT !.open = FALSE]] /\ written' = written
  BY DEF Crash
<1>2. ASSUME NEW s \in Logs PROVE LogOK(log'[s], written'[s])
  <2>1. log'[s] = [log[s] EXCEPT !.open = FALSE] /\ written'[s] = written[s]
    BY <1>1
  <2>2. LogOK(log[s], written[s])
    BY DEF LogInv
  <2> QED BY <2>1, <2>2, ClosedOK
<1>3. log' = [s \in Logs |-> log'[s]]
  BY <1>1
<1> QED BY <1>2, <1>3 DEF LogInv

LEMMA CrashRotatingLog ==
  ASSUME FlowInv, LogInv, NEW s \in Sinks, CrashRotating(s) PROVE LogInv'
<1>1. /\ s \in Logs /\ worker[s].at = "busy" /\ log[s].open
      /\ written \in [Logs -> Seq(Event)] /\ worker[s].ev \in Event
  BY DEF CrashRotating, FlowInv, TypeInv, DiskOK, WorkOK
<1>2. PICK e, w, f : e = worker[s].ev /\ w = written[s] /\ f = Longer(log[s], e)
  OBVIOUS
<1>3. w \in Seq(Event) /\ e \in Event /\ LogOK(log[s], w)
  BY <1>1, <1>2 DEF LogInv
<1>4. PICK v : v = Append(w, e)
  OBVIOUS
<1>5. v \in Seq(Event) /\ LogOK(f, v) /\ f.open = log[s].open
  BY <1>2, <1>3, <1>4, OneMore, GrownOK
<1>6. PICK g \in Cut(f) :
        log' = [t \in Logs |-> IF t = s THEN g ELSE [log[t] EXCEPT !.open = FALSE]]
  BY <1>2 DEF CrashRotating
<1>7. IsFull(f) /\ written' = [written EXCEPT ![s] = Append(@, e)]
  BY <1>2 DEF CrashRotating
<1>8. LogOK(g, v)
  BY <1>1, <1>5, <1>7, InterruptedOK
<1>9. ASSUME NEW t \in Logs PROVE LogOK(log'[t], written'[t])
  <2>1. CASE t = s
    <3>1. log'[t] = g /\ written'[t] = v
      BY <1>1, <1>2, <1>4, <1>6, <1>7, <2>1
    <3> QED BY <1>8, <3>1
  <2>2. CASE t # s
    <3>1. log'[t] = [log[t] EXCEPT !.open = FALSE] /\ written'[t] = written[t]
      BY <1>1, <1>6, <1>7, <2>2
    <3>2. LogOK(log[t], written[t])
      BY DEF LogInv
    <3> QED BY <3>1, <3>2, ClosedOK
  <2> QED BY <2>1, <2>2
<1>10. log' = [t \in Logs |-> log'[t]]
  BY <1>6
<1> QED BY <1>9, <1>10 DEF LogInv

LEMMA NextLog == FlowInv /\ LogInv /\ [Next]_vars => LogInv'
<1> SUFFICES ASSUME FlowInv, LogInv, [Next]_vars PROVE LogInv'
  OBVIOUS
<1>1. CASE Start \/ Serve \/ BuildFails \/ Shutdown \/ CloseInbox \/ Stop
  BY <1>1, LogSame DEF Start, Serve, BuildFails, Shutdown, CloseInbox, Stop, diskVars
<1>2. CASE Subscribe
  BY <1>2, SubscribeLog
<1>3. ASSUME NEW p \in Producers, EmitAudit(p) \/ Offer(p) \/ OfferPanics(p) PROVE LogInv'
  BY <1>3, LogSame DEF EmitAudit, Offer, OfferPanics, diskVars
<1>4. ASSUME NEW s \in Sinks, Take(s) \/ Attempt(s) PROVE LogInv'
  BY <1>4, LogSame DEF Take, Attempt, diskVars
<1>5. ASSUME NEW s \in Sinks, Write(s) \/ CrashRotating(s) PROVE LogInv'
  BY <1>5, WriteLog, CrashRotatingLog
<1>6. CASE Join \/ Crash
  BY <1>6, JoinLog, CrashLog
<1>7. CASE UNCHANGED vars
  BY <1>7, LogSame DEF vars, diskVars
<1> QED BY <1>1, <1>2, <1>3, <1>4, <1>5, <1>6, <1>7 DEF Next, Work, Closing

\* rotateLocked removes the files beyond "keep" and renames the others from the
\* oldest on, so wherever a fault or the death of the process stops it, and
\* whatever "keep" NewJSONLSink is given at a later start, the files of a log
\* are the last lines that were written, in order and without a hole: never more
\* files than some "keep" allowed, never fewer lines than the least promises.
\* That is so of every log that was never torn by a kill between two removals.
NewestKept(f, w) ==
  LET n == Cardinality(DOMAIN f.rotated) IN
  /\ IsSuffix(Lines(f, n), w)
  /\ \A m \in DOMAIN f.rotated : \E k \in f.keeps : m <= k
  /\ Lines(f, n) = w \/ \E k \in f.keeps : Len(Lines(f, n)) >= k * FileSize

THEOREM NewestAreKept ==
  Spec => [](\A s \in Logs : log[s].torn \/ NewestKept(log[s], written[s]))
<1>1. ASSUME FlowInv, LogInv, NEW s \in Logs, ~log[s].torn
      PROVE  NewestKept(log[s], written[s])
  <2>1. PICK f, w : f = log[s] /\ w = written[s]
    OBVIOUS
  <2>2. w \in Seq(Event) /\ Whole(f, w)
    BY <1>1, <2>1 DEF FlowInv, TypeInv, DiskOK, LogInv, LogOK
  <2>3. PICK N, g, cut : N \in Nat /\ g \in 1..(N + 1) /\ Cuts(f, w, N, g, cut)
    BY <2>2 DEF Whole, FileOK
  <2>4. f.keeps \subseteq Nat
    BY <2>2 DEF Whole, FileOK
  <2>5. /\ Cardinality(DOMAIN f.rotated) = N /\ IsSuffix(Lines(f, N), w)
        /\ \A n \in DOMAIN f.rotated : \E k \in f.keeps : n <= k
        /\ Lines(f, N) = w \/ \E k \in f.keeps : Len(Lines(f, N)) >= k * FileSize
    BY <2>2, <2>3, <2>4, CutsKeep
  <2> QED BY <2>1, <2>5 DEF NewestKept
<1>2. FlowInv /\ LogInv => \A s \in Logs : log[s].torn \/ NewestKept(log[s], written[s])
  BY <1>1
<1> QED BY <1>2, InitFlow, NextFlow, InitLog, NextLog, PTL DEF Spec

(***************************************************************************)
(* Then the rings: the tail of the log, a bot's log, and WHOWAS.  Whatever *)
(* their capacity, the slot an index modulo it stands for is the one that  *)
(* was written so many entries ago (Back).                                 *)
(***************************************************************************)

LEMMA ModSmall ==
  ASSUME NEW N \in Nat \ {0}, NEW a \in Nat
  PROVE  /\ a < N => a % N = a
         /\ a >= N /\ a < N + N => a % N = a - N
OBVIOUS

\* The slot that was written d writes before the last, next being the next one.
Back(next, d) == IF d < next THEN next - 1 - d ELSE next - 1 - d + Capacity

Entry(h, k) == [seq |-> k, entry |-> h[k]]
Filled(n) == IF n < Capacity THEN n ELSE Capacity

\* What the ring is after h[1], ..., h[n].
RingIs(r, h, n) ==
  /\ r.total = n /\ r.next \in Ring!Slots /\ (n < Capacity => r.next = n)
  /\ DOMAIN r.entries = Ring!Slots
  /\ \A d \in 0..Filled(n) - 1 : r.entries[Back(r.next, d)] = Entry(h, n - d)

LEMMA RingStarts ==
  ASSUME Capacity \in Nat \ {0}, NEW h
  PROVE  RingIs(Ring!NewRingBuffer, h, 0)
BY DEF RingIs, Ring!NewRingBuffer, Ring!Slots, Filled

LEMMA RingGoesOn ==
  ASSUME Capacity \in Nat \ {0}, NEW h, NEW n \in Nat, NEW r, RingIs(r, h, n)
  PROVE  RingIs(Ring!AppendEntry(r, h[n + 1]), h, n + 1)
<1>1. PICK x, t, e : x = r.next /\ t = Ring!AppendEntry(r, h[n + 1]) /\ e = r.entries
  OBVIOUS
<1>2. x \in Nat /\ x < Capacity /\ (n < Capacity => x = n) /\ r.total = n /\ DOMAIN e = Ring!Slots
  BY <1>1 DEF RingIs, Ring!Slots
<1>3. /\ t.total = n + 1 /\ t.next = (x + 1) % Capacity
      /\ t.entries = [e EXCEPT ![x] = Entry(h, n + 1)]
  BY <1>1, <1>2 DEF Ring!AppendEntry, Entry
<1>4. t.next = IF x + 1 = Capacity THEN 0 ELSE x + 1
  <2>1. PICK a : a = x + 1
    OBVIOUS
  <2>2. a \in Nat /\ a <= Capacity
    BY <1>2, <2>1
  <2>3. a % Capacity = IF a = Capacity THEN 0 ELSE a
    BY <2>2
  <2> QED BY <1>3, <2>1, <2>3
<1>5. /\ DOMAIN t.entries = Ring!Slots /\ t.entries[x] = Entry(h, n + 1)
      /\ \A s \in Ring!Slots : s # x => t.entries[s] = e[s]
  BY <1>2, <1>3 DEF Ring!Slots
<1>6. t.next \in Ring!Slots /\ (n + 1 < Capacity => t.next = n + 1)
  BY <1>2, <1>4 DEF Ring!Slots
<1>7. ASSUME NEW d \in 0..Filled(n + 1) - 1 PROVE t.entries[Back(t.next, d)] = Entry(h, n + 1 - d)
  <2>1. CASE d = 0
    <3>1. Back(t.next, d) = x
      BY <1>2, <1>4, <2>1 DEF Back
    <3> QED BY <1>5, <2>1, <3>1
  <2>2. CASE d # 0
    <3>1. PICK c : c = d - 1
      OBVIOUS
    <3>2. c \in 0..Filled(n) - 1 /\ c <= Capacity - 2 /\ d \in Nat /\ d = c + 1 /\ c \in Nat
      BY <2>2, <3>1 DEF Filled
    <3>3. Back(t.next, d) = Back(x, c) /\ Back(x, c) \in Ring!Slots /\ Back(x, c) # x
      BY <1>2, <1>4, <3>2 DEF Back, Ring!Slots
    <3>4. e[Back(x, c)] = Entry(h, n - c)
      BY <1>1, <3>2 DEF RingIs
    <3>5. n - c = n + 1 - d
      BY <3>2
    <3> QED BY <1>5, <3>3, <3>4, <3>5
  <2> QED BY <2>1, <2>2
<1>8. RingIs(t, h, n + 1)
  BY <1>3, <1>5, <1>6, <1>7 DEF RingIs
<1> QED BY <1>1, <1>8

\* The k newest of h[1], ..., h[n], oldest first.
LastOf(h, n, k) == [i \in 1..k |-> Entry(h, n - k + i)]

LEMMA SnapshotIs ==
  ASSUME Capacity \in Nat \ {0}, NEW h, NEW n \in Nat, NEW r, RingIs(r, h, n)
  PROVE  /\ Ring!Count(r) = Filled(n)
         /\ Ring!Snapshot(r) = LastOf(h, n, Filled(n))
<1>1. Ring!Count(r) = Filled(n) /\ Filled(n) \in Nat
  BY DEF RingIs, Ring!Count, Filled
<1>2. PICK x, k : x = r.next /\ k = Filled(n)
  OBVIOUS
<1>3. x \in Nat /\ x < Capacity /\ (n < Capacity => x = n) /\ r.total = n /\ k \in Nat
  BY <1>1, <1>2 DEF RingIs, Ring!Slots
<1>4. ASSUME NEW i \in 1..k
      PROVE  r.entries[(Ring!Start(r) + i - 1) % Capacity] = Entry(h, n - k + i)
  <2>1. k - i \in 0..k - 1
    BY <1>3
  <2>2. (Ring!Start(r) + i - 1) % Capacity = Back(x, k - i)
    <3>1. CASE n < Capacity
      <4>1. Ring!Start(r) + i - 1 = i - 1 /\ i - 1 \in Nat /\ i - 1 < Capacity /\ k = n
        BY <1>2, <1>3, <3>1 DEF Ring!Start, Filled
      <4>2. (i - 1) % Capacity = i - 1
        BY <4>1, ModSmall
      <4>3. Back(x, k - i) = i - 1
        BY <1>3, <3>1, <4>1 DEF Back
      <4> QED BY <4>1, <4>2, <4>3
    <3>2. CASE ~(n < Capacity)
      <4>1. k = Capacity /\ Ring!Start(r) = x
        BY <1>2, <1>3, <3>2 DEF Ring!Start, Filled
      <4>2. PICK a : a = x + i - 1
        OBVIOUS
      <4>3. a \in Nat /\ a < Capacity + Capacity
        BY <1>3, <4>1, <4>2
      <4>4. a % Capacity = IF a < Capacity THEN a ELSE a - Capacity
        BY <4>3
      <4>5. Back(x, k - i) = IF a < Capacity THEN a ELSE a - Capacity
        BY <1>3, <4>1, <4>2 DEF Back
      <4> QED BY <4>1, <4>2, <4>4, <4>5
    <3> QED BY <3>1, <3>2
  <2>3. r.entries[Back(x, k - i)] = Entry(h, n - (k - i))
    BY <1>2, <2>1 DEF RingIs
  <2>4. n - (k - i) = n - k + i
    BY <1>3
  <2> QED BY <2>2, <2>3, <2>4
<1>5. Ring!Snapshot(r) = LastOf(h, n, k)
  BY <1>1, <1>2, <1>4 DEF Ring!Snapshot, LastOf
<1> QED BY <1>1, <1>2, <1>5

\* What the history has after its first a entries.
Told(h, a, n) == [i \in 1..n - a |-> Entry(h, a + i)]

LEMMA SinceIs ==
  ASSUME Capacity \in Nat \ {0}, NEW h, NEW n \in Nat, NEW r, RingIs(r, h, n), NEW seq \in Nat
  PROVE  Ring!Since(r, seq) = Told(h, IF seq < n - Filled(n) THEN n - Filled(n) ELSE seq, n)
<1>1. PICK k, s : k = Filled(n) /\ s = Ring!Snapshot(r)
  OBVIOUS
<1>2. Ring!Count(r) = k /\ s = [i \in 1..k |-> Entry(h, n - k + i)]
  <2>1. Ring!Count(r) = Filled(n) /\ Ring!Snapshot(r) = LastOf(h, n, Filled(n))
    BY SnapshotIs, Zenon
  <2>2. s = LastOf(h, n, k)
    BY <1>1, <2>1, Zenon
  <2> QED BY <1>1, <2>1, <2>2, Zenon DEF LastOf
<1>3. k \in Nat /\ k <= n
  BY <1>1 DEF Filled
<1>4. \A i \in 1..k : s[i].seq = n - k + i
  BY <1>2 DEF Entry
<1>5. PICK newer : newer = {i \in 1..k : n - k + i > seq}
  OBVIOUS
<1> DEFINE found == {i \in 1..Ring!Count(r) : Ring!Snapshot(r)[i].seq > seq}
<1>6. found = newer
  BY <1>1, <1>2, <1>4, <1>5
<1>0. Ring!Since(r, seq) = IF found = {} THEN <<>>
                      ELSE SubSeq(Ring!Snapshot(r), CHOOSE i \in found : \A j \in found : i <= j, Ring!Count(r))
  BY Zenon DEF Ring!Since
<1> HIDE DEF found
<1>7. Ring!Since(r, seq) = IF newer = {} THEN <<>>
                      ELSE SubSeq(s, CHOOSE i \in newer : \A j \in newer : i <= j, k)
  BY <1>0, <1>1, <1>2, <1>6
<1>8. CASE seq >= n
  <2>1. newer = {}
    BY <1>3, <1>5, <1>8
  <2>2. Told(h, seq, n) = <<>>
    <3>1. 1..n - seq = {}
      BY <1>8
    <3> QED BY <3>1 DEF Told
  <2>3. ~(seq < n - k)
    BY <1>3, <1>8
  <2> QED BY <1>1, <1>7, <2>1, <2>2, <2>3
<1>9. CASE seq < n
  <2>1. PICK a : a = IF seq < n - k THEN n - k ELSE seq
    OBVIOUS
  <2>2. a \in Nat /\ a < n /\ n - k <= a /\ a + 1 - (n - k) \in 1..k
    BY <1>3, <1>9, <2>1, <1>1 DEF Filled
  <2>3. PICK f : f = a + 1 - (n - k)
    OBVIOUS
  <2>4. newer = f..k
    BY <1>3, <1>5, <1>9, <2>1, <2>2, <2>3
  <2>5. f \in newer /\ \A j \in newer : f <= j
    BY <2>2, <2>3, <2>4
  <2>6. (CHOOSE i \in newer : \A j \in newer : i <= j) = f
    <3>1. \A i \in newer : (\A j \in newer : i <= j) => i = f
      BY <1>3, <2>2, <2>3, <2>4, <2>5
    <3> QED BY <2>5, <3>1
  <2>7. Ring!Since(r, seq) = SubSeq(s, f, k)
    BY <1>7, <2>5, <2>6, Zenon
  <2>8. SubSeq(s, f, k) = [i \in 1..k - f + 1 |-> s[f + i - 1]]
    BY <1>2, <1>3, <2>2, <2>3
  <2>9. ASSUME NEW i \in 1..n - a PROVE s[f + i - 1] = Entry(h, a + i)
    <3>1. f + i - 1 \in 1..k /\ n - k + (f + i - 1) = a + i
      BY <1>3, <2>2, <2>3
    <3> QED BY <1>2, <3>1
  <2>10. k - f + 1 = n - a
    BY <1>3, <2>2, <2>3
  <2>11. SubSeq(s, f, k) = Told(h, a, n)
    BY <2>8, <2>9, <2>10 DEF Told
  <2> QED BY <1>1, <2>1, <2>7, <2>11
<1> QED BY <1>8, <1>9

\* RingBuffer.Append and Since (internal/logging), whatever the capacity: however often
\* the ring has wrapped, a reader who has seen everything up to seq gets exactly the
\* newer ones of the entries kept, in order, numbered without a gap.
THEOREM RingTellsTheRest ==
  ASSUME Capacity \in Nat \ {0}, NEW h, NEW R, R[0] = Ring!NewRingBuffer,
         \A n \in Nat : R[n + 1] = Ring!AppendEntry(R[n], h[n + 1]),
         NEW n \in Nat, NEW seq \in Nat
  PROVE  Ring!Since(R[n], seq) = Told(h, IF seq < n - Filled(n) THEN n - Filled(n) ELSE seq, n)
<1> DEFINE T == {k \in Nat : RingIs(R[k], h, k)}
<1>1. 0 \in T
  BY RingStarts
<1>2. ASSUME NEW k \in Nat, k \in T PROVE k + 1 \in T
  <2>1. PICK r : r = R[k] /\ RingIs(r, h, k)
    BY <1>2
  <2>2. RingIs(Ring!AppendEntry(r, h[k + 1]), h, k + 1)
    BY <2>1, RingGoesOn
  <2> QED BY <2>1, <2>2
<1>3. n \in T
  <2> HIDE DEF T
  <2> QED BY <1>1, <1>2, Induct
<1>4. PICK r : r = R[n] /\ RingIs(r, h, n)
  BY <1>3
<1> QED BY <1>4, SinceIs

\* What the WHOWAS buffer is after h[1], ..., h[n].
SlotOf(w, n, d) == IF n >= Capacity THEN 1 + Back(w.head, d) ELSE n - d
All(h) == {h[k] : k \in Nat}
Shape(w) == w = [entries |-> w.entries, head |-> w.head, full |-> w.full]
Lapped(w, n) == IF n >= Capacity THEN w.full = TRUE ELSE w.full = FALSE
WhowasIs(w, h, n) ==
  /\ Shape(w) /\ Lapped(w, n)
  /\ w.head \in Ring!Slots /\ (n <= Capacity => w.head = 0)
  /\ w.entries \in Seq(All(h)) /\ Len(w.entries) = Filled(n)
  /\ \A d \in 0..Filled(n) - 1 : w.entries[SlotOf(w, n, d)] = h[n - d]

LEMMA WhowasStarts ==
  ASSUME Capacity \in Nat \ {0}, NEW h
  PROVE  WhowasIs(Ring!NewWhowas, h, 0)
<1>1. Ring!NewWhowas.full = FALSE /\ Ring!NewWhowas.head = 0 /\ Ring!NewWhowas.entries = <<>>
  BY Zenon DEF Ring!NewWhowas
<1>2. Ring!NewWhowas.entries \in Seq(All(h)) /\ Len(Ring!NewWhowas.entries) = 0
  BY <1>1
<1>3. Filled(0) = 0 /\ ~(0 >= Capacity) /\ 0 \in Ring!Slots /\ 0..0 - 1 = {}
  BY DEF Filled, Ring!Slots
<1>4. Ring!NewWhowas = [entries |-> Ring!NewWhowas.entries, head |-> Ring!NewWhowas.head, full |-> Ring!NewWhowas.full]
  BY <1>1, Zenon DEF Ring!NewWhowas
<1> QED BY <1>1, <1>2, <1>3, <1>4 DEF WhowasIs, Shape, Lapped

LEMMA NewestIs ==
  ASSUME Capacity \in Nat \ {0}, NEW h, NEW n \in Nat, NEW w, WhowasIs(w, h, n),
         NEW i \in 0..Filled(n) - 1
  PROVE  Ring!Newest(w, i) = h[n - i]
<1>1. PICK x : x = w.head
  OBVIOUS
<1>2. x \in Nat /\ x < Capacity /\ i \in Nat
  BY <1>1 DEF WhowasIs, Ring!Slots
<1>3. w.entries[SlotOf(w, n, i)] = h[n - i] /\ Len(w.entries) = Filled(n)
  BY DEF WhowasIs
<1>4. CASE n >= Capacity
  <2>1. w.full = TRUE
    BY <1>4 DEF WhowasIs, Lapped
  <2>2. PICK a : a = x + Capacity - 1 - i
    OBVIOUS
  <2>3. a \in Nat /\ a < Capacity + Capacity /\ i < Capacity
    BY <1>2, <1>4, <2>2 DEF Filled
  <2>4. a % Capacity = IF a < Capacity THEN a ELSE a - Capacity
    BY <2>3
  <2>5. a % Capacity = Back(x, i)
    BY <1>2, <2>2, <2>3, <2>4 DEF Back
  <2>6. Ring!Newest(w, i) = w.entries[1 + ((w.head + Capacity - 1 - i) % Capacity)]
    BY <2>1, Zenon DEF Ring!Newest
  <2>7. SlotOf(w, n, i) = 1 + Back(x, i)
    BY <1>1, <1>4 DEF SlotOf
  <2>8. Ring!Newest(w, i) = w.entries[1 + Back(x, i)]
    BY <1>1, <2>2, <2>5, <2>6
  <2> QED BY <1>3, <2>7, <2>8
<1>5. CASE ~(n >= Capacity)
  <2>1. w.full = FALSE
    BY <1>5 DEF WhowasIs, Lapped
  <2>2. Len(w.entries) = n /\ SlotOf(w, n, i) = n - i
    BY <1>3, <1>5 DEF Filled, SlotOf
  <2>3. Ring!Newest(w, i) = w.entries[1 + (Len(w.entries) - 1 - i)]
    BY <2>1, Zenon DEF Ring!Newest
  <2>4. 1 + (n - 1 - i) = n - i
    BY <1>2
  <2> QED BY <1>3, <2>2, <2>3, <2>4
<1> QED BY <1>4, <1>5

LEMMA WhowasGoesOn ==
  ASSUME Capacity \in Nat \ {0}, NEW h, NEW n \in Nat, NEW w, WhowasIs(w, h, n),
         h[n + 1].nick # Empty
  PROVE  WhowasIs(Ring!Record(w, h[n + 1]), h, n + 1)
<1>1. PICK x, t, e, v : x = w.head /\ t = Ring!Record(w, v) /\ e = w.entries /\ v = h[n + 1]
  OBVIOUS
<1>2. x \in Nat /\ x < Capacity /\ (n <= Capacity => x = 0)
  BY <1>1 DEF WhowasIs, Ring!Slots
<1>3. e \in Seq(All(h)) /\ Len(e) = Filled(n) /\ v \in All(h) /\ v.nick # Empty
  <2>1. n + 1 \in Nat
    OBVIOUS
  <2>2. v \in All(h) /\ v.nick # Empty
    BY <1>1, <2>1 DEF All
  <2>3. e \in Seq(All(h)) /\ Len(e) = Filled(n)
    BY <1>1 DEF WhowasIs
  <2> QED BY <2>2, <2>3
<1>4. \A d \in 0..Filled(n) - 1 : e[SlotOf(w, n, d)] = h[n - d]
  BY <1>1 DEF WhowasIs
<1>5. CASE n >= Capacity
  <2>1. w = [entries |-> e, head |-> x, full |-> TRUE]
    BY <1>1, <1>5 DEF WhowasIs, Shape, Lapped
  <2>0. w.full
    BY <2>1
  <2>2. t = [w EXCEPT !.entries[w.head + 1] = v, !.head = (@ + 1) % Capacity]
    BY <1>1, <1>3, <2>0, Zenon DEF Ring!Record
  <2>3. /\ t = [entries |-> t.entries, head |-> t.head, full |-> t.full]
        /\ t.head = (x + 1) % Capacity /\ t.full = TRUE /\ t.entries = [e EXCEPT ![x + 1] = v]
    BY <2>1, <2>2
  <2>4. t.head = IF x + 1 = Capacity THEN 0 ELSE x + 1
    BY <1>2, <2>3, ModSmall
  <2>5. Filled(n) = Capacity /\ Filled(n + 1) = Capacity /\ n + 1 >= Capacity /\ ~(n + 1 <= Capacity)
    BY <1>5 DEF Filled
  <2>6. /\ t.entries \in Seq(All(h)) /\ Len(t.entries) = Capacity
        /\ t.entries[x + 1] = v /\ \A i \in 1..Capacity : i # x + 1 => t.entries[i] = e[i]
    BY <1>2, <1>3, <2>3, <2>5
  <2>7. ASSUME NEW d \in 0..Capacity - 1 PROVE t.entries[1 + Back(t.head, d)] = h[n + 1 - d]
    <3>1. CASE d = 0
      <4>1. Back(t.head, d) = x
        BY <1>2, <2>4, <3>1 DEF Back
      <4>2. n + 1 - d = n + 1 /\ 1 + x = x + 1
        BY <1>2, <3>1
      <4> QED BY <1>1, <2>6, <4>1, <4>2
    <3>2. CASE d # 0
      <4>1. PICK c : c = d - 1
        OBVIOUS
      <4>2. c \in 0..Filled(n) - 1 /\ c <= Capacity - 2 /\ d \in Nat /\ d = c + 1 /\ c \in Nat
        BY <2>5, <3>2, <4>1
      <4>3. Back(t.head, d) = Back(x, c) /\ 1 + Back(x, c) \in 1..Capacity /\ 1 + Back(x, c) # x + 1
        BY <1>2, <2>4, <4>2 DEF Back
      <4>4. e[1 + Back(x, c)] = h[n - c]
        <5>1. SlotOf(w, n, c) = 1 + Back(x, c)
          BY <1>1, <1>5 DEF SlotOf
        <5> QED BY <1>4, <4>2, <5>1
      <4>5. n - c = n + 1 - d
        BY <4>2
      <4> QED BY <2>6, <4>3, <4>4, <4>5
    <3> QED BY <3>1, <3>2
  <2>8. \A d \in 0..Filled(n + 1) - 1 : t.entries[SlotOf(t, n + 1, d)] = h[n + 1 - d]
    BY <2>5, <2>7 DEF SlotOf
  <2>9. t.head \in Ring!Slots
    BY <1>2, <2>4 DEF Ring!Slots
  <2>10. Shape(t) /\ Lapped(t, n + 1)
    BY <2>3, <2>5 DEF Shape, Lapped
  <2>11. t.head \in Ring!Slots /\ (n + 1 <= Capacity => t.head = 0)
    BY <2>5, <2>9
  <2>12. Len(t.entries) = Filled(n + 1)
    BY <2>5, <2>6
  <2>13. t.entries \in Seq(All(h))
    BY <2>6, Zenon
  <2>14. WhowasIs(t, h, n + 1)
    BY <2>8, <2>10, <2>11, <2>12, <2>13 DEF WhowasIs
  <2> QED BY <1>1, <2>14
<1>6. CASE ~(n >= Capacity)
  <2>1. w = [entries |-> e, head |-> x, full |-> FALSE]
    BY <1>1, <1>6 DEF WhowasIs, Shape, Lapped
  <2>0. ~w.full
    BY <2>1
  <2>2. t = [w EXCEPT !.entries = Append(@, v), !.full = Len(w.entries) + 1 = Capacity]
    BY <1>1, <1>3, <2>0, Zenon DEF Ring!Record
  <2>3. Len(e) = n /\ Filled(n + 1) = n + 1 /\ x = 0
    BY <1>2, <1>3, <1>6 DEF Filled
  <2>4. /\ t = [entries |-> t.entries, head |-> t.head, full |-> t.full]
        /\ t.head = x /\ t.entries = Append(e, v)
    BY <2>1, <2>2
  <2>5. t.full = (Len(e) + 1 = Capacity)
    BY <2>1, <2>2
  <2>6. IF n + 1 >= Capacity THEN t.full = TRUE ELSE t.full = FALSE
    <3>1. (Len(e) + 1 = Capacity) <=> n + 1 >= Capacity
      BY <1>6, <2>3
    <3> QED BY <2>5, <3>1, Zenon
  <2>7. /\ t.entries \in Seq(All(h)) /\ Len(t.entries) = n + 1
        /\ t.entries[n + 1] = v /\ \A i \in 1..n : t.entries[i] = e[i]
    BY <1>3, <2>3, <2>4
  <2>8. ASSUME NEW d \in 0..n PROVE t.entries[SlotOf(t, n + 1, d)] = h[n + 1 - d]
    <3>1. SlotOf(t, n + 1, d) = n + 1 - d
      BY <1>2, <1>6, <2>3, <2>4 DEF SlotOf, Back
    <3>2. CASE d = 0
      <4>1. n + 1 - d = n + 1
        BY <3>2
      <4> QED BY <1>1, <2>7, <3>1, <4>1
    <3>3. CASE d # 0
      <4>1. PICK c : c = d - 1
        OBVIOUS
      <4>2. c \in 0..Filled(n) - 1 /\ n + 1 - d \in 1..n /\ n - c = n + 1 - d
        BY <1>6, <3>3, <4>1 DEF Filled
      <4>3. e[n - c] = h[n - c]
        BY <1>4, <1>6, <4>2 DEF SlotOf
      <4> QED BY <2>7, <3>1, <4>2, <4>3
    <3> QED BY <3>2, <3>3
  <2>9. t.head \in Ring!Slots /\ (n + 1 <= Capacity => t.head = 0)
    BY <2>3, <2>4 DEF Ring!Slots
  <2>10. \A d \in 0..Filled(n + 1) - 1 : t.entries[SlotOf(t, n + 1, d)] = h[n + 1 - d]
    BY <2>3, <2>8
  <2>11. Len(t.entries) = Filled(n + 1)
    BY <2>3, <2>7
  <2>12. Shape(t) /\ Lapped(t, n + 1)
    BY <2>4, <2>6, Zenon DEF Shape, Lapped
  <2>13. t.entries \in Seq(All(h))
    BY <2>7, Zenon
  <2>14. WhowasIs(t, h, n + 1)
    BY <2>9, <2>10, <2>11, <2>12, <2>13 DEF WhowasIs
  <2> QED BY <1>1, <2>14
<1> QED BY <1>5, <1>6

\* Whowas.Record and the order Lookup reads in (internal/state), whatever the capacity:
\* the buffer holds the last entries that were recorded, and its newest first are those
\* backwards.
THEOREM WhowasHoldsTheNewest ==
  ASSUME Capacity \in Nat \ {0}, NEW h, \A k \in Nat : h[k + 1].nick # Empty,
         NEW W, W[0] = Ring!NewWhowas, \A n \in Nat : W[n + 1] = Ring!Record(W[n], h[n + 1]),
         NEW n \in Nat
  PROVE  Len(W[n].entries) = Filled(n) /\ \A i \in 0..Filled(n) - 1 : Ring!Newest(W[n], i) = h[n - i]
<1> DEFINE T == {k \in Nat : WhowasIs(W[k], h, k)}
<1>1. 0 \in T
  BY WhowasStarts
<1>2. ASSUME NEW k \in Nat, k \in T PROVE k + 1 \in T
  <2>1. PICK w : w = W[k] /\ WhowasIs(w, h, k)
    BY <1>2
  <2>2. WhowasIs(Ring!Record(w, h[k + 1]), h, k + 1)
    BY <2>1, WhowasGoesOn
  <2> QED BY <2>1, <2>2
<1>3. n \in T
  <2> HIDE DEF T
  <2> QED BY <1>1, <1>2, Induct
<1>4. PICK w : w = W[n] /\ WhowasIs(w, h, n)
  BY <1>3
<1>5. Len(w.entries) = Filled(n)
  BY <1>4 DEF WhowasIs
<1>6. \A i \in 0..Filled(n) - 1 : Ring!Newest(w, i) = h[n - i]
  BY <1>4, NewestIs
<1> QED BY <1>4, <1>5, <1>6
=============================================================================

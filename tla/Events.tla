------------------------------- MODULE Events -------------------------------
(***************************************************************************)
(* The event bus of internal/events with its two sinks, and the callers of *)
(* Server.emitAudit that feed it.                                          *)
(*                                                                         *)
(* A producer stores the audit row, copies the list of subscribers under   *)
(* the lock of the bus and then, with the lock released, offers the event  *)
(* to each inbox; a full inbox drops it.  A sink's worker takes events one *)
(* at a time: a JSONL sink appends to a file and rotates it, a webhook     *)
(* sink posts with retries and falls back on a dead-letter file.  Close    *)
(* runs when the process ends, after the connections were waited for and   *)
(* while a request of the admin API may still be under way.                *)
(*                                                                         *)
(* An event is the pair of its producer and its number.  The contents, the *)
(* signature and the time between two attempts are left out.  Faults of    *)
(* the disk and starts are bounded by MaxFaults and MaxStarts; the removal *)
(* and the rename of an old log file are taken not to fail by themselves.  *)
(***************************************************************************)
EXTENDS Integers, Sequences, FiniteSets, SequencesExt

CONSTANTS Conns,        \* producers that Server.Run waits for: connections
          Handlers,     \* producers it does not wait for: API requests
          Logs, Hooks,  \* JSONL sinks and webhook sinks
          SinkLists,    \* the enabled sinks in configuration order: the choices
          QueueSize,    \* depth of an inbox
          FileSize,     \* events after which a log file is rotated
          Keeps,        \* values "keep" of a log may have at a start
          MaxAttempts,  \* retry.max_attempts as configured
          HasDLQ,       \* whether a dead-letter file is configured
          MaxEvents,    \* bound: events of each producer
          MaxOffers,    \* bound: events times sinks
          MaxFaults,    \* bound: disk faults
          MaxStarts     \* bound: starts of the process

Producers == Conns \cup Handlers
Sinks == Logs \cup Hooks
Event == Producers \X Nat
NoEvent == <<>>

ASSUME EventsAssumption ==
  /\ Conns \cap Handlers = {} /\ Logs \cap Hooks = {}
  /\ \A l \in SinkLists : l \in Seq(Sinks) /\ IsInjective(l)
  /\ QueueSize \in Nat \ {0} /\ FileSize \in Nat \ {0}
  /\ Keeps \subseteq Int /\ MaxAttempts \in Int /\ HasDLQ \in BOOLEAN
  /\ MaxEvents \in [Producers -> Nat] /\ MaxOffers \in Nat /\ MaxFaults \in Nat /\ MaxStarts \in Nat

VARIABLES
  config,    \* the enabled sinks
  phase,     \* "building", "running", "closing", "stopped" or "dead"
  subs,      \* Bus.subscribers
  closed,    \* Bus.closed
  toClose,   \* Close: inboxes still to close
  toJoin,    \* Close: workers still to wait for
  shut,      \* sinks whose inbox channel is closed
  inbox,     \* subscriber.inbox
  worker,    \* what each sink's goroutine does
  dropped,   \* subscriber.dropped
  caller,    \* each producer: where it is in emitAudit and Publish
  sent,      \* events each producer has begun
  log,       \* each log: its files, whether one is open, "keep" (history: its past
             \* values, and whether a kill ever fell between two removals)
  received,  \* what the endpoint of each webhook was sent
  dlq,       \* the dead-letter file of each webhook
  failed,    \* events whose Handle failed and was logged
  offered,   \* history: events this process offered to each sink
  written,   \* history: all events ever appended to each log
  faults, starts

busVars == <<config, phase, subs, closed, toClose, toJoin, shut>>
queueVars == <<inbox, dropped, offered>>
callVars == <<caller, sent>>
diskVars == <<log, received, dlq, failed, written>>
bounds == <<faults, starts>>
vars == <<busVars, queueVars, callVars, worker, diskVars, bounds>>

Idle == [at |-> "idle", ev |-> NoEvent, rest |-> <<>>]
NoWork == [at |-> "none", ev |-> NoEvent, tries |-> 0]
Waiting == [NoWork EXCEPT !.at = "idle"]
Done == [NoWork EXCEPT !.at = "done"]
NoFiles == [open |-> FALSE, keep |-> 0, keeps |-> {}, torn |-> FALSE,
            current |-> <<>>, rotated |-> <<>>]

\* Nothing runs yet, and no file exists.
Init ==
  /\ config \in SinkLists
  /\ phase = "dead" /\ subs = <<>> /\ closed = FALSE
  /\ toClose = <<>> /\ toJoin = <<>> /\ shut = {}
  /\ inbox = [s \in Sinks |-> <<>>] /\ dropped = [s \in Sinks |-> 0]
  /\ offered = [s \in Sinks |-> {}]
  /\ worker = [s \in Sinks |-> NoWork]
  /\ caller = [p \in Producers |-> Idle] /\ sent = [p \in Producers |-> 0]
  /\ log = [s \in Logs |-> NoFiles] /\ written = [s \in Logs |-> <<>>]
  /\ received = [s \in Hooks |-> <<>>] /\ dlq = [s \in Hooks |-> {}]
  /\ failed = [s \in Sinks |-> {}]
  /\ faults = 0 /\ starts = 0

-----------------------------------------------------------------------------
(* Start-up: buildEventBus opens the sinks one after another. *)

\* The process starts, for the first time or again, with a new bus.
Start ==
  /\ phase = "dead" /\ starts < MaxStarts
  /\ starts' = starts + 1
  /\ phase' = "building"
  /\ UNCHANGED <<config, subs, closed, toClose, toJoin, shut, queueVars, callVars,
                 worker, diskVars, faults>>

\* How many rotated files "keep" stands for.
Kept(k) == IF k <= 0 THEN 7 ELSE k

\* NewJSONLSink: the file is opened for appending, its size read back.
Opened(s) ==
  {[log[s] EXCEPT !.open = TRUE, !.keep = k, !.keeps = @ \cup {Kept(k)}] : k \in Keeps}

\* One turn of the loop of buildEventBus: buildSink and Bus.Subscribe, which
\* lists the sink and starts its worker.
Subscribe ==
  /\ phase = "building" /\ Len(subs) < Len(config)
  /\ LET s == config[Len(subs) + 1] IN
     /\ subs' = Append(subs, s)
     /\ worker' = [worker EXCEPT ![s] = Waiting]
     /\ IF s \in Logs THEN \E f \in Opened(s) : log' = [log EXCEPT ![s] = f]
                      ELSE log' = log
  /\ UNCHANGED <<config, phase, closed, toClose, toJoin, shut, queueVars, callVars,
                 received, dlq, failed, written, bounds>>

\* The server starts to serve once every sink is subscribed.
Serve ==
  /\ phase = "building" /\ Len(subs) = Len(config)
  /\ phase' = "running"
  /\ UNCHANGED <<config, subs, closed, toClose, toJoin, shut, queueVars, callVars,
                 worker, diskVars, bounds>>

\* A sink cannot be built: the bus is closed and the process exits.
BuildFails ==
  /\ phase = "building" /\ Len(subs) < Len(config) /\ faults < MaxFaults
  /\ faults' = faults + 1
  /\ phase' = "closing" /\ closed' = TRUE
  /\ toClose' = subs /\ toJoin' = subs
  /\ UNCHANGED <<config, subs, shut, queueVars, callVars, worker, diskVars, starts>>

-----------------------------------------------------------------------------
(* Producers: emitAudit and Publish. *)

\* emitAudit stores the audit row (a store that fails, or a cancelled context,
\* is logged) and calls Publish, which copies the subscribers under the lock
\* or returns when the bus is closed.  A request of the API may come to this
\* point when the listeners are gone already.
EmitAudit(p) ==
  /\ \/ phase = "running"
     \/ p \in Handlers /\ phase \in {"closing", "stopped"}
  /\ caller[p].at = "idle" /\ sent[p] < MaxEvents[p]
  /\ Len(subs) * (1 + SumFunction(sent)) <= MaxOffers
  /\ sent' = [sent EXCEPT ![p] = @ + 1]
  /\ caller' = IF closed \/ subs = <<>> THEN caller
               ELSE [caller EXCEPT ![p] =
                       [at |-> "sending", ev |-> <<p, sent[p] + 1>>, rest |-> subs]]
  /\ UNCHANGED <<busVars, queueVars, worker, diskVars, bounds>>

\* A producer goes on to the next sink of its copy, or has done.
Onward(c) == IF Len(c.rest) = 1 THEN Idle ELSE [c EXCEPT !.rest = Tail(c.rest)]

\* Publish, after the unlock: offer the event to the next sink of the copy.
Offer(p) ==
  /\ caller[p].at = "sending"
  /\ LET s == Head(caller[p].rest)
         e == caller[p].ev
     IN /\ s \notin shut
        /\ offered' = [offered EXCEPT ![s] = @ \cup {e}]
        /\ IF Len(inbox[s]) < QueueSize
           THEN inbox' = [inbox EXCEPT ![s] = Append(@, e)] /\ dropped' = dropped
           ELSE inbox' = inbox /\ dropped' = [dropped EXCEPT ![s] = @ + 1]
  /\ caller' = [caller EXCEPT ![p] = Onward(@)]
  /\ UNCHANGED <<busVars, worker, sent, diskVars, bounds>>

\* A send on a closed channel panics: net/http recovers it for a request, in
\* any other goroutine it ends the process.
OfferPanics(p) ==
  /\ caller[p].at = "sending" /\ Head(caller[p].rest) \in shut
  /\ caller' = [caller EXCEPT ![p] =
                  IF p \in Handlers THEN Idle ELSE [@ EXCEPT !.at = "panic"]]
  /\ UNCHANGED <<busVars, queueVars, worker, sent, diskVars, bounds>>

-----------------------------------------------------------------------------
(* The worker of a sink. *)

\* Mutant: the worker does not look whether the inbox was closed.
TakeForever(s) ==
  /\ worker[s].at = "idle" /\ inbox[s] # <<>>
  /\ worker' = [worker EXCEPT ![s] =
                  [at |-> "busy", ev |-> Head(inbox[s]), tries |-> 0]]
  /\ inbox' = [inbox EXCEPT ![s] = Tail(@)]
  /\ UNCHANGED <<busVars, callVars, dropped, offered, diskVars, bounds>>

\* run: the next event of the inbox, or the end of a closed and empty one.
Take(s) ==
  /\ worker[s].at = "idle"
  /\ \/ /\ inbox[s] # <<>>
        /\ worker' = [worker EXCEPT ![s] =
                        [at |-> "busy", ev |-> Head(inbox[s]), tries |-> 0]]
        /\ inbox' = [inbox EXCEPT ![s] = Tail(@)]
     \/ /\ inbox[s] = <<>> /\ s \in shut
        /\ worker' = [worker EXCEPT ![s] = Done] /\ inbox' = inbox
  /\ UNCHANGED <<busVars, callVars, dropped, offered, diskVars, bounds>>

\* Handle returned an error, which run logs; the worker goes on.
HandleFails(s, e) == failed' = [failed EXCEPT ![s] = @ \cup {e}]

\* The rotated files, newest first: of each suffix, how many are below it.
ListRotated(r) ==
  [i \in 1..Cardinality(DOMAIN r) |->
     CHOOSE m \in DOMAIN r : Cardinality({l \in DOMAIN r : l < m}) = i - 1]

\* os.Rename, which replaces the destination.
Renamed(r, from, to) ==
  [n \in (DOMAIN r \ {from}) \cup {to} |-> IF n = to THEN r[from] ELSE r[n]]

\* How many rotated files outlive the next rotation.
Survivors(f) ==
  LET keep == Kept(f.keep)
      n == Cardinality(DOMAIN f.rotated)
  IN IF n < keep THEN n ELSE keep - 1

\* How many rotated files are beyond the limit.
Excess(f) == Cardinality(DOMAIN f.rotated) - Survivors(f)

\* The files beyond the limit are removed one by one, newest first: the first d
\* of these removals are done.
Trimmed(f, d) ==
  LET list == ListRotated(f.rotated)
      n == Survivors(f)
      left == (1..n) \cup ((n + d + 1)..Cardinality(DOMAIN f.rotated))
  IN [f EXCEPT !.rotated = [m \in {list[i] : i \in left} |-> f.rotated[m]]]

\* Mutant: the old files are renamed newest first, each over the next.
ShiftedForward(f, k) ==
  LET after[j \in 0..k] ==
        IF j = 0 THEN Trimmed(f, Excess(f)).rotated
        ELSE IF j \notin DOMAIN after[j - 1] THEN after[j - 1]
        ELSE Renamed(after[j - 1], j, j + 1)
  IN [f EXCEPT !.rotated = after[k]]

\* rotateLocked: when the files beyond the limit are removed, the others are
\* renamed one by one, oldest first; the first k of these renames are done.
Shifted(f, k) ==
  LET list == ListRotated(f.rotated)
      n == Survivors(f)
      after[j \in 0..k] ==
        IF j = 0 THEN Trimmed(f, Excess(f)).rotated
        ELSE Renamed(after[j - 1], list[n - j + 1], n - j + 2)
  IN [f EXCEPT !.rotated = after[k]]

\* ... and the current file becomes number 1.
Shelved(f) ==
  LET g == Shifted(f, Survivors(f))
  IN [g EXCEPT !.rotated = [m \in DOMAIN g.rotated \cup {1} |->
                              IF m = 1 THEN f.current ELSE g.rotated[m]],
               !.current = <<>>]

\* What a rotation that fails leaves: the file is closed, and the old files are
\* as they were, or all renamed, the current one perhaps too.
Stuck(f) == {[g EXCEPT !.open = FALSE] :
               g \in {f, Shifted(f, Survivors(f)), Shelved(f)}}

\* What a rotation that is killed leaves: nothing, some or all of the files
\* beyond the limit are removed, and then some or all of the others renamed.
Cut(f) ==
  {[g EXCEPT !.open = FALSE] :
     g \in {f, Shelved(f)} \cup {Shifted(f, k) : k \in 0..Survivors(f)}}
  \cup {[Trimmed(f, d) EXCEPT !.open = FALSE, !.torn = TRUE] : d \in 1..(Excess(f) - 1)}

\* The file with one more line, and whether it must be rotated.
Longer(f, e) == [f EXCEPT !.current = Append(@, e)]
IsFull(f) == FileSize > 0 /\ Len(f.current) >= FileSize

\* JSONLSink.Handle: append the line and rotate a full file.  A sink whose
\* rotation failed has no open file any more, and every later write fails.
Write(s) ==
  /\ s \in Logs /\ worker[s].at = "busy"
  /\ worker' = [worker EXCEPT ![s] = Waiting]
  /\ LET e == worker[s].ev
         f == Longer(log[s], e)
     IN \/ /\ log[s].open
           /\ written' = [written EXCEPT ![s] = Append(@, e)]
           /\ log' = [log EXCEPT ![s] = IF IsFull(f) THEN Shelved(f) ELSE f]
           /\ UNCHANGED <<failed, faults>>
        \/ /\ log[s].open /\ IsFull(f) /\ faults < MaxFaults
           /\ faults' = faults + 1
           /\ written' = [written EXCEPT ![s] = Append(@, e)]
           /\ \E g \in Stuck(f) : log' = [log EXCEPT ![s] = g]
           /\ HandleFails(s, e)
        \/ /\ log[s].open => faults < MaxFaults
           /\ faults' = IF log[s].open THEN faults + 1 ELSE faults
           /\ HandleFails(s, e)
           /\ UNCHANGED <<log, written>>
  /\ UNCHANGED <<busVars, queueVars, callVars, received, dlq, starts>>

\* NewWebhookSink: zero and less stand for five retries.
MaxRetries == IF MaxAttempts <= 0 THEN 5 ELSE MaxAttempts

\* Mutant: an error of the dead-letter file is not returned.
BurySilently(s, e) ==
  /\ \/ HasDLQ /\ dlq' = [dlq EXCEPT ![s] = @ \cup {e}] /\ faults' = faults
     \/ faults < MaxFaults /\ faults' = faults + 1 /\ dlq' = dlq
  /\ failed' = failed

\* writeDLQ: the event goes to the dead-letter file, if there is one.
Bury(s, e) ==
  \/ /\ HasDLQ /\ dlq' = [dlq EXCEPT ![s] = @ \cup {e}]
     /\ UNCHANGED <<failed, faults>>
  \/ /\ HasDLQ => faults < MaxFaults
     /\ faults' = IF HasDLQ THEN faults + 1 ELSE faults
     /\ HandleFails(s, e) /\ dlq' = dlq

\* Mutant: a failed event goes to the end of the inbox to be tried again.
AttemptLater(s) ==
  /\ s \in Hooks /\ worker[s].at = "busy"
  /\ worker' = [worker EXCEPT ![s] = Waiting]
  /\ LET e == worker[s].ev IN
     \/ received' = [received EXCEPT ![s] = Append(@, e)] /\ UNCHANGED inbox
     \/ inbox' = [inbox EXCEPT ![s] = Append(@, e)] /\ UNCHANGED received
  /\ UNCHANGED <<busVars, callVars, dropped, offered, log, dlq, failed,
                 written, bounds>>

\* WebhookSink.Handle, one attempt: accepted; refused for good (4xx); or an
\* error or a timeout, when the endpoint may have taken the event all the
\* same, to be tried again after a delay until the attempts are used up.
Attempt(s) ==
  /\ s \in Hooks /\ worker[s].at = "busy"
  /\ LET e == worker[s].ev
         arrives == received' = [received EXCEPT ![s] = Append(@, e)]
         ends == worker' = [worker EXCEPT ![s] = Waiting]
     IN \/ arrives /\ ends /\ UNCHANGED <<dlq, failed, faults>>
        \/ received' = received /\ ends /\ Bury(s, e)
        \/ /\ arrives \/ received' = received
           /\ IF worker[s].tries < MaxRetries
              THEN /\ worker' = [worker EXCEPT ![s].tries = @ + 1]
                   /\ UNCHANGED <<dlq, failed, faults>>
              ELSE ends /\ Bury(s, e)
  /\ UNCHANGED <<busVars, queueVars, callVars, log, written, starts>>

-----------------------------------------------------------------------------
(* The end of the process. *)

\* Mutant: the bus is closed without waiting for the connections.
ShutdownAtOnce ==
  /\ phase = "running"
  /\ phase' = "closing" /\ closed' = TRUE /\ toClose' = subs /\ toJoin' = subs
  /\ UNCHANGED <<config, subs, shut, queueVars, callVars, worker, diskVars, bounds>>

\* Shutdown: Server.Run has waited for its connections, the API has been given
\* its five seconds, and Close marks the bus and copies the subscribers.
Shutdown ==
  /\ phase = "running" /\ \A p \in Conns : caller[p].at = "idle"
  /\ phase' = "closing" /\ closed' = TRUE /\ toClose' = subs /\ toJoin' = subs
  /\ UNCHANGED <<config, subs, shut, queueVars, callVars, worker, diskVars, bounds>>

\* Close, after the unlock: close the next inbox.
CloseInbox ==
  /\ phase = "closing" /\ toClose # <<>>
  /\ shut' = shut \cup {Head(toClose)} /\ toClose' = Tail(toClose)
  /\ UNCHANGED <<config, phase, subs, closed, toJoin, queueVars, callVars, worker,
                 diskVars, bounds>>

\* Close: wait for the next worker to end and close its sink.
Join ==
  /\ phase = "closing" /\ toClose = <<>> /\ toJoin # <<>>
  /\ LET s == Head(toJoin) IN
     /\ worker[s].at = "done"
     /\ log' = IF s \in Logs THEN [log EXCEPT ![s].open = FALSE] ELSE log
  /\ toJoin' = Tail(toJoin)
  /\ UNCHANGED <<config, phase, subs, closed, toClose, shut, queueVars, callVars,
                 worker, received, dlq, failed, written, bounds>>

\* Close returns; the process is about to end.
Stop ==
  /\ phase = "closing" /\ toClose = <<>> /\ toJoin = <<>>
  /\ phase' = "stopped"
  /\ UNCHANGED <<config, subs, closed, toClose, toJoin, shut, queueVars, callVars,
                 worker, diskVars, bounds>>

\* Everything but the disk is gone.
Dies ==
  /\ phase' = "dead" /\ subs' = <<>> /\ closed' = FALSE
  /\ toClose' = <<>> /\ toJoin' = <<>> /\ shut' = {}
  /\ inbox' = [s \in Sinks |-> <<>>] /\ dropped' = [s \in Sinks |-> 0]
  /\ offered' = [s \in Sinks |-> {}] /\ worker' = [s \in Sinks |-> NoWork]
  /\ caller' = [p \in Producers |-> Idle]
  /\ UNCHANGED <<config, sent, received, dlq, failed, bounds>>

\* The process ends, is killed, or dies of a panic that nobody recovers.
Crash ==
  /\ phase # "dead"
  /\ Dies
  /\ log' = [s \in Logs |-> [log[s] EXCEPT !.open = FALSE]]
  /\ written' = written

\* The process is killed in the middle of a rotation.
CrashRotating(s) ==
  /\ s \in Logs /\ worker[s].at = "busy" /\ log[s].open
  /\ LET f == Longer(log[s], worker[s].ev) IN
     /\ IsFull(f)
     /\ \E g \in Cut(f) :
          log' = [t \in Logs |-> IF t = s THEN g ELSE [log[t] EXCEPT !.open = FALSE]]
  /\ written' = [written EXCEPT ![s] = Append(@, worker[s].ev)]
  /\ Dies

Work(s) == Take(s) \/ Write(s) \/ Attempt(s)
Closing == CloseInbox \/ Join \/ Stop

Next ==
  \/ Start \/ Subscribe \/ Serve \/ BuildFails
  \/ \E p \in Producers :
       EmitAudit(p) \/ Offer(p) \/ OfferPanics(p)
  \/ \E s \in Sinks : Work(s) \/ CrashRotating(s)
  \/ Shutdown \/ Closing \/ Crash

\* Goroutines that can run do run: the workers and the one that closes.
Fairness == (\A s \in Sinks : WF_vars(Work(s))) /\ WF_vars(Closing)

Spec == Init /\ [][Next]_vars /\ Fairness

-----------------------------------------------------------------------------
AtHand(s) == IF worker[s].at = "busy" THEN {worker[s].ev} ELSE {}
Settled(s) == failed[s] \cup IF s \in Logs THEN ToSet(written[s])
                             ELSE ToSet(received[s]) \cup dlq[s]

\* No event gets lost without a trace while the process lives: whatever was
\* offered to a sink is counted as dropped, waits, is being handled, or has
\* been written, received, dead-lettered or logged as failed.
EveryEventAccounted ==
  phase # "dead" => \A s \in Sinks :
    Cardinality(offered[s]) =
      dropped[s] + Len(inbox[s]) + Cardinality(AtHand(s))
        + Cardinality((offered[s] \cap Settled(s)) \ AtHand(s))

\* The lines of the n newest rotated files of a log, oldest first, and of its
\* current file.
Lines(f, n) ==
  FlattenSeq([i \in 1..n |-> f.rotated[ListRotated(f.rotated)[n - i + 1]]]) \o f.current

\* The log always is the newest part of what was written, in order: never
\* more files stay behind than "keep" allowed at some start, never fewer lines
\* than the least "keep" promises, and none is lost from the middle, wherever
\* a fault or a crash cut an earlier rotation short.  Only a kill between two
\* removals, of which a lowered "keep" asks for several, leaves older files
\* behind a hole; then this holds of the newest files, up to that hole.
LogKeepsNewest ==
  \A s \in Logs : LET f == log[s] IN
    /\ \A m \in DOMAIN f.rotated : \E k \in f.keeps : m <= k
    /\ \E n \in 0..Cardinality(DOMAIN f.rotated) :
         /\ f.torn \/ n = Cardinality(DOMAIN f.rotated)
         /\ IsSuffix(Lines(f, n), written[s])
         /\ \/ Lines(f, n) = written[s]
            \/ \E k \in f.keeps : Len(Lines(f, n)) >= k * FileSize

\* Each sink gets the events of one producer in the order of their numbers;
\* a webhook may get one of them again, but never after a later one.
InOrder ==
  \A s \in Sinks : LET got == IF s \in Logs THEN written[s] ELSE received[s] IN
    \A i, j \in 1..Len(got) :
      i < j /\ got[i][1] = got[j][1] =>
        IF s \in Logs THEN got[i][2] < got[j][2] ELSE got[i][2] <= got[j][2]

\* The order of shutdown keeps every goroutine whose panic would end the
\* process away from a closed inbox: only an API request can meet one.
PanicsAreRecovered == \A p \in Conns : caller[p].at # "panic"

\* Close returns, however often the endpoint of a webhook fails.
CloseEnds == phase = "closing" ~> phase # "closing"
=============================================================================

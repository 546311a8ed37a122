-------------------------- MODULE ConnectionProofs --------------------------
(***************************************************************************)
(* What holds of every connection, whatever its queue's size, its limits   *)
(* and the number of goroutines that send to it: its types, that it adds   *)
(* one user at most, that whoever ends it is heard, and what its token     *)
(* bucket lets pass.                                                       *)
(***************************************************************************)
EXTENDS Connection, FloodControl, TLAPS

\* The three kinds of goroutine are told apart.
LEMMA ActorFacts ==
    /\ Reader \in Actors /\ Pinger \in Actors /\ Reader # Pinger
    /\ Reader # "writer" /\ Pinger # "writer"
    /\ \A o \in Others : o \in Actors /\ o # Reader /\ o # Pinger /\ o # "writer"
BY ActorAssumption DEF Actors, Reader, Pinger

\* The ticker's period is a positive number of seconds.
LEMMA TickFacts == Tick \in Nat /\ Tick >= 1
BY PingAssumption DEF Tick

\* A second, a tick and a step of the others leave the counters in range.
LEMMA CounterFacts ==
    /\ 0 \in 0..Timeout /\ 0 \in 0..Tick
    /\ MaxLines \in 0..MaxLines /\ MaxOutside \in 0..MaxOutside
    /\ \A n \in 0..Timeout : n < Timeout => n + 1 \in 0..Timeout
    /\ \A n \in 0..Tick : n < Tick => n + 1 \in 0..Tick
    /\ \A n \in 0..MaxOutside : n > 0 => n - 1 \in 0..MaxOutside
BY PingAssumption, BoundAssumption, TickFacts

\* What an action does not touch keeps its type.
LEMMA Untouched ==
    /\ RegOK /\ UNCHANGED registration => RegOK'
    /\ OutOK /\ UNCHANGED <<outbound, due>> => OutOK'
    /\ PlaceOK /\ UNCHANGED place => PlaceOK'
    /\ RestOK /\ UNCHANGED <<output, ended, time, input, outside>> => RestOK'
<1>1. RegOK /\ UNCHANGED registration => RegOK'
  BY Zenon DEF RegOK, registration
<1>2. OutOK /\ UNCHANGED <<outbound, due>> => OutOK'
  BY Zenon DEF OutOK, outbound
<1>3. PlaceOK /\ UNCHANGED place => PlaceOK'
  BY Zenon DEF PlaceOK
<1>4. RestOK /\ UNCHANGED <<output, ended, time, input, outside>> => RestOK'
  <2> SUFFICES ASSUME RestOK, UNCHANGED <<output, ended, time, input, outside>> PROVE RestOK'
    OBVIOUS
  <2>1. buffered' \in BOOLEAN /\ told' \in BOOLEAN /\ closed' \in BOOLEAN /\ failed' \in BOOLEAN
    BY Zenon DEF RestOK, output
  <2>2. ended' \in BOOLEAN /\ asked' \in BOOLEAN /\ idle' \in 0..Timeout /\ sinceTick' \in 0..Tick
    BY Zenon DEF RestOK, time
  <2>3. input' \in 0..MaxLines /\ outside' \in 0..MaxOutside
    BY Zenon DEF RestOK
  <2> QED BY <2>1, <2>2, <2>3 DEF RestOK
<1> QED BY <1>1, <1>2, <1>3, <1>4

\* Cancelling leaves a cause.
LEMMA CancelledTypes ==
    ASSUME cause \in Causes \cup {None}, NEW c \in Causes, Cancelled(c)
    PROVE  cause' \in Causes \cup {None} /\ cause' # None
BY NoneAssumption DEF Cancelled

\* A message queued, or the overflow, leaves the queue within its size.
LEMMA SendTypes ==
    ASSUME TypeOK, NEW m \in Messages, Send(m)
    PROVE  /\ queue' \in Seq(Messages) /\ Len(queue') <= QueueSize
           /\ cause' \in Causes \cup {None}
<1>1. "sendq" \in Causes
  BY DEF Causes
<1>2. CASE Len(queue) < QueueSize /\ queue' = Append(queue, m) /\ UNCHANGED cause
  BY <1>2, QueueAssumption DEF TypeOK, OutOK
<1>3. CASE Cancelled("sendq") /\ UNCHANGED queue
  BY <1>1, <1>3, CancelledTypes DEF TypeOK, OutOK
<1> QED BY <1>2, <1>3 DEF Send

\* And so does the ERROR, with the goroutine that is about to cancel noted.
LEMMA FarewellTypes ==
    ASSUME TypeOK, NEW a \in Actors, NEW c \in Reasons, Farewell(a, c)
    PROVE  /\ queue' \in Seq(Messages) /\ Len(queue') <= QueueSize
           /\ cause' \in Causes \cup {None}
           /\ due' \in [Actors -> Reasons \cup {None}]
<1>1. PICK m \in Messages : Send(m)
  BY DEF Messages, Farewell
<1>2. due' \in [Actors -> Reasons \cup {None}]
  BY DEF Farewell, TypeOK, OutOK
<1> QED BY <1>1, <1>2, SendTypes

\* Completing registration, with pending of its type.
LEMMA CompleteTypes ==
    ASSUME TypeOK,
           NEW p \in [nick : BOOLEAN, user : BOOLEAN, password : BOOLEAN,
                      negotiating : BOOLEAN, ended : BOOLEAN],
           TryComplete(p)
    PROVE  RegOK' /\ OutOK' /\ PlaceOK'
<1> USE DEF TypeOK
<1>0. Reader \in Actors /\ "bad password" \in Reasons /\ "line" \in Messages
  BY ActorFacts DEF Reasons, Spoken, Messages
<1>1. RegOK'
  <2>1. [p EXCEPT !.nick = FALSE] \in [nick : BOOLEAN, user : BOOLEAN,
           password : BOOLEAN, negotiating : BOOLEAN, ended : BOOLEAN]
    OBVIOUS
  <2>2. pending' = p \/ pending' = [p EXCEPT !.nick = FALSE]
    BY DEF TryComplete
  <2>3. (user' = user /\ added' = added) \/ (user' = TRUE /\ added' = added + 1)
    BY DEF TryComplete
  <2>4. user' \in BOOLEAN /\ added' \in Nat
    <3>1. user \in BOOLEAN /\ added \in Nat /\ added + 1 \in Nat
      BY DEF RegOK
    <3>2. CASE user' = user /\ added' = added
      BY <3>1, <3>2, Zenon
    <3>3. CASE user' = TRUE /\ added' = added + 1
      BY <3>1, <3>3
    <3> QED BY <2>3, <3>2, <3>3
  <2> QED BY <2>1, <2>2, <2>4 DEF RegOK
<1>2. OutOK'
  <2>1. CASE Quietly /\ UNCHANGED due
    BY <2>1 DEF Quietly, outbound, OutOK
  <2>2. CASE Farewell(Reader, "bad password")
    BY <1>0, <2>2, FarewellTypes DEF OutOK
  <2>3. CASE Send("line") /\ UNCHANGED due
    BY <1>0, <2>3, SendTypes DEF OutOK
  <2> QED BY <2>1, <2>2, <2>3 DEF TryComplete
<1>3. PlaceOK'
  BY <1>0 DEF TryComplete, PlaceOK
<1> QED BY <1>1, <1>2, <1>3

\* A line changes neither the writer's side nor, but for noting it, the times.
LEMMA LineTypes ==
    ASSUME TypeOK, NEW kind, Line(kind)
    PROVE  RestOK'
<1>1. idle' \in 0..Timeout /\ sinceTick' \in 0..Tick
  BY PingAssumption DEF Line, TypeOK, RestOK
<1>2. input' \in 0..MaxLines /\ outside' \in 0..MaxOutside
  BY BoundAssumption DEF Line, TypeOK, RestOK
<1> QED BY <1>1, <1>2 DEF Line, output, TypeOK, RestOK

\* The reader leaves its loop.
LEMMA ReaderTypes == TypeOK /\ ReaderExits => TypeOK'
<1> SUFFICES ASSUME TypeOK, ReaderExits PROVE TypeOK'
  OBVIOUS
<1>1. RegOK' /\ RestOK'
  BY Untouched DEF ReaderExits, TypeOK
<1>2. "read" \in Causes
  BY DEF Causes
<1>3. OutOK'
  BY <1>2, CancelledTypes DEF ReaderExits, TypeOK, OutOK
<1>4. PlaceOK'
  BY ActorFacts DEF ReaderExits, TypeOK, PlaceOK
<1> QED BY <1>1, <1>3, <1>4 DEF TypeOK

\* Type correctness, for every action of the client.
LEMMA ClientTypes == TypeOK /\ Client => TypeOK'
<1> SUFFICES ASSUME TypeOK, Client PROVE TypeOK'
  OBVIOUS
<1>0. /\ Reader \in Actors /\ "line" \in Messages /\ "read" \in Causes
      /\ {"quit", "unsayable", "flood", "oversized"} \subseteq Reasons
  BY ActorFacts DEF Reasons, Spoken, Causes, Messages
<1>a. ASSUME Answered PROVE RegOK' /\ OutOK' /\ PlaceOK'
  BY <1>0, <1>a, SendTypes DEF Answered, registration, TypeOK, RegOK, OutOK, PlaceOK
<1>1. ASSUME NEW ok \in BOOLEAN, HandlePass(ok) PROVE TypeOK'
  <2>1. RestOK'
    BY <1>1, LineTypes DEF HandlePass
  <2>2. CASE user
    BY <1>1, <1>a, <2>1, <2>2 DEF HandlePass, TypeOK
  <2>3. CASE ~ user
    <3>1. [pending EXCEPT !.password = ok] \in [nick : BOOLEAN, user : BOOLEAN,
             password : BOOLEAN, negotiating : BOOLEAN, ended : BOOLEAN]
      BY DEF TypeOK, RegOK
    <3>2. user' \in BOOLEAN /\ added' \in Nat
      BY <1>1, <2>3, Zenon DEF HandlePass, TypeOK, RegOK
    <3>3. RegOK'
      BY <1>1, <2>3, <3>1, <3>2 DEF HandlePass, RegOK
    <3>4. OutOK' /\ PlaceOK'
      BY <1>1, <2>3, Untouched DEF HandlePass, Quietly, TypeOK
    <3> QED BY <2>1, <3>3, <3>4 DEF TypeOK
  <2> QED BY <2>2, <2>3
<1>2. CASE HandleNick
  <2>1. RestOK'
    BY <1>2, LineTypes DEF HandleNick
  <2>2. CASE user
    BY <1>2, <1>a, <2>1, <2>2 DEF HandleNick, TypeOK
  <2>3. CASE ~ user
    <3>1. [pending EXCEPT !.nick = TRUE] \in [nick : BOOLEAN, user : BOOLEAN,
             password : BOOLEAN, negotiating : BOOLEAN, ended : BOOLEAN]
      BY DEF TypeOK, RegOK
    <3> QED BY <1>2, <2>1, <2>3, <3>1, CompleteTypes DEF HandleNick, TypeOK
  <2> QED BY <2>2, <2>3
<1>3. CASE HandleUser
  <2>1. RestOK'
    BY <1>3, LineTypes DEF HandleUser
  <2>2. CASE user
    BY <1>3, <1>a, <2>1, <2>2 DEF HandleUser, TypeOK
  <2>3. CASE ~ user
    <3>1. [pending EXCEPT !.user = TRUE] \in [nick : BOOLEAN, user : BOOLEAN,
             password : BOOLEAN, negotiating : BOOLEAN, ended : BOOLEAN]
      BY DEF TypeOK, RegOK
    <3> QED BY <1>3, <2>1, <2>3, <3>1, CompleteTypes DEF HandleUser, TypeOK
  <2> QED BY <2>2, <2>3
<1>4. CASE HandleService
  <2>1. RestOK'
    BY <1>4, LineTypes DEF HandleService
  <2>2. CASE Answered
    BY <1>a, <2>1, <2>2 DEF TypeOK
  <2>3. CASE ~ Answered
    <3>1. user' = TRUE /\ added' = added + 1 /\ UNCHANGED pending
      BY <1>4, <2>3 DEF HandleService
    <3>2. place' = [place EXCEPT ![Reader] = "welcoming"] /\ UNCHANGED <<queue, cause, due>>
      BY <1>4, <2>3 DEF HandleService, Quietly, outbound
    <3>3. RegOK' /\ OutOK'
      BY <3>1, <3>2 DEF TypeOK, RegOK, OutOK
    <3>4. PlaceOK'
      BY <1>0, <3>2 DEF TypeOK, PlaceOK
    <3> QED BY <2>1, <3>3, <3>4 DEF TypeOK
  <2> QED BY <2>2, <2>3
<1>5. CASE HandleCapLs
  <2>1. RestOK'
    BY <1>5, LineTypes DEF HandleCapLs
  <2>2. OutOK'
    BY <1>0, <1>5, SendTypes DEF HandleCapLs, TypeOK, OutOK
  <2> QED BY <1>5, <2>1, <2>2 DEF HandleCapLs, TypeOK, RegOK, PlaceOK
<1>6. CASE HandleCapReq
  <2>1. RestOK'
    BY <1>6, LineTypes DEF HandleCapReq
  <2>2. OutOK'
    <3>1. CASE Send("line")
      BY <1>0, <1>6, <3>1, SendTypes DEF HandleCapReq, TypeOK, OutOK
    <3>2. CASE Quietly
      BY <1>6, <3>2 DEF HandleCapReq, Quietly, outbound, TypeOK, OutOK
    <3> QED BY <1>6, <3>1, <3>2 DEF HandleCapReq
  <2> QED BY <1>0, <1>6, <2>1, <2>2 DEF HandleCapReq, TypeOK, RegOK, PlaceOK
<1>7. CASE HandleCapEnd
  <2>1. RestOK'
    BY <1>7, LineTypes DEF HandleCapEnd
  <2>2. [pending EXCEPT !.ended = TRUE] \in [nick : BOOLEAN, user : BOOLEAN,
           password : BOOLEAN, negotiating : BOOLEAN, ended : BOOLEAN]
    BY DEF TypeOK, RegOK
  <2> QED BY <1>7, <2>1, <2>2, CompleteTypes DEF HandleCapEnd, TypeOK
<1>8. CASE HandleQuit
  <2>1. RestOK'
    BY <1>8, LineTypes DEF HandleQuit
  <2>2. OutOK'
    BY <1>0, <1>8, FarewellTypes DEF HandleQuit, OutOK
  <2> QED BY <1>8, <2>1, <2>2 DEF HandleQuit, registration, TypeOK, RegOK, PlaceOK
<1>9. CASE HandleFlood
  <2>1. RestOK'
    BY <1>9, LineTypes DEF HandleFlood
  <2>2. OutOK'
    BY <1>0, <1>9, FarewellTypes DEF HandleFlood, OutOK
  <2> QED BY <1>9, <2>1, <2>2 DEF HandleFlood, registration, TypeOK, RegOK, PlaceOK
<1>10. CASE HandleOther
  <2>1. RestOK'
    BY <1>10, LineTypes DEF HandleOther
  <2>2. OutOK'
    <3>1. CASE Send("line")
      BY <1>0, <1>10, <3>1, SendTypes DEF HandleOther, TypeOK, OutOK
    <3>2. CASE Quietly
      BY <1>10, <3>2 DEF HandleOther, Quietly, outbound, TypeOK, OutOK
    <3> QED BY <1>10, <3>1, <3>2 DEF HandleOther
  <2> QED BY <1>10, <2>1, <2>2 DEF HandleOther, registration, TypeOK, RegOK, PlaceOK
<1>11. CASE Oversized
  <2>1. RestOK'
    BY <1>11, BoundAssumption DEF Oversized, output, time, TypeOK, RestOK
  <2>2. OutOK'
    BY <1>0, <1>11, FarewellTypes DEF Oversized, OutOK
  <2> QED BY <1>0, <1>11, <2>1, <2>2 DEF Oversized, registration, TypeOK, RegOK, PlaceOK
<1>12. CASE HangUp
  BY <1>12, ReaderTypes DEF HangUp
<1> QED BY <1>1, <1>2, <1>3, <1>4, <1>5, <1>6, <1>7, <1>8, <1>9, <1>10, <1>11, <1>12 DEF Client

\* Taking a message off the queue leaves a queue of messages.
LEMMA TailTypes ==
    ASSUME queue \in Seq(Messages), queue # <<>>
    PROVE  /\ Tail(queue) \in Seq(Messages) /\ Len(Tail(queue)) = Len(queue) - 1
           /\ Len(queue) \in Nat \ {0} /\ Head(queue) = queue[1]
           /\ \A i \in 1..(Len(queue) - 1) : Tail(queue)[i] = queue[i + 1]
OBVIOUS

\* Type correctness, for every action of the writer.
LEMMA WriterTypes == TypeOK /\ (Writer \/ WriteFails) => TypeOK'
<1> SUFFICES ASSUME TypeOK, Writer \/ WriteFails PROVE TypeOK'
  OBVIOUS
<1> USE DEF TypeOK, WriterMoves
<1>1. CASE WriterTakes
  <2>1. OutOK'
    BY <1>1, TailTypes, QueueAssumption DEF WriterTakes, OutOK
  <2>2. RestOK'
    BY <1>1 DEF WriterTakes, RestOK, time
  <2>3. PlaceOK'
    BY <1>1 DEF WriterTakes, PlaceOK
  <2>4. RegOK'
    BY <1>1, Untouched DEF WriterTakes
  <2> QED BY <2>1, <2>2, <2>3, <2>4
<1>2. CASE WriterFlushes
  <2>1. RegOK' /\ OutOK'
    BY <1>2, Untouched DEF WriterFlushes
  <2>2. PlaceOK'
    BY <1>2 DEF WriterFlushes, PlaceOK
  <2>3. buffered' \in BOOLEAN /\ told' \in BOOLEAN /\ closed' \in BOOLEAN /\ failed' \in BOOLEAN
    BY <1>2, Zenon DEF WriterFlushes, Flushed, RestOK
  <2>4. RestOK'
    BY <1>2, <2>3, Zenon DEF WriterFlushes, RestOK, time
  <2> QED BY <2>1, <2>2, <2>4
<1>3. CASE WriterSeesCancel
  <2>1. RegOK' /\ OutOK' /\ RestOK'
    BY <1>3, Untouched DEF WriterSeesCancel
  <2>2. PlaceOK'
    BY <1>3 DEF WriterSeesCancel, PlaceOK
  <2> QED BY <2>1, <2>2
<1>4. CASE WriterStops
  <2>1. RegOK' /\ OutOK'
    BY <1>4, Untouched DEF WriterStops
  <2>2. PlaceOK'
    BY <1>4 DEF WriterStops, PlaceOK
  <2>3. buffered' \in BOOLEAN /\ told' \in BOOLEAN /\ closed' \in BOOLEAN /\ failed' \in BOOLEAN
    BY <1>4, Zenon DEF WriterStops, Flushed, RestOK
  <2>4. RestOK'
    BY <1>4, <2>3, Zenon DEF WriterStops, RestOK, time
  <2> QED BY <2>1, <2>2, <2>4
<1>5. CASE WriteFails
  <2>1. "write" \in Causes
    BY DEF Causes
  <2>2. RegOK'
    BY <1>5, Untouched DEF WriteFails
  <2>3. OutOK'
    BY <1>5, <2>1, CancelledTypes DEF WriteFails, OutOK
  <2>4. PlaceOK'
    BY <1>5 DEF WriteFails, PlaceOK
  <2>5. buffered' \in BOOLEAN /\ told' \in BOOLEAN /\ closed' \in BOOLEAN /\ failed' \in BOOLEAN
    BY <1>5, Zenon DEF WriteFails, RestOK
  <2>6. RestOK'
    BY <1>5, <2>5, Zenon DEF WriteFails, RestOK, time
  <2> QED BY <2>2, <2>3, <2>4, <2>6
<1> QED BY <1>1, <1>2, <1>3, <1>4, <1>5 DEF Writer

\* One thing less from outside.
LEMMA OutsideTypes ==
    ASSUME RestOK, outside > 0, outside' = outside - 1, UNCHANGED <<output, ended, time, input>>
    PROVE  RestOK'
<1>1. outside' \in 0..MaxOutside
  <2>1. outside \in 0..MaxOutside
    BY DEF RestOK
  <2> QED BY <2>1, CounterFacts
<1>2. buffered' \in BOOLEAN /\ told' \in BOOLEAN /\ closed' \in BOOLEAN /\ failed' \in BOOLEAN
  BY Zenon DEF RestOK, output
<1>3. ended' \in BOOLEAN /\ asked' \in BOOLEAN /\ idle' \in 0..Timeout /\ sinceTick' \in 0..Tick
  BY Zenon DEF RestOK, time
<1>4. input' \in 0..MaxLines
  BY Zenon DEF RestOK
<1> QED BY <1>1, <1>2, <1>3, <1>4 DEF RestOK

\* Type correctness, for the others and the server.
LEMMA OtherTypes ==
    ASSUME TypeOK, NEW o \in Others, OtherSends(o) \/ OtherQueues(o) \/ OtherKills(o)
    PROVE  TypeOK'
<1> USE DEF TypeOK
<1>0. o \in Actors /\ "line" \in Messages /\ {"killed", "unsayable"} \subseteq Reasons
  BY ActorFacts DEF Messages, Reasons, Spoken
<1>1. CASE OtherSends(o)
  <2>1. RegOK' /\ OutOK'
    BY <1>1, Untouched DEF OtherSends
  <2>2. PlaceOK'
    BY <1>0, <1>1 DEF OtherSends, PlaceOK
  <2>3. RestOK'
    BY <1>1, OutsideTypes DEF OtherSends
  <2> QED BY <2>1, <2>2, <2>3
<1>2. CASE OtherQueues(o)
  <2>1. OutOK'
    BY <1>0, <1>2, SendTypes DEF OtherQueues, OutOK
  <2>2. RegOK' /\ RestOK'
    BY <1>2, Untouched DEF OtherQueues
  <2>3. PlaceOK'
    BY <1>0, <1>2 DEF OtherQueues, PlaceOK
  <2> QED BY <2>1, <2>2, <2>3
<1>3. CASE OtherKills(o)
  <2>1. OutOK'
    BY <1>0, <1>3, FarewellTypes DEF OtherKills, OutOK
  <2>2. RegOK' /\ PlaceOK'
    BY <1>3, Untouched DEF OtherKills
  <2>3. RestOK'
    BY <1>3, OutsideTypes DEF OtherKills
  <2> QED BY <2>1, <2>2, <2>3
<1> QED BY <1>1, <1>2, <1>3

\* Type correctness, for what is left: the ping loop, the steps of the reader
\* between two lines, cancelling and closing.
LEMMA RestTypes ==
    ASSUME TypeOK,
           \/ Welcome \/ AckCaps \/ SocketIsClosed \/ Elapse \/ PingTick \/ PingerExits
           \/ \E a \in Actors : Cancel(a)
           \/ Shutdown \/ Close
    PROVE  TypeOK'
<1> USE DEF TypeOK
<1>0. /\ Reader \in Actors /\ Pinger \in Actors /\ "line" \in Messages
      /\ {"read", "shutdown"} \subseteq Causes /\ "ping timeout" \in Reasons
  BY ActorFacts DEF Reasons, Spoken, Causes, Messages
<1>1. CASE Welcome
  <2>1. OutOK'
    BY <1>0, <1>1, SendTypes DEF Welcome, OutOK
  <2>2. RegOK' /\ RestOK'
    BY <1>1, Untouched DEF Welcome
  <2>3. PlaceOK'
    BY <1>0, <1>1 DEF Welcome, PlaceOK
  <2> QED BY <2>1, <2>2, <2>3
<1>2. CASE AckCaps
  <2>1. OutOK'
    BY <1>0, <1>2, SendTypes DEF AckCaps, OutOK
  <2>2. RegOK' /\ RestOK'
    BY <1>2, Untouched DEF AckCaps
  <2>3. PlaceOK'
    BY <1>0, <1>2 DEF AckCaps, PlaceOK
  <2> QED BY <2>1, <2>2, <2>3
<1>3. CASE SocketIsClosed
  BY <1>3, ReaderTypes DEF SocketIsClosed
<1>4. CASE Elapse
  <2>1. idle' \in 0..Timeout
    <3>1. idle \in 0..Timeout
      BY DEF RestOK
    <3> QED BY <1>4, <3>1, CounterFacts DEF Elapse
  <2>2. sinceTick' \in 0..Tick
    <3>1. sinceTick \in 0..Tick
      BY DEF RestOK
    <3> QED BY <1>4, <3>1, CounterFacts DEF Elapse
  <2>3. RestOK'
    BY <1>4, <2>1, <2>2, Zenon DEF Elapse, RestOK, output
  <2>4. RegOK' /\ OutOK' /\ PlaceOK'
    BY <1>4, Untouched DEF Elapse
  <2> QED BY <2>3, <2>4
<1>5. CASE PingTick
  <2>1. OutOK'
    <3>1. CASE Farewell(Pinger, "ping timeout")
      BY <1>0, <3>1, FarewellTypes DEF OutOK
    <3>2. CASE Send("line") /\ UNCHANGED due
      BY <1>0, <3>2, SendTypes DEF OutOK
    <3>3. CASE Quietly /\ UNCHANGED due
      BY <3>3, Untouched DEF Quietly
    <3> QED BY <1>5, <3>1, <3>2, <3>3 DEF PingTick
  <2>2. PlaceOK'
    BY <1>0, <1>5 DEF PingTick, PlaceOK
  <2>3. RestOK'
    <3>1. sinceTick' \in 0..Tick
      BY <1>5, CounterFacts DEF PingTick
    <3>2. asked' \in BOOLEAN
      BY <1>5, Zenon DEF PingTick, RestOK
    <3>3. UNCHANGED <<output, ended, idle, input, outside>>
      BY <1>5 DEF PingTick
    <3> QED BY <3>1, <3>2, <3>3, Zenon DEF RestOK, output
  <2>4. RegOK'
    BY <1>5, Untouched DEF PingTick
  <2> QED BY <2>1, <2>2, <2>3, <2>4
<1>6. CASE PingerExits
  <2>1. RegOK' /\ OutOK' /\ RestOK'
    BY <1>6, Untouched DEF PingerExits
  <2>2. PlaceOK'
    BY <1>0, <1>6 DEF PingerExits, PlaceOK
  <2> QED BY <2>1, <2>2
<1>7. ASSUME NEW a \in Actors, Cancel(a) PROVE TypeOK'
  <2>1. due[a] \in Causes
    BY <1>7 DEF Cancel, OutOK, Causes
  <2>2. OutOK'
    BY <1>7, <2>1, CancelledTypes DEF Cancel, OutOK
  <2>3. RegOK' /\ PlaceOK' /\ RestOK'
    BY <1>7, Untouched DEF Cancel
  <2> QED BY <2>2, <2>3
<1>8. CASE Shutdown
  <2>1. OutOK'
    BY <1>0, <1>8, CancelledTypes DEF Shutdown, OutOK
  <2>2. RegOK' /\ PlaceOK'
    BY <1>8, Untouched DEF Shutdown
  <2>3. RestOK'
    BY <1>8, OutsideTypes DEF Shutdown
  <2> QED BY <2>1, <2>2, <2>3
<1>9. CASE Close
  <2>1. pending' = pending /\ user' \in BOOLEAN /\ added' = added
    BY <1>9, Zenon DEF Close
  <2>2. RegOK'
    BY <2>1 DEF RegOK
  <2>3. OutOK' /\ PlaceOK'
    BY <1>9, Untouched DEF Close
  <2>4. buffered' \in BOOLEAN /\ told' \in BOOLEAN /\ closed' \in BOOLEAN /\ failed' \in BOOLEAN
    BY <1>9, Zenon DEF Close, RestOK
  <2>5. RestOK'
    BY <1>9, <2>4, Zenon DEF Close, RestOK, time
  <2> QED BY <2>2, <2>3, <2>5
<1> QED BY <1>1, <1>2, <1>3, <1>4, <1>5, <1>6, <1>7, <1>8, <1>9

\* A new connection is well typed.
LEMMA InitTypes == Init => TypeOK
<1> SUFFICES ASSUME Init PROVE TypeOK
  OBVIOUS
<1>1. RegOK
  BY DEF Init, RegOK
<1>2. OutOK
  BY QueueAssumption DEF Init, OutOK
<1>3. PlaceOK
  BY ActorFacts DEF Init, PlaceOK
<1>4. RestOK
  BY CounterFacts DEF Init, RestOK
<1> QED BY <1>1, <1>2, <1>3, <1>4 DEF TypeOK

\* The state stays within its types, the queue within its size.
THEOREM TypeCorrect == Spec => []TypeOK
<1>1. Init => TypeOK
  BY InitTypes
<1>2. TypeOK /\ [Next]_vars => TypeOK'
  <2> SUFFICES ASSUME TypeOK, [Next]_vars PROVE TypeOK'
    OBVIOUS
  <2>1. CASE UNCHANGED vars
    <3> USE <2>1 DEF vars, registration, outbound, output, time, TypeOK
    <3>1. RegOK'
      BY DEF RegOK
    <3>2. OutOK' /\ PlaceOK'
      BY DEF OutOK, PlaceOK
    <3>3. RestOK'
      BY DEF RestOK
    <3> QED BY <3>1, <3>2, <3>3
  <2> QED BY <2>1, ClientTypes, WriterTypes, OtherTypes, RestTypes DEF Next
<1> QED BY <1>1, <1>2, PTL DEF Spec

-----------------------------------------------------------------------------
\* Only a connection without a user adds one, and its reader is then busy.
LEMMA AddsOnce ==
    ASSUME TypeOK, NEW p, TryComplete(p)
    PROVE  \/ added' = added /\ user' = user
           \/ ~ user /\ added' = added + 1 /\ user' = TRUE
BY DEF TryComplete

\* A connection adds one user at most.
THEOREM OneUserAdded == Spec => []AddsOneUser
<1>1. Init => OneUserInv
  <2>1. Init => TypeOK
    BY InitTypes
  <2> QED BY <2>1 DEF Init, OneUserInv
<1>2. OneUserInv /\ TypeOK' /\ [Next]_vars => OneUserInv'
  <2> SUFFICES ASSUME OneUserInv, TypeOK', [Next]_vars PROVE OneUserInv'
    OBVIOUS
  <2>0. TypeOK /\ Reader \in Actors /\ Reader # Pinger /\ Reader # "writer"
    BY ActorFacts DEF OneUserInv
  <2>1. CASE added' = added /\ user' = user /\ place'[Reader] = place[Reader]
    BY <2>1 DEF OneUserInv
  <2>2. ASSUME place[Reader] = "reading",
               \/ added' = added /\ user' = user
               \/ ~ user /\ added' = added + 1 /\ user' = TRUE
        PROVE  OneUserInv'
    BY <2>2 DEF OneUserInv
  <2>3. CASE Client
    <3>1. place[Reader] = "reading"
      BY <2>3 DEF Client, HandlePass, HandleNick, HandleUser, HandleService, HandleCapLs,
           HandleCapReq, HandleCapEnd, HandleQuit, HandleFlood, HandleOther, Line, Oversized,
           HangUp, ReaderExits
    <3>2. \/ added' = added /\ user' = user
          \/ ~ user /\ added' = added + 1 /\ user' = TRUE
      BY <2>0, <2>3, AddsOnce
         DEF Client, HandlePass, HandleNick, HandleUser, HandleService, HandleCapLs,
           HandleCapReq, HandleCapEnd, HandleQuit, HandleFlood, HandleOther, Answered, Oversized,
           HangUp, ReaderExits, registration
    <3> QED BY <2>2, <3>1, <3>2
  <2>4. CASE Welcome \/ AckCaps \/ SocketIsClosed
    <3>1. added' = added /\ user' = user /\ place[Reader] # "done"
      BY <2>4 DEF Welcome, AckCaps, SocketIsClosed, ReaderExits, registration
    <3> QED BY <3>1 DEF OneUserInv
  <2>5. CASE Writer \/ WriteFails
    BY <2>0, <2>1, <2>5
       DEF Writer, WriterTakes, WriterFlushes, WriterSeesCancel, WriterStops, WriteFails,
           WriterMoves, registration, TypeOK, PlaceOK
  <2>6. CASE Elapse \/ PingTick \/ PingerExits \/ Shutdown \/ \E a \in Actors : Cancel(a)
    BY <2>0, <2>1, <2>6
       DEF Elapse, PingTick, PingerExits, Shutdown, Cancel, registration, TypeOK, PlaceOK
  <2>7. ASSUME NEW o \in Others, OtherSends(o) \/ OtherQueues(o) \/ OtherKills(o)
        PROVE  OneUserInv'
    <3>1. o # Reader
      BY ActorFacts
    <3> QED BY <2>0, <2>1, <2>7, <3>1
            DEF OtherSends, OtherQueues, OtherKills, registration, TypeOK, PlaceOK
  <2>8. CASE Close
    <3>1. added' = added /\ place'[Reader] = "done"
      BY <2>8 DEF Close
    <3> QED BY <3>1 DEF OneUserInv
  <2>9. CASE UNCHANGED vars
    BY <2>1, <2>9 DEF vars, registration
  <2> QED BY <2>3, <2>4, <2>5, <2>6, <2>7, <2>8, <2>9 DEF Next
<1>3. OneUserInv => AddsOneUser
  BY DEF OneUserInv, AddsOneUser
<1> QED BY <1>1, <1>2, <1>3, TypeCorrect, PTL DEF Spec

-----------------------------------------------------------------------------
\* An ERROR on its way stays there whatever else is queued.
LEMMA SendKeeps ==
    ASSUME TypeOK, NEW m \in Messages, Send(m), UNCHANGED <<buffered, told>>
    PROVE  ErrorKept => ErrorKept'
<1> SUFFICES ASSUME ErrorKept PROVE ErrorKept'
  OBVIOUS
<1>1. CASE buffered \/ told
  BY <1>1 DEF ErrorKept
<1>2. CASE \E i \in 1..Len(queue) : queue[i] = "ERROR"
  <2>1. CASE queue' = Append(queue, m)
    BY <1>2, <2>1 DEF ErrorKept, TypeOK, OutOK
  <2>2. CASE queue' = queue
    BY <1>2, <2>2 DEF ErrorKept
  <2> QED BY <2>1, <2>2 DEF Send
<1> QED BY <1>1, <1>2 DEF ErrorKept

\* What is queued changes nothing but the queue, or leaves an overflow's cause.
LEMMA SendCause ==
    ASSUME NEW m, Send(m)
    PROVE  \/ cause' = cause /\ queue' = Append(queue, m)
           \/ cause = None /\ cause' = "sendq"
           \/ cause # None /\ cause' = cause
BY DEF Send, Cancelled

\* The overflow is nobody's spoken cause.
LEMMA UnspokenFacts ==
    /\ "unsayable" \notin Spoken /\ "sendq" \notin Spoken
    /\ "read" \notin Spoken /\ "shutdown" \notin Spoken
    /\ "write" \notin Spoken /\ None \notin Spoken
    /\ "sendq" # None /\ "read" # None /\ "shutdown" # None /\ "write" # None
BY NoneAssumption DEF Spoken, Reasons, Causes

\* A step that only sends keeps the invariant.
LEMMA SendStep ==
    ASSUME ToldInv, TypeOK', NEW m \in Messages, Send(m),
           UNCHANGED <<due, buffered, told, failed>>, place'.writer = place.writer
    PROVE  ToldInv'
<1>1. ErrorKept => ErrorKept'
  BY SendKeeps DEF ToldInv
<1>2. CASE cause' = cause
  BY <1>1, <1>2 DEF ToldInv, ToldWhy
<1>3. CASE cause = None /\ cause' = "sendq"
  BY <1>3, UnspokenFacts DEF ToldInv, ToldWhy
<1> QED BY <1>2, <1>3, SendCause

\* So does a farewell: the ERROR is queued, or the overflow is the cause, or
\* the reason is unsayable.
LEMMA FarewellStep ==
    ASSUME ToldInv, TypeOK', NEW a \in Actors, NEW c \in Reasons, Farewell(a, c),
           UNCHANGED <<buffered, told, failed>>, place'.writer = place.writer
    PROVE  ToldInv'
<1> DEFINE m == IF c \in Spoken THEN "ERROR" ELSE "unsayable"
<1>0. Send(m) /\ m \in Messages
  BY DEF Farewell, Messages
<1>1. ErrorKept => ErrorKept'
  BY <1>0, SendKeeps DEF ToldInv
<1>2. /\ \A b \in Actors : b # a => due'[b] = due[b]
      /\ due'[a] = c
  BY DEF Farewell, ToldInv, TypeOK, OutOK
<1>3. CASE cause' = cause /\ queue' = Append(queue, m)
  <2>1. c \in Spoken => ErrorKept'
    <3> SUFFICES ASSUME c \in Spoken PROVE ErrorKept'
      OBVIOUS
    <3>1. Len(queue') \in 1..Len(queue') /\ queue'[Len(queue')] = "ERROR"
      BY <1>3 DEF ToldInv, TypeOK, OutOK
    <3> QED BY <3>1 DEF ErrorKept
  <2>2. \A b \in Actors : (due'[b] \in Spoken /\ cause' = None) => ErrorKept'
    BY <1>1, <1>2, <1>3, <2>1 DEF ToldInv
  <2> QED BY <1>1, <1>3, <2>2 DEF ToldInv, ToldWhy
<1>4. CASE cause = None /\ cause' = "sendq"
  BY <1>4, UnspokenFacts DEF ToldInv, ToldWhy
<1>5. CASE cause # None /\ cause' = cause
  BY <1>1, <1>5 DEF ToldInv, ToldWhy
<1> QED BY <1>0, <1>3, <1>4, <1>5, SendCause

\* So does a step that touches none of this.
LEMMA QuietStep ==
    ASSUME ToldInv, TypeOK', UNCHANGED <<queue, cause, due, buffered, told, failed>>,
           place'.writer = place.writer
    PROVE  ToldInv'
BY DEF ToldInv, ToldWhy, ErrorKept

\* So does a cancellation for a cause that nobody speaks of.
LEMMA UnspokenStep ==
    ASSUME ToldInv, TypeOK', NEW c \in {"read", "shutdown"}, Cancelled(c),
           UNCHANGED <<queue, due, buffered, told, failed>>, place'.writer = place.writer
    PROVE  ToldInv'
<1>1. ErrorKept' <=> ErrorKept
  BY DEF ErrorKept
<1> QED BY <1>1, UnspokenFacts DEF Cancelled, ToldInv, ToldWhy

\* So does completing registration.
LEMMA CompleteStep ==
    ASSUME ToldInv, TypeOK', NEW p, TryComplete(p), UNCHANGED <<buffered, told, failed>>
    PROVE  ToldInv'
<1>0. /\ Reader \in Actors /\ "bad password" \in Reasons /\ "line" \in Messages
      /\ Reader # "writer"
  BY ActorFacts DEF Reasons, Spoken, Messages
<1>1. place'.writer = place.writer
  BY <1>0 DEF TryComplete, ToldInv, TypeOK, PlaceOK
<1>2. CASE Quietly /\ UNCHANGED due
  BY <1>1, <1>2, QuietStep DEF Quietly, outbound
<1>3. CASE Farewell(Reader, "bad password")
  BY <1>0, <1>1, <1>3, FarewellStep
<1>4. CASE Send("line") /\ UNCHANGED due
  BY <1>0, <1>1, <1>4, SendStep
<1> QED BY <1>2, <1>3, <1>4 DEF TryComplete

\* No line of the client breaks the invariant.
LEMMA ClientTold == ToldInv /\ TypeOK' /\ Client => ToldInv'
<1> SUFFICES ASSUME ToldInv, TypeOK', Client PROVE ToldInv'
  OBVIOUS
<1>0. /\ Reader \in Actors /\ Reader # "writer" /\ "line" \in Messages
      /\ {"quit", "unsayable", "flood", "oversized"} \subseteq Reasons
      /\ place \in [Actors \cup {"writer"} -> {"reading", "welcoming", "writing caps",
             "waiting", "idle", "reading caps", "select", "batch", "drain", "done"}]
  BY ActorFacts DEF Reasons, Spoken, Messages, ToldInv, TypeOK, PlaceOK
<1> USE DEF Line, output, registration
<1>1. ASSUME Answered, UNCHANGED <<buffered, told, failed>> PROVE ToldInv'
  BY <1>0, <1>1, SendStep DEF Answered
<1>2. ASSUME NEW ok \in BOOLEAN, HandlePass(ok) PROVE ToldInv'
  BY <1>1, <1>2, QuietStep DEF HandlePass, Quietly, outbound
<1>3. CASE HandleNick
  BY <1>1, <1>3, CompleteStep DEF HandleNick
<1>4. CASE HandleUser
  BY <1>1, <1>4, CompleteStep DEF HandleUser
<1>5. CASE HandleService
  <2>1. UNCHANGED <<buffered, told, failed>>
    BY <1>5 DEF HandleService
  <2>2. CASE ~ Answered
    <3>1. place'.writer = place.writer /\ UNCHANGED <<queue, cause, due>>
      BY <1>0, <1>5, <2>2 DEF HandleService, Quietly, outbound
    <3> QED BY <2>1, <3>1, QuietStep
  <2> QED BY <1>1, <2>1, <2>2
<1>6. CASE HandleCapLs
  BY <1>0, <1>6, SendStep DEF HandleCapLs
<1>7. CASE HandleCapReq
  <2>1. CASE Send("line")
    <3>1. place'.writer = place.writer /\ UNCHANGED <<due, buffered, told, failed>>
      BY <1>0, <1>7 DEF HandleCapReq
    <3> QED BY <1>0, <2>1, <3>1, SendStep
  <2>2. CASE Quietly
    <3>1. place'.writer = place.writer /\ UNCHANGED <<due, buffered, told, failed>>
      BY <1>0, <1>7 DEF HandleCapReq
    <3> QED BY <2>2, <3>1, QuietStep DEF Quietly, outbound
  <2> QED BY <1>7, <2>1, <2>2 DEF HandleCapReq
<1>8. CASE HandleCapEnd
  BY <1>8, CompleteStep DEF HandleCapEnd
<1>9. CASE HandleQuit
  BY <1>0, <1>9, FarewellStep DEF HandleQuit
<1>10. CASE HandleFlood
  BY <1>0, <1>10, FarewellStep DEF HandleFlood
<1>11. CASE HandleOther
  <2>1. CASE Send("line")
    BY <1>0, <1>11, <2>1, SendStep DEF HandleOther
  <2>2. CASE Quietly
    BY <1>11, <2>2, QuietStep DEF HandleOther, Quietly, outbound
  <2> QED BY <1>11, <2>1, <2>2 DEF HandleOther
<1>12. CASE Oversized
  <2>1. place'.writer = place.writer /\ UNCHANGED <<buffered, told, failed>>
    BY <1>0, <1>12 DEF Oversized
  <2> QED BY <1>0, <1>12, <2>1, FarewellStep DEF Oversized
<1>13. CASE HangUp
  <2>1. place'.writer = place.writer /\ UNCHANGED <<queue, due, buffered, told, failed>>
    BY <1>0, <1>13 DEF HangUp, ReaderExits
  <2>2. Cancelled("read")
    BY <1>13 DEF HangUp, ReaderExits
  <2> QED BY <2>1, <2>2, UnspokenStep
<1> QED BY <1>2, <1>3, <1>4, <1>5, <1>6, <1>7, <1>8, <1>9, <1>10, <1>11, <1>12, <1>13 DEF Client

\* The writer hands the ERROR on, and stops only with nothing left.
LEMMA WriterTold == ToldInv /\ TypeOK' /\ (Writer \/ WriteFails) => ToldInv'
<1> SUFFICES ASSUME ToldInv, TypeOK', Writer \/ WriteFails PROVE ToldInv'
  OBVIOUS
<1>0. TypeOK /\ "writer" \in DOMAIN place
  BY DEF ToldInv, TypeOK, PlaceOK
<1> USE DEF WriterMoves, registration, outbound, output
<1>1. CASE WriterTakes
  <2>1. queue \in Seq(Messages) /\ queue # <<>> /\ queue' = Tail(queue)
    BY <1>0, <1>1 DEF WriterTakes, TypeOK, OutOK
  <2>2. ErrorKept => ErrorKept'
    <3> SUFFICES ASSUME ErrorKept PROVE ErrorKept'
      OBVIOUS
    <3>1. CASE buffered \/ told
      BY <1>1, <3>1 DEF WriterTakes, ErrorKept
    <3>2. ASSUME NEW i \in 1..Len(queue), queue[i] = "ERROR" PROVE ErrorKept'
      <4>1. CASE i = 1
        BY <1>1, <2>1, <3>2, <4>1, TailTypes DEF WriterTakes, ErrorKept
      <4>2. CASE i # 1
        <5>1. i - 1 \in 1..Len(Tail(queue)) /\ Tail(queue)[i - 1] = queue[i]
          BY <2>1, <4>2, TailTypes
        <5> QED BY <2>1, <3>2, <5>1 DEF ErrorKept
      <4> QED BY <4>1, <4>2
    <3> QED BY <3>1, <3>2 DEF ErrorKept
  <2>3. /\ UNCHANGED <<cause, due, told, failed>>
        /\ place'.writer \in {"drain", "batch"}
        /\ place'.writer = "drain" => place.writer = "drain"
    BY <1>0, <1>1 DEF WriterTakes
  <2> QED BY <2>2, <2>3 DEF ToldInv, ToldWhy
<1>2. CASE WriterFlushes
  <2>1. ErrorKept => ErrorKept'
    BY <1>2 DEF WriterFlushes, Flushed, ErrorKept
  <2>2. UNCHANGED <<cause, due, failed>> /\ place'.writer = "select"
    BY <1>0, <1>2 DEF WriterFlushes
  <2> QED BY <2>1, <2>2 DEF ToldInv, ToldWhy
<1>3. CASE WriterSeesCancel
  <2>1. /\ UNCHANGED <<queue, cause, due, buffered, told, failed>>
        /\ place'.writer = "drain" /\ cause # None
    BY <1>0, <1>3 DEF WriterSeesCancel
  <2> QED BY <2>1 DEF ToldInv, ToldWhy, ErrorKept
<1>4. CASE WriterStops
  <2>1. ErrorKept => told'
    <3>1. queue = <<>> /\ (told' <=> told \/ buffered)
      BY <1>4 DEF WriterStops, Flushed
    <3>2. ~ \E i \in 1..Len(queue) : queue[i] = "ERROR"
      BY <3>1
    <3> QED BY <3>1, <3>2 DEF ErrorKept
  <2>2. UNCHANGED <<cause, due, failed>> /\ place'.writer = "done" /\ cause # None
    BY <1>0, <1>4 DEF WriterStops, ToldInv
  <2> QED BY <2>1, <2>2 DEF ToldInv, ToldWhy, ErrorKept
<1>5. CASE WriteFails
  <2>1. failed' = TRUE /\ cause' # None
    BY <1>5, UnspokenFacts DEF WriteFails, Cancelled
  <2> QED BY <2>1 DEF ToldInv, ToldWhy
<1> QED BY <1>1, <1>2, <1>3, <1>4, <1>5 DEF Writer

\* Cancelling turns what is due into the cause, the ERROR being on its way.
LEMMA CancelTold ==
    ASSUME ToldInv, TypeOK', NEW a \in Actors, Cancel(a)
    PROVE  ToldInv'
<1>1. ErrorKept' <=> ErrorKept
  BY DEF Cancel, output, ErrorKept
<1>2. /\ cause' # None
      /\ cause # None => cause' = cause
      /\ (cause = None /\ cause' \in Spoken) => ErrorKept
  BY DEF Cancel, Cancelled, ToldInv
<1>3. UNCHANGED <<told, failed, place>>
  BY DEF Cancel, output
<1> QED BY <1>1, <1>2, <1>3 DEF ToldInv, ToldWhy

\* Whoever ends a connection for a spoken reason is heard, or a write failed.
THEOREM ToldWhyHolds == Spec => []ToldWhy
<1>1. Init => ToldInv
  <2> SUFFICES ASSUME Init PROVE ToldInv
    OBVIOUS
  <2>1. TypeOK
    BY InitTypes
  <2>2. cause = None /\ place.writer = "select"
    BY ActorFacts DEF Init
  <2>3. \A a \in Actors : due[a] = None
    BY DEF Init
  <2> QED BY <2>1, <2>2, <2>3, UnspokenFacts DEF ToldInv, ToldWhy
<1>2. ToldInv /\ TypeOK' /\ [Next]_vars => ToldInv'
  <2> SUFFICES ASSUME ToldInv, TypeOK', [Next]_vars PROVE ToldInv'
    OBVIOUS
  <2>0. /\ Reader \in Actors /\ Pinger \in Actors
        /\ "line" \in Messages /\ {"ping timeout", "killed", "unsayable"} \subseteq Reasons
        /\ Reader # "writer" /\ Pinger # "writer"
        /\ place \in [Actors \cup {"writer"} -> {"reading", "welcoming", "writing caps",
             "waiting", "idle", "reading caps", "select", "batch", "drain", "done"}]
    BY ActorFacts DEF Reasons, Spoken, Messages, ToldInv, TypeOK, PlaceOK
  <2>1. CASE Welcome \/ AckCaps
    <3>1. /\ place'.writer = place.writer /\ Send("line")
          /\ UNCHANGED <<due, buffered, told, failed>>
      BY <2>0, <2>1 DEF Welcome, AckCaps, output
    <3> QED BY <2>0, <3>1, SendStep
  <2>2. CASE SocketIsClosed
    <3>1. /\ place'.writer = place.writer /\ Cancelled("read")
          /\ UNCHANGED <<queue, due, buffered, told, failed>>
      BY <2>0, <2>2 DEF SocketIsClosed, ReaderExits, output
    <3> QED BY <3>1, UnspokenStep
  <2>3. CASE Shutdown
    BY <2>3, UnspokenStep DEF Shutdown, output
  <2>4. CASE PingTick
    <3>1. place'.writer = place.writer /\ UNCHANGED <<buffered, told, failed>>
      BY <2>0, <2>4 DEF PingTick, output
    <3>2. CASE Farewell(Pinger, "ping timeout")
      BY <2>0, <3>1, <3>2, FarewellStep
    <3>3. CASE Send("line") /\ UNCHANGED due
      BY <2>0, <3>1, <3>3, SendStep
    <3>4. CASE Quietly /\ UNCHANGED due
      BY <3>1, <3>4, QuietStep DEF Quietly, outbound
    <3> QED BY <2>4, <3>2, <3>3, <3>4 DEF PingTick
  <2>5. CASE Elapse \/ PingerExits \/ Close \/ UNCHANGED vars
    <3>1. place'.writer = place.writer /\ UNCHANGED <<queue, cause, due, buffered, told, failed>>
      BY <2>0, <2>5 DEF Elapse, PingerExits, Close, vars, outbound, output
    <3> QED BY <3>1, QuietStep
  <2>6. ASSUME NEW o \in Others, OtherSends(o) \/ OtherQueues(o) \/ OtherKills(o)
        PROVE  ToldInv'
    <3>0. o \in Actors /\ o # "writer"
      BY ActorFacts
    <3>1. place'.writer = place.writer /\ UNCHANGED <<buffered, told, failed>>
      BY <2>0, <2>6, <3>0 DEF OtherSends, OtherQueues, OtherKills, output
    <3>2. CASE OtherSends(o)
      BY <3>1, <3>2, QuietStep DEF OtherSends, outbound
    <3>3. CASE OtherQueues(o)
      BY <2>0, <3>1, <3>3, SendStep DEF OtherQueues
    <3>4. CASE OtherKills(o)
      BY <2>0, <3>0, <3>1, <3>4, FarewellStep DEF OtherKills
    <3> QED BY <2>6, <3>2, <3>3, <3>4
  <2> QED BY <2>1, <2>2, <2>3, <2>4, <2>5, <2>6, ClientTold, WriterTold, CancelTold DEF Next
<1>3. ToldInv => ToldWhy
  BY DEF ToldInv
<1> QED BY <1>1, <1>2, <1>3, TypeCorrect, PTL DEF Spec
-----------------------------------------------------------------------------
\* A registration with nothing missing has been acted on: there is a user, or
\* the connection is on its way out, or gone.
ActedOn == user \/ ended \/ cause # None \/ due[Reader] # None

PendingInv == TypeOK /\ (Ready(pending) => ActedOn)

\* Sending leaves a cause a cause.
LEMMA SendStays ==
    ASSUME NEW m, Send(m)
    PROVE  cause # None => cause' # None
BY SendCause, UnspokenFacts

\* So do the farewell of anybody and what is due to the reader.
LEMMA FarewellStays ==
    ASSUME TypeOK, NEW a \in Actors, NEW c \in Reasons, Farewell(a, c)
    PROVE  /\ cause # None => cause' # None
           /\ due[Reader] # None => due'[Reader] # None
           /\ a = Reader => due'[Reader] # None
<1>1. cause # None => cause' # None
  BY SendStays DEF Farewell
<1>2. c # None
  BY NoneAssumption DEF Causes
<1> QED BY <1>1, <1>2, ActorFacts DEF Farewell, TypeOK, OutOK

\* tryCompleteRegistration acts on whatever is complete.
LEMMA CompleteActs ==
    ASSUME TypeOK,
           NEW p \in [nick : BOOLEAN, user : BOOLEAN, password : BOOLEAN,
                      negotiating : BOOLEAN, ended : BOOLEAN],
           TryComplete(p), UNCHANGED ended
    PROVE  Ready(pending') => ActedOn'
<1>1. CASE (user \/ ~ Ready(p)) /\ pending' = p /\ Quietly /\ UNCHANGED <<user, added, due, place>>
  BY <1>1 DEF ActedOn
<1>2. CASE Farewell(Reader, "bad password")
  <2>1. "bad password" \in Reasons
    BY DEF Reasons, Spoken
  <2> QED BY <1>2, <2>1, ActorFacts, FarewellStays DEF ActedOn
<1>3. CASE pending' = [p EXCEPT !.nick = FALSE] /\ Ready(p)
  <2> SUFFICES ASSUME Ready(pending') PROVE FALSE
    OBVIOUS
  <2>1. pending'.nick = FALSE
    BY <1>3
  <2> QED BY <2>1 DEF Ready
<1>4. CASE user' = TRUE
  BY <1>4 DEF ActedOn
<1> QED BY <1>1, <1>2, <1>3, <1>4 DEF TryComplete

\* No line leaves a complete registration unattended.
LEMMA ClientActs == PendingInv /\ Client => (Ready(pending') => ActedOn')
<1> SUFFICES ASSUME PendingInv, Client PROVE Ready(pending') => ActedOn'
  OBVIOUS
<1>0. /\ TypeOK /\ Reader \in Actors /\ "line" \in Messages
      /\ {"quit", "unsayable", "flood", "oversized"} \subseteq Reasons
      /\ pending \in [nick : BOOLEAN, user : BOOLEAN, password : BOOLEAN,
                      negotiating : BOOLEAN, ended : BOOLEAN]
  BY ActorFacts DEF Reasons, Spoken, Messages, PendingInv, TypeOK, RegOK
<1>a. ASSUME UNCHANGED <<pending, user, due, ended>>, cause # None => cause' # None
      PROVE  Ready(pending') => ActedOn'
  <2>1. ActedOn => ActedOn'
    BY <1>a, Zenon DEF ActedOn
  <2>2. Ready(pending') => Ready(pending)
    BY <1>a
  <2> QED BY <2>1, <2>2 DEF PendingInv
<1>b. ASSUME due'[Reader] # None
      PROVE  Ready(pending') => ActedOn'
  BY <1>b DEF ActedOn
<1>c. ASSUME Answered, UNCHANGED ended PROVE Ready(pending') => ActedOn'
  BY <1>0, <1>a, <1>c, SendStays DEF Answered, registration
<1>1. ASSUME NEW ok \in BOOLEAN, HandlePass(ok) PROVE Ready(pending') => ActedOn'
  <2>1. UNCHANGED ended
    BY <1>1 DEF HandlePass, Line
  <2>2. CASE ~ user
    <3>1. pending' = [pending EXCEPT !.password = ok] /\ UNCHANGED <<user, due, cause>>
      BY <1>1, <2>2 DEF HandlePass, Quietly, outbound
    <3>2. Ready(pending') => Ready(pending)
      BY <1>0, <3>1 DEF Ready
    <3>3. ActedOn => ActedOn'
      BY <2>1, <3>1, Zenon DEF ActedOn
    <3> QED BY <3>2, <3>3 DEF PendingInv
  <2> QED BY <1>1, <1>c, <2>1, <2>2 DEF HandlePass
<1>2. CASE HandleNick
  <2>1. UNCHANGED ended
    BY <1>2 DEF HandleNick, Line
  <2>2. CASE ~ user
    <3>1. [pending EXCEPT !.nick = TRUE] \in [nick : BOOLEAN, user : BOOLEAN,
             password : BOOLEAN, negotiating : BOOLEAN, ended : BOOLEAN]
      BY <1>0
    <3> QED BY <1>0, <1>2, <2>1, <2>2, <3>1, CompleteActs DEF HandleNick
  <2> QED BY <1>2, <1>c, <2>1, <2>2 DEF HandleNick
<1>3. CASE HandleUser
  <2>1. UNCHANGED ended
    BY <1>3 DEF HandleUser, Line
  <2>2. CASE ~ user
    <3>1. [pending EXCEPT !.user = TRUE] \in [nick : BOOLEAN, user : BOOLEAN,
             password : BOOLEAN, negotiating : BOOLEAN, ended : BOOLEAN]
      BY <1>0
    <3> QED BY <1>0, <1>3, <2>1, <2>2, <3>1, CompleteActs DEF HandleUser
  <2> QED BY <1>3, <1>c, <2>1, <2>2 DEF HandleUser
<1>4. CASE HandleCapEnd
  <2>1. UNCHANGED ended
    BY <1>4 DEF HandleCapEnd, Line
  <2>2. [pending EXCEPT !.ended = TRUE] \in [nick : BOOLEAN, user : BOOLEAN,
           password : BOOLEAN, negotiating : BOOLEAN, ended : BOOLEAN]
    BY <1>0
  <2> QED BY <1>0, <1>4, <2>1, <2>2, CompleteActs DEF HandleCapEnd
<1>5. CASE HandleService
  <2>1. UNCHANGED ended
    BY <1>5 DEF HandleService, Line
  <2>2. CASE ~ Answered
    BY <1>5, <2>2 DEF HandleService, ActedOn
  <2> QED BY <1>c, <2>1, <2>2
<1>6. CASE HandleCapLs \/ HandleCapReq
  <2>1. pending' = [pending EXCEPT !.negotiating = TRUE] /\ UNCHANGED <<user, due, ended>>
    BY <1>6 DEF HandleCapLs, HandleCapReq, Line
  <2>2. Send("line") \/ UNCHANGED cause
    BY <1>6 DEF HandleCapLs, HandleCapReq, Quietly, outbound
  <2>3. cause # None => cause' # None
    BY <2>2, SendStays
  <2>4. Ready(pending') => Ready(pending)
    BY <1>0, <2>1 DEF Ready
  <2>5. ActedOn => ActedOn'
    BY <2>1, <2>3, Zenon DEF ActedOn
  <2> QED BY <2>4, <2>5 DEF PendingInv
<1>7. CASE HandleQuit \/ HandleFlood \/ Oversized
  BY <1>0, <1>7, <1>b, FarewellStays DEF HandleQuit, HandleFlood, Oversized
<1>8. CASE HandleOther
  <2>1. UNCHANGED <<pending, user, due, ended>>
    BY <1>8 DEF HandleOther, Line, registration
  <2>2. cause # None => cause' # None
    BY <1>8, SendStays DEF HandleOther, Quietly, outbound
  <2> QED BY <1>a, <2>1, <2>2
<1>9. CASE HangUp
  <2>1. UNCHANGED <<pending, user, due, ended>> /\ Cancelled("read")
    BY <1>9 DEF HangUp, ReaderExits, registration
  <2> QED BY <1>a, <2>1 DEF Cancelled
<1> QED BY <1>1, <1>2, <1>3, <1>4, <1>5, <1>6, <1>7, <1>8, <1>9 DEF Client

\* Whatever the order of a client's commands, none is the last that was
\* missing without completing the registration or ending the connection.
THEOREM NothingPendingHolds == Spec => []NothingPending
<1>1. Init => PendingInv
  <2> SUFFICES ASSUME Init PROVE PendingInv
    OBVIOUS
  <2>1. TypeOK /\ ~ Ready(pending)
    BY InitTypes DEF Init, Ready
  <2> QED BY <2>1 DEF PendingInv
<1>2. PendingInv /\ TypeOK' /\ [Next]_vars => PendingInv'
  <2> SUFFICES ASSUME PendingInv, TypeOK', [Next]_vars PROVE Ready(pending') => ActedOn'
    BY DEF PendingInv
  <2>0. /\ TypeOK /\ Reader \in Actors /\ Pinger \in Actors /\ Reader # Pinger
        /\ {"ping timeout", "killed", "unsayable"} \subseteq Reasons
    BY ActorFacts DEF Reasons, Spoken, PendingInv
  <2>a. ASSUME UNCHANGED pending, ActedOn => ActedOn'
        PROVE  Ready(pending') => ActedOn'
    BY <2>a DEF PendingInv
  <2>b. ASSUME UNCHANGED <<pending, user, due, ended>>, cause # None => cause' # None
        PROVE  Ready(pending') => ActedOn'
    BY <2>a, <2>b, Zenon DEF ActedOn
  <2>c. ASSUME NEW a \in Actors, NEW c \in Reasons, Farewell(a, c),
               UNCHANGED <<pending, user, ended>>
        PROVE  Ready(pending') => ActedOn'
    <3>1. /\ cause # None => cause' # None
          /\ due[Reader] # None => due'[Reader] # None
      BY <2>0, <2>c, FarewellStays
    <3> QED BY <2>a, <2>c, <3>1, Zenon DEF ActedOn
  <2>1. CASE Client
    BY <2>1, ClientActs
  <2>2. CASE Welcome \/ AckCaps
    BY <2>2, <2>b, SendStays DEF Welcome, AckCaps, registration
  <2>3. CASE SocketIsClosed \/ Shutdown \/ WriteFails
    <3>1. UNCHANGED <<pending, user, due, ended>>
      BY <2>3 DEF SocketIsClosed, ReaderExits, Shutdown, WriteFails, registration
    <3>2. cause # None => cause' # None
      BY <2>3 DEF SocketIsClosed, ReaderExits, Shutdown, WriteFails, Cancelled
    <3> QED BY <2>b, <3>1, <3>2
  <2>4. CASE Writer \/ Elapse \/ PingerExits
    BY <2>4, <2>b DEF Writer, WriterTakes, WriterFlushes, WriterSeesCancel, WriterStops,
                      Elapse, PingerExits, registration, outbound
  <2>5. CASE PingTick
    <3>1. UNCHANGED <<pending, user, ended>>
      BY <2>5 DEF PingTick, registration
    <3>2. CASE Farewell(Pinger, "ping timeout")
      BY <2>0, <2>c, <3>1, <3>2
    <3>3. CASE Send("line") /\ UNCHANGED due
      BY <2>b, <3>1, <3>3, SendStays
    <3>4. CASE Quietly /\ UNCHANGED due
      BY <2>b, <3>1, <3>4 DEF Quietly, outbound
    <3> QED BY <2>5, <3>2, <3>3, <3>4 DEF PingTick
  <2>6. ASSUME NEW a \in Actors, Cancel(a) PROVE Ready(pending') => ActedOn'
    <3>1. cause' # None
      BY <2>6 DEF Cancel, Cancelled
    <3> QED BY <3>1 DEF ActedOn
  <2>7. ASSUME NEW o \in Others, OtherSends(o) \/ OtherQueues(o) \/ OtherKills(o)
        PROVE  Ready(pending') => ActedOn'
    <3>0. o \in Actors
      BY ActorFacts
    <3>1. CASE OtherSends(o) \/ OtherQueues(o)
      BY <2>b, <3>1, SendStays DEF OtherSends, OtherQueues, registration, outbound
    <3>2. CASE OtherKills(o)
      BY <2>0, <2>c, <3>0, <3>2 DEF OtherKills, registration
    <3> QED BY <2>7, <3>1, <3>2
  <2>8. CASE Close
    BY <2>8 DEF Close, ActedOn
  <2>9. CASE UNCHANGED vars
    BY <2>9, <2>b DEF vars, registration, outbound
  <2> QED BY <2>1, <2>2, <2>3, <2>4, <2>5, <2>6, <2>7, <2>8, <2>9 DEF Next
<1>3. PendingInv => NothingPending
  BY DEF PendingInv, ActedOn, NothingPending
<1> QED BY <1>1, <1>2, <1>3, TypeCorrect, PTL DEF Spec

-----------------------------------------------------------------------------
(* The ping loop asks before it gives up.                                  *)

\* A step that is not the ping loop's, nor time's.
Aside ==
    /\ place'[Pinger] = "waiting" => place[Pinger] = "waiting"
    /\ due'[Pinger] \in {due[Pinger], None}
    /\ sinceTick' = sinceTick
    /\ idle' = 0 \/ (idle' = idle /\ asked' = asked)

LEMMA CompleteAside ==
    ASSUME TypeOK, NEW p, TryComplete(p)
    PROVE  due'[Pinger] = due[Pinger] /\ place'[Pinger] = place[Pinger]
<1>1. Reader # Pinger /\ due \in [Actors -> Reasons \cup {None}] /\ Pinger \in Actors
  BY ActorFacts DEF TypeOK, OutOK
<1>2. place \in [Actors \cup {"writer"} -> {"reading", "welcoming", "writing caps", "waiting",
                   "idle", "reading caps", "select", "batch", "drain", "done"}]
  BY DEF TypeOK, PlaceOK
<1> QED BY <1>1, <1>2 DEF TryComplete, Farewell

LEMMA ClientAside == TypeOK /\ Client => Aside
<1> SUFFICES ASSUME TypeOK, Client PROVE Aside
  OBVIOUS
<1>1. Reader # Pinger /\ due \in [Actors -> Reasons \cup {None}] /\ Pinger \in Actors
  BY ActorFacts DEF TypeOK, OutOK
<1>2. place \in [Actors \cup {"writer"} -> {"reading", "welcoming", "writing caps", "waiting",
                   "idle", "reading caps", "select", "batch", "drain", "done"}]
  BY DEF TypeOK, PlaceOK
<1>3. ASSUME NEW k, Line(k) PROVE sinceTick' = sinceTick /\ idle' = 0
  BY <1>3 DEF Line
<1>4. CASE HandleNick \/ HandleUser \/ HandleCapEnd
  <2>1. due'[Pinger] = due[Pinger] /\ place'[Pinger] = place[Pinger]
    BY <1>4, CompleteAside DEF HandleNick, HandleUser, HandleCapEnd, Answered
  <2> QED BY <1>3, <1>4, <2>1 DEF HandleNick, HandleUser, HandleCapEnd, Aside
<1>5. CASE (\E ok \in BOOLEAN : HandlePass(ok)) \/ HandleService \/ HandleCapLs \/ HandleCapReq
            \/ HandleOther
  <2>1. due' = due /\ place'[Pinger] = place[Pinger]
    BY <1>1, <1>2, <1>5
       DEF HandlePass, HandleService, HandleCapLs, HandleCapReq, HandleOther, Answered
  <2>2. sinceTick' = sinceTick /\ idle' = 0
    BY <1>3, <1>5 DEF HandlePass, HandleService, HandleCapLs, HandleCapReq, HandleOther
  <2> QED BY <2>1, <2>2 DEF Aside
<1>6. CASE HandleQuit \/ HandleFlood
  <2>1. due'[Pinger] = due[Pinger] /\ place' = place
    BY <1>1, <1>6 DEF HandleQuit, HandleFlood, Farewell
  <2>2. sinceTick' = sinceTick /\ idle' = 0
    BY <1>3, <1>6 DEF HandleQuit, HandleFlood
  <2> QED BY <2>1, <2>2 DEF Aside
<1>7. CASE Oversized
  BY <1>1, <1>2, <1>7 DEF Oversized, Farewell, time, Aside
<1>8. CASE HangUp
  BY <1>1, <1>2, <1>8 DEF HangUp, ReaderExits, time, Aside
<1> QED BY <1>4, <1>5, <1>6, <1>7, <1>8 DEF Client

LEMMA OtherAside ==
    ASSUME TypeOK, \/ Welcome \/ AckCaps \/ SocketIsClosed \/ Writer \/ WriteFails
                   \/ PingerExits \/ (\E a \in Actors : Cancel(a))
                   \/ (\E o \in Others : OtherSends(o) \/ OtherQueues(o) \/ OtherKills(o))
                   \/ Shutdown \/ Close \/ UNCHANGED vars
    PROVE  Aside
<1>1. /\ Reader # Pinger /\ due \in [Actors -> Reasons \cup {None}] /\ Pinger \in Actors
      /\ Pinger # "writer" /\ \A o \in Others : o # Pinger
  BY ActorFacts DEF TypeOK, OutOK
<1>2. place \in [Actors \cup {"writer"} -> {"reading", "welcoming", "writing caps", "waiting",
                   "idle", "reading caps", "select", "batch", "drain", "done"}]
  BY DEF TypeOK, PlaceOK
<1>3. CASE Welcome \/ AckCaps \/ SocketIsClosed
  BY <1>1, <1>2, <1>3 DEF Welcome, AckCaps, SocketIsClosed, ReaderExits, time, Aside
<1>4. CASE Writer \/ WriteFails
  BY <1>1, <1>2, <1>4 DEF Writer, WriterTakes, WriterFlushes, WriterSeesCancel, WriterStops,
     WriteFails, WriterMoves, time, Aside
<1>5. CASE PingerExits \/ Shutdown \/ Close
  BY <1>1, <1>2, <1>5 DEF PingerExits, Shutdown, Close, time, Aside
<1>6. ASSUME NEW a \in Actors, Cancel(a) PROVE Aside
  BY <1>1, <1>6 DEF Cancel, time, Aside
<1>7. ASSUME NEW o \in Others, OtherSends(o) \/ OtherQueues(o) \/ OtherKills(o) PROVE Aside
  BY <1>1, <1>2, <1>7 DEF OtherSends, OtherQueues, OtherKills, Farewell, time, Aside
<1>8. CASE UNCHANGED vars
  BY <1>8 DEF vars, time, Aside
<1> QED BY <1>3, <1>4, <1>5, <1>6, <1>7, <1>8

\* Silences i, and times t since the last tick: at a message, when time passes,
\* and against the timeout.
LEMMA Silence ==
    /\ \A p \in Nat, t \in Nat : p >= 1 => 0 < p + t
    /\ \A i \in Nat, j \in Nat, p \in Nat, t \in Nat : i < p + t /\ j <= i + 1 => j < p + (t + 1)
    /\ \A i \in Nat, p \in Nat : i < p => i < p + 0
    /\ \A i \in Nat, p \in Nat, t \in Nat, m \in Nat : i < p + t /\ m >= p + t => ~ (i >= m)
OBVIOUS

\* A client that was asked for no sign of life is given no timeout (pingLoop),
\* if a tick is sure to fall between the interval and the timeout.  The defaults
\* of the configuration see to that; its validation does not.
THEOREM AskedFirst ==
    ASSUME Timeout >= Interval + Tick
    PROVE  Spec => AskedBeforeTimeout
<1>0. Interval \in Nat /\ Interval >= 1 /\ Timeout \in Nat /\ Tick \in Nat
  BY PingAssumption, TickFacts
<1>a. None # "ping timeout" /\ Pinger \in Actors
  BY NoneAssumption, ActorFacts DEF Causes, Reasons, Spoken
<1>1. Init => AskedInv
  <2>1. Init => idle = 0 /\ sinceTick = 0
    BY DEF Init
  <2> QED BY <1>0, <2>1, InitTypes DEF AskedInv
<1>2. TypeOK /\ [Next]_vars => Aside \/ Elapse \/ PingTick
  BY ClientAside, OtherAside DEF Next
<1>3. (TypeOK => idle \in Nat /\ sinceTick \in Nat) /\ (TypeOK' => idle' \in Nat /\ sinceTick' \in Nat)
  <2>1. /\ TypeOK => idle \in 0..Timeout /\ sinceTick \in 0..Tick
        /\ TypeOK' => idle' \in 0..Timeout /\ sinceTick' \in 0..Tick
    BY Zenon DEF TypeOK, RestOK, Tick
  <2>2. \A n \in Nat : 0..n \subseteq Nat
    OBVIOUS
  <2> QED BY <1>0, <2>1, <2>2, Zenon
<1>4. AskedInv /\ TypeOK' /\ [Next]_vars => AskedInv'
  <2> SUFFICES ASSUME AskedInv, TypeOK', Unasked', [Next]_vars
               PROVE  idle' < Interval + sinceTick'
    BY DEF AskedInv
  <2>0. idle \in Nat /\ sinceTick \in Nat /\ idle' \in Nat /\ sinceTick' \in Nat
    BY <1>3, Zenon DEF AskedInv
  <2>a. TypeOK /\ (Unasked => idle < Interval + sinceTick)
    BY Zenon DEF AskedInv
  <2>b. place'[Pinger] = "waiting" /\ ~ asked'
    BY Zenon DEF Unasked
  <2>1. CASE Aside
    <3>1. CASE idle' = 0
      BY <1>0, <2>0, <3>1, Silence, Zenon
    <3>2. CASE idle' # 0
      <4>1. place[Pinger] = "waiting" /\ idle' = idle /\ sinceTick' = sinceTick /\ asked' = asked
        BY <2>1, <2>b, <3>2 DEF Aside
      <4>2. asked \in BOOLEAN /\ asked' \in BOOLEAN
        BY <2>a DEF TypeOK, RestOK
      <4>3. ~ asked
        BY <2>b, <4>1, <4>2
      <4> QED BY <2>a, <4>1, <4>3, Zenon DEF Unasked
    <3> QED BY <3>1, <3>2
  <2>2. CASE Elapse
    <3>1. place[Pinger] = "waiting" /\ asked' = asked /\ sinceTick < Tick
      BY <2>2, <2>b DEF Elapse
    <3>2. sinceTick' = sinceTick + 1 /\ idle' <= idle + 1
      BY <1>0, <2>0, <2>2, <3>1 DEF Elapse
    <3>3. asked \in BOOLEAN /\ asked' \in BOOLEAN
      BY <2>a DEF TypeOK, RestOK
    <3>4. ~ asked
      BY <2>b, <3>1, <3>3
    <3>5. idle < Interval + sinceTick
      BY <2>a, <3>1, <3>4, Zenon DEF Unasked
    <3> QED BY <1>0, <2>0, <3>2, <3>5, Silence, Zenon
  <2>3. CASE PingTick
    <3>1. place \in [Actors \cup {"writer"} -> {"reading", "welcoming", "writing caps", "waiting",
                       "idle", "reading caps", "select", "batch", "drain", "done"}]
      BY <2>a DEF TypeOK, PlaceOK
    <3>2. asked' # TRUE
      BY <2>b
    <3>3. idle < Interval /\ idle' = idle /\ sinceTick' = 0
      BY <1>a, <2>3, <2>b, <3>1, <3>2 DEF PingTick
    <3> QED BY <1>0, <2>0, <3>3, Silence, Zenon
  <2> QED BY <1>2, <2>a, <2>1, <2>2, <2>3, Zenon
<1>5. AskedInv /\ [Next]_vars => (due'[Pinger] = "ping timeout" /\ due[Pinger] = None => asked)
  <2> SUFFICES ASSUME AskedInv, [Next]_vars, due'[Pinger] = "ping timeout", due[Pinger] = None
               PROVE  asked
    OBVIOUS
  <2>0. idle \in Nat /\ sinceTick \in Nat
    BY <1>3 DEF AskedInv
  <2>1. ~ Aside
    BY <1>a DEF Aside
  <2>2. ~ Elapse
    BY <1>a DEF Elapse
  <2>3. PingTick
    BY <1>2, <2>1, <2>2 DEF AskedInv
  <2>4. place[Pinger] = "waiting" /\ sinceTick = Tick
    BY <2>3 DEF PingTick
  <2>5. idle >= Timeout
    BY <1>a, <2>3 DEF PingTick
  <2>6. ASSUME Unasked PROVE FALSE
    <3>1. idle < Interval + sinceTick
      BY <2>6 DEF AskedInv
    <3>2. sinceTick = Tick
      BY <2>4
    <3> QED BY <1>0, <2>0, <2>5, <3>1, <3>2, Silence, Zenon
  <2> QED BY <2>4, <2>6, Zenon DEF Unasked
<1>6. Spec => []AskedInv
  BY <1>1, <1>4, TypeCorrect, PTL DEF Spec
<1> QED BY <1>5, <1>6, PTL DEF Spec, AskedBeforeTimeout

-----------------------------------------------------------------------------
(* Flood control: the two promises of the token bucket that a connection has, *)
(* for every configuration: what may pass in an interval, and whom it never   *)
(* drops.                                                                     *)

\* The configuration, whatever it says, gives a bucket of at least one token.
LEMMA BucketFacts ==
    /\ Second \in Nat /\ Second >= 1
    /\ refillRate \in Nat /\ refillRate >= 1
    /\ Full \in Nat /\ Full >= Second
<1>1. Second \in Nat /\ Second >= 1
  BY SecondAssumption
<1>2. refillRate \in Nat /\ refillRate >= 1
  BY ConfigAssumption DEF refillRate
<1>3. burst \in Nat /\ burst >= 1
  BY ConfigAssumption DEF burst
<1>4. \A b, s \in Nat : b >= 1 => b * s \in Nat /\ b * s >= s
  OBVIOUS
<1> QED BY <1>1, <1>2, <1>3, <1>4 DEF Full

\* Time credits a whole number of units, linearly.
LEMMA CreditFacts ==
    /\ \A d \in Nat : d * refillRate \in Nat
    /\ \A d \in Nat : (d + 1) * refillRate = d * refillRate + refillRate
    /\ 0 * refillRate = 0
BY BucketFacts

\* The bucket never holds more than the burst, nor less than nothing.
LEMMA RefilledRange ==
    ASSUME available \in 0..Full, NEW t \in Nat, lastRefill \in 0..t
    PROVE  /\ Refilled(t) \in 0..Full
           /\ Refilled(t) >= available
           /\ Refilled(t) <= available + (t - lastRefill) * refillRate
<1>1. (t - lastRefill) * refillRate \in Nat
  BY CreditFacts
<1> QED BY <1>1, BucketFacts DEF Refilled

\* The bucket starts full, at time 0.
LEMMA BucketInit == FCInit => FCTypeOK
<1>1. - Second \in Int /\ Full \in 0..Full
  BY BucketFacts
<1> SUFFICES ASSUME FCInit PROVE FCTypeOK
  OBVIOUS
<1>2. now \in Nat /\ lastRefill \in 0..now /\ since \in 0..now /\ violations \in Nat /\ taken \in Nat
  BY DEF FCInit
<1>3. available \in 0..Full /\ lastSent \in Int
  BY <1>1, Zenon DEF FCInit
<1>4. kicked \in BOOLEAN /\ steady \in BOOLEAN
  BY DEF FCInit
<1> QED BY <1>2, <1>3, <1>4 DEF FCTypeOK

\* Type correctness: times are in order and the bucket is within its bounds.
THEOREM BucketTypes == FCSpec => []FCTypeOK
<1>1. FCInit => FCTypeOK
  BY BucketInit
<1>2. FCTypeOK /\ [FCNext]_fcVars => FCTypeOK'
  <2> SUFFICES ASSUME FCTypeOK, [FCNext]_fcVars PROVE FCTypeOK'
    OBVIOUS
  <2>1. CASE Message
    <3>1. Refilled(now) \in 0..Full
      BY RefilledRange DEF FCTypeOK
    <3>2. available' \in 0..Full /\ taken' \in Nat /\ violations' \in Nat
      BY <2>1, <3>1, BucketFacts DEF Message, FCTypeOK
    <3>3. now' \in Nat /\ lastRefill' \in 0..now' /\ since' \in 0..now' /\ lastSent' \in Int
      BY <2>1 DEF Message, FCTypeOK
    <3>4. kicked' \in BOOLEAN
      <4>1. (violations + 1 >= ToKick) \in BOOLEAN
        OBVIOUS
      <4> QED BY <2>1, <4>1 DEF Message, FCTypeOK
    <3>5. steady' \in BOOLEAN
      <4>1. (steady /\ (now - lastSent) * refillRate >= Second) \in BOOLEAN
        OBVIOUS
      <4> QED BY <2>1, <4>1, Zenon DEF Message
    <3> QED BY <3>2, <3>3, <3>4, <3>5 DEF FCTypeOK
  <2>2. CASE FCTick
    BY <2>2 DEF FCTick, FCTypeOK, bucket
  <2>3. CASE Observe
    BY <2>3 DEF Observe, FCTypeOK, bucket
  <2>4. CASE UNCHANGED fcVars
    BY <2>4 DEF FCTypeOK, fcVars, bucket
  <2> QED BY <2>1, <2>2, <2>3, <2>4 DEF FCNext
<1> QED BY <1>1, <1>2, PTL DEF FCSpec

\* WindowBound follows from its strengthening, because the bucket cannot owe.
LEMMA WindowInvImplies == WindowInv => WindowBound
<1> SUFFICES ASSUME WindowInv PROVE WindowBound
  OBVIOUS
<1>1. Refilled(now) \in 0..Full
  BY RefilledRange DEF WindowInv, FCTypeOK
<1>2. taken * Second \in Nat /\ (now - since) * refillRate \in Nat
  BY BucketFacts, CreditFacts DEF WindowInv, FCTypeOK
<1> QED BY <1>1, <1>2, BucketFacts DEF WindowInv, WindowBound

\* A tick credits at most what it adds to the bound.
LEMMA TickCredits ==
    ASSUME FCTypeOK, FCTick
    PROVE  Refilled(now)' <= Refilled(now) + refillRate
<1>1. now' - lastRefill' = (now - lastRefill) + 1 /\ now - lastRefill \in Nat
  BY DEF FCTick, FCTypeOK, bucket
<1>2. (now' - lastRefill') * refillRate = (now - lastRefill) * refillRate + refillRate
  BY <1>1, CreditFacts
<1>3. (now - lastRefill) * refillRate \in Nat
  BY <1>1, CreditFacts
<1>4. available' = available /\ available \in Nat
  BY DEF FCTick, FCTypeOK, bucket
<1> QED BY <1>2, <1>3, <1>4, BucketFacts DEF Refilled

\* A message that passes pays for itself.
LEMMA MessagePays ==
    ASSUME FCTypeOK, Message
    PROVE  taken' * Second + Refilled(now)' <= taken * Second + Refilled(now)
<1>1. Refilled(now) \in 0..Full
  BY RefilledRange DEF FCTypeOK
<1>2. available' \in 0..Full /\ available' <= Refilled(now)
  BY <1>1, BucketFacts DEF Message
<1>3. (now' - lastRefill') * refillRate = 0
  <2>1. now' - lastRefill' = 0
    BY DEF Message, FCTypeOK
  <2> QED BY <2>1, CreditFacts
<1>4. Refilled(now)' = available'
  BY <1>2, <1>3, BucketFacts DEF Refilled
<1>5. (taken + 1) * Second = taken * Second + Second /\ taken * Second \in Nat
  BY BucketFacts DEF FCTypeOK
<1>6. CASE taken' = taken + 1 /\ available' = Refilled(now) - Second
  BY <1>1, <1>4, <1>5, <1>6, BucketFacts
<1>7. CASE taken' = taken /\ available' = Refilled(now)
  BY <1>1, <1>4, <1>5, <1>7, BucketFacts
<1> QED BY <1>6, <1>7 DEF Message

\* No interval lets more through than the burst and its own refill.
THEOREM WindowBounded == FCSpec => []WindowBound
<1>1. FCInit => WindowInv
  <2> SUFFICES ASSUME FCInit PROVE WindowInv
    OBVIOUS
  <2>1. FCTypeOK
    BY BucketInit
  <2>2. Refilled(now) \in 0..Full
    BY <2>1, RefilledRange DEF FCTypeOK
  <2>3. taken * Second = 0 /\ (now - since) * refillRate = 0
    BY BucketFacts DEF FCInit
  <2> QED BY <2>1, <2>2, <2>3, BucketFacts DEF WindowInv
<1>2. WindowInv /\ FCTypeOK' /\ [FCNext]_fcVars => WindowInv'
  <2> SUFFICES ASSUME WindowInv, FCTypeOK', [FCNext]_fcVars PROVE WindowInv'
    OBVIOUS
  <2>0. FCTypeOK
    BY DEF WindowInv
  <2>1. /\ Refilled(now) \in 0..Full
        /\ Refilled(now)' \in 0..Full
    <3>1. Refilled(now) \in 0..Full
      BY <2>0, RefilledRange DEF FCTypeOK
    <3>2. (now' - lastRefill') * refillRate \in Nat
      BY CreditFacts DEF FCTypeOK
    <3>3. available' \in 0..Full
      BY DEF FCTypeOK
    <3>4. Full' = Full /\ refillRate' = refillRate
      BY DEF Full, burst, refillRate
    <3>5. Refilled(now)' \in 0..Full
      BY <3>2, <3>3, <3>4, BucketFacts DEF Refilled
    <3> QED BY <3>1, <3>5
  <2>2. /\ taken * Second \in Nat /\ taken' * Second \in Nat
        /\ (now - since) * refillRate \in Nat
    <3>1. \A n \in Nat : n * Second \in Nat
      BY BucketFacts
    <3>2. taken \in Nat /\ taken' \in Nat /\ now - since \in Nat
      BY <2>0 DEF FCTypeOK
    <3> QED BY <3>1, <3>2, CreditFacts
  <2>3. CASE Message
    <3>1. now' - since' = now - since
      BY <2>3 DEF Message
    <3>2. (now' - since') * refillRate = (now - since) * refillRate
      BY <3>1
    <3> QED BY <2>0, <2>1, <2>2, <2>3, <3>2, MessagePays, BucketFacts DEF WindowInv
  <2>4. CASE FCTick
    <3>1. now' - since' = (now - since) + 1 /\ now - since \in Nat
      BY <2>0, <2>4 DEF FCTick, FCTypeOK
    <3>2. (now' - since') * refillRate = (now - since) * refillRate + refillRate
      BY <3>1, CreditFacts
    <3>3. taken' * Second = taken * Second
      BY <2>4 DEF FCTick
    <3> QED BY <2>0, <2>1, <2>2, <2>4, <3>2, <3>3, TickCredits, BucketFacts DEF WindowInv
  <2>5. CASE Observe
    <3>1. taken' * Second = 0 /\ (now' - since') * refillRate = 0
      BY <2>0, <2>5, BucketFacts, CreditFacts DEF Observe, FCTypeOK
    <3> QED BY <2>1, <3>1, BucketFacts DEF WindowInv
  <2>6. CASE UNCHANGED fcVars
    BY <2>6 DEF WindowInv, FCTypeOK, Refilled, fcVars, bucket
  <2> QED BY <2>3, <2>4, <2>5, <2>6 DEF FCNext
<1> QED BY <1>1, <1>2, BucketTypes, WindowInvImplies, PTL DEF FCSpec

\* A client that waits for a token to be refilled is never dropped.
THEOREM SteadyServed == FCSpec => []SteadyLosesNothing
<1>1. FCInit => SteadyInv
  BY BucketInit DEF FCInit, SteadyInv
<1>2. SteadyInv /\ FCTypeOK' /\ [FCNext]_fcVars => SteadyInv'
  <2> SUFFICES ASSUME SteadyInv, FCTypeOK', [FCNext]_fcVars PROVE SteadyInv'
    OBVIOUS
  <2>0. FCTypeOK
    BY DEF SteadyInv
  <2>1. CASE Message
    <3>1. lastSent' = lastRefill'
      BY <2>1 DEF Message
    <3>2. steady' => Refilled(now) >= Second
      <4> SUFFICES ASSUME steady' PROVE Refilled(now) >= Second
        OBVIOUS
      <4>1. (now - lastSent) * refillRate >= Second
        BY <2>1 DEF Message
      <4>2. CASE available = Full
        BY <2>0, <4>2, RefilledRange, BucketFacts DEF FCTypeOK
      <4>3. CASE lastSent = lastRefill
        <5>1. (now - lastRefill) * refillRate >= Second
          BY <4>1, <4>3
        <5>2. (now - lastRefill) * refillRate \in Nat /\ available \in Nat
          BY <2>0, CreditFacts DEF FCTypeOK
        <5> QED BY <5>1, <5>2, BucketFacts DEF Refilled
      <4> QED BY <4>2, <4>3 DEF SteadyInv
    <3>3. Refilled(now) \in 0..Full
      BY <2>0, RefilledRange DEF FCTypeOK
    <3>4. steady' => violations' = 0
      <4>1. ~ (Refilled(now) < Second) => violations' = violations
        BY <2>1, <3>3, BucketFacts DEF Message
      <4>2. steady' => steady
        BY <2>1, Zenon DEF Message
      <4> QED BY <3>2, <3>3, <4>1, <4>2, BucketFacts DEF SteadyInv
    <3> QED BY <3>1, <3>4 DEF SteadyInv
  <2>2. CASE FCTick
    BY <2>2 DEF FCTick, SteadyInv, bucket
  <2>3. CASE Observe
    BY <2>3 DEF Observe, SteadyInv, bucket
  <2>4. CASE UNCHANGED fcVars
    BY <2>4 DEF SteadyInv, fcVars, bucket
  <2> QED BY <2>1, <2>2, <2>3, <2>4 DEF FCNext
<1>3. SteadyInv => SteadyLosesNothing
  BY DEF SteadyInv, SteadyLosesNothing
<1> QED BY <1>1, <1>2, <1>3, BucketTypes, PTL DEF FCSpec
=============================================================================

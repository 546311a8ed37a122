----------------------------- MODULE Connection -----------------------------
(***************************************************************************)
(* The life of one client connection: the Conn, its read, write and ping   *)
(* goroutines, the goroutines of other connections that send to it or cut  *)
(* it, the server's shutdown, and the registration that its first commands *)
(* have to complete.                                                       *)
(*                                                                         *)
(* What the server's tables say of the user is in module World; here the   *)
(* outcome of AddUser is a choice.  Commands that only answer are one line *)
(* "OTHER", whose reply is queued or not.  Time counts seconds of idleness *)
(* and of the ping loop's ticker.  The client sends at most MaxLines lines *)
(* and the others act at most MaxOutside times: a connection that is never *)
(* left alone would keep its writer busy for ever.                         *)
(***************************************************************************)
EXTENDS Integers, Sequences, FiniteSets

CONSTANTS
    Others,           \* goroutines of other connections
    QueueSize,        \* outboundQueue
    PasswordRequired, \* Server.ClientPassword is set
    Interval,         \* Limits.PingIntervalSeconds
    Timeout,          \* Limits.PingTimeoutSeconds
    Lines,            \* bound: the kinds of line the client sends,
    MaxLines,         \* bound: how many,
    MaxOutside,       \* bound: how often the others act
    None              \* no cause

\* Why a connection ends.  Whoever ends it for a reason tells the client; but
\* the reason of a QUIT or of a kill is given by people, and an ERROR with one
\* that is too long or holds a line break cannot be encoded: "unsayable".
Spoken == {"quit", "flood", "bad password", "oversized", "ping timeout", "killed"}
Reasons == Spoken \cup {"unsayable"}
Causes == Reasons \cup {"read", "write", "sendq", "shutdown"}

ASSUME NoneAssumption == None \notin Causes
ASSUME ActorAssumption == Others \cap {"reader", "writer", "pinger"} = {}
ASSUME QueueAssumption == QueueSize \in Nat \ {0}
ASSUME PingAssumption == /\ Interval \in Nat \ {0} /\ Timeout \in Nat
                         /\ Timeout > Interval \* config.Validate
ASSUME BoundAssumption == MaxLines \in Nat /\ MaxOutside \in Nat

Reader == "reader"
Pinger == "pinger"
Actors == {Reader, Pinger} \cup Others

\* Of what is queued, only the ERROR is told apart, and the one that does not
\* encode.
Messages == {"line", "ERROR", "unsayable"}

VARIABLES
    pending,    \* Conn.pending, as far as registration asks
    user,       \* Conn.user is set, and the connection in Server.conns
    added,      \* how many users the connection has added to the world
    queue,      \* Conn.out
    cause,      \* the cause the context was cancelled with
    due,        \* the cause each goroutine is about to cancel with
    place,      \* where the goroutines are
    buffered,   \* the bufio.Writer holds an ERROR
    told,       \* an ERROR has reached the socket
    closed,     \* the socket is closed
    failed,     \* a write has failed
    ended,      \* Conn.close has run
    idle,       \* the time since Conn.lastActivity
    sinceTick,  \* the time since the ping loop's ticker fired
    asked,      \* a PING was queued since the last activity
    input,      \* lines the client has still to send
    outside     \* how often the others will still act

registration == <<pending, user, added>>
outbound == <<queue, cause>>
output == <<buffered, told, closed, failed>>
time == <<idle, sinceTick, asked>>
vars == <<registration, outbound, due, place, output, ended, time, input, outside>>

-----------------------------------------------------------------------------
\* Cancelling keeps the first cause.
Cancelled(c) == cause' = IF cause = None THEN c ELSE cause

\* Mutant: the queue takes one message more than it has room for.
SendOver(m) ==
    \/ /\ Len(queue) <= QueueSize
       /\ queue' = Append(queue, m)
       /\ UNCHANGED cause
    \/ /\ Len(queue) > QueueSize
       /\ Cancelled("sendq")
       /\ UNCHANGED queue

\* send: a full queue ends the connection, and drops the message.
Send(m) ==
    \/ /\ Len(queue) < QueueSize
       /\ queue' = Append(queue, m)
       /\ UNCHANGED cause
    \/ /\ Len(queue) >= QueueSize
       /\ Cancelled("sendq")
       /\ UNCHANGED queue

Quietly == UNCHANGED outbound

\* sendError, and then, in a step of its own, cancel.
Farewell(a, c) ==
    /\ Send(IF c \in Spoken THEN "ERROR" ELSE "unsayable")
    /\ due' = [due EXCEPT ![a] = c]

Cancel(a) ==
    /\ due[a] # None
    /\ Cancelled(due[a])
    /\ due' = [due EXCEPT ![a] = None]
    /\ UNCHANGED <<registration, queue, place, output, ended, time, input, outside>>

-----------------------------------------------------------------------------
(* Registration.                                                           *)

Ready(p) == p.nick /\ p.user /\ (p.negotiating => p.ended)

\* Mutant: a registered connection may complete again.
TryCompleteAgain(p) ==
    \/ /\ ~ Ready(p)
       /\ pending' = p
       /\ Quietly /\ UNCHANGED <<user, added, due, place>>
    \/ /\ Ready(p)
       /\ pending' = p /\ user' = TRUE /\ added' = added + 1
       /\ place' = [place EXCEPT ![Reader] = "welcoming"]
       /\ Quietly /\ UNCHANGED due

\* tryCompleteRegistration, with pending as the handler has left it.
TryComplete(p) ==
    \/ \* registered already, or something is still missing
       /\ user \/ ~ Ready(p)
       /\ pending' = p
       /\ Quietly /\ UNCHANGED <<user, added, due, place>>
    \/ \* the server's password gate
       /\ ~ user /\ Ready(p)
       /\ PasswordRequired /\ ~ p.password
       /\ pending' = p
       /\ Farewell(Reader, "bad password")
       /\ UNCHANGED <<user, added, place>>
    \/ \* AddUser finds the nick in use: the client may retry with another
       /\ ~ user /\ Ready(p)
       /\ PasswordRequired => p.password
       /\ pending' = [p EXCEPT !.nick = FALSE]
       /\ Send("line")
       /\ UNCHANGED <<user, added, due, place>>
    \/ \* AddUser and registerConn; the welcome is still to be queued
       /\ ~ user /\ Ready(p)
       /\ PasswordRequired => p.password
       /\ pending' = p /\ user' = TRUE /\ added' = added + 1
       /\ place' = [place EXCEPT ![Reader] = "welcoming"]
       /\ Quietly /\ UNCHANGED due

\* sendWelcomeBurst: others may have sent to the new user before.
Welcome ==
    /\ place[Reader] = "welcoming"
    /\ Send("line")
    /\ place' = [place EXCEPT ![Reader] = "reading"]
    /\ UNCHANGED <<registration, due, output, ended, time, input, outside>>

-----------------------------------------------------------------------------
(* The read loop.  It does not look at the context: it dispatches what it  *)
(* has read until the socket is closed.                                    *)

\* A line arrives: the activity is noted before the line is dispatched.
Line(kind) ==
    /\ place[Reader] = "reading" /\ due[Reader] = None
    /\ kind \in Lines /\ input > 0 /\ input' = input - 1
    /\ idle' = 0 /\ asked' = FALSE
    /\ UNCHANGED <<sinceTick, output, ended, outside>>

Answered == Send("line") /\ UNCHANGED <<registration, due, place>>

\* handlePass: the password counts only before registration.
HandlePass(ok) ==
    /\ Line("PASS")
    /\ IF user THEN Answered
       ELSE /\ pending' = [pending EXCEPT !.password = ok]
            /\ Quietly /\ UNCHANGED <<user, added, due, place>>

\* handleNick; what a registered user's NICK does is in module World.
HandleNick ==
    /\ Line("NICK")
    /\ IF user THEN Answered ELSE TryComplete([pending EXCEPT !.nick = TRUE])

HandleUser ==
    /\ Line("USER")
    /\ IF user THEN Answered ELSE TryComplete([pending EXCEPT !.user = TRUE])

\* handleService registers without NICK, USER or PASS, or finds its name in use.
HandleService ==
    /\ Line("SERVICE")
    /\ \/ Answered
       \/ /\ ~ user
          /\ user' = TRUE /\ added' = added + 1
          /\ place' = [place EXCEPT ![Reader] = "welcoming"]
          /\ Quietly /\ UNCHANGED <<pending, due>>

\* CAP LS, at any time, opens a negotiation.
HandleCapLs ==
    /\ Line("CAP LS")
    /\ pending' = [pending EXCEPT !.negotiating = TRUE]
    /\ Send("line")
    /\ UNCHANGED <<user, added, due, place>>

\* CAP REQ, at any time: a NAK, or the accepted capabilities are written, and
\* then acknowledged.
HandleCapReq ==
    /\ Line("CAP REQ")
    /\ pending' = [pending EXCEPT !.negotiating = TRUE]
    /\ \/ Send("line") /\ UNCHANGED place
       \/ Quietly /\ place' = [place EXCEPT ![Reader] = "writing caps"]
    /\ UNCHANGED <<user, added, due>>

AckCaps ==
    /\ place[Reader] = "writing caps"
    /\ Send("line")
    /\ place' = [place EXCEPT ![Reader] = "reading"]
    /\ UNCHANGED <<registration, due, output, ended, time, input, outside>>

\* Mutant: CAP END is noted and nothing more.
HandleCapEndOnly ==
    /\ Line("CAP END")
    /\ pending' = [pending EXCEPT !.ended = TRUE]
    /\ Quietly /\ UNCHANGED <<user, added, due, place>>

HandleCapEnd ==
    /\ Line("CAP END")
    /\ TryComplete([pending EXCEPT !.ended = TRUE])

HandleQuit ==
    /\ Line("QUIT")
    /\ \E c \in {"quit", "unsayable"} : Farewell(Reader, c)
    /\ UNCHANGED <<registration, place>>

\* Excess flood, which only a registered user can commit.
HandleFlood ==
    /\ Line("PRIVMSG") /\ user
    /\ Farewell(Reader, "flood")
    /\ UNCHANGED <<registration, place>>

\* Any other command, answered or not, and lines that do not parse.
HandleOther ==
    /\ Line("OTHER")
    /\ Send("line") \/ Quietly
    /\ UNCHANGED <<registration, due, place>>

\* A line that is too long ends the loop, before it counts as activity.
Oversized ==
    /\ place[Reader] = "reading" /\ due[Reader] = None
    /\ "OVERSIZED" \in Lines /\ input > 0 /\ input' = input - 1
    /\ Farewell(Reader, "oversized")
    /\ place' = [place EXCEPT ![Reader] = "done"]
    /\ UNCHANGED <<registration, output, ended, time, outside>>

\* The client has hung up, or the writer has closed the socket.
ReaderExits ==
    /\ place[Reader] = "reading" /\ due[Reader] = None
    /\ place' = [place EXCEPT ![Reader] = "done"]
    /\ Cancelled("read")
    /\ UNCHANGED <<registration, queue, due, output, ended, time, input, outside>>

HangUp == "EOF" \in Lines /\ ~ closed /\ ReaderExits

SocketIsClosed == closed /\ ReaderExits

-----------------------------------------------------------------------------
(* The write loop.                                                         *)

WriterMoves(p) == place' = [place EXCEPT !.writer = p]

Flushed == told' = (told \/ buffered) /\ buffered' = FALSE

\* A message is moved to the buffer, or dropped if it does not encode; the inner
\* loop takes all that is there.
WriterTakes ==
    /\ place.writer \in {"select", "batch", "drain"} /\ queue # <<>>
    /\ buffered' = (buffered \/ Head(queue) = "ERROR")
    /\ queue' = Tail(queue)
    /\ WriterMoves(IF place.writer = "drain" THEN "drain" ELSE "batch")
    /\ UNCHANGED <<registration, cause, due, told, closed, failed, ended, time, input, outside>>

WriterFlushes ==
    /\ place.writer = "batch" /\ queue = <<>>
    /\ Flushed
    /\ WriterMoves("select")
    /\ UNCHANGED <<registration, outbound, due, closed, failed, ended, time, input, outside>>

\* The select sees the context; if there are messages too it may see either.
WriterSeesCancel ==
    /\ place.writer = "select" /\ cause # None
    /\ WriterMoves("drain")
    /\ UNCHANGED <<registration, outbound, due, output, ended, time, input, outside>>

\* Mutant: the writer leaves without draining the queue.
WriterLeavesQueue ==
    /\ place.writer = "drain"
    /\ Flushed
    /\ closed' = TRUE /\ WriterMoves("done")
    /\ UNCHANGED <<registration, outbound, due, failed, ended, time, input, outside>>

\* Mutant: the writer leaves the socket to be closed by close.
WriterLeavesSocket ==
    /\ place.writer = "drain" /\ queue = <<>>
    /\ Flushed
    /\ WriterMoves("done")
    /\ UNCHANGED <<registration, outbound, due, closed, failed, ended, time, input, outside>>

\* The queue is drained: flush, close the socket.
WriterStops ==
    /\ place.writer = "drain" /\ queue = <<>>
    /\ Flushed
    /\ closed' = TRUE /\ WriterMoves("done")
    /\ UNCHANGED <<registration, outbound, due, failed, ended, time, input, outside>>

\* A write fails or runs into its deadline: the rest is lost.
WriteFails ==
    /\ place.writer \in {"batch", "drain"}
    /\ failed' = TRUE
    /\ closed' = TRUE /\ WriterMoves("done")
    /\ Cancelled("write")
    /\ UNCHANGED <<registration, queue, due, buffered, told, ended, time, input, outside>>

Writer == WriterTakes \/ WriterFlushes \/ WriterSeesCancel \/ WriterStops

-----------------------------------------------------------------------------
(* The ping loop.                                                          *)

\* The ticker's period, in seconds.
Tick == IF Interval \div 4 < 1 THEN 1 ELSE Interval \div 4

\* A second passes, when the ping loop has dealt with the tick that is due.
Elapse ==
    /\ ~ ended
    /\ place[Pinger] = "done" \/ (sinceTick < Tick /\ due[Pinger] = None)
    /\ idle' = IF idle < Timeout THEN idle + 1 ELSE idle
    /\ sinceTick' = IF sinceTick < Tick THEN sinceTick + 1 ELSE sinceTick
    /\ UNCHANGED <<registration, outbound, due, place, output, ended, asked, input, outside>>

\* Mutant: the interval is taken for the timeout.
PingTickEager ==
    /\ place[Pinger] = "waiting" /\ due[Pinger] = None /\ sinceTick = Tick
    /\ sinceTick' = 0
    /\ IF idle >= Interval
       THEN /\ Farewell(Pinger, "ping timeout")
            /\ place' = [place EXCEPT ![Pinger] = "done"] /\ UNCHANGED asked
       ELSE Quietly /\ UNCHANGED <<due, place, asked>>
    /\ UNCHANGED <<registration, output, ended, idle, input, outside>>

\* The ticker fires; lastActivity decides.
PingTick ==
    /\ place[Pinger] = "waiting" /\ sinceTick = Tick
    /\ sinceTick' = 0
    /\ \/ /\ idle >= Timeout
          /\ Farewell(Pinger, "ping timeout")
          /\ place' = [place EXCEPT ![Pinger] = "done"]
          /\ UNCHANGED asked
       \/ /\ idle >= Interval /\ idle < Timeout
          /\ Send("line")
          /\ asked' = TRUE
          /\ UNCHANGED <<due, place>>
       \/ /\ idle < Interval
          /\ Quietly
          /\ UNCHANGED <<due, place, asked>>
    /\ UNCHANGED <<registration, output, ended, idle, input, outside>>

PingerExits ==
    /\ place[Pinger] = "waiting" /\ cause # None
    /\ place' = [place EXCEPT ![Pinger] = "done"]
    /\ UNCHANGED <<registration, outbound, due, output, ended, time, input, outside>>

-----------------------------------------------------------------------------
(* The others, who find the connection in Server.conns, and the server.    *)

\* send looks at the capabilities of the connection it sends to,
OtherSends(o) ==
    /\ user /\ ~ ended /\ place[o] = "idle" /\ due[o] = None
    /\ outside > 0 /\ outside' = outside - 1
    /\ place' = [place EXCEPT ![o] = "reading caps"]
    /\ UNCHANGED <<registration, outbound, due, output, ended, time, input>>

\* and queues the message with the tags they ask for.
OtherQueues(o) ==
    /\ place[o] = "reading caps"
    /\ Send("line")
    /\ place' = [place EXCEPT ![o] = "idle"]
    /\ UNCHANGED <<registration, due, output, ended, time, input, outside>>

\* KickUser, DropLocalUser and DisconnectNick.
OtherKills(o) ==
    /\ user /\ ~ ended /\ place[o] = "idle" /\ due[o] = None
    /\ outside > 0 /\ outside' = outside - 1
    /\ \E c \in {"killed", "unsayable"} : Farewell(o, c)
    /\ UNCHANGED <<registration, place, output, ended, time, input>>

\* The context of the server is cancelled.
Shutdown ==
    /\ ~ ended /\ outside > 0 /\ outside' = outside - 1
    /\ Cancelled("shutdown")
    /\ UNCHANGED <<registration, queue, due, place, output, ended, time, input>>

\* serve: when the three loops have ended, close takes the user out.
Close ==
    /\ ~ ended
    /\ place[Reader] = "done" /\ place.writer = "done" /\ place[Pinger] = "done"
    /\ due[Reader] = None /\ due[Pinger] = None
    /\ ended' = TRUE /\ closed' = TRUE /\ user' = FALSE
    /\ UNCHANGED <<pending, added, outbound, due, place, buffered, told, failed, time, input, outside>>

-----------------------------------------------------------------------------
Init ==
    /\ pending = [nick |-> FALSE, user |-> FALSE, password |-> FALSE,
                  negotiating |-> FALSE, ended |-> FALSE]
    /\ user = FALSE /\ added = 0
    /\ queue = <<>> /\ cause = None /\ due = [a \in Actors |-> None]
    /\ place = [a \in Actors \cup {"writer"} |->
                  CASE a = Reader -> "reading" [] a = Pinger -> "waiting"
                    [] a = "writer" -> "select" [] OTHER -> "idle"]
    /\ buffered = FALSE /\ told = FALSE /\ closed = FALSE /\ failed = FALSE /\ ended = FALSE
    /\ idle = 0 /\ sinceTick = 0 /\ asked = FALSE
    /\ input = MaxLines /\ outside = MaxOutside

Client ==
    \/ \E ok \in BOOLEAN : HandlePass(ok)
    \/ HandleNick \/ HandleUser \/ HandleService
    \/ HandleCapLs \/ HandleCapReq \/ HandleCapEnd
    \/ HandleQuit \/ HandleFlood \/ HandleOther \/ Oversized
    \/ HangUp

Next ==
    \/ Client \/ Welcome \/ AckCaps \/ SocketIsClosed
    \/ Writer \/ WriteFails
    \/ Elapse \/ PingTick \/ PingerExits
    \/ \E a \in Actors : Cancel(a)
    \/ \E o \in Others : OtherSends(o) \/ OtherQueues(o) \/ OtherKills(o)
    \/ Shutdown \/ Close

Spec == Init /\ [][Next]_vars

\* Goroutines that can run do run, and time passes.  Nothing makes the client
\* send, the others act or a write fail.
Fairness ==
    /\ WF_vars(Welcome) /\ WF_vars(AckCaps) /\ WF_vars(SocketIsClosed)
    /\ WF_vars(Writer)
    /\ WF_vars(Elapse) /\ WF_vars(PingTick) /\ WF_vars(PingerExits)
    /\ \A a \in Actors : WF_vars(Cancel(a))
    /\ WF_vars(Close)

FairSpec == Spec /\ Fairness

-----------------------------------------------------------------------------
RegOK ==
    /\ pending \in [nick : BOOLEAN, user : BOOLEAN, password : BOOLEAN,
                    negotiating : BOOLEAN, ended : BOOLEAN]
    /\ user \in BOOLEAN /\ added \in Nat

OutOK ==
    /\ queue \in Seq(Messages) /\ Len(queue) <= QueueSize
    /\ cause \in Causes \cup {None}
    /\ due \in [Actors -> Reasons \cup {None}]

PlaceOK ==
    place \in [Actors \cup {"writer"} ->
                 {"reading", "welcoming", "writing caps", "waiting", "idle",
                  "reading caps", "select", "batch", "drain", "done"}]

RestOK ==
    /\ buffered \in BOOLEAN /\ told \in BOOLEAN
    /\ closed \in BOOLEAN /\ failed \in BOOLEAN /\ ended \in BOOLEAN /\ asked \in BOOLEAN
    /\ idle \in 0..Timeout /\ sinceTick \in 0..Tick
    /\ input \in 0..MaxLines /\ outside \in 0..MaxOutside

TypeOK == RegOK /\ OutOK /\ PlaceOK /\ RestOK

\* Between two commands, a client that has sent all that registration asks
\* for, in whatever order, is registered or on its way out.
NothingPending ==
    (place[Reader] = "reading" /\ due[Reader] = None /\ Ready(pending) /\ ~ ended)
        => user \/ cause # None

\* One connection adds one user at most: close takes out only the last.
AddsOneUser == added <= 1

\* Whoever ends a connection for a reason that can be told has told it: unless
\* a write failed, the ERROR is on the wire before the socket is closed.  The
\* writer drops the ERROR of an unsayable reason, and that client is told
\* nothing.
ToldWhy ==
    (place.writer = "done" /\ cause \in Spoken /\ ~ failed) => told

\* A client whose queue overflowed is told that as well.
OverflowIsTold ==
    (place.writer = "done" /\ cause = "sendq" /\ ~ failed) => told

\* Nobody is given up for silence who was not asked: between the last line and
\* the ping timeout there was a PING.
AskedBeforeTimeout ==
    [][due'[Pinger] = "ping timeout" /\ due[Pinger] = None => asked]_vars

\* The map of accepted capabilities is not read while it is written.
CapsAreSafe ==
    ~ (place[Reader] = "writing caps" /\ \E o \in Others : place[o] = "reading caps")

\* Every connection that falls silent, hangs up or is cancelled is closed, with
\* all its goroutines gone.
ComesToAnEnd == <>ended

-----------------------------------------------------------------------------
\* What AddsOneUser rests on.
OneUserInv ==
    /\ TypeOK
    /\ added \in {0, 1}
    /\ added = 1 => user \/ place[Reader] = "done"

\* There is an ERROR on its way to the client.
ErrorKept == (\E i \in 1..Len(queue) : queue[i] = "ERROR") \/ buffered \/ told

\* What ToldWhy rests on: a goroutine queues the ERROR before it cancels, and
\* the first to cancel decides the cause; the writer leaves only when it has
\* seen a cause and left nothing behind.
ToldInv ==
    /\ TypeOK
    /\ \A a \in Actors : (due[a] \in Spoken /\ cause = None) => ErrorKept
    /\ (cause \in Spoken /\ ~ failed) => ErrorKept
    /\ place.writer \in {"drain", "done"} => cause # None
    /\ ToldWhy

\* What AskedBeforeTimeout rests on, when a tick falls between the interval and
\* the timeout: before the ticker next fires, a client that was not asked has not
\* been silent for longer than the interval and the time since the last tick.
Unasked == place[Pinger] = "waiting" /\ ~ asked
AskedInv == TypeOK /\ (Unasked => idle < Interval + sinceTick)
=============================================================================

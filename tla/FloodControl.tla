---------------------------- MODULE FloodControl ----------------------------
(***************************************************************************)
(* The flood control of one client connection: the tokenBucket that every  *)
(* PRIVMSG and NOTICE takes a token from, and the count of violations that *)
(* disconnects a persistent flooder.                                       *)
(*                                                                         *)
(* The clock counts ticks of 1/Second of a second.  One tick refills       *)
(* refillRate / Second of a token, so a token is Second units and a tick   *)
(* credits refillRate units, without a fraction.  The float64 of the code  *)
(* rounds; that is left out.                                               *)
(*                                                                         *)
(* since, taken and steady are an observer's.  It starts to count at any   *)
(* time, and notes whether the client ever sent faster than the refill.    *)
(***************************************************************************)
EXTENDS Integers

CONSTANTS
    Second,          \* ticks per second
    Burst,           \* Limits.MessageBurst
    RefillPerSecond, \* Limits.MessageRefillPerSecond
    ToKick,          \* Limits.MessageViolationsToKick
    MaxTime          \* bound: how far the clock runs

ASSUME SecondAssumption == Second \in Nat \ {0}
ASSUME ConfigAssumption == Burst \in Int /\ RefillPerSecond \in Int /\ ToKick \in Int
ASSUME MaxTimeAssumption == MaxTime \in Nat

VARIABLES
    now,        \* the connection's clock
    available,  \* tokenBucket.available, in units
    lastRefill, \* tokenBucket.lastRefill
    violations, \* Conn.msgViolations
    kicked,     \* cancelled with errFlood
    since,      \* the observer: when it started to count,
    taken,      \* how many messages have passed since,
    lastSent,   \* when the client last sent a message,
    steady      \* and whether it has always waited for a token to be due

bucket == <<available, lastRefill>>
fcVars == <<now, bucket, violations, kicked, since, taken, lastSent, steady>>

\* newTokenBucket: values that are not positive count as one.
burst == IF Burst <= 0 THEN 1 ELSE Burst
refillRate == IF RefillPerSecond <= 0 THEN 1 ELSE RefillPerSecond

Full == burst * Second

\* Mutant: the refill is not capped at the burst.
RefilledUncapped(t) == available + (t - lastRefill) * refillRate

\* Mutant: the time that has passed is credited in whole seconds.
RefilledWhole(t) ==
    LET credited == available + ((t - lastRefill) \div Second) * Second * refillRate
    IN  IF credited > Full THEN Full ELSE credited

\* What the bucket holds at time t, before anything is taken from it.
Refilled(t) ==
    LET credited == available + (t - lastRefill) * refillRate
    IN  IF credited > Full THEN Full ELSE credited

\* deliverMessage: Take; on failure the message is dropped and counted.
Message ==
    /\ ~ kicked
    /\ lastSent' = now
    /\ steady' = (steady /\ (now - lastSent) * refillRate >= Second)
    /\ lastRefill' = now
    /\ \/ /\ Refilled(now) >= Second
          /\ available' = Refilled(now) - Second
          /\ taken' = taken + 1
          /\ UNCHANGED <<violations, kicked>>
       \/ /\ Refilled(now) < Second
          /\ available' = Refilled(now)
          /\ violations' = violations + 1
          /\ kicked' = (violations + 1 >= ToKick)
          /\ UNCHANGED taken
    /\ UNCHANGED <<now, since>>

FCTick ==
    /\ now < MaxTime
    /\ now' = now + 1
    /\ UNCHANGED <<bucket, violations, kicked, since, taken, lastSent, steady>>

\* The observer starts a new interval.
Observe ==
    /\ since' = now
    /\ taken' = 0
    /\ UNCHANGED <<now, bucket, violations, kicked, lastSent, steady>>

FCInit ==
    /\ now = 0 /\ lastRefill = 0 /\ available = Full
    /\ violations = 0 /\ kicked = FALSE
    /\ since = 0 /\ taken = 0
    /\ lastSent = - Second /\ steady = TRUE

FCNext == Message \/ FCTick \/ Observe

FCSpec == FCInit /\ [][FCNext]_fcVars

-----------------------------------------------------------------------------
FCTypeOK ==
    /\ now \in Nat /\ lastRefill \in 0..now /\ since \in 0..now /\ lastSent \in Int
    /\ available \in 0..Full
    /\ violations \in Nat /\ taken \in Nat
    /\ kicked \in BOOLEAN /\ steady \in BOOLEAN

\* In any interval, whenever it starts, at most a burst and what the interval
\* refills gets through.
WindowBound == taken * Second <= Full + (now - since) * refillRate

\* A client that lets a token's refill pass between two messages loses none,
\* however the refills are split over its calls.
SteadyLosesNothing == steady => violations = 0

\* What WindowBound rests on: the messages that passed, and what the bucket
\* could still give, fit the bound together.
WindowInv ==
    /\ FCTypeOK
    /\ taken * Second + Refilled(now) <= Full + (now - since) * refillRate

\* What SteadyLosesNothing rests on: a steady client finds a token when the
\* refill of one has passed since its last message.
SteadyInv ==
    /\ FCTypeOK
    /\ lastSent = lastRefill \/ available = Full
    /\ steady => violations = 0
=============================================================================

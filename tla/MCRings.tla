------------------------------- MODULE MCRings -------------------------------
(* The properties of Rings, evaluated for histories of up to three laps. *)
EXTENDS Naturals, Sequences, SequencesExt

One == INSTANCE Rings WITH Capacity <- 1, Empty <- "none"
Two == INSTANCE Rings WITH Capacity <- 2, Empty <- "none"
Three == INSTANCE Rings WITH Capacity <- 3, Empty <- "none"

\* The history after the entries of h, the oldest first.
LogOf(h, Write(_, _), new) == FoldLeft(Write, new, h)
LastOf(h, n) == IF Len(h) <= n THEN h ELSE SubSeq(h, Len(h) - n + 1, Len(h))
Numbers(n) == [i \in 1..n |-> i]
Histories == UNION {[1..n -> [nick : {"a", "b", "none"}, at : {n}]] : n \in 0..6}
Numbered(h) == [i \in DOMAIN h |-> [nick |-> h[i].nick, at |-> i]]

\* However often a ring has wrapped, a reader who has seen everything up to seq
\* gets exactly the newer ones of the entries kept, in order, numbered without
\* a gap; both implementations agree.
SinceIsRest(n, seq, capacity, since, botSince) ==
  LET kept == SelectSeq(LastOf(Numbers(n), capacity), LAMBDA k : k > seq)
  IN since = [i \in DOMAIN kept |-> [seq |-> kept[i], entry |-> kept[i]]] /\ botSince = since

ASSUME SinceHolds ==
  \A n \in 0..9, seq \in 0..9 :
    LET r1 == LogOf(Numbers(n), One!AppendEntry, One!NewRingBuffer)
        r2 == LogOf(Numbers(n), Two!AppendEntry, Two!NewRingBuffer)
        r3 == LogOf(Numbers(n), Three!AppendEntry, Three!NewRingBuffer)
    IN /\ SinceIsRest(n, seq, 1, One!Since(r1, seq), One!BotSince(r1, seq))
       /\ SinceIsRest(n, seq, 2, Two!Since(r2, seq), Two!BotSince(r2, seq))
       /\ SinceIsRest(n, seq, 3, Three!Since(r3, seq), Three!BotSince(r3, seq))

\* WHOWAS answers with the holders of a nickname among the last entries that
\* could be recorded, the newest first, and no more of them than asked for.
ASSUME LookupHolds ==
  \A h \in Histories, max \in 0..2, nick \in {"a", "none"} :
    LET recorded == SelectSeq(Numbered(h), LAMBDA e : e.nick # "none")
        Wanted(capacity) ==
          Reverse(SelectSeq(LastOf(recorded, capacity),
                            LAMBDA e : nick # "none" /\ e.nick = nick))
        Cut(s) == IF max > 0 /\ Len(s) > max THEN SubSeq(s, 1, max) ELSE s
        w1 == LogOf(Numbered(h), One!Record, One!NewWhowas)
        w3 == LogOf(Numbered(h), Three!Record, Three!NewWhowas)
    IN /\ One!Lookup(w1, nick, max) = Cut(Wanted(1))
       /\ Three!Lookup(w3, nick, max) = Cut(Wanted(3))
=============================================================================

-------------------------------- MODULE Rings --------------------------------
(***************************************************************************)
(* The bounded histories: the tail of the log (internal/logging), the log  *)
(* of a bot (internal/bots, the same ring) and the WHOWAS buffer           *)
(* (internal/state).  A ring overwrites its oldest entry once it is full.  *)
(* Indexes count from zero, as in the source; an entry is any value, its   *)
(* nickname already folded.                                                *)
(***************************************************************************)
EXTENDS Naturals, Sequences, FiniteSets

CONSTANTS
  Capacity,    \* NewRingBuffer, newBotLogRing and NewWhowas see that it is positive
  Empty        \* a slot nothing was written to

Slots == 0..Capacity - 1

-----------------------------------------------------------------------------
(* RingBuffer and botLogRing: all slots from the start, a sequence number. *)
NewRingBuffer == [entries |-> [i \in Slots |-> Empty], next |-> 0, total |-> 0]

AppendEntry(r, e) ==
  [entries |-> [r.entries EXCEPT ![r.next] = [seq |-> r.total + 1, entry |-> e]],
   next |-> (r.next + 1) % Capacity, total |-> r.total + 1]

Count(r) == IF r.total < Capacity THEN r.total ELSE Capacity

\* Before the first lap the oldest entry is in the first slot.
Start(r) == IF r.total >= Capacity THEN r.next ELSE 0

Snapshot(r) == [i \in 1..Count(r) |-> r.entries[(Start(r) + i - 1) % Capacity]]

\* RingBuffer.Since: everything from the first entry that is newer.
Since(r, seq) ==
  LET newer == {i \in 1..Count(r) : Snapshot(r)[i].seq > seq}
  IN IF newer = {} THEN <<>>
     ELSE SubSeq(Snapshot(r), CHOOSE i \in newer : \A j \in newer : i <= j, Count(r))

\* botLogRing.since: each entry that is newer.
BotSince(r, seq) == SelectSeq(Snapshot(r), LAMBDA e : e.seq > seq)

-----------------------------------------------------------------------------
(* Whowas: a slice that grows up to its capacity, then wraps. *)
NewWhowas == [entries |-> <<>>, head |-> 0, full |-> FALSE]

\* An entry without a nickname is not recorded.
Record(w, e) ==
  IF e.nick = Empty THEN w
  ELSE IF w.full
  THEN [w EXCEPT !.entries[w.head + 1] = e, !.head = (@ + 1) % Capacity]
  ELSE [w EXCEPT !.entries = Append(@, e), !.full = Len(w.entries) + 1 = Capacity]

\* The i-th newest entry, from zero.
Newest(w, i) ==
  LET n == Len(w.entries)
  IN w.entries[1 + IF w.full THEN (w.head + Capacity - 1 - i) % Capacity ELSE n - 1 - i]

\* Newest first; max = 0 stands for all of them.
Lookup(w, nick, max) ==
  LET newest == [i \in 1..Len(w.entries) |-> Newest(w, i - 1)]
      found == SelectSeq(newest, LAMBDA e : e.nick = nick)
  IN IF nick = Empty THEN <<>>
     ELSE IF max > 0 /\ Len(found) > max THEN SubSeq(found, 1, max) ELSE found
=============================================================================

--------------------------- MODULE FederationProofs ---------------------------
(***************************************************************************)
(* For any nodes, nicks and messages in any order: a message is one its    *)
(* receiver can handle; whatever the others do to the records of a node,   *)
(* the user of a client stays until its connection is told to go; and what *)
(* is under way is all that linked nodes differ by, unless something       *)
(* spoilt it.                                                              *)
(***************************************************************************)
EXTENDS Federation, FiniteSetTheorems, FunctionTheorems, TLAPS

-----------------------------------------------------------------------------
(* Types.  A message is of use to the node it goes to: a SQUIT names another *)
(* server, all others a nick.                                                *)

Commands == {"NICK", "RENAME", "JOIN", "PART", "KICK", "KILL", "QUIT", "SQUIT"}
Envelope == [cmd : Commands, nick : Nicks \cup {None}, to : Nodes \cup Nicks \cup {None},
             ts : TS \cup {0}]
For(n) == {e \in Envelope :
             /\ IF e.cmd = "SQUIT" THEN e.to \in Nodes \ {n} ELSE e.nick \in Nicks
             /\ e.cmd = "RENAME" => e.to \in Nicks
             /\ e.cmd = "NICK" => e.ts \in TS}
Mail(q) == /\ q \in [Nodes -> [Nodes -> Seq(Envelope)]]
           /\ \A m, n \in Nodes : q[m][n] \in Seq(For(n))

WorldOK == world \in [Nodes -> [Nicks -> Record \cup {None}]]
\* The TS of a connection is its own, and has passed.
ConnsOK ==
  /\ conns \in [Nodes -> SUBSET Conn] /\ ops \in 0..MaxOps /\ missed \subseteq TS
  /\ \A n \in Nodes : \A c \in conns[n] : c.ts < Now
  /\ \A n \in Nodes : \A c, d \in conns[n] : c.ts = d.ts => c = d
LinksOK ==
  /\ stage \in [Nodes -> UNION {[Nodes \ {n} -> Stages] : n \in Nodes}]
  /\ \A n \in Nodes : stage[n] \in [Nodes \ {n} -> Stages]
  /\ subs \in [Nodes -> SUBSET Nodes] /\ seen \in [Nodes -> SUBSET Nodes]
  /\ spoilt \in BOOLEAN
TypeInv == WorldOK /\ ConnsOK /\ LinksOK /\ Mail(queue)

Kept(n, c) == c.told \/ Owns(n, c) \/ c.ts \in missed
KeptInv == TypeInv /\ \A n \in Nodes : \A c \in conns[n] : Kept(n, c)

LEMMA Facts ==
  /\ Cardinality(Nicks) \in Nat /\ MaxOps \in Nat /\ None \notin Nicks \cup Nodes \cup Record
  /\ TS = 1..(Cardinality(Nicks) + MaxOps)
BY FederationAssumption, FS_CardinalityType DEF TS

\* There is an order of the nicks.
LEMMA OldestFacts ==
  /\ Oldest \in [Nicks -> 1..Cardinality(Nicks)]
  /\ \A k, l \in Nicks : Oldest[k] = Oldest[l] => k = l
<1>1. ExistsBijection(1..Cardinality(Nicks), Nicks)
  BY FederationAssumption, FS_CardinalityType
<1>2. ExistsBijection(Nicks, 1..Cardinality(Nicks))
  BY <1>1, Fun_ExistsBijSymmetric
<1>3. PICK f \in Bijection(Nicks, 1..Cardinality(Nicks)) : TRUE
  BY <1>2, Fun_ExistsBij
<1>4. f \in [Nicks -> 1..Cardinality(Nicks)] /\ \A k, l \in Nicks : f[k] = f[l] => k = l
  BY <1>3, Fun_BijectionProperties
<1> QED BY <1>4 DEF Oldest

\* Every member of a set in turn.
Listing(s, N, S) ==
  /\ N \in Nat /\ s \in [1..N -> S]
  /\ \A i, j \in 1..N : s[i] = s[j] => i = j
  /\ \A e \in S : \E i \in 1..N : s[i] = e

LEMMA SetToSeqLists ==
  ASSUME NEW S, IsFiniteSet(S)
  PROVE  Listing(SetToSeq(S), Cardinality(S), S)
<1>1. ExistsBijection(1..Cardinality(S), S) /\ Cardinality(S) \in Nat
  BY FS_CardinalityType
<1>2. PICK f \in Bijection(1..Cardinality(S), S) : TRUE
  BY <1>1, Fun_ExistsBij
<1>3. f \in [1..Cardinality(S) -> S] /\ IsInjective(f)
  <2>1. f \in [1..Cardinality(S) -> S] /\ \A a, b \in 1..Cardinality(S) : f[a] = f[b] => a = b
    BY ONLY <1>2, Fun_BijectionProperties
  <2> QED BY <2>1 DEF IsInjective
<1>4. \E g \in [1..Cardinality(S) -> S] : IsInjective(g)
  BY <1>3
<1>5. SetToSeq(S) \in [1..Cardinality(S) -> S] /\ IsInjective(SetToSeq(S))
  BY <1>1, <1>4 DEF SetToSeq
<1> HIDE DEF SetToSeq
<1>6. PICK s : s = SetToSeq(S)
  OBVIOUS
<1>7. \A i, j \in 1..Cardinality(S) : s[i] = s[j] => i = j
  BY <1>5, <1>6 DEF IsInjective
<1>8. s \in [1..Cardinality(S) -> S]
  BY <1>5, <1>6
<1>9. s \in Injection(1..Cardinality(S), S)
  BY ONLY <1>7, <1>8, Fun_IsInj
<1>10. Cardinality(1..Cardinality(S)) = Cardinality(S)
  BY ONLY <1>1, FS_Interval
<1>11. s \in Surjection(1..Cardinality(S), S)
  BY ONLY <1>9, <1>10, FS_Injection, IsFiniteSet(S)
<1>12. \A e \in S : \E i \in 1..Cardinality(S) : s[i] = e
  BY ONLY <1>11 DEF Surjection
<1> QED BY <1>1, <1>6, <1>7, <1>8, <1>12 DEF Listing

\* A message about a nick can go to anybody.
LEMMA AboutNick ==
  ASSUME NEW cmd \in Commands \ {"SQUIT"}, NEW k \in Nicks, NEW to \in Nodes \cup Nicks \cup {None},
         NEW ts \in TS \cup {0}, cmd = "RENAME" => to \in Nicks, cmd = "NICK" => ts \in TS
  PROVE  \A n \in Nodes : Message(cmd, k, to, ts) \in For(n) /\ <<Message(cmd, k, to, ts)>> \in Seq(For(n))
<1>1. Message(cmd, k, to, ts) \in Envelope
  BY DEF Message, Envelope
<1>2. \A n \in Nodes : Message(cmd, k, to, ts) \in For(n)
  BY <1>1 DEF For, Message
<1> QED BY <1>2

LEMMA ToldMail ==
  ASSUME NEW q, Mail(q), NEW n \in Nodes, NEW peers, NEW ms,
         \A m \in peers \cap Nodes : ms \in Seq(For(m))
  PROVE  Mail(Told(q, n, peers, ms))
<1> DEFINE row == [m \in Nodes |-> IF m \in peers THEN q[n][m] \o ms ELSE q[n][m]]
<1>1. \A m \in Nodes : For(m) \subseteq Envelope
  BY DEF For
<1>2. \A m \in Nodes : row[m] \in Seq(For(m))
  BY DEF Mail
<1>3. \A m \in Nodes : row[m] \in Seq(Envelope)
  <2>1. \A m \in Nodes : \A s : s \in Seq(For(m)) => s \in Seq(Envelope)
    BY <1>1
  <2> QED BY <1>2, <2>1
<1>4. row \in [Nodes -> Seq(Envelope)]
  BY <1>3
<1>5. Told(q, n, peers, ms) = [q EXCEPT ![n] = row]
  BY DEF Told
<1> HIDE DEF row
<1>6. /\ Told(q, n, peers, ms) \in [Nodes -> [Nodes -> Seq(Envelope)]]
      /\ Told(q, n, peers, ms)[n] = row
      /\ \A m \in Nodes \ {n} : Told(q, n, peers, ms)[m] = q[m]
  BY <1>4, <1>5 DEF Mail
<1>7. ASSUME NEW m \in Nodes, NEW p \in Nodes PROVE Told(q, n, peers, ms)[m][p] \in Seq(For(p))
  BY <1>2, <1>6 DEF Mail
<1> QED BY <1>6, <1>7 DEF Mail

LEMMA FirstMail ==
  ASSUME Mail(queue), NEW n \in Nodes, NEW m \in Nodes, queue[m][n] # <<>>
  PROVE  First(n, m) \in For(n) /\ Mail(Rest(n, m))
<1>1. /\ queue \in [Nodes -> [Nodes -> Seq(Envelope)]] /\ queue[m][n] \in Seq(For(n))
      /\ queue[m] \in [Nodes -> Seq(Envelope)] /\ queue[m][n] \in Seq(Envelope)
  BY DEF Mail
<1>2. Head(queue[m][n]) \in For(n) /\ Tail(queue[m][n]) \in Seq(For(n))
      /\ Tail(queue[m][n]) \in Seq(Envelope)
  BY <1>1
<1>3. Rest(n, m) = [queue EXCEPT ![m] = [queue[m] EXCEPT ![n] = Tail(queue[m][n])]]
  BY <1>1 DEF Rest
<1> DEFINE row == [queue[m] EXCEPT ![n] = Tail(queue[m][n])]
<1>4. row \in [Nodes -> Seq(Envelope)] /\ row[n] = Tail(queue[m][n])
      /\ \A p \in Nodes \ {n} : row[p] = queue[m][p]
  BY <1>1, <1>2
<1> HIDE DEF row
<1>5. /\ Rest(n, m) \in [Nodes -> [Nodes -> Seq(Envelope)]] /\ Rest(n, m)[m] = row
      /\ \A p \in Nodes \ {m} : Rest(n, m)[p] = queue[p]
  BY <1>1, <1>3, <1>4 DEF row
<1>6. ASSUME NEW p \in Nodes, NEW r \in Nodes PROVE Rest(n, m)[p][r] \in Seq(For(r))
  BY <1>2, <1>4, <1>5 DEF Mail
<1> QED BY <1>2, <1>5, <1>6 DEF Mail, First

LEMMA InitKept == Init => KeptInv
<1> SUFFICES ASSUME Init PROVE KeptInv
  OBVIOUS
<1>1. PICK present \in SUBSET {k \in Nicks : Homes[k] # None} :
        /\ world = [n \in Nodes |-> [k \in Nicks |->
             IF Homes[k] = None THEN None
             ELSE [home |-> Homes[k], ts |-> Oldest[k], in |-> k \in present]]]
        /\ conns = [n \in Nodes |->
             {[nick |-> k, ts |-> Oldest[k], listed |-> TRUE, announced |-> TRUE,
               told |-> FALSE] :
                k \in {l \in Nicks : Homes[l] = n}}]
        /\ subs = [n \in Nodes |->
             UNION {IF Homes[k] = n THEN Nodes \ {n} ELSE {Homes[k]} : k \in present}]
        /\ queue = [n \in Nodes |-> [m \in Nodes |-> <<>>]]
        /\ stage = [n \in Nodes |-> [m \in Nodes \ {n} |-> "up"]]
        /\ seen = [n \in Nodes |-> {}]
        /\ ops = 0 /\ spoilt = FALSE /\ missed = {}
  BY Zenon DEF Init
<1>2. Homes \in [Nicks -> Nodes \cup {None}] /\ \A k \in Nicks : Oldest[k] \in TS /\ Oldest[k] < Now
  BY <1>1, FederationAssumption, Facts, OldestFacts DEF Now
<1>3. WorldOK
  <2>1. ASSUME NEW k \in Nicks, Homes[k] # None
        PROVE  [home |-> Homes[k], ts |-> Oldest[k], in |-> k \in present] \in Record
    BY <1>2, <2>1 DEF Record
  <2>2. \A n \in Nodes : world[n] \in [Nicks -> Record \cup {None}]
    BY <1>1, <2>1
  <2> QED BY <1>1, <2>2 DEF WorldOK
<1>4. ASSUME NEW n \in Nodes, NEW c \in conns[n]
      PROVE  \E k \in Nicks : /\ Homes[k] = n
                              /\ c = [nick |-> k, ts |-> Oldest[k], listed |-> TRUE, announced |-> TRUE, told |-> FALSE]
  BY <1>1, <1>4
<1>5. ConnsOK
  <2>1. ASSUME NEW n \in Nodes, NEW c \in conns[n] PROVE c \in Conn /\ c.ts < Now
    <3>1. PICK k \in Nicks : /\ Homes[k] = n
                             /\ c = [nick |-> k, ts |-> Oldest[k], listed |-> TRUE, announced |-> TRUE, told |-> FALSE]
      BY <1>4
    <3>2. c \in Conn
      BY <1>2, <3>1 DEF Conn
    <3> QED BY <1>2, <3>1, <3>2
  <2>2. ASSUME NEW n \in Nodes, NEW c \in conns[n], NEW d \in conns[n], c.ts = d.ts PROVE c = d
    <3>1. PICK k \in Nicks : c = [nick |-> k, ts |-> Oldest[k], listed |-> TRUE, announced |-> TRUE, told |-> FALSE]
      BY <1>4
    <3>2. PICK l \in Nicks : d = [nick |-> l, ts |-> Oldest[l], listed |-> TRUE, announced |-> TRUE, told |-> FALSE]
      BY <1>4
    <3>3. k = l
      BY <2>2, <3>1, <3>2, OldestFacts
    <3> QED BY <3>1, <3>2, <3>3
  <2>3. conns \in [Nodes -> SUBSET Conn]
    BY <1>1, <2>1
  <2> QED BY <1>1, <2>1, <2>2, <2>3, Facts DEF ConnsOK
<1>6. LinksOK
  <2>1. \A n \in Nodes : stage[n] \in [Nodes \ {n} -> Stages]
    BY <1>1 DEF Stages
  <2>2. \A n \in Nodes : subs[n] \subseteq Nodes
    <3>1. ASSUME NEW n \in Nodes, NEW k \in present PROVE (IF Homes[k] = n THEN Nodes \ {n} ELSE {Homes[k]}) \subseteq Nodes
      BY <1>2
    <3> QED BY <1>1, <3>1
  <2>3. stage \in [Nodes -> UNION {[Nodes \ {n} -> Stages] : n \in Nodes}]
    BY <1>1, <2>1
  <2>4. subs \in [Nodes -> SUBSET Nodes] /\ seen \in [Nodes -> SUBSET Nodes]
    BY <1>1, <2>2
  <2> QED BY <1>1, <2>1, <2>3, <2>4 DEF LinksOK
<1>7. Mail(queue)
  BY <1>1 DEF Mail
<1>8. ASSUME NEW n \in Nodes, NEW c \in conns[n] PROVE Kept(n, c)
  <2>1. PICK k \in Nicks : /\ Homes[k] = n
                           /\ c = [nick |-> k, ts |-> Oldest[k], listed |-> TRUE, announced |-> TRUE, told |-> FALSE]
    BY <1>4
  <2>2. world[n][k] = [home |-> n, ts |-> Oldest[k], in |-> k \in present]
    BY <1>1, <2>1, Facts
  <2>3. world[n][k] # None
    <3>1. world[n][k] \in Record
      BY <1>2, <2>2 DEF Record
    <3> QED BY <3>1, Facts
  <2> QED BY <2>1, <2>2, <2>3 DEF Kept, Owns, Local
<1> QED BY <1>3, <1>5, <1>6, <1>7, <1>8 DEF KeptInv, TypeInv

-----------------------------------------------------------------------------
(* What most steps have in common. *)

\* A step that is about the world of one node.
LEMMA WorldAt ==
  ASSUME WorldOK, NEW n \in Nodes, NEW row \in [Nicks -> Record \cup {None}],
         world' = [world EXCEPT ![n] = row]
  PROVE  WorldOK' /\ world'[n] = row /\ \A m \in Nodes \ {n} : world'[m] = world[m]
BY DEF WorldOK

LEMMA ConnsStay ==
  ASSUME ConnsOK, UNCHANGED <<conns, missed>>, ops' \in ops..MaxOps
  PROVE  ConnsOK'
<1>1. Now' >= Now /\ ops' \in 0..MaxOps
  BY Facts DEF Now, ConnsOK
<1>2. \A n \in Nodes : \A c \in conns[n] : c.ts \in Nat
  BY Facts DEF ConnsOK, Conn
<1>3. Now \in Nat /\ Now' \in Nat
  BY Facts, <1>1 DEF Now, ConnsOK
<1>4. \A n \in Nodes : \A c \in conns'[n] : c.ts < Now'
  BY <1>1, <1>2, <1>3 DEF ConnsOK
<1> QED BY <1>1, <1>4 DEF ConnsOK

LEMMA ConnsAt ==
  ASSUME ConnsOK, NEW n \in Nodes, NEW cs \in SUBSET Conn, conns' = [conns EXCEPT ![n] = cs],
         ops' \in ops..MaxOps, missed' \subseteq TS, \A c \in cs : c.ts < Now',
         \A c, d \in cs : c.ts = d.ts => c = d
  PROVE  ConnsOK' /\ conns'[n] = cs /\ \A m \in Nodes \ {n} : conns'[m] = conns[m]
<1>1. Now' >= Now /\ ops' \in 0..MaxOps
  BY Facts DEF Now, ConnsOK
<1>2. \A m \in Nodes : \A c \in conns[m] : c.ts \in Nat
  BY Facts DEF ConnsOK, Conn
<1>3. Now \in Nat /\ Now' \in Nat
  BY Facts, <1>1 DEF Now, ConnsOK
<1>4. conns'[n] = cs /\ (\A m \in Nodes \ {n} : conns'[m] = conns[m])
      /\ conns' \in [Nodes -> SUBSET Conn]
  BY DEF ConnsOK
<1>5. \A m \in Nodes : \A c \in conns'[m] : c.ts < Now'
  BY <1>1, <1>2, <1>3, <1>4 DEF ConnsOK
<1>6. \A m \in Nodes : \A c, d \in conns'[m] : c.ts = d.ts => c = d
  BY <1>4 DEF ConnsOK
<1> QED BY <1>1, <1>4, <1>5, <1>6 DEF ConnsOK

\* One connection changes and keeps its TS.
LEMMA Replaced ==
  ASSUME ConnsOK, NEW n \in Nodes, NEW c \in conns[n], NEW d \in Conn, d.ts = c.ts,
         conns' = [conns EXCEPT ![n] = (@ \ {c}) \cup {d}],
         ops' \in ops..MaxOps, missed' \subseteq TS
  PROVE  /\ ConnsOK' /\ conns'[n] = (conns[n] \ {c}) \cup {d}
         /\ \A m \in Nodes \ {n} : conns'[m] = conns[m]
<1> DEFINE cs == (conns[n] \ {c}) \cup {d}
<1>1. Now' >= Now /\ Now \in Nat /\ Now' \in Nat
  BY Facts DEF Now, ConnsOK
<1>2. conns[n] \subseteq Conn /\ \A e \in conns[n] : e.ts < Now /\ e.ts \in Nat
  BY Facts DEF ConnsOK, Conn
<1>3. \A e \in cs : e.ts < Now'
  BY <1>1, <1>2
<1>4. \A e, f \in cs : e.ts = f.ts => e = f
  BY DEF ConnsOK
<1>5. conns' = [conns EXCEPT ![n] = cs] /\ cs \in SUBSET Conn
  BY <1>2
<1> HIDE DEF cs
<1>6. ConnsOK' /\ conns'[n] = cs /\ \A m \in Nodes \ {n} : conns'[m] = conns[m]
  BY <1>3, <1>4, <1>5, ConnsAt
<1> QED BY <1>6 DEF cs

\* A step that is about the clients of one node.
LEMMA KeptAt ==
  ASSUME KeptInv, NEW n \in Nodes, TypeInv', missed \subseteq missed',
         \A m \in Nodes \ {n} : world'[m] = world[m] /\ conns'[m] = conns[m],
         \A c \in conns'[n] : Kept(n, c)'
  PROVE  KeptInv'
<1>1. ASSUME NEW m \in Nodes, NEW c \in conns'[m] PROVE Kept(m, c)'
  <2>1. CASE m = n
    BY <1>1, <2>1
  <2>2. CASE m # n
    <3>1. c \in conns[m] /\ world'[m] = world[m] /\ Kept(m, c)
      BY <1>1, <2>2 DEF KeptInv
    <3> QED BY <3>1 DEF Kept, Owns, Local
  <2> QED BY <2>1, <2>2
<1> QED BY <1>1 DEF KeptInv

\* A step after which the records of local users are what they were: their node
\* and their TS.
LEMMA RecordsStay ==
  ASSUME KeptInv, TypeInv', UNCHANGED <<conns, missed>>,
         \A n \in Nodes, k \in Nicks : Local(n, k) =>
            Local(n, k)' /\ world'[n][k].ts = world[n][k].ts
  PROVE  KeptInv'
<1>1. ASSUME NEW n \in Nodes, NEW c \in conns[n] PROVE Kept(n, c)'
  <2>1. Kept(n, c) /\ c.nick \in Nicks
    BY DEF KeptInv, TypeInv, ConnsOK, Conn
  <2>2. Owns(n, c) => Owns(n, c)'
    BY <2>1 DEF Owns
  <2> QED BY <2>1, <2>2 DEF Kept
<1> QED BY <1>1 DEF KeptInv

\* n tells some peers of something about a nick.
LEMMA Tells ==
  ASSUME TypeInv, NEW n \in Nodes, NEW peers, NEW cmd \in Commands \ {"SQUIT"}, NEW k \in Nicks,
         NEW to \in Nodes \cup Nicks \cup {None}, NEW ts \in TS \cup {0},
         cmd = "RENAME" => to \in Nicks, cmd = "NICK" => ts \in TS
  PROVE  \A q : Mail(q) => Mail(Told(q, n, peers, <<Message(cmd, k, to, ts)>>))
<1>1. \A m \in Nodes : <<Message(cmd, k, to, ts)>> \in Seq(For(m))
  BY AboutNick
<1> QED BY <1>1, ToldMail

-----------------------------------------------------------------------------
(* What users do. *)

LEMMA ConnectKept ==
  ASSUME KeptInv, NEW n \in Nodes, NEW k \in Nicks, Connect(n, k)
  PROVE  KeptInv'
<1>0. PICK t : t = Now
  OBVIOUS
<1> DEFINE r == [home |-> n, ts |-> t, in |-> FALSE]
           c == [nick |-> k, ts |-> t, listed |-> FALSE, announced |-> FALSE, told |-> FALSE]
           row == [world[n] EXCEPT ![k] = r]
           cs == conns[n] \cup {c}
<1>1. /\ ops < MaxOps /\ ops' = ops + 1 /\ world[n][k] = None
      /\ world' = [world EXCEPT ![n] = row] /\ conns' = [conns EXCEPT ![n] = cs]
      /\ UNCHANGED <<queue, stage, subs, seen, missed>> /\ spoilt' \in BOOLEAN
  BY <1>0 DEF Connect, Act, Spoil, KeptInv, TypeInv, WorldOK, ConnsOK
<1>2. t \in TS /\ t \in Nat /\ t < Now' /\ ops' \in ops..MaxOps
  BY <1>0, <1>1, Facts DEF Now, KeptInv, TypeInv, ConnsOK
<1>3. r \in Record /\ r # None /\ c \in Conn
  <2>1. r \in Record /\ c \in Conn
    BY <1>2 DEF Record, Conn
  <2> QED BY <2>1, Facts
<1>4. row \in [Nicks -> Record \cup {None}] /\ row[k] = r /\ \A l \in Nicks \ {k} : row[l] = world[n][l]
  BY <1>3 DEF KeptInv, TypeInv, WorldOK
<1>5. WorldOK' /\ world'[n] = row /\ \A m \in Nodes \ {n} : world'[m] = world[m]
  <2> HIDE DEF row
  <2> QED BY <1>1, <1>4, WorldAt DEF KeptInv, TypeInv
<1>6. ConnsOK' /\ conns'[n] = cs /\ \A m \in Nodes \ {n} : conns'[m] = conns[m]
  <2>1. conns[n] \subseteq Conn /\ \A d \in conns[n] : d.ts < t /\ d.ts \in Nat
    BY <1>0, Facts DEF KeptInv, TypeInv, ConnsOK, Conn
  <2>2. cs \in SUBSET Conn /\ \A d \in cs : d.ts < Now'
    <3>1. Now' \in Nat
      BY <1>0, <1>1, <1>2, Facts DEF Now, KeptInv, TypeInv, ConnsOK
    <3>2. \A d \in conns[n] : d.ts < Now'
      BY <1>2, <2>1, <3>1
    <3>3. c.ts < Now'
      BY <1>2
    <3> HIDE DEF c
    <3> QED BY <1>3, <2>1, <3>2, <3>3
  <2>3. \A d, e \in cs : d.ts = e.ts => d = e
    <3>1. \A d, e \in conns[n] : d.ts = e.ts => d = e
      BY DEF KeptInv, TypeInv, ConnsOK
    <3>2. c.ts = t /\ \A d \in conns[n] : d.ts # t
      BY <1>2, <2>1
    <3> HIDE DEF c
    <3> QED BY <3>1, <3>2
  <2>4. missed' \subseteq TS /\ ConnsOK
    BY <1>1 DEF KeptInv, TypeInv, ConnsOK
  <2> HIDE DEF cs
  <2> QED BY <1>1, <1>2, <2>2, <2>3, <2>4, ConnsAt
<1>7. TypeInv'
  BY <1>1, <1>5, <1>6 DEF KeptInv, TypeInv, LinksOK, Mail
<1>8. ASSUME NEW d \in conns'[n] PROVE Kept(n, d)'
  <2>1. CASE d = c
    <3>1. world'[n][k].home = n /\ world'[n][k].ts = t /\ d.nick = k /\ d.ts = t /\ world'[n][k] # None
      BY <1>3, <1>4, <1>5, <2>1
    <3> QED BY <3>1 DEF Kept, Owns, Local
  <2>2. CASE d # c
    <3>1. d \in conns[n] /\ Kept(n, d) /\ d.nick \in Nicks
      BY <1>6, <1>8, <2>2 DEF KeptInv, TypeInv, ConnsOK, Conn
    <3>2. Owns(n, d) => d.nick # k
      BY <1>1 DEF Owns, Local
    <3>3. Owns(n, d) => Owns(n, d)'
      BY <1>4, <1>5, <3>1, <3>2 DEF Owns, Local
    <3> QED BY <1>1, <3>1, <3>3 DEF Kept
  <2> QED BY <2>1, <2>2
<1> HIDE DEF cs, c, row, r
<1> QED BY <1>1, <1>5, <1>6, <1>7, <1>8, KeptAt

LEMMA RegisterConnKept ==
  ASSUME KeptInv, NEW n \in Nodes, NEW c, RegisterConn(n, c)
  PROVE  KeptInv'
<1> DEFINE d == [c EXCEPT !.listed = TRUE]
<1>1. /\ c \in conns[n] /\ conns' = [conns EXCEPT ![n] = (@ \ {c}) \cup {d}]
      /\ UNCHANGED <<world, queue, stage, subs, seen, ops, spoilt, missed>>
  BY DEF RegisterConn
<1>2. c \in Conn
  BY <1>1 DEF KeptInv, TypeInv, ConnsOK
<1>3. d \in Conn /\ d.ts = c.ts /\ d.nick = c.nick /\ d.told = c.told
  BY <1>2 DEF Conn
<1>4. ops' \in ops..MaxOps /\ missed' \subseteq TS /\ ConnsOK
  BY <1>1, Facts DEF KeptInv, TypeInv, ConnsOK
<1> HIDE DEF d
<1>5. /\ ConnsOK' /\ conns'[n] = (conns[n] \ {c}) \cup {d}
      /\ \A m \in Nodes \ {n} : conns'[m] = conns[m]
  <2>1. c \in conns[n] /\ conns' = [conns EXCEPT ![n] = (@ \ {c}) \cup {d}]
    BY <1>1
  <2> QED BY <1>3, <1>4, <2>1, Replaced
<1>6. TypeInv'
  BY <1>1, <1>5 DEF KeptInv, TypeInv, LinksOK, WorldOK, Mail
<1>7. ASSUME NEW e \in conns'[n] PROVE Kept(n, e)'
  <2>1. PICK f \in conns[n] : f.ts = e.ts /\ f.nick = e.nick /\ f.told = e.told
    BY <1>1, <1>3, <1>5
  <2>2. Kept(n, f)
    BY <2>1 DEF KeptInv
  <2> QED BY <1>1, <2>1, <2>2 DEF Kept, Owns, Local
<1> QED BY <1>1, <1>5, <1>6, <1>7, KeptAt

LEMMA AnnounceKept ==
  ASSUME KeptInv, NEW n \in Nodes, NEW c, Announce(n, c)
  PROVE  KeptInv'
<1> DEFINE d == [c EXCEPT !.announced = TRUE]
<1>1. /\ c \in conns[n] /\ conns' = [conns EXCEPT ![n] = (@ \ {c}) \cup {d}]
      /\ queue' = Told(queue, n, Registered(n), <<Message("NICK", c.nick, None, c.ts)>>)
      /\ UNCHANGED <<world, stage, subs, seen, ops, missed>> /\ spoilt' \in BOOLEAN
  BY DEF Announce, Spoil
<1>2. c \in Conn /\ c.ts \in TS /\ c.nick \in Nicks /\ c.listed
  BY <1>1 DEF Announce, KeptInv, TypeInv, ConnsOK, Conn
<1>3. d \in Conn /\ d.ts = c.ts /\ d.nick = c.nick /\ d.told = c.told
  BY <1>2 DEF Conn
<1>4. ops' \in ops..MaxOps /\ missed' \subseteq TS /\ ConnsOK
  BY <1>1, Facts DEF KeptInv, TypeInv, ConnsOK
<1> HIDE DEF d
<1>5. /\ ConnsOK' /\ conns'[n] = (conns[n] \ {c}) \cup {d}
      /\ \A m \in Nodes \ {n} : conns'[m] = conns[m]
  <2>1. c \in conns[n] /\ conns' = [conns EXCEPT ![n] = (@ \ {c}) \cup {d}]
    BY <1>1
  <2>2. d \in Conn /\ d.ts = c.ts /\ ConnsOK /\ ops' \in ops..MaxOps /\ missed' \subseteq TS
    BY <1>3, <1>4
  <2> QED BY <2>1, <2>2, Replaced
<1>6. Mail(queue')
  <2>1. Mail(queue)
    BY DEF KeptInv, TypeInv
  <2> QED BY <1>1, <1>2, <2>1, Tells DEF KeptInv, Commands
<1>7. TypeInv'
  BY <1>1, <1>5, <1>6 DEF KeptInv, TypeInv, LinksOK, WorldOK, Mail
<1>8. ASSUME NEW e \in conns'[n] PROVE Kept(n, e)'
  <2>1. PICK f \in conns[n] : f.ts = e.ts /\ f.nick = e.nick /\ f.told = e.told
    BY <1>1, <1>3, <1>5
  <2>2. Kept(n, f)
    BY <2>1 DEF KeptInv
  <2> QED BY <1>1, <2>1, <2>2 DEF Kept, Owns, Local
<1> QED BY <1>1, <1>5, <1>7, <1>8, KeptAt

LEMMA RenameKept ==
  ASSUME KeptInv, NEW n \in Nodes, NEW c, NEW k \in Nicks, Rename(n, c, k)
  PROVE  KeptInv'
<1> DEFINE d == [c EXCEPT !.nick = k]
           row == [world[n] EXCEPT ![k] = world[n][c.nick], ![c.nick] = None]
<1>1. /\ c \in conns[n] /\ Owns(n, c) /\ world[n][k] = None
      /\ ops < MaxOps /\ ops' = ops + 1
      /\ conns' = [conns EXCEPT ![n] = (@ \ {c}) \cup {d}]
      /\ queue' = Told(queue, n, Registered(n), <<Message("RENAME", c.nick, k, 0)>>)
      /\ UNCHANGED <<stage, subs, seen, missed>> /\ spoilt' \in BOOLEAN
  BY DEF Rename, Act, Spoil, Users
<1>2. c \in Conn /\ c.ts \in TS /\ c.nick \in Nicks
  BY <1>1 DEF KeptInv, TypeInv, ConnsOK, Conn
<1>3. d \in Conn /\ d.ts = c.ts /\ d.nick = k /\ d.told = c.told
  BY <1>2 DEF Conn
<1>4. ops' \in ops..MaxOps /\ missed' \subseteq TS /\ ConnsOK
  BY <1>1, Facts DEF KeptInv, TypeInv, ConnsOK
<1>5. world' = [world EXCEPT ![n] = row]
  BY <1>2 DEF Rename, KeptInv, TypeInv, WorldOK
<1>6. /\ row \in [Nicks -> Record \cup {None}] /\ c.nick # k /\ row[k] = world[n][c.nick]
      /\ \A l \in Nicks \ {k, c.nick} : row[l] = world[n][l]
  BY <1>1, <1>2 DEF KeptInv, TypeInv, WorldOK, Owns, Local
<1> HIDE DEF d, row
<1>7. WorldOK' /\ world'[n] = row /\ \A m \in Nodes \ {n} : world'[m] = world[m]
  BY <1>5, <1>6, WorldAt DEF KeptInv, TypeInv
<1>8. /\ ConnsOK' /\ conns'[n] = (conns[n] \ {c}) \cup {d}
      /\ \A m \in Nodes \ {n} : conns'[m] = conns[m]
  BY <1>1, <1>3, <1>4, Replaced
<1>9. Mail(queue')
  <2>1. Mail(queue)
    BY DEF KeptInv, TypeInv
  <2> QED BY <1>1, <1>2, <2>1, Tells DEF KeptInv, Commands
<1>10. TypeInv'
  BY <1>1, <1>7, <1>8, <1>9 DEF KeptInv, TypeInv, LinksOK, Mail
<1>11. ASSUME NEW e \in conns'[n] PROVE Kept(n, e)'
  <2>1. CASE e = d
    <3>1. Owns(n, d)'
      BY <1>1, <1>3, <1>6, <1>7 DEF Owns, Local
    <3> QED BY <2>1, <3>1 DEF Kept
  <2>2. CASE e # d
    <3>1. e \in conns[n] /\ e # c /\ Kept(n, e) /\ e.nick \in Nicks /\ e.ts # c.ts
      BY <1>1, <1>8, <1>11, <2>2 DEF KeptInv, TypeInv, ConnsOK, Conn
    <3>2. Owns(n, e) => e.nick # k /\ e.nick # c.nick
      BY <1>1, <3>1 DEF Owns, Local
    <3>3. Owns(n, e) => Owns(n, e)'
      BY <1>6, <1>7, <3>1, <3>2 DEF Owns, Local
    <3> QED BY <1>1, <3>1, <3>3 DEF Kept
  <2> QED BY <2>1, <2>2
<1> QED BY <1>1, <1>7, <1>8, <1>10, <1>11, KeptAt

\* What is done to the records of a node without a loss of local users.
LEMMA RowStays ==
  ASSUME WorldOK, NEW n \in Nodes, NEW row \in [Nicks -> Record \cup {None}],
         world' = [world EXCEPT ![n] = row],
         \A k \in Nicks : Local(n, k) =>
            row[k] # None /\ row[k].home = n /\ row[k].ts = world[n][k].ts
  PROVE  /\ WorldOK'
         /\ \A m \in Nodes, k \in Nicks : Local(m, k) =>
              Local(m, k)' /\ world'[m][k].ts = world[m][k].ts
<1>1. WorldOK' /\ world'[n] = row /\ \A m \in Nodes \ {n} : world'[m] = world[m]
  BY WorldAt
<1> QED BY <1>1 DEF Local

LEMMA MemberStays ==
  ASSUME WorldOK, NEW n \in Nodes, NEW k \in Nicks, world[n][k] # None, NEW b \in BOOLEAN,
         world' = [world EXCEPT ![n][k].in = b]
  PROVE  /\ WorldOK'
         /\ \A m \in Nodes, l \in Nicks : Local(m, l) =>
              Local(m, l)' /\ world'[m][l].ts = world[m][l].ts
<1> DEFINE r == [world[n][k] EXCEPT !.in = b]
           row == [world[n] EXCEPT ![k] = r]
<1>1. world[n] \in [Nicks -> Record \cup {None}] /\ world[n][k] \in Record
  BY DEF WorldOK
<1>2. r \in Record /\ r.home = world[n][k].home /\ r.ts = world[n][k].ts
  BY <1>1 DEF Record
<1>3. world' = [world EXCEPT ![n] = row]
  BY <1>1 DEF WorldOK
<1>4. r # None
  BY <1>2, Facts
<1> HIDE DEF r
<1>5. /\ row \in [Nicks -> Record \cup {None}] /\ row[k] = r
      /\ \A l \in Nicks \ {k} : row[l] = world[n][l]
  BY <1>1, <1>2
<1> HIDE DEF row
<1>6. \A l \in Nicks : Local(n, l) => row[l] # None /\ row[l].home = n /\ row[l].ts = world[n][l].ts
  BY <1>2, <1>4, <1>5 DEF Local
<1> QED BY <1>3, <1>5, <1>6, RowStays

\* A user of n that acts.
LEMMA UserFacts ==
  ASSUME KeptInv, NEW n \in Nodes, NEW c \in Users(n)
  PROVE  c \in conns[n] /\ c \in Conn /\ c.nick \in Nicks /\ c.ts \in TS /\ Owns(n, c)
BY DEF KeptInv, TypeInv, ConnsOK, Conn, Users

LEMMA JoinKept ==
  ASSUME KeptInv, NEW n \in Nodes, NEW c, Join(n, c)
  PROVE  KeptInv'
<1>1. /\ c \in Users(n) /\ world' = [world EXCEPT ![n][c.nick].in = TRUE]
      /\ ops < MaxOps /\ ops' = ops + 1
      /\ subs' = [subs EXCEPT ![n] = @ \cup Registered(n)]
      /\ queue' = Told(queue, n, Registered(n), <<Message("JOIN", c.nick, None, 0)>>)
      /\ UNCHANGED <<conns, stage, seen, missed>> /\ spoilt' \in BOOLEAN
  BY DEF Join, Act, Spoil
<1>2. c.nick \in Nicks /\ Owns(n, c) /\ world[n][c.nick] # None
  BY <1>1, UserFacts DEF Owns, Local
<1>3. /\ WorldOK'
      /\ \A m \in Nodes, l \in Nicks : Local(m, l) =>
           Local(m, l)' /\ world'[m][l].ts = world[m][l].ts
  BY <1>1, <1>2, MemberStays DEF KeptInv, TypeInv
<1>4. ConnsOK'
  <2>1. ops' \in ops..MaxOps /\ ConnsOK
    BY <1>1, Facts DEF KeptInv, TypeInv, ConnsOK
  <2> QED BY <1>1, <2>1, ConnsStay
<1>5. Mail(queue')
  <2>1. Mail(queue)
    BY DEF KeptInv, TypeInv
  <2> QED BY <1>1, <1>2, <2>1, Tells DEF KeptInv, Commands
<1>6. Registered(n) \subseteq Nodes
  BY DEF Registered
<1>7. LinksOK'
  BY <1>1, <1>6 DEF KeptInv, TypeInv, LinksOK
<1>8. TypeInv'
  BY <1>3, <1>4, <1>5, <1>7 DEF TypeInv, Mail
<1> QED BY <1>1, <1>3, <1>8, RecordsStay

\* PART and KICK: somebody leaves the channel.
LEMMA LeaveKept ==
  ASSUME KeptInv, NEW n \in Nodes, NEW k \in Nicks, NEW cmd \in {"PART", "KICK"},
         Act, world[n][k] # None, world' = [world EXCEPT ![n][k].in = FALSE],
         queue' = Told(queue, n, Subscribed(n), <<Message(cmd, k, None, 0)>>),
         UNCHANGED <<conns, stage, subs, seen, missed>>, spoilt' \in BOOLEAN
  PROVE  KeptInv'
<1>1. /\ WorldOK'
      /\ \A m \in Nodes, l \in Nicks : Local(m, l) =>
           Local(m, l)' /\ world'[m][l].ts = world[m][l].ts
  BY MemberStays DEF KeptInv, TypeInv
<1>2. ConnsOK'
  <2>1. ops' \in ops..MaxOps /\ ConnsOK
    BY Facts DEF KeptInv, TypeInv, ConnsOK, Act
  <2> QED BY <2>1, ConnsStay
<1>3. Mail(queue')
  <2>1. Mail(queue)
    BY DEF KeptInv, TypeInv
  <2> QED BY <2>1, Tells DEF KeptInv, Commands
<1>4. TypeInv'
  BY <1>1, <1>2, <1>3 DEF KeptInv, TypeInv, LinksOK, Mail
<1> QED BY <1>1, <1>4, RecordsStay

LEMMA PartKept ==
  ASSUME KeptInv, NEW n \in Nodes, NEW c, Part(n, c)
  PROVE  KeptInv'
<1>1. c \in Users(n) /\ spoilt' \in BOOLEAN
  BY DEF Part, Spoil
<1>2. c.nick \in Nicks /\ world[n][c.nick] # None
  BY <1>1, UserFacts DEF Owns, Local
<1> QED BY <1>1, <1>2, LeaveKept DEF Part

LEMMA KickKept ==
  ASSUME KeptInv, NEW n \in Nodes, NEW c, NEW k \in Nicks, Kick(n, c, k)
  PROVE  KeptInv'
<1>1. spoilt' \in BOOLEAN
  BY DEF Kick, Spoil
<1> QED BY <1>1, LeaveKept DEF Kick

\* One of some connections is told to go; the set is as it was for the rest.
LEMMA DroppedFacts ==
  ASSUME ConnsOK, NEW n \in Nodes, NEW k, NEW cs \in Dropped(conns[n], k)
  PROVE  \/ cs = conns[n] /\ \A c \in cs : ~(c.listed /\ c.nick = k)
         \/ \E c \in conns[n] : c.listed /\ c.nick = k /\ cs = (conns[n] \ {c}) \cup {[c EXCEPT !.told = TRUE]}
BY DEF Dropped

LEMMA DropTypes ==
  ASSUME ConnsOK, NEW n \in Nodes, NEW k, NEW cs \in Dropped(conns[n], k),
         conns' = [conns EXCEPT ![n] = cs], ops' = ops, missed' \subseteq TS
  PROVE  ConnsOK' /\ conns'[n] = cs /\ \A m \in Nodes \ {n} : conns'[m] = conns[m]
<1>1. CASE cs = conns[n]
  <2>1. conns' = conns /\ ops' = ops
    BY <1>1 DEF ConnsOK
  <2>2. Now' = Now
    BY <2>1 DEF Now
  <2> QED BY <1>1, <2>1, <2>2 DEF ConnsOK
<1>2. ASSUME NEW c \in conns[n], cs = (conns[n] \ {c}) \cup {[c EXCEPT !.told = TRUE]}
      PROVE  ConnsOK' /\ conns'[n] = cs /\ \A m \in Nodes \ {n} : conns'[m] = conns[m]
  <2> DEFINE d == [c EXCEPT !.told = TRUE]
  <2>1. d \in Conn /\ d.ts = c.ts
    <3>1. c \in Conn
      BY DEF ConnsOK
    <3> QED BY <3>1 DEF Conn
  <2>2. conns' = [conns EXCEPT ![n] = (@ \ {c}) \cup {d}] /\ ops' \in ops..MaxOps
    BY <1>2, Facts DEF ConnsOK
  <2> HIDE DEF d
  <2>3. /\ ConnsOK' /\ conns'[n] = (conns[n] \ {c}) \cup {d}
        /\ \A m \in Nodes \ {n} : conns'[m] = conns[m]
    BY <2>1, <2>2, Replaced
  <2> QED BY <1>2, <2>3 DEF d
<1>3. cs = conns[n] \/ \E c \in conns[n] : cs = (conns[n] \ {c}) \cup {[c EXCEPT !.told = TRUE]}
  BY DEF Dropped
<1> QED BY <1>1, <1>2, <1>3

\* A record that is not of a local user goes.
LEMMA RemoteGoes ==
  ASSUME WorldOK, NEW n \in Nodes, NEW k \in Nicks, ~Local(n, k),
         world' = [world EXCEPT ![n] = Removed(@, k)]
  PROVE  /\ WorldOK'
         /\ \A m \in Nodes, l \in Nicks : Local(m, l) =>
              Local(m, l)' /\ world'[m][l].ts = world[m][l].ts
<1> DEFINE row == [world[n] EXCEPT ![k] = None]
<1>1. world' = [world EXCEPT ![n] = row]
  BY DEF WorldOK, Removed
<1>2. row \in [Nicks -> Record \cup {None}] /\ \A l \in Nicks \ {k} : row[l] = world[n][l]
  BY DEF WorldOK
<1>3. \A l \in Nicks : Local(n, l) => row[l] # None /\ row[l].home = n /\ row[l].ts = world[n][l].ts
  BY <1>2 DEF Local
<1> HIDE DEF row
<1> QED BY <1>1, <1>2, <1>3, RowStays

LEMMA KillKept ==
  ASSUME KeptInv, NEW n \in Nodes, NEW c, NEW k \in Nicks, Kill(n, c, k)
  PROVE  KeptInv'
<1>1. /\ world[n][k] # None /\ ops < MaxOps /\ ops' = ops + 1
      /\ queue' = Told(queue, n, Registered(n), <<Message("KILL", k, None, 0)>>)
      /\ UNCHANGED <<stage, subs, seen, missed>> /\ spoilt' \in BOOLEAN
  BY DEF Kill, Act, Spoil
<1>2. Mail(queue')
  <2>1. Mail(queue)
    BY DEF KeptInv, TypeInv
  <2> QED BY <1>1, <2>1, Tells DEF KeptInv, Commands
<1>3. ops' \in ops..MaxOps /\ ConnsOK /\ missed' \subseteq TS /\ WorldOK
  BY <1>1, Facts DEF KeptInv, TypeInv, ConnsOK
<1>4. CASE Remote(n, k)
  <2>1. world' = [world EXCEPT ![n] = Removed(@, k)] /\ conns' = conns /\ ~Local(n, k)
    BY <1>4 DEF Kill, Remote, Local
  <2>2. /\ WorldOK'
        /\ \A m \in Nodes, l \in Nicks : Local(m, l) =>
             Local(m, l)' /\ world'[m][l].ts = world[m][l].ts
    BY <1>3, <2>1, RemoteGoes
  <2>3. ConnsOK'
    BY <1>1, <1>3, <2>1, ConnsStay
  <2>4. TypeInv'
    BY <1>1, <1>2, <2>2, <2>3 DEF KeptInv, TypeInv, LinksOK, Mail
  <2> QED BY <1>1, <2>1, <2>2, <2>4, RecordsStay
<1>5. CASE ~Remote(n, k)
  <2> DEFINE Its(d) == d.listed /\ d.nick = k /\ d.ts = world[n][k].ts
             After(d) == [d EXCEPT !.told = @ \/ Its(d)]
             cs == {After(d) : d \in conns[n]}
  <2>1. world' = world /\ conns' = [conns EXCEPT ![n] = cs]
    BY <1>5 DEF Kill
  <2>2. ASSUME NEW d \in conns[n]
        PROVE  /\ d \in Conn /\ After(d) \in Conn /\ After(d).ts = d.ts /\ After(d).nick = d.nick
               /\ d.told => After(d).told
    <3>1. d \in Conn
      BY DEF KeptInv, TypeInv, ConnsOK
    <3>2. PICK b \in BOOLEAN : b = (d.told \/ Its(d))
      OBVIOUS
    <3>3. After(d) = [d EXCEPT !.told = b]
      BY <3>2
    <3>4. [d EXCEPT !.told = b] \in Conn
      BY <3>1 DEF Conn
    <3>5. [d EXCEPT !.told = b].ts = d.ts /\ [d EXCEPT !.told = b].nick = d.nick
          /\ [d EXCEPT !.told = b].told = b
      BY <3>1 DEF Conn
    <3> HIDE DEF After
    <3> QED BY <3>1, <3>2, <3>3, <3>4, <3>5
  <2>3. PICK now2 : now2 = Now'
    OBVIOUS
  <2>4. \A d \in conns[n] : d.ts < Now'
    <3>1. \A d \in conns[n] : d.ts \in Nat /\ d.ts < Now
      BY Facts DEF KeptInv, TypeInv, ConnsOK, Conn
    <3> QED BY <1>1, <1>3, <3>1, Facts DEF Now, ConnsOK
  <2> HIDE DEF After
  <2>5. cs \in SUBSET Conn /\ \A d \in cs : d.ts < Now'
    <3>1. cs \in SUBSET Conn
      BY <2>2
    <3>2. \A d \in cs : d.ts < now2
      BY <2>2, <2>3, <2>4
    <3> QED BY <2>3, <3>1, <3>2
  <2>6. \A d, e \in cs : d.ts = e.ts => d = e
    BY <2>2 DEF KeptInv, TypeInv, ConnsOK
  <2>7. ConnsOK' /\ conns'[n] = cs /\ \A m \in Nodes \ {n} : conns'[m] = conns[m]
    <3> HIDE DEF cs
    <3> QED BY <1>3, <2>1, <2>5, <2>6, ConnsAt
  <2>8. TypeInv'
    BY <1>1, <1>2, <2>1, <2>7 DEF KeptInv, TypeInv, LinksOK, WorldOK, Mail
  <2>9. ASSUME NEW e \in conns'[n] PROVE Kept(n, e)'
    <3>1. PICK d \in conns[n] : e.ts = d.ts /\ e.nick = d.nick /\ (d.told => e.told)
      BY <2>2, <2>7
    <3>2. Kept(n, d)
      BY <3>1 DEF KeptInv
    <3> QED BY <1>1, <2>1, <3>1, <3>2 DEF Kept, Owns, Local
  <2> QED BY <1>1, <2>1, <2>7, <2>8, <2>9, KeptAt
<1> QED BY <1>4, <1>5

\* A connection ends, and its own record with it.
LEMMA EndKept ==
  ASSUME KeptInv, NEW n \in Nodes, NEW c \in conns[n], CloseOf(n, c), ops' \in ops..MaxOps,
         UNCHANGED <<stage, subs, seen, missed>>, spoilt' \in BOOLEAN
  PROVE  KeptInv'
<1> DEFINE row == IF Owns(n, c) THEN [world[n] EXCEPT ![c.nick] = None] ELSE world[n]
           cs == conns[n] \ {c}
<1>1. c \in Conn /\ c.nick \in Nicks /\ WorldOK /\ ConnsOK /\ Mail(queue)
  BY DEF KeptInv, TypeInv, ConnsOK, Conn
<1>2. world' = [world EXCEPT ![n] = row] /\ conns' = [conns EXCEPT ![n] = cs]
  BY <1>1 DEF CloseOf, Owns, Removed, WorldOK, ConnsOK
<1>3. row \in [Nicks -> Record \cup {None}]
      /\ \A l \in Nicks : l # c.nick \/ ~Owns(n, c) => row[l] = world[n][l]
  BY <1>1 DEF WorldOK
<1> HIDE DEF row
<1>4. WorldOK' /\ world'[n] = row /\ \A m \in Nodes \ {n} : world'[m] = world[m]
  BY <1>1, <1>2, <1>3, WorldAt
<1>5. cs \in SUBSET Conn /\ \A d \in cs : d.ts < Now'
  <2>1. \A d \in conns[n] : d.ts \in Nat /\ d.ts < Now /\ d \in Conn
    BY Facts DEF KeptInv, TypeInv, ConnsOK, Conn
  <2>2. Now' >= Now /\ Now \in Nat /\ Now' \in Nat
    BY <1>1, Facts DEF Now, ConnsOK
  <2>3. \A d \in conns[n] : d.ts < Now'
    BY <2>1, <2>2
  <2> QED BY <2>1, <2>3
<1>6. (\A d, e \in cs : d.ts = e.ts => d = e) /\ missed' \subseteq TS
  BY <1>1 DEF ConnsOK
<1>7. ConnsOK' /\ conns'[n] = cs /\ \A m \in Nodes \ {n} : conns'[m] = conns[m]
  <2> HIDE DEF cs
  <2> QED BY <1>1, <1>2, <1>5, <1>6, ConnsAt
<1>8. Mail(queue')
  BY <1>1, Tells DEF KeptInv, Commands, CloseOf
<1>9. TypeInv'
  BY <1>4, <1>7, <1>8 DEF KeptInv, TypeInv, LinksOK, Mail
<1>10. ASSUME NEW d \in conns'[n] PROVE Kept(n, d)'
  <2>1. d \in conns[n] /\ d # c /\ d.ts # c.ts /\ Kept(n, d) /\ d.nick \in Nicks
    BY <1>1, <1>7, <1>10 DEF KeptInv, TypeInv, ConnsOK, Conn
  <2>2. Owns(n, d) => d.nick # c.nick \/ ~Owns(n, c)
    BY <2>1 DEF Owns
  <2>3. Owns(n, d) => Owns(n, d)'
    BY <1>3, <1>4, <2>1, <2>2 DEF Owns, Local
  <2> QED BY <2>1, <2>3 DEF Kept
<1> QED BY <1>4, <1>7, <1>9, <1>10, KeptAt

LEMMA QuitKept ==
  ASSUME KeptInv, NEW n \in Nodes, NEW c, Quit(n, c)
  PROVE  KeptInv'
<1>1. c \in Users(n) /\ spoilt' \in BOOLEAN
  BY DEF Quit, Spoil
<1>2. c \in conns[n] /\ ops' \in ops..MaxOps
  BY <1>1, Facts, UserFacts DEF Quit, Act, KeptInv, TypeInv, ConnsOK
<1> QED BY <1>1, <1>2, EndKept DEF Quit

LEMMA CloseKept ==
  ASSUME KeptInv, NEW n \in Nodes, NEW c, Close(n, c)
  PROVE  KeptInv'
<1>1. c \in conns[n] /\ spoilt' \in BOOLEAN
  BY DEF Close, Spoil
<1>2. ops' \in ops..MaxOps
  BY Facts DEF Close, KeptInv, TypeInv, ConnsOK
<1> QED BY <1>1, <1>2, EndKept DEF Close

-----------------------------------------------------------------------------
(* Links. *)

\* A change of what one node, or both ends, think of a link.
LEMMA StageAt ==
  ASSUME LinksOK, NEW n \in Nodes, NEW m \in Nodes \ {n}, NEW st \in Stages
  PROVE  /\ stage' = [stage EXCEPT ![n][m] = st] =>
              /\ stage' \in [Nodes -> UNION {[Nodes \ {p} -> Stages] : p \in Nodes}]
              /\ \A p \in Nodes : stage'[p] \in [Nodes \ {p} -> Stages]
         /\ stage' = [stage EXCEPT ![n][m] = st, ![m][n] = st] =>
              /\ stage' \in [Nodes -> UNION {[Nodes \ {p} -> Stages] : p \in Nodes}]
              /\ \A p \in Nodes : stage'[p] \in [Nodes \ {p} -> Stages]
<1> DEFINE U == UNION {[Nodes \ {p} -> Stages] : p \in Nodes}
           a == [stage[n] EXCEPT ![m] = st]
           b == [stage[m] EXCEPT ![n] = st]
<1>1. /\ stage \in [Nodes -> U] /\ \A p \in Nodes : stage[p] \in [Nodes \ {p} -> Stages]
  BY DEF LinksOK
<1>2. a \in [Nodes \ {n} -> Stages] /\ b \in [Nodes \ {m} -> Stages]
  BY <1>1
<1>3. a \in U /\ b \in U
  BY <1>2
<1>4. /\ [stage EXCEPT ![n][m] = st] = [stage EXCEPT ![n] = a]
      /\ [stage EXCEPT ![n][m] = st, ![m][n] = st] = [stage EXCEPT ![n] = a, ![m] = b]
  <2>1. [stage EXCEPT ![n][m] = st] = [stage EXCEPT ![n] = a]
    OBVIOUS
  <2>2. [stage EXCEPT ![n] = a][m] = stage[m]
    BY <1>1
  <2>3. [stage EXCEPT ![n] = a, ![m] = b] = [[stage EXCEPT ![n] = a] EXCEPT ![m] = b]
    OBVIOUS
  <2>4. [stage EXCEPT ![n][m] = st, ![m][n] = st]
          = [[stage EXCEPT ![n] = a] EXCEPT ![m] = [[stage EXCEPT ![n] = a][m] EXCEPT ![n] = st]]
    OBVIOUS
  <2> HIDE DEF a
  <2> QED BY <2>1, <2>2, <2>3, <2>4
<1> HIDE DEF a, b
<1>5. /\ [stage EXCEPT ![n] = a] \in [Nodes -> U]
      /\ \A p \in Nodes : [stage EXCEPT ![n] = a][p] \in [Nodes \ {p} -> Stages]
  <2> HIDE DEF U
  <2> QED BY <1>1, <1>2, <1>3
<1>6. /\ [stage EXCEPT ![n] = a, ![m] = b] \in [Nodes -> U]
      /\ \A p \in Nodes : [stage EXCEPT ![n] = a, ![m] = b][p] \in [Nodes \ {p} -> Stages]
  <2> HIDE DEF U
  <2> QED BY <1>1, <1>2, <1>3
<1> HIDE DEF U
<1>7. stage' = [stage EXCEPT ![n][m] = st] =>
        stage' \in [Nodes -> U] /\ \A p \in Nodes : stage'[p] \in [Nodes \ {p} -> Stages]
  BY <1>4, <1>5
<1>8. stage' = [stage EXCEPT ![n][m] = st, ![m][n] = st] =>
        stage' \in [Nodes -> U] /\ \A p \in Nodes : stage'[p] \in [Nodes \ {p} -> Stages]
  BY <1>4, <1>6
<1> QED BY <1>7, <1>8 DEF U

LEMMA LinkDownKept ==
  ASSUME KeptInv, NEW n \in Nodes, NEW m \in Nodes \ {n}, LinkDown(n, m)
  PROVE  KeptInv'
<1>1. /\ ops' \in ops..MaxOps /\ spoilt' \in BOOLEAN
      /\ stage' = [stage EXCEPT ![n][m] = "lost", ![m][n] = "lost"]
      /\ queue' = [queue EXCEPT ![n][m] = <<>>, ![m][n] = <<>>]
      /\ UNCHANGED <<world, conns, subs, seen, missed>>
  <2>1. ops' \in ops..MaxOps
    BY Facts DEF LinkDown, KeptInv, TypeInv, ConnsOK
  <2>2. spoilt' \in BOOLEAN
    BY DEF LinkDown, Spoil
  <2> QED BY <2>1, <2>2 DEF LinkDown
<1>2. ConnsOK'
  BY <1>1, ConnsStay DEF KeptInv, TypeInv
<1>3. LinksOK'
  <2>1. "lost" \in Stages /\ LinksOK
    BY DEF Stages, KeptInv, TypeInv
  <2>2. /\ stage' \in [Nodes -> UNION {[Nodes \ {p} -> Stages] : p \in Nodes}]
        /\ \A p \in Nodes : stage'[p] \in [Nodes \ {p} -> Stages]
    BY <1>1, <2>1, StageAt
  <2> QED BY <1>1, <2>1, <2>2 DEF LinksOK
<1>4. Mail(queue')
  <2>1. /\ queue \in [Nodes -> [Nodes -> Seq(Envelope)]]
        /\ \A p, r \in Nodes : queue[p][r] \in Seq(For(r))
    BY DEF KeptInv, TypeInv, Mail
  <2> DEFINE a == [queue[n] EXCEPT ![m] = <<>>]
             b == [queue[m] EXCEPT ![n] = <<>>]
  <2>2. queue' = [queue EXCEPT ![n] = a, ![m] = b]
    BY <1>1, <2>1
  <2>3. /\ a \in [Nodes -> Seq(Envelope)] /\ b \in [Nodes -> Seq(Envelope)]
        /\ \A r \in Nodes : (a[r] = <<>> \/ a[r] = queue[n][r]) /\ (b[r] = <<>> \/ b[r] = queue[m][r])
    <3>1. <<>> \in Seq(Envelope)
      OBVIOUS
    <3> QED BY <2>1, <3>1
  <2> HIDE DEF a, b
  <2>4. /\ queue' \in [Nodes -> [Nodes -> Seq(Envelope)]]
        /\ queue'[n] = a /\ queue'[m] = b /\ \A p \in Nodes \ {n, m} : queue'[p] = queue[p]
    BY <2>1, <2>2, <2>3
  <2>5. \A r \in Nodes : <<>> \in Seq(For(r))
    OBVIOUS
  <2>6. ASSUME NEW p \in Nodes, NEW r \in Nodes PROVE queue'[p][r] \in Seq(For(r))
    BY <2>1, <2>3, <2>4, <2>5
  <2> QED BY <2>4, <2>6 DEF Mail
<1>5. TypeInv'
  BY <1>1, <1>2, <1>3, <1>4 DEF KeptInv, TypeInv, WorldOK, Mail
<1> QED BY <1>1, <1>5, RecordsStay DEF Local

\* The users of another server leave; a SQUIT names a server and does not go to it.
LEMMA SquitKept ==
  ASSUME KeptInv, NEW n \in Nodes, NEW p \in Nodes \ {n}, NEW q, Mail(q), Squit(n, p, q)
  PROVE  /\ WorldOK' /\ Mail(queue') /\ seen' \in [Nodes -> SUBSET Nodes]
         /\ \A m \in Nodes, l \in Nicks : Local(m, l) =>
              Local(m, l)' /\ world'[m][l].ts = world[m][l].ts
<1>1. WorldOK /\ seen \in [Nodes -> SUBSET Nodes]
  BY DEF KeptInv, TypeInv, LinksOK
<1>2. CASE p \in seen[n]
  BY <1>1, <1>2 DEF Squit, WorldOK, Mail, Local
<1>3. CASE p \notin seen[n]
  <2> DEFINE row == [k \in Nicks |-> IF world[n][k] # None /\ world[n][k].home = p THEN None
                                     ELSE world[n][k]]
             ms == <<Message("SQUIT", None, p, 0)>>
  <2>1. world' = [world EXCEPT ![n] = row] /\ seen' = [seen EXCEPT ![n] = @ \cup {p}]
        /\ queue' = Told(q, n, Registered(n) \ {p}, ms)
    BY <1>3, <1>1 DEF Squit, WorldOK
  <2>2. row \in [Nicks -> Record \cup {None}]
    BY <1>1 DEF WorldOK
  <2>3. \A k \in Nicks : Local(n, k) => row[k] # None /\ row[k].home = n /\ row[k].ts = world[n][k].ts
    BY DEF Local
  <2>4. ASSUME NEW m \in (Registered(n) \ {p}) \cap Nodes PROVE ms \in Seq(For(m))
    <3>1. Message("SQUIT", None, p, 0) \in Envelope
      BY DEF Message, Envelope, Commands
    <3>2. Message("SQUIT", None, p, 0) \in For(m)
      BY <3>1 DEF For, Message
    <3> QED BY <3>2
  <2> HIDE DEF row, ms
  <2>5. /\ WorldOK'
        /\ \A m \in Nodes, l \in Nicks : Local(m, l) =>
             Local(m, l)' /\ world'[m][l].ts = world[m][l].ts
    BY <1>1, <2>1, <2>2, <2>3, RowStays
  <2>6. Mail(queue')
    BY <2>1, <2>4, ToldMail
  <2>7. seen' \in [Nodes -> SUBSET Nodes]
    BY <1>1, <2>1
  <2> QED BY <2>5, <2>6, <2>7
<1> QED BY <1>2, <1>3

LEMMA OnClosedKept ==
  ASSUME KeptInv, NEW n \in Nodes, NEW m \in Nodes \ {n}, OnClosed(n, m)
  PROVE  KeptInv'
<1>1. /\ stage' = [stage EXCEPT ![n][m] = "down"] /\ subs' = [subs EXCEPT ![n] = @ \ {m}]
      /\ Squit(n, m, queue) /\ UNCHANGED <<conns, ops, missed>> /\ spoilt' \in BOOLEAN
  BY DEF OnClosed, Spoil
<1>2. /\ WorldOK' /\ Mail(queue') /\ seen' \in [Nodes -> SUBSET Nodes]
      /\ \A p \in Nodes, l \in Nicks : Local(p, l) =>
           Local(p, l)' /\ world'[p][l].ts = world[p][l].ts
  <2>1. Mail(queue)
    BY DEF KeptInv, TypeInv
  <2> QED BY <1>1, <2>1, SquitKept
<1>3. ConnsOK'
  <2>1. ConnsOK /\ ops' \in ops..MaxOps
    BY <1>1, Facts DEF KeptInv, TypeInv, ConnsOK
  <2> QED BY <1>1, <2>1, ConnsStay
<1>4. LinksOK'
  <2>1. "down" \in Stages /\ LinksOK
    BY DEF Stages, KeptInv, TypeInv
  <2>2. /\ stage' \in [Nodes -> UNION {[Nodes \ {p} -> Stages] : p \in Nodes}]
        /\ \A p \in Nodes : stage'[p] \in [Nodes \ {p} -> Stages]
    BY <1>1, <2>1, StageAt
  <2>3. subs' \in [Nodes -> SUBSET Nodes]
    BY <1>1, <2>1 DEF LinksOK
  <2> QED BY <1>1, <1>2, <2>2, <2>3 DEF LinksOK
<1>5. TypeInv'
  BY <1>2, <1>3, <1>4 DEF TypeInv, Mail
<1> QED BY <1>1, <1>2, <1>5, RecordsStay

LEMMA LinkUpKept ==
  ASSUME KeptInv, NEW n \in Nodes, NEW m \in Nodes \ {n}, LinkUp(n, m)
  PROVE  KeptInv'
<1>1. /\ stage' = [stage EXCEPT ![n][m] = "linked", ![m][n] = "linked"]
      /\ UNCHANGED <<world, conns, queue, subs, seen, ops, spoilt, missed>>
  BY DEF LinkUp
<1>2. "linked" \in Stages /\ LinksOK
  BY DEF Stages, KeptInv, TypeInv
<1>3. /\ stage' \in [Nodes -> UNION {[Nodes \ {p} -> Stages] : p \in Nodes}]
      /\ \A p \in Nodes : stage'[p] \in [Nodes \ {p} -> Stages]
  BY <1>1, <1>2, StageAt
<1>4. TypeInv'
  BY <1>1, <1>3 DEF KeptInv, TypeInv, LinksOK, WorldOK, ConnsOK, Mail, Now
<1> QED BY <1>1, <1>4, RecordsStay DEF Local

LEMMA RegisterKept ==
  ASSUME KeptInv, NEW n \in Nodes, NEW m \in Nodes \ {n}, Register(n, m)
  PROVE  KeptInv'
<1>1. /\ stage' = [stage EXCEPT ![n][m] = "up"]
      /\ UNCHANGED <<world, conns, queue, subs, seen, ops, spoilt, missed>>
  BY DEF Register
<1>2. "up" \in Stages /\ LinksOK
  BY DEF Stages, KeptInv, TypeInv
<1>3. /\ stage' \in [Nodes -> UNION {[Nodes \ {p} -> Stages] : p \in Nodes}]
      /\ \A p \in Nodes : stage'[p] \in [Nodes \ {p} -> Stages]
  BY <1>1, <1>2, StageAt
<1>4. TypeInv'
  BY <1>1, <1>3 DEF KeptInv, TypeInv, LinksOK, WorldOK, ConnsOK, Mail, Now
<1> QED BY <1>1, <1>4, RecordsStay DEF Local

-----------------------------------------------------------------------------
(* The burst: every user of the node once, then every member. *)

\* Their ends, and a row of messages after others.
Plus(q, e) == Append(q, e)
Joined(q, ms) == q \o ms

LEMMA JoinedAt ==
  ASSUME NEW S, NEW p \in Seq(S), NEW r \in Seq(S)
  PROVE  /\ Joined(p, r) \in Seq(S) /\ Len(Joined(p, r)) = Len(p) + Len(r)
         /\ \A i \in 1..Len(p) : Joined(p, r)[i] = p[i]
BY DEF Joined

LEMMA JoinedLater ==
  ASSUME NEW S, NEW p \in Seq(S), NEW r \in Seq(S), NEW i \in 1..Len(r)
  PROVE  Joined(p, r)[Len(p) + i] = r[i]
BY DEF Joined

LEMMA JoinedAfterNone ==
  ASSUME NEW S, NEW p \in Seq(S)
  PROVE  Joined(<<>>, p) = p
BY DEF Joined

Mine(n) == {k \in Nicks : Local(n, k)}
Insiders(n) == {k \in Nicks : Local(n, k) /\ world[n][k].in}
BurstRow(q, n, N, mine, M, members) ==
  /\ Len(q) = N + M
  /\ \A i \in 1..N : q[i] = Message("NICK", mine[i], None, world[n][mine[i]].ts)
  /\ \A i \in 1..M : q[N + i] = Message("JOIN", members[i], None, 0)

\* What a burst sends, and what it does to the links.
Sends(n, m, ms) == queue' = Told(queue, n, {m}, ms)
Subscribes(n, m, s) == subs' = [subs EXCEPT ![n] = IF s = <<>> THEN @ ELSE @ \cup {m}]
LEMMA BurstRows ==
  ASSUME KeptInv, NEW n \in Nodes, NEW m \in Nodes \ {n}, Burst(n, m)
  PROVE  \E ms, N, mine, M, members :
           /\ Listing(mine, N, Mine(n)) /\ Listing(members, M, Insiders(n))
           /\ ms \in Seq(For(m)) /\ BurstRow(ms, n, N, mine, M, members) /\ Joined(<<>>, ms) = ms
           /\ Sends(n, m, ms) /\ Subscribes(n, m, members)
<1> DEFINE mine == SetToSeq(Mine(n))
           members == SetToSeq(Insiders(n))
           nicks == [i \in DOMAIN mine |-> Message("NICK", mine[i], None, world[n][mine[i]].ts)]
           joins == [i \in DOMAIN members |-> Message("JOIN", members[i], None, 0)]
           N == Cardinality(Mine(n))
           M == Cardinality(Insiders(n))
<1>1. Sends(n, m, Joined(nicks, joins)) /\ Subscribes(n, m, members)
  BY DEF Burst, Mine, Insiders, Joined, Sends, Subscribes
<1>2. Listing(mine, N, Mine(n)) /\ Listing(members, M, Insiders(n))
  <2>1. IsFiniteSet(Mine(n)) /\ IsFiniteSet(Insiders(n))
    BY FederationAssumption, FS_Subset DEF Mine, Insiders
  <2> QED BY <2>1, SetToSeqLists
<1> HIDE DEF mine, members, N, M
<1>3. /\ N \in Nat /\ M \in Nat /\ DOMAIN mine = 1..N /\ DOMAIN members = 1..M
      /\ \A i \in 1..N : mine[i] \in Nicks /\ Local(n, mine[i])
      /\ \A i \in 1..M : members[i] \in Nicks
  BY <1>2 DEF Listing, Mine, Insiders
<1>4. ASSUME NEW i \in 1..N PROVE nicks[i] \in For(m)
  <2>1. mine[i] \in Nicks /\ Local(n, mine[i])
    BY <1>3
  <2>2. world[n][mine[i]].ts \in TS
    BY <2>1 DEF Local, KeptInv, TypeInv, WorldOK, Record
  <2> QED BY <1>3, <2>1, <2>2, AboutNick DEF Commands
<1>5. ASSUME NEW i \in 1..M PROVE joins[i] \in For(m)
  <2>1. members[i] \in Nicks
    BY <1>3
  <2> QED BY <1>3, <2>1, AboutNick DEF Commands
<1>6. nicks \in [1..N -> For(m)] /\ joins \in [1..M -> For(m)]
  BY <1>3, <1>4, <1>5
<1>7. /\ \A i \in 1..N : nicks[i] = Message("NICK", mine[i], None, world[n][mine[i]].ts)
      /\ \A i \in 1..M : joins[i] = Message("JOIN", members[i], None, 0)
  BY <1>3
<1> HIDE DEF nicks, joins
<1>8. /\ Joined(nicks, joins) \in Seq(For(m)) /\ Len(Joined(nicks, joins)) = N + M
      /\ \A i \in 1..N : Joined(nicks, joins)[i] = nicks[i]
      /\ \A i \in 1..M : Joined(nicks, joins)[N + i] = joins[i]
      /\ Joined(<<>>, Joined(nicks, joins)) = Joined(nicks, joins)
  <2>1. nicks \in Seq(For(m)) /\ Len(nicks) = N /\ joins \in Seq(For(m)) /\ Len(joins) = M
    BY <1>3, <1>6
  <2>2. Joined(nicks, joins) \in Seq(For(m)) /\ Len(Joined(nicks, joins)) = N + M
    BY <2>1, JoinedAt
  <2>3. \A i \in 1..N : Joined(nicks, joins)[i] = nicks[i]
    BY <2>1, JoinedAt
  <2>4. \A i \in 1..M : Joined(nicks, joins)[N + i] = joins[i]
    <3>1. ASSUME NEW i \in 1..Len(joins) PROVE Joined(nicks, joins)[Len(nicks) + i] = joins[i]
      BY <2>1, JoinedLater
    <3> QED BY <2>1, <3>1
  <2>5. Joined(<<>>, Joined(nicks, joins)) = Joined(nicks, joins)
    BY <2>2, JoinedAfterNone
  <2> QED BY <2>2, <2>3, <2>4, <2>5
<1>9. BurstRow(Joined(nicks, joins), n, N, mine, M, members)
  BY <1>7, <1>8 DEF BurstRow
<1> QED BY <1>1, <1>2, <1>8, <1>9

\* The burst names its own users, with the TS of their records.
LEMMA BurstKept ==
  ASSUME KeptInv, NEW n \in Nodes, NEW m \in Nodes \ {n}, Burst(n, m)
  PROVE  KeptInv'
<1>1. /\ stage' = [stage EXCEPT ![n][m] = "burst"]
      /\ UNCHANGED <<world, conns, seen, ops, missed>> /\ spoilt' \in BOOLEAN
  BY DEF Burst, Spoil
<1>2. PICK ms, members : ms \in Seq(For(m)) /\ Sends(n, m, ms) /\ Subscribes(n, m, members)
  BY BurstRows
<1>3. Mail(queue')
  <2>1. Mail(queue)
    BY DEF KeptInv, TypeInv
  <2>2. \A p \in {m} \cap Nodes : ms \in Seq(For(p))
    BY <1>2
  <2> QED BY <1>2, <2>1, <2>2, ToldMail DEF Sends
<1>4. LinksOK'
  <2>1. "burst" \in Stages /\ LinksOK
    BY DEF Stages, KeptInv, TypeInv
  <2>2. /\ stage' \in [Nodes -> UNION {[Nodes \ {p} -> Stages] : p \in Nodes}]
        /\ \A p \in Nodes : stage'[p] \in [Nodes \ {p} -> Stages]
    BY <1>1, <2>1, StageAt
  <2>3. subs' \in [Nodes -> SUBSET Nodes]
    BY <1>2, <2>1 DEF LinksOK, Subscribes
  <2> QED BY <1>1, <2>1, <2>2, <2>3 DEF LinksOK
<1>5. TypeInv'
  BY <1>1, <1>3, <1>4 DEF KeptInv, TypeInv, WorldOK, ConnsOK, Mail, Now
<1> QED BY <1>1, <1>5, RecordsStay DEF Local

-----------------------------------------------------------------------------
(* Messages. *)

\* What arrives was meant for this node, and the rest is as good as before.
LEMMA Arrived ==
  ASSUME KeptInv, NEW n \in Nodes, NEW m \in Nodes, NEW cmd \in Commands, Arrives(n, m, cmd)
  PROVE  /\ First(n, m) \in For(n) /\ First(n, m) \in Envelope /\ First(n, m).cmd = cmd
         /\ cmd # "SQUIT" => First(n, m).nick \in Nicks
         /\ cmd = "SQUIT" => First(n, m).to \in Nodes \ {n}
         /\ cmd = "RENAME" => First(n, m).to \in Nicks
         /\ cmd = "NICK" => First(n, m).ts \in TS
         /\ Mail(Rest(n, m))
<1>1. Mail(queue) /\ queue[m][n] # <<>> /\ First(n, m).cmd = cmd
  BY DEF KeptInv, TypeInv, Arrives
<1>2. First(n, m) \in For(n) /\ Mail(Rest(n, m))
  BY <1>1, FirstMail
<1> QED BY <1>1, <1>2 DEF For

\* Most messages change the records of other nodes' users only.
LEMMA MessageKept ==
  ASSUME KeptInv, WorldOK', Mail(queue'),
         \A n \in Nodes, k \in Nicks : Local(n, k) =>
            Local(n, k)' /\ world'[n][k].ts = world[n][k].ts,
         UNCHANGED <<conns, stage, ops, missed>>, subs' \in [Nodes -> SUBSET Nodes],
         seen' \in [Nodes -> SUBSET Nodes], spoilt' \in BOOLEAN
  PROVE  KeptInv'
<1>1. ConnsOK'
  BY DEF KeptInv, TypeInv, ConnsOK, Now
<1>2. LinksOK'
  BY DEF KeptInv, TypeInv, LinksOK
<1>3. TypeInv'
  BY <1>1, <1>2 DEF TypeInv, Mail
<1> QED BY <1>3, RecordsStay

LEMMA SameWorld ==
  ASSUME WorldOK, world' = world
  PROVE  /\ WorldOK'
         /\ \A m \in Nodes, l \in Nicks : Local(m, l) =>
              Local(m, l)' /\ world'[m][l].ts = world[m][l].ts
BY DEF WorldOK, Local

LEMMA LinkTypes ==
  ASSUME KeptInv
  PROVE  /\ subs \in [Nodes -> SUBSET Nodes] /\ seen \in [Nodes -> SUBSET Nodes]
         /\ spoilt \in BOOLEAN /\ WorldOK
BY DEF KeptInv, TypeInv, LinksOK

LEMMA NickArrivesKept ==
  ASSUME KeptInv, NEW n \in Nodes, NEW m \in Nodes \ {n}, NickArrives(n, m)
  PROVE  KeptInv'
<1>0. PICK k, ts : k = First(n, m).nick /\ ts = First(n, m).ts
  OBVIOUS
<1> DEFINE r == [home |-> m, ts |-> ts, in |-> FALSE]
           row == [world[n] EXCEPT ![k] = r]
<1>1. k \in Nicks /\ ts \in TS /\ Mail(Rest(n, m))
  BY <1>0, Arrived DEF NickArrives, Commands
<1>2. /\ world[n][k] = None /\ world' = [world EXCEPT ![n] = row] /\ queue' = Rest(n, m)
      /\ UNCHANGED <<conns, stage, subs, seen, ops, spoilt, missed>>
  BY <1>0, LinkTypes DEF NickArrives, WorldOK
<1>3. r \in Record
  BY <1>1 DEF Record
<1> HIDE DEF r
<1>4. row \in [Nicks -> Record \cup {None}] /\ \A l \in Nicks \ {k} : row[l] = world[n][l]
  BY <1>3, LinkTypes DEF WorldOK
<1> HIDE DEF row
<1>5. \A l \in Nicks : Local(n, l) => row[l] # None /\ row[l].home = n /\ row[l].ts = world[n][l].ts
  BY <1>2, <1>4 DEF Local
<1>6. /\ WorldOK'
      /\ \A p \in Nodes, l \in Nicks : Local(p, l) =>
           Local(p, l)' /\ world'[p][l].ts = world[p][l].ts
  BY <1>2, <1>4, <1>5, RowStays, LinkTypes
<1>7. Mail(queue')
  BY <1>1, <1>2
<1> QED BY <1>2, <1>6, <1>7, MessageKept, LinkTypes

LEMMA RenameArrivesKept ==
  ASSUME KeptInv, NEW n \in Nodes, NEW m \in Nodes \ {n}, RenameArrives(n, m)
  PROVE  KeptInv'
<1>0. PICK k, to : k = First(n, m).nick /\ to = First(n, m).to
  OBVIOUS
<1>1. k \in Nicks /\ to \in Nicks /\ Mail(Rest(n, m))
  BY <1>0, Arrived DEF RenameArrives, Commands
<1>2. /\ queue' = Rest(n, m) /\ UNCHANGED <<conns, stage, subs, seen, ops, missed>>
      /\ spoilt' \in BOOLEAN
  BY LinkTypes DEF RenameArrives, Spoil
<1>3. /\ WorldOK'
      /\ \A p \in Nodes, l \in Nicks : Local(p, l) =>
           Local(p, l)' /\ world'[p][l].ts = world[p][l].ts
  <2>1. CASE Remote(n, k) /\ world[n][to] = None
    <3> DEFINE row == [world[n] EXCEPT ![to] = world[n][k], ![k] = None]
    <3>1. world' = [world EXCEPT ![n] = row]
      BY <1>0, <2>1, LinkTypes DEF RenameArrives, WorldOK
    <3>2. row \in [Nicks -> Record \cup {None}] /\ \A l \in Nicks \ {k, to} : row[l] = world[n][l]
      BY <1>1, LinkTypes DEF WorldOK
    <3> HIDE DEF row
    <3>3. \A l \in Nicks : Local(n, l) => row[l] # None /\ row[l].home = n /\ row[l].ts = world[n][l].ts
      BY <2>1, <3>2 DEF Local, Remote
    <3> QED BY <3>1, <3>2, <3>3, RowStays, LinkTypes
  <2>2. CASE ~(Remote(n, k) /\ world[n][to] = None)
    <3>1. world' = world
      BY <1>0, <2>2 DEF RenameArrives
    <3> QED BY <3>1, SameWorld, LinkTypes
  <2> QED BY <2>1, <2>2
<1>4. Mail(queue')
  BY <1>1, <1>2
<1> QED BY <1>2, <1>3, <1>4, MessageKept, LinkTypes

LEMMA QuitArrivesKept ==
  ASSUME KeptInv, NEW n \in Nodes, NEW m \in Nodes \ {n}, QuitArrives(n, m)
  PROVE  KeptInv'
<1>0. PICK k : k = First(n, m).nick
  OBVIOUS
<1>1. k \in Nicks /\ Mail(Rest(n, m))
  BY <1>0, Arrived DEF QuitArrives, Commands
<1>2. /\ queue' = Rest(n, m) /\ UNCHANGED <<conns, stage, subs, seen, ops, spoilt, missed>>
      /\ world' = IF Remote(n, k) THEN [world EXCEPT ![n] = Removed(@, k)] ELSE world
  BY <1>0 DEF QuitArrives
<1>3. Remote(n, k) => ~Local(n, k)
  BY DEF Remote, Local
<1>4. /\ WorldOK'
      /\ \A p \in Nodes, l \in Nicks : Local(p, l) =>
           Local(p, l)' /\ world'[p][l].ts = world[p][l].ts
  <2>1. CASE Remote(n, k)
    BY <1>1, <1>2, <1>3, <2>1, RemoteGoes, LinkTypes
  <2>2. CASE ~Remote(n, k)
    BY <1>2, <2>2, SameWorld, LinkTypes
  <2> QED BY <2>1, <2>2
<1>5. Mail(queue')
  BY <1>1, <1>2
<1> QED BY <1>2, <1>4, <1>5, MessageKept, LinkTypes

\* JOIN, PART and KICK: the channel changes, for a user there is.
LEMMA MemberKept ==
  ASSUME KeptInv, NEW n \in Nodes, NEW m \in Nodes, NEW k \in Nicks, NEW b \in BOOLEAN,
         \/ world[n][k] # None /\ world' = [world EXCEPT ![n][k].in = b]
         \/ world' = world,
         Mail(Rest(n, m)), queue' = Rest(n, m), subs' \in [Nodes -> SUBSET Nodes],
         UNCHANGED <<conns, stage, seen, ops, spoilt, missed>>
  PROVE  KeptInv'
<1>1. /\ WorldOK'
      /\ \A p \in Nodes, l \in Nicks : Local(p, l) =>
           Local(p, l)' /\ world'[p][l].ts = world[p][l].ts
  <2>1. CASE world[n][k] # None /\ world' = [world EXCEPT ![n][k].in = b]
    BY <2>1, MemberStays, LinkTypes
  <2>2. CASE world' = world
    BY <2>2, SameWorld, LinkTypes
  <2> QED BY <2>1, <2>2
<1> QED BY <1>1, MessageKept, LinkTypes

LEMMA JoinArrivesKept ==
  ASSUME KeptInv, NEW n \in Nodes, NEW m \in Nodes \ {n}, JoinArrives(n, m)
  PROVE  KeptInv'
<1>0. PICK k : k = First(n, m).nick
  OBVIOUS
<1>1. k \in Nicks /\ Mail(Rest(n, m))
  BY <1>0, Arrived DEF JoinArrives, Commands
<1>2. \/ world[n][k] # None /\ world' = [world EXCEPT ![n][k].in = TRUE]
      \/ world' = world
  BY <1>0 DEF JoinArrives, Remote
<1>3. subs' \in [Nodes -> SUBSET Nodes]
  BY LinkTypes DEF JoinArrives
<1> QED BY <1>1, <1>2, <1>3, MemberKept DEF JoinArrives

LEMMA PartArrivesKept ==
  ASSUME KeptInv, NEW n \in Nodes, NEW m \in Nodes \ {n}, PartArrives(n, m)
  PROVE  KeptInv'
<1>0. PICK k : k = First(n, m).nick
  OBVIOUS
<1>1. k \in Nicks /\ Mail(Rest(n, m))
  BY <1>0, Arrived DEF PartArrives, Commands
<1>2. \/ world[n][k] # None /\ world' = [world EXCEPT ![n][k].in = FALSE]
      \/ world' = world
  BY <1>0 DEF PartArrives, Remote
<1> QED BY <1>1, <1>2, MemberKept, LinkTypes DEF PartArrives

LEMMA KickArrivesKept ==
  ASSUME KeptInv, NEW n \in Nodes, NEW m \in Nodes \ {n}, KickArrives(n, m)
  PROVE  KeptInv'
<1>0. PICK k : k = First(n, m).nick
  OBVIOUS
<1>1. k \in Nicks /\ Mail(Rest(n, m))
  BY <1>0, Arrived DEF KickArrives, Commands
<1>2. \/ world[n][k] # None /\ world' = [world EXCEPT ![n][k].in = FALSE]
      \/ world' = world
  BY <1>0 DEF KickArrives
<1> QED BY <1>1, <1>2, MemberKept, LinkTypes DEF KickArrives

LEMMA SquitArrivesKept ==
  ASSUME KeptInv, NEW n \in Nodes, NEW m \in Nodes \ {n}, SquitArrives(n, m)
  PROVE  KeptInv'
<1>1. First(n, m).to \in Nodes \ {n} /\ Mail(Rest(n, m))
  BY Arrived DEF SquitArrives, Commands
<1>2. Squit(n, First(n, m).to, Rest(n, m)) /\ UNCHANGED <<conns, stage, subs, ops, missed>>
      /\ spoilt' \in BOOLEAN
  BY DEF SquitArrives, Spoil
<1>3. /\ WorldOK' /\ Mail(queue') /\ seen' \in [Nodes -> SUBSET Nodes]
      /\ \A p \in Nodes, l \in Nicks : Local(p, l) =>
           Local(p, l)' /\ world'[p][l].ts = world[p][l].ts
  BY <1>1, <1>2, SquitKept
<1> QED BY <1>2, <1>3, MessageKept, LinkTypes

\* A KILL for a local user: some connection of the nick is told to go.
LEMMA KillArrivesKept ==
  ASSUME KeptInv, NEW n \in Nodes, NEW m \in Nodes \ {n}, KillArrives(n, m)
  PROVE  KeptInv'
<1>0. PICK k : k = First(n, m).nick
  OBVIOUS
<1>1. k \in Nicks /\ Mail(Rest(n, m))
  BY <1>0, Arrived DEF KillArrives, Commands
<1>2. queue' = Rest(n, m) /\ UNCHANGED <<stage, subs, seen, ops, spoilt, missed>>
  BY DEF KillArrives
<1>3. CASE ~Local(n, k)
  <2>1. world' = [world EXCEPT ![n] = Removed(@, k)] /\ conns' = conns
    BY <1>0, <1>3 DEF KillArrives
  <2>2. /\ WorldOK'
        /\ \A p \in Nodes, l \in Nicks : Local(p, l) =>
             Local(p, l)' /\ world'[p][l].ts = world[p][l].ts
    BY <1>1, <1>3, <2>1, RemoteGoes, LinkTypes
  <2>3. Mail(queue')
    BY <1>1, <1>2
  <2> QED BY <1>2, <2>1, <2>2, <2>3, MessageKept, LinkTypes
<1>4. CASE Local(n, k)
  <2>1. PICK cs \in Dropped(conns[n], k) : conns' = [conns EXCEPT ![n] = cs]
    BY <1>0, <1>4 DEF KillArrives
  <2>2. world' = world
    BY <1>0, <1>4 DEF KillArrives
  <2>3. ConnsOK' /\ conns'[n] = cs /\ \A p \in Nodes \ {n} : conns'[p] = conns[p]
    <3>1. ConnsOK /\ missed' \subseteq TS
      BY <1>2 DEF KeptInv, TypeInv, ConnsOK
    <3> QED BY <1>2, <2>1, <3>1, DropTypes
  <2>4. TypeInv'
    BY <1>1, <1>2, <2>2, <2>3 DEF KeptInv, TypeInv, LinksOK, WorldOK, Mail
  <2>5. ASSUME NEW e \in conns'[n] PROVE Kept(n, e)'
    <3>1. e \in conns[n] \/ \E c \in conns[n] : e = [c EXCEPT !.told = TRUE]
      BY <2>1, <2>3 DEF Dropped
    <3>2. CASE e \in conns[n]
      <4>1. Kept(n, e)
        BY <3>2 DEF KeptInv
      <4> QED BY <1>2, <2>2, <4>1 DEF Kept, Owns, Local
    <3>3. ASSUME NEW c \in conns[n], e = [c EXCEPT !.told = TRUE] PROVE Kept(n, e)'
      <4>1. c \in Conn
        BY DEF KeptInv, TypeInv, ConnsOK
      <4>2. e.told
        BY <3>3, <4>1 DEF Conn
      <4> QED BY <4>2 DEF Kept
    <3> QED BY <3>1, <3>2, <3>3
  <2> QED BY <1>2, <2>2, <2>3, <2>4, <2>5, KeptAt
<1> QED BY <1>3, <1>4

\* A local user of the nick loses its record, and the connection that is told to
\* go is its own, or DropLocalUser found another one or none.
LEMMA LoserKept ==
  ASSUME KeptInv, NEW n \in Nodes, NEW k \in Nicks, Local(n, k), TypeInv',
         NEW cs \in Dropped(conns[n], k), conns'[n] = cs,
         \A m \in Nodes \ {n} : conns'[m] = conns[m] /\ world'[m] = world[m],
         \A l \in Nicks \ {k} : world'[n][l] = world[n][l],
         missed' = missed \cup Missable(n, k)
  PROVE  KeptInv'
<1>1. ASSUME NEW e \in conns'[n] PROVE Kept(n, e)'
  <2>0. e \in conns[n] \/ \E c \in conns[n] : e = [c EXCEPT !.told = TRUE]
    BY <1>1 DEF Dropped
  <2>1. PICK c \in conns[n] :
          \/ c.listed /\ c.nick = k /\ cs = (conns[n] \ {c}) \cup {[c EXCEPT !.told = TRUE]}
          \/ cs = conns[n] /\ \A d \in conns[n] : ~(d.listed /\ d.nick = k)
    BY <2>0 DEF Dropped
  <2>2. c \in Conn /\ [c EXCEPT !.told = TRUE].told
    <3>1. c \in Conn
      BY DEF KeptInv, TypeInv, ConnsOK
    <3> QED BY <3>1 DEF Conn
  <2>3. CASE e \notin conns[n]
    <3>1. e.told
      BY <1>1, <2>1, <2>2, <2>3
    <3> QED BY <3>1 DEF Kept
  <2>4. CASE e \in conns[n]
    <3>1. Kept(n, e) /\ e.nick \in Nicks
      BY <2>4 DEF KeptInv, TypeInv, ConnsOK, Conn
    <3>2. CASE e.nick # k
      <4>1. Owns(n, e) => Owns(n, e)'
        BY <3>1, <3>2 DEF Owns, Local
      <4> QED BY <3>1, <4>1 DEF Kept
    <3>3. CASE e.nick = k /\ e = [c EXCEPT !.told = TRUE]
      BY <2>2, <3>3 DEF Kept
    <3>4. CASE e.nick = k /\ e # [c EXCEPT !.told = TRUE]
      <4>1. ~e.listed \/ (e # c /\ c.listed /\ c.nick = k)
        BY <1>1, <2>1, <2>4, <3>4
      <4>2. Owns(n, e) => e.ts \in Missable(n, k)
        BY <2>4, <3>4, <4>1 DEF Missable
      <4> QED BY <3>1, <4>2 DEF Kept
    <3> QED BY <3>2, <3>3, <3>4
  <2> QED BY <2>3, <2>4
<1> QED BY <1>1, KeptAt

\* The lower TS stays.
LEMMA NickCollidesKept ==
  ASSUME KeptInv, NEW n \in Nodes, NEW m \in Nodes \ {n}, NickCollides(n, m)
  PROVE  KeptInv'
<1>0. PICK k, ts, mine : k = First(n, m).nick /\ ts = First(n, m).ts /\ mine = world[n][k].ts
  OBVIOUS
<1>1. k \in Nicks /\ ts \in TS /\ Mail(Rest(n, m)) /\ world[n][k] # None
  BY <1>0, Arrived DEF NickCollides, Commands
<1>2. UNCHANGED <<stage, subs, seen, ops>> /\ spoilt' \in BOOLEAN
  BY DEF NickCollides, Spoil
<1>3. Mail(queue')
  <2>1. Mail(Told(Rest(n, m), n, {m}, <<Message("KILL", k, None, 0)>>))
    BY <1>1, Tells DEF KeptInv, Commands
  <2>2. queue' = Rest(n, m) \/ queue' = Told(Rest(n, m), n, {m}, <<Message("KILL", k, None, 0)>>)
    BY <1>0 DEF NickCollides
  <2> QED BY <1>1, <2>1, <2>2
<1>4. CASE UNCHANGED <<world, conns, missed>>
  <2>1. /\ WorldOK'
        /\ \A p \in Nodes, l \in Nicks : Local(p, l) =>
             Local(p, l)' /\ world'[p][l].ts = world[p][l].ts
    BY <1>4, SameWorld, LinkTypes
  <2> QED BY <1>2, <1>3, <1>4, <2>1, MessageKept, LinkTypes
<1>5. CASE ~UNCHANGED <<world, conns, missed>>
  <2> DEFINE r == IF ts = mine THEN None ELSE [home |-> m, ts |-> ts, in |-> FALSE]
             row == [world[n] EXCEPT ![k] = r]
  <2>1. /\ world' = [world EXCEPT ![n] = row] /\ missed' = missed \cup Missable(n, k)
        /\ \E cs \in IF Local(n, k) THEN Dropped(conns[n], k) ELSE {conns[n]} :
             conns' = [conns EXCEPT ![n] = cs]
    BY <1>0, <1>5, LinkTypes DEF NickCollides, WorldOK
  <2>2. r \in Record \cup {None}
    BY <1>1 DEF Record
  <2> HIDE DEF r
  <2>3. row \in [Nicks -> Record \cup {None}] /\ \A l \in Nicks \ {k} : row[l] = world[n][l]
    BY <2>2, LinkTypes DEF WorldOK
  <2> HIDE DEF row
  <2>4. WorldOK' /\ world'[n] = row /\ \A p \in Nodes \ {n} : world'[p] = world[p]
    BY <2>1, <2>3, WorldAt, LinkTypes
  <2>5. missed' \subseteq TS
    <3>1. Missable(n, k) \subseteq TS
      BY DEF Missable, KeptInv, TypeInv, ConnsOK, Conn
    <3> QED BY <2>1, <3>1 DEF KeptInv, TypeInv, ConnsOK
  <2>6. ConnsOK /\ LinksOK
    BY DEF KeptInv, TypeInv
  <2>7. CASE Local(n, k)
    <3>1. PICK cs \in Dropped(conns[n], k) : conns' = [conns EXCEPT ![n] = cs]
      BY <2>1, <2>7
    <3>2. ConnsOK' /\ conns'[n] = cs /\ \A p \in Nodes \ {n} : conns'[p] = conns[p]
      BY <1>2, <2>5, <2>6, <3>1, DropTypes
    <3>3. TypeInv'
      BY <1>2, <1>3, <2>4, <2>6, <3>2 DEF TypeInv, LinksOK, Mail
    <3> QED BY <1>1, <2>1, <2>3, <2>4, <2>7, <3>2, <3>3, LoserKept
  <2>8. CASE ~Local(n, k)
    <3>1. conns' = conns
      BY <2>1, <2>6, <2>8 DEF ConnsOK
    <3>2. ConnsOK'
      BY <1>2, <2>5, <2>6, <3>1 DEF ConnsOK, Now
    <3>3. TypeInv'
      BY <1>2, <1>3, <2>4, <2>6, <3>2 DEF TypeInv, LinksOK, Mail
    <3>4. ASSUME NEW c \in conns'[n] PROVE Kept(n, c)'
      <4>1. Kept(n, c) /\ c.nick \in Nicks
        BY <3>1, <3>4 DEF KeptInv, TypeInv, ConnsOK, Conn
      <4>2. Owns(n, c) => Owns(n, c)'
        BY <2>3, <2>4, <2>8, <4>1 DEF Owns, Local
      <4> QED BY <2>1, <4>1, <4>2 DEF Kept
    <3> QED BY <2>1, <2>4, <3>1, <3>3, <3>4, KeptAt
  <2> QED BY <2>7, <2>8
<1> QED BY <1>4, <1>5

-----------------------------------------------------------------------------
(* All together. *)

LEMMA NextKept == KeptInv /\ [Next]_vars => KeptInv'
<1> SUFFICES ASSUME KeptInv, [Next]_vars PROVE KeptInv'
  OBVIOUS
<1>1. CASE UNCHANGED vars
  BY <1>1 DEF vars, KeptInv, TypeInv, WorldOK, ConnsOK, LinksOK, Mail, Now, Kept, Owns, Local
<1>2. ASSUME NEW n \in Nodes, NEW k \in Nicks, Connect(n, k) PROVE KeptInv'
  BY <1>2, ConnectKept
<1>3. ASSUME NEW n \in Nodes, NEW c \in conns[n],
             \/ RegisterConn(n, c) \/ Announce(n, c) \/ Close(n, c)
             \/ Join(n, c) \/ Part(n, c) \/ Quit(n, c)
      PROVE  KeptInv'
  BY <1>3, RegisterConnKept, AnnounceKept, JoinKept, PartKept, QuitKept, CloseKept
<1>4. ASSUME NEW n \in Nodes, NEW c \in conns[n], NEW k \in Nicks,
             Rename(n, c, k) \/ Kick(n, c, k) \/ Kill(n, c, k)
      PROVE  KeptInv'
  BY <1>4, RenameKept, KickKept, KillKept
<1>5. ASSUME NEW n \in Nodes, NEW m \in Nodes, n # m, Deliver(n, m)
      PROVE  KeptInv'
  BY <1>5, NickArrivesKept, NickCollidesKept, RenameArrivesKept, QuitArrivesKept, JoinArrivesKept,
     PartArrivesKept, KickArrivesKept, KillArrivesKept, SquitArrivesKept DEF Deliver
<1>6. ASSUME NEW n \in Nodes, NEW m \in Nodes, n # m, Links(n, m) \/ LinkDown(n, m) \/ LinkUp(n, m)
      PROVE  KeptInv'
  BY <1>6, OnClosedKept, BurstKept, RegisterKept, LinkDownKept, LinkUpKept DEF Links
<1> QED BY <1>1, <1>2, <1>3, <1>4, <1>5, <1>6 DEF Next

\* Every message is one its receiver can handle (dispatch): a nick where the
\* handler looks for one, and never a SQUIT that names the server it goes to; and
\* no two connections of a node have the same TS.
THEOREM MessagesFit == Spec => []TypeInv
<1>1. Spec => []KeptInv
  BY InitKept, NextKept, PTL DEF Spec
<1>2. KeptInv => TypeInv
  BY DEF KeptInv
<1> QED BY <1>1, <1>2, PTL

\* The user of a connection that was not told to go stays in its node's world,
\* whatever the other nodes send: the handlers' guards on remote users, and
\* DropLocalUser when a collision is lost, for any number of servers, nicks and
\* steps.  Left out are the losers of a collision that DropLocalUser may pass over:
\* those not in the registry yet (server/welcome.go:70, 86), and those whose nick
\* another registered connection has.
THEOREM NoClientForgotten == Spec => []NobodyForgotten
<1>1. Spec => []KeptInv
  BY InitKept, NextKept, PTL DEF Spec
<1>2. KeptInv => NobodyForgotten
  BY DEF KeptInv, NobodyForgotten, Kept
<1> QED BY <1>1, <1>2, PTL

-----------------------------------------------------------------------------
(* What keeps the nodes in step, as long as nothing spoilt it. *)

\* A node that a nick is of: it has told of it, or tells of it.
About(e, k) == /\ e.cmd \in {"NICK", "RENAME", "JOIN", "PART", "QUIT"}
               /\ e.nick = k \/ (e.cmd = "RENAME" /\ e.to = k)
Claims(m, k) ==
  \/ \E n \in Nodes : world[n][k] # None /\ world[n][k].home = m
  \/ \E n \in Nodes : \E e \in ToSet(queue[m][n]) : About(e, k)
OneOwner == \A k \in Nicks : \A a, b \in Nodes : Claims(a, k) /\ Claims(b, k) => a = b

\* Local users and connections belong to each other.
Homed == \A n \in Nodes :
  /\ \A c \in conns[n] : Owns(n, c)
  /\ \A k \in Nicks : Local(n, k) => \E c \in conns[n] : c.nick = k
Fresh == \A n \in Nodes : \A c \in conns[n] : ~c.announced => ~world[n][c.nick].in

\* a has told b of its users since their link was made.
Sent(a, b) == stage[a][b] \in {"burst", "up"}
\* The users of m: those that n knows, and those that m has told of.
Views == [Nicks -> Record \cup {None}]
Image(n, m) == [k \in Nicks |-> IF world[n][k] # None /\ world[n][k].home = m THEN world[n][k] ELSE None]
Own(m) == [k \in Nicks |-> IF \E c \in conns[m] : c.nick = k /\ c.announced THEN world[m][k] ELSE None]
Blank == [k \in Nicks |-> None]

Apart == \A a \in Nodes : \A b \in Nodes \ {a} :
  /\ stage[a][b] \in {"lost", "down"} <=> stage[b][a] \in {"lost", "down"}
  /\ ~Sent(a, b) => queue[a][b] = <<>>
  /\ stage[a][b] = "linked" \/ stage[b][a] = "down" => Image(b, a) = Blank
AllSubscribed == \A a \in Nodes : \A b \in Nodes \ {a} :
  Sent(a, b) /\ (\E k \in Nicks : Local(a, k) /\ world[a][k].in) => b \in subs[a]

\* What a message from m makes of the users of m that its receiver knows.
Record0(m, ts) == [home |-> m, ts |-> ts, in |-> FALSE]
Put(u, k, r) == [u EXCEPT ![k] = r]
Within(r, b) == [r EXCEPT !.in = b]
Turn(m, e, u, v) ==
  \/ e.cmd = "NICK" /\ u[e.nick] = None /\ v = Put(u, e.nick, Record0(m, e.ts))
  \/ e.cmd = "RENAME" /\ u[e.nick] # None /\ u[e.to] = None
       /\ v = Put(Put(u, e.to, u[e.nick]), e.nick, None)
  \/ e.cmd = "JOIN" /\ u[e.nick] # None /\ v = Put(u, e.nick, Within(u[e.nick], TRUE))
  \/ e.cmd = "PART" /\ u[e.nick] # None /\ v = Put(u, e.nick, Within(u[e.nick], FALSE))
  \/ e.cmd = "QUIT" /\ v = Put(u, e.nick, None)
  \/ e.cmd = "SQUIT" /\ v = u
\* What the messages of a queue, in their order, make of them.
Path(q, m, u, v) ==
  \E w \in [0..Len(q) -> Views] :
    /\ w[0] = u /\ w[Len(q)] = v
    /\ \A i \in 1..Len(q) : Turn(m, q[i], w[i - 1], w[i])

\* No order is on its way: with what is on its way, each node knows the others' users.
Calm ==
  /\ \A a \in Nodes : \A c \in conns[a] : ~c.told
  /\ \A a \in Nodes : \A b \in Nodes \ {a} :
       Sent(a, b) => Path(queue[a][b], a, Image(b, a), Own(a))

Order(e, cmd, k) == e.cmd = cmd /\ e.nick = k
\* n has kicked k.
SameBut(u, v, k) ==
  /\ \A j \in Nicks \ {k} : u[j] = v[j]
  /\ u[k] = None <=> v[k] = None
  /\ u[k] # None => u[k].ts = v[k].ts /\ u[k].home = v[k].home
Kicking(n, k) ==
  /\ \A a \in Nodes : \A c \in conns[a] : ~c.told
  /\ \A a \in Nodes : \A b \in Nodes \ {a} : \A e \in ToSet(queue[a][b]) :
       e.cmd = "SQUIT" \/ (a = n /\ Order(e, "KICK", k))
  /\ \A x \in Nodes : world[x][k] # None /\ world[x][k].in =>
       x # n /\ \E e \in ToSet(queue[n][x]) : Order(e, "KICK", k)
  /\ \A a \in Nodes : \A b \in Nodes \ {a} : Sent(a, b) => SameBut(Image(b, a), Own(a), k)
\* The connection of k at its own node was told to go, or nobody has heard of its
\* user yet.
Alone(h, k) == \/ \E c \in conns[h] : c.told
               \/ \A c \in conns[h] : c.nick = k => ~c.announced
\* n has killed k, a user of h.
Killing(n, h, k) ==
  /\ \A a \in Nodes : \A c \in conns[a] : c.told => a = h /\ c.nick = k
  /\ \A a \in Nodes : \A b \in Nodes \ {a} : \A e \in ToSet(queue[a][b]) :
       \/ e.cmd = "SQUIT" \/ (a = n /\ Order(e, "KILL", k))
       \/ a = h /\ Order(e, "QUIT", k)
  /\ \A x \in Nodes : world[x][k] # None =>
       /\ world[x][k].home = h
       /\ \/ x # n /\ \E e \in ToSet(queue[n][x]) : Order(e, "KILL", k)
          \/ x = h /\ Alone(h, k)
  /\ \A a \in Nodes : \A b \in Nodes \ {a} : Sent(a, b) =>
       \A j \in Nicks \ {k} : Image(b, a)[j] = Own(a)[j]
Traffic == \/ Calm \/ (\E n \in Nodes, k \in Nicks : Kicking(n, k))
           \/ (\E n, h \in Nodes, k \in Nicks : Killing(n, h, k))

Good == OneOwner /\ Homed /\ Fresh /\ Apart /\ AllSubscribed /\ Traffic
MirrorInv == KeptInv /\ (~spoilt => Good)

-----------------------------------------------------------------------------
(* Queues. *)

LEMMA Queues ==
  ASSUME Mail(queue), NEW a \in Nodes, NEW b \in Nodes
  PROVE  queue[a][b] \in Seq(Envelope) /\ \A i \in 1..Len(queue[a][b]) : queue[a][b][i] \in For(b)
<1>1. queue[a][b] \in Seq(For(b)) /\ queue[a] \in [Nodes -> Seq(Envelope)]
  BY DEF Mail
<1> QED BY <1>1

LEMMA Members ==
  ASSUME NEW S, NEW q \in Seq(S)
  PROVE  /\ \A e : ToSet(Plus(q, e)) = ToSet(q) \cup {e}
         /\ q # <<>> => ToSet(q) = {Head(q)} \cup ToSet(Tail(q)) /\ Tail(q) \in Seq(S)
         /\ ToSet(<<>>) = {}
         /\ q = <<>> <=> ToSet(q) = {}
<1>1. \A e : ToSet(Plus(q, e)) = ToSet(q) \cup {e}
  <2>1. ASSUME NEW e PROVE ToSet(Append(q, e)) = ToSet(q) \cup {e}
    <3>1. /\ DOMAIN q = 1..Len(q) /\ Len(q) \in Nat
          /\ DOMAIN Append(q, e) = 1..(Len(q) + 1)
          /\ \A i \in 1..Len(q) : Append(q, e)[i] = q[i]
          /\ Append(q, e)[Len(q) + 1] = e
      <4>1. q \in Seq(S \cup {e}) /\ e \in S \cup {e}
        OBVIOUS
      <4> QED BY <4>1
    <3>2. ToSet(Append(q, e)) = {Append(q, e)[i] : i \in 1..(Len(q) + 1)}
      BY <3>1 DEF ToSet
    <3>3. ToSet(q) = {q[i] : i \in 1..Len(q)}
      BY <3>1 DEF ToSet
    <3>4. 1..(Len(q) + 1) = 1..Len(q) \cup {Len(q) + 1}
      BY <3>1
    <3> QED BY <3>1, <3>2, <3>3, <3>4
  <2> QED BY <2>1 DEF Plus
<1>2. q # <<>> => ToSet(q) = {Head(q)} \cup ToSet(Tail(q)) /\ Tail(q) \in Seq(S)
  <2> SUFFICES ASSUME q # <<>> PROVE ToSet(q) = {Head(q)} \cup ToSet(Tail(q)) /\ Tail(q) \in Seq(S)
    OBVIOUS
  <2>1. /\ DOMAIN q = 1..Len(q) /\ Len(q) \in Nat /\ Len(q) > 0
        /\ DOMAIN Tail(q) = 1..(Len(q) - 1) /\ Tail(q) \in Seq(S)
        /\ \A i \in 1..(Len(q) - 1) : Tail(q)[i] = q[i + 1]
        /\ Head(q) = q[1]
    OBVIOUS
  <2>2. ToSet(q) = {q[i] : i \in 1..Len(q)}
    BY <2>1 DEF ToSet
  <2>3. ToSet(Tail(q)) = {q[i + 1] : i \in 1..(Len(q) - 1)}
    BY <2>1 DEF ToSet
  <2>4. \A i \in 2..Len(q) : i - 1 \in 1..(Len(q) - 1) /\ i = (i - 1) + 1
    BY <2>1
  <2>5. \A i \in 1..(Len(q) - 1) : i + 1 \in 1..Len(q)
    BY <2>1
  <2>6. \A i \in 1..Len(q) : i = 1 \/ i \in 2..Len(q)
    BY <2>1
  <2>7. 1 \in 1..Len(q)
    BY <2>1
  <2>8. \A x : x \in ToSet(q) => x \in {Head(q)} \cup ToSet(Tail(q))
    <3> SUFFICES ASSUME NEW i \in 1..Len(q) PROVE q[i] \in {Head(q)} \cup ToSet(Tail(q))
      BY <2>2
    <3>1. CASE i = 1
      BY <2>1, <3>1
    <3>2. CASE i \in 2..Len(q)
      <4>1. q[(i - 1) + 1] \in ToSet(Tail(q))
        BY <2>3, <2>4, <3>2
      <4> QED BY <2>4, <3>2, <4>1
    <3> QED BY <2>6, <3>1, <3>2
  <2>9. Head(q) \in ToSet(q) /\ \A x : x \in ToSet(Tail(q)) => x \in ToSet(q)
    BY <2>1, <2>2, <2>3, <2>5, <2>7
  <2> QED BY <2>1, <2>8, <2>9
<1>3. ToSet(<<>>) = {}
  BY DEF ToSet
<1>4. q # <<>> => ToSet(q) # {}
  BY <1>2
<1> QED BY <1>1, <1>2, <1>3, <1>4

LEMMA RestAt ==
  ASSUME Mail(queue), NEW n \in Nodes, NEW m \in Nodes, NEW a \in Nodes, NEW b \in Nodes
  PROVE  Rest(n, m)[a][b] = IF a = m /\ b = n THEN Tail(queue[m][n]) ELSE queue[a][b]
<1>1. queue \in [Nodes -> [Nodes -> Seq(Envelope)]] /\ queue[m] \in [Nodes -> Seq(Envelope)]
  BY DEF Mail
<1>2. Rest(n, m) = [queue EXCEPT ![m] = [queue[m] EXCEPT ![n] = Tail(queue[m][n])]]
  BY <1>1 DEF Rest
<1> DEFINE row == [queue[m] EXCEPT ![n] = Tail(queue[m][n])]
<1>3. row[n] = Tail(queue[m][n]) /\ \A p \in Nodes \ {n} : row[p] = queue[m][p]
  BY <1>1
<1> HIDE DEF row
<1>4. Rest(n, m)[m] = row /\ \A p \in Nodes \ {m} : Rest(n, m)[p] = queue[p]
  BY <1>1, <1>2 DEF row
<1> QED BY <1>3, <1>4

LEMMA ToldAt ==
  ASSUME NEW q, Mail(q), NEW n \in Nodes, NEW peers, NEW ms
  PROVE  \A a, b \in Nodes :
           /\ a = n /\ b \in peers => Told(q, n, peers, ms)[a][b] = Joined(q[a][b], ms)
           /\ a # n \/ b \notin peers => Told(q, n, peers, ms)[a][b] = q[a][b]
<1> DEFINE row == [m \in Nodes |-> IF m \in peers THEN q[n][m] \o ms ELSE q[n][m]]
<1>1. Told(q, n, peers, ms) = [q EXCEPT ![n] = row]
  BY DEF Told
<1>2. \A b \in Nodes : row[b] = IF b \in peers THEN q[n][b] \o ms ELSE q[n][b]
  OBVIOUS
<1> HIDE DEF row
<1>0. q \in [Nodes -> [Nodes -> Seq(Envelope)]]
  BY DEF Mail
<1>3. Told(q, n, peers, ms)[n] = row /\ \A a \in Nodes \ {n} : Told(q, n, peers, ms)[a] = q[a]
  BY <1>0, <1>1
<1> QED BY <1>2, <1>3 DEF Joined

\* One message.
LEMMA ToldOne ==
  ASSUME NEW q, Mail(q), NEW n \in Nodes, NEW peers, NEW e
  PROVE  \A a, b \in Nodes :
           /\ a = n /\ b \in peers => Told(q, n, peers, <<e>>)[a][b] = Plus(q[a][b], e)
           /\ a # n \/ b \notin peers => Told(q, n, peers, <<e>>)[a][b] = q[a][b]
<1>1. q \in [Nodes -> [Nodes -> Seq(Envelope)]]
  BY DEF Mail
<1>2. ASSUME NEW a \in Nodes, NEW b \in Nodes PROVE Joined(q[a][b], <<e>>) = Plus(q[a][b], e)
  <2>1. q[a][b] \in Seq(Envelope \cup {e}) /\ e \in Envelope \cup {e}
    BY <1>1
  <2>2. ASSUME NEW S, NEW s \in Seq(S), NEW x \in S PROVE s \o <<x>> = Append(s, x)
    OBVIOUS
  <2> QED BY <2>1, <2>2 DEF Joined, Plus
<1>3. PICK ms : ms = <<e>>
  OBVIOUS
<1>4. \A a, b \in Nodes :
        /\ a = n /\ b \in peers => Told(q, n, peers, ms)[a][b] = Joined(q[a][b], ms)
        /\ a # n \/ b \notin peers => Told(q, n, peers, ms)[a][b] = q[a][b]
  BY ToldAt
<1> QED BY <1>2, <1>3, <1>4

-----------------------------------------------------------------------------
(* What a queue makes of a view. *)

LEMMA PathEmpty ==
  ASSUME NEW m
  PROVE  /\ \A u \in Views : Path(<<>>, m, u, u)
         /\ \A u, v : Path(<<>>, m, u, v) => u = v
<1>1. Len(<<>>) = 0
  OBVIOUS
<1>2. ASSUME NEW u \in Views PROVE Path(<<>>, m, u, u)
  <2> DEFINE w == [i \in 0..0 |-> u]
  <2>1. w \in [0..Len(<<>>) -> Views] /\ w[0] = u /\ w[Len(<<>>)] = u
    BY <1>1
  <2> HIDE DEF w
  <2>2. \A i \in 1..Len(<<>>) : FALSE
    BY <1>1
  <2> QED BY <2>1, <2>2 DEF Path
<1> QED BY <1>1, <1>2 DEF Path

LEMMA PathTyped ==
  ASSUME NEW q, Len(q) \in Nat, NEW m, NEW u, NEW v, Path(q, m, u, v)
  PROVE  u \in Views /\ v \in Views
<1>1. 0 \in 0..Len(q) /\ Len(q) \in 0..Len(q)
  OBVIOUS
<1> QED BY <1>1 DEF Path

LEMMA PathLonger ==
  ASSUME NEW S, NEW q \in Seq(S), NEW m, NEW u, NEW v, NEW z \in Views, NEW e,
         Path(q, m, u, v), Turn(m, e, v, z)
  PROVE  Path(Plus(q, e), m, u, z)
<1>1. PICK w \in [0..Len(q) -> Views] :
        /\ w[0] = u /\ w[Len(q)] = v
        /\ \A i \in 1..Len(q) : Turn(m, q[i], w[i - 1], w[i])
  BY DEF Path
<1>2. PICK N : N = Len(q)
  OBVIOUS
<1>3. N \in Nat
  BY <1>2
<1> DEFINE x == [i \in 0..(N + 1) |-> IF i = N + 1 THEN z ELSE w[i]]
<1>4. /\ \A i \in 1..N : Append(q, e)[i] = q[i]
      /\ Append(q, e)[N + 1] = e /\ Len(Append(q, e)) = N + 1
  <2>1. q \in Seq(S \cup {e}) /\ e \in S \cup {e}
    OBVIOUS
  <2> QED BY <1>2, <2>1
<1>5. x \in [0..(N + 1) -> Views] /\ x[0] = u /\ x[N + 1] = z /\ x[N] = v
      /\ \A i \in 0..N : x[i] = w[i]
  <2>1. \A i \in 0..N : i \in 0..(N + 1) /\ i # N + 1
    BY <1>3
  <2>2. \A i \in 0..(N + 1) : i = N + 1 \/ i \in 0..N
    BY <1>3
  <2>3. N \in 0..N /\ 0 \in 0..N /\ N + 1 \in 0..(N + 1)
    BY <1>3
  <2>4. w \in [0..N -> Views] /\ w[N] = v /\ w[0] = u
    BY <1>1, <1>2
  <2>5. \A i \in 0..N : x[i] = w[i]
    BY <2>1
  <2>6. \A i \in 0..(N + 1) : x[i] \in Views
    BY <2>2, <2>4
  <2> QED BY <2>3, <2>4, <2>5, <2>6
<1> HIDE DEF x
<1>6. ASSUME NEW i \in 1..(N + 1) PROVE Turn(m, Append(q, e)[i], x[i - 1], x[i])
  <2>1. CASE i = N + 1
    <3>1. i - 1 = N
      BY <1>3, <2>1
    <3> QED BY <1>4, <1>5, <2>1, <3>1
  <2>2. CASE i # N + 1
    <3>1. i \in 1..N /\ i - 1 \in 0..N /\ i \in 0..N
      BY <1>3, <2>2
    <3>2. Turn(m, q[i], w[i - 1], w[i])
      BY <1>1, <1>2, <3>1
    <3> QED BY <1>4, <1>5, <3>1, <3>2
  <2> QED BY <2>1, <2>2
<1> QED BY <1>4, <1>5, <1>6 DEF Path, Plus

LEMMA PathShorter ==
  ASSUME NEW S, NEW q \in Seq(S), q # <<>>, NEW m, NEW u, NEW v, Path(q, m, u, v)
  PROVE  \E z \in Views : Turn(m, Head(q), u, z) /\ Path(Tail(q), m, z, v)
<1>1. PICK w \in [0..Len(q) -> Views] :
        /\ w[0] = u /\ w[Len(q)] = v
        /\ \A i \in 1..Len(q) : Turn(m, q[i], w[i - 1], w[i])
  BY DEF Path
<1>2. PICK N : N = Len(q)
  OBVIOUS
<1>3. N \in Nat /\ N > 0
  BY <1>2
<1>4. /\ \A i \in 1..(N - 1) : Tail(q)[i] = q[i + 1]
      /\ Len(Tail(q)) = N - 1 /\ Head(q) = q[1]
  BY <1>2
<1> DEFINE x == [i \in 0..(N - 1) |-> w[i + 1]]
<1>5. x \in [0..(N - 1) -> Views] /\ x[0] = w[1] /\ x[N - 1] = v
      /\ \A i \in 0..(N - 1) : x[i] = w[i + 1]
  <2>1. \A i \in 0..(N - 1) : i + 1 \in 0..N
    BY <1>3
  <2>2. 0 \in 0..(N - 1) /\ N - 1 \in 0..(N - 1) /\ (N - 1) + 1 = N /\ 0 + 1 = 1
    BY <1>3
  <2>3. w \in [0..N -> Views] /\ w[N] = v
    BY <1>1, <1>2
  <2>4. x \in [0..(N - 1) -> Views]
    BY <2>1, <2>3
  <2>5. x[0] = w[0 + 1] /\ x[N - 1] = w[(N - 1) + 1]
    BY <2>2
  <2> QED BY <2>2, <2>3, <2>4, <2>5
<1> HIDE DEF x
<1>6. ASSUME NEW i \in 1..(N - 1) PROVE Turn(m, Tail(q)[i], x[i - 1], x[i])
  <2>1. i + 1 \in 1..N /\ (i + 1) - 1 = i /\ i - 1 \in 0..(N - 1) /\ i \in 0..(N - 1) /\ (i - 1) + 1 = i
    BY <1>3
  <2>2. Turn(m, q[i + 1], w[(i + 1) - 1], w[i + 1])
    BY <1>1, <1>2, <2>1
  <2> QED BY <1>4, <1>5, <2>1, <2>2
<1>7. Path(Tail(q), m, x[0], v)
  BY <1>4, <1>5, <1>6 DEF Path
<1>8. 1 \in 1..N /\ 1 - 1 = 0 /\ 0 \in 0..(N - 1)
  BY <1>3
<1>9. Turn(m, q[1], w[1 - 1], w[1])
  BY <1>1, <1>2, <1>8
<1>10. Turn(m, Head(q), u, x[0])
  BY <1>1, <1>4, <1>5, <1>8, <1>9
<1> QED BY <1>5, <1>7, <1>8, <1>10

\* A queue that changes nothing.
LEMMA PathStill ==
  ASSUME NEW S, NEW q \in Seq(S), NEW m, NEW u \in Views,
         \A e \in ToSet(q) : Turn(m, e, u, u)
  PROVE  Path(q, m, u, u)
<1> DEFINE w == [i \in 0..Len(q) |-> u]
<1>1. w \in [0..Len(q) -> Views] /\ Len(q) \in Nat /\ \A i \in 0..Len(q) : w[i] = u
  OBVIOUS
<1>2. \A i \in 1..Len(q) : q[i] \in ToSet(q) /\ i \in 0..Len(q) /\ i - 1 \in 0..Len(q)
  BY <1>1 DEF ToSet
<1>3. 0 \in 0..Len(q) /\ Len(q) \in 0..Len(q)
  BY <1>1
<1> HIDE DEF w
<1>4. \A i \in 1..Len(q) : Turn(m, q[i], w[i - 1], w[i])
  BY <1>1, <1>2
<1> QED BY <1>1, <1>3, <1>4 DEF Path

-----------------------------------------------------------------------------
(* What the steps have in common. *)

LEMMA ViewTypes ==
  ASSUME WorldOK, NEW n \in Nodes
  PROVE  Own(n) \in Views /\ \A m \in Nodes : Image(n, m) \in Views
<1>1. world[n] \in [Nicks -> Record \cup {None}]
  BY DEF WorldOK
<1> QED BY <1>1 DEF Own, Image, Views

\* Records, connections and links.
LEMMA Shapes ==
  ASSUME TypeInv
  PROVE  /\ WorldOK /\ Mail(queue)
         /\ \A n \in Nodes : world[n] \in [Nicks -> Record \cup {None}]
         /\ \A n \in Nodes, k \in Nicks : world[n][k] # None =>
              world[n][k] \in Record /\ world[n][k].home \in Nodes /\ world[n][k].ts \in TS
              /\ world[n][k].in \in BOOLEAN
         /\ \A n \in Nodes : \A c \in conns[n] : c \in Conn /\ c.nick \in Nicks /\ c.ts \in TS
         /\ \A n \in Nodes : \A c, d \in conns[n] : c.ts = d.ts => c = d
<1>1. WorldOK /\ Mail(queue) /\ ConnsOK
  BY DEF TypeInv
<1>2. \A n \in Nodes : world[n] \in [Nicks -> Record \cup {None}]
  BY <1>1 DEF WorldOK
<1>3. \A n \in Nodes, k \in Nicks : world[n][k] # None => world[n][k] \in Record
  BY <1>2
<1>4. \A r \in Record : r.home \in Nodes /\ r.ts \in TS /\ r.in \in BOOLEAN
  BY DEF Record
<1>5. \A n \in Nodes : \A c \in conns[n] : c \in Conn
  BY <1>1 DEF ConnsOK
<1>6. \A c \in Conn : c.nick \in Nicks /\ c.ts \in TS
  BY DEF Conn
<1> QED BY <1>1, <1>2, <1>3, <1>4, <1>5, <1>6 DEF ConnsOK

LEMMA SameConn ==
  ASSUME TypeInv, Homed, NEW n \in Nodes, NEW c \in conns[n], NEW d \in conns[n], c.nick = d.nick
  PROVE  c = d
BY Shapes DEF Homed, Owns

LEMMA ToldSet ==
  ASSUME NEW q, Mail(q), NEW n \in Nodes, NEW peers, NEW e
  PROVE  \A a, b \in Nodes :
           /\ ToSet(q[a][b]) \subseteq ToSet(Told(q, n, peers, <<e>>)[a][b])
           /\ \A f \in ToSet(Told(q, n, peers, <<e>>)[a][b]) :
                f \in ToSet(q[a][b]) \/ (a = n /\ b \in peers /\ f = e)
           /\ a = n /\ b \in peers => e \in ToSet(Told(q, n, peers, <<e>>)[a][b])
<1> SUFFICES ASSUME NEW a \in Nodes, NEW b \in Nodes
             PROVE  /\ ToSet(q[a][b]) \subseteq ToSet(Told(q, n, peers, <<e>>)[a][b])
                    /\ \A f \in ToSet(Told(q, n, peers, <<e>>)[a][b]) :
                         f \in ToSet(q[a][b]) \/ (a = n /\ b \in peers /\ f = e)
                    /\ a = n /\ b \in peers => e \in ToSet(Told(q, n, peers, <<e>>)[a][b])
  OBVIOUS
<1>1. q[a][b] \in Seq(Envelope)
  BY DEF Mail
<1>2. ToSet(Plus(q[a][b], e)) = ToSet(q[a][b]) \cup {e}
  BY <1>1, Members
<1>3. CASE a = n /\ b \in peers
  <2>1. Told(q, n, peers, <<e>>)[a][b] = Plus(q[a][b], e)
    BY <1>3, ToldOne
  <2> QED BY <1>2, <1>3, <2>1
<1>4. CASE ~(a = n /\ b \in peers)
  <2>1. Told(q, n, peers, <<e>>)[a][b] = q[a][b]
    BY <1>4, ToldOne
  <2> QED BY <1>4, <2>1
<1> QED BY <1>3, <1>4

LEMMA RestSet ==
  ASSUME Mail(queue), NEW n \in Nodes, NEW m \in Nodes, queue[m][n] # <<>>
  PROVE  /\ First(n, m) \in ToSet(queue[m][n])
         /\ \A a, b \in Nodes : \A e \in ToSet(Rest(n, m)[a][b]) : e \in ToSet(queue[a][b])
         /\ \A a, b \in Nodes : \A e \in ToSet(queue[a][b]) :
              e \in ToSet(Rest(n, m)[a][b]) \/ (a = m /\ b = n /\ e = First(n, m))
<1>1. queue[m][n] \in Seq(Envelope)
  BY Queues
<1>2. ToSet(queue[m][n]) = {First(n, m)} \cup ToSet(Tail(queue[m][n]))
  BY <1>1, Members DEF First
<1>3. \A a, b \in Nodes : Rest(n, m)[a][b] = IF a = m /\ b = n THEN Tail(queue[m][n]) ELSE queue[a][b]
  BY RestAt
<1> QED BY <1>2, <1>3

\* No node claims a nick that it did not before.
LEMMA OwnersStay ==
  ASSUME TypeInv, OneOwner,
         \A x \in Nodes, l \in Nicks : world'[x][l] # None => Claims(world'[x][l].home, l),
         \A a, b \in Nodes, l \in Nicks : \A e \in ToSet(queue'[a][b]) : About(e, l) => Claims(a, l)
  PROVE  OneOwner'
<1>1. \A a \in Nodes, l \in Nicks : Claims(a, l)' => Claims(a, l)
  BY DEF Claims
<1> QED BY <1>1 DEF OneOwner

\* The same connections with the same nicks, and local users stay.
LEMMA HomedStays ==
  ASSUME Homed, TypeInv, TypeInv',
         \A n \in Nodes : \A c \in conns'[n] : \E d \in conns[n] :
           c.nick = d.nick /\ c.ts = d.ts /\ (d.announced => c.announced),
         \A n \in Nodes : \A d \in conns[n] : \E c \in conns'[n] : c.nick = d.nick,
         \A n \in Nodes, k \in Nicks : Local(n, k)' <=> Local(n, k),
         \A n \in Nodes, k \in Nicks : Local(n, k) => world'[n][k].ts = world[n][k].ts
  PROVE  Homed'
<1>1. ASSUME NEW n \in Nodes, NEW c \in conns'[n] PROVE Owns(n, c)'
  <2>1. PICK d \in conns[n] : c.nick = d.nick /\ c.ts = d.ts
    BY <1>1
  <2>2. Owns(n, d) /\ d.nick \in Nicks
    BY <2>1, Shapes DEF Homed
  <2> QED BY <2>1, <2>2 DEF Owns
<1>2. ASSUME NEW n \in Nodes, NEW k \in Nicks, Local(n, k)' PROVE \E c \in conns'[n] : c.nick = k
  <2>1. PICK d \in conns[n] : d.nick = k
    BY <1>2 DEF Homed
  <2> QED BY <2>1
<1> QED BY <1>1, <1>2 DEF Homed

LEMMA FreshStays ==
  ASSUME Fresh, TypeInv,
         \A n \in Nodes : \A c \in conns'[n] : ~c.announced =>
           \E d \in conns[n] : d.nick = c.nick /\ ~d.announced,
         \A n \in Nodes : \A c \in conns'[n] :
           ~c.announced /\ world'[n][c.nick].in => world[n][c.nick].in
  PROVE  Fresh'
<1> SUFFICES ASSUME NEW n \in Nodes, NEW c \in conns'[n], ~c.announced PROVE ~world'[n][c.nick].in
  BY DEF Fresh
<1>1. PICK d \in conns[n] : d.nick = c.nick /\ ~d.announced
  OBVIOUS
<1>2. ~world[n][c.nick].in
  BY <1>1 DEF Fresh
<1> QED BY <1>2, Zenon

LEMMA ApartStays ==
  ASSUME Apart, stage' = stage,
         \A a \in Nodes : \A b \in Nodes \ {a} : ~Sent(a, b) => queue'[a][b] = queue[a][b],
         \A a \in Nodes : \A b \in Nodes \ {a} :
           (Sent(a, b) /\ stage[b][a] # "down") \/ (Image(b, a) = Blank => Image(b, a)' = Blank)
  PROVE  Apart'
<1>1. Blank' = Blank /\ \A a, b \in Nodes : Sent(a, b)' = Sent(a, b)
  BY DEF Blank, Sent
<1> SUFFICES ASSUME NEW a \in Nodes, NEW b \in Nodes \ {a}
             PROVE  /\ stage'[a][b] \in {"lost", "down"} <=> stage'[b][a] \in {"lost", "down"}
                    /\ ~Sent(a, b)' => queue'[a][b] = <<>>
                    /\ stage'[a][b] = "linked" \/ stage'[b][a] = "down" => Image(b, a)' = Blank
  BY <1>1 DEF Apart
<1>2. /\ stage[a][b] \in {"lost", "down"} <=> stage[b][a] \in {"lost", "down"}
      /\ ~Sent(a, b) => queue[a][b] = <<>>
      /\ stage[a][b] = "linked" \/ stage[b][a] = "down" => Image(b, a) = Blank
  BY DEF Apart
<1>3. ~Sent(a, b)' => queue'[a][b] = <<>>
  BY <1>1, <1>2
<1>4. stage'[a][b] = "linked" \/ stage'[b][a] = "down" => Image(b, a)' = Blank
  <2>1. stage[a][b] = "linked" => ~Sent(a, b)
    BY DEF Sent
  <2> QED BY <1>2, <2>1
<1> QED BY <1>2, <1>3, <1>4

LEMMA SubscribedStay ==
  ASSUME AllSubscribed, stage' = stage,
         \A a \in Nodes : \A b \in Nodes \ {a} : b \in subs[a] => b \in subs'[a],
         \A a \in Nodes, k \in Nicks : Local(a, k)' /\ world'[a][k].in => Local(a, k) /\ world[a][k].in
  PROVE  AllSubscribed'
BY DEF AllSubscribed, Sent

\* A queue from which a SQUIT is taken, or to which one is added.
Alike(q, r) == \/ r = q
               \/ q # <<>> /\ Head(q).cmd = "SQUIT" /\ r = Tail(q)
               \/ \E e : e.cmd = "SQUIT" /\ r = Plus(q, e)

LEMMA AlikePath ==
  ASSUME NEW q \in Seq(Envelope), NEW r, Alike(q, r), NEW m, NEW u, NEW v, Path(q, m, u, v)
  PROVE  Path(r, m, u, v)
<1>1. CASE r = q
  BY <1>1
<1>2. CASE q # <<>> /\ Head(q).cmd = "SQUIT" /\ r = Tail(q)
  <2>1. PICK z \in Views : Turn(m, Head(q), u, z) /\ Path(Tail(q), m, z, v)
    BY <1>2, PathShorter
  <2>2. z = u
    BY <1>2, <2>1 DEF Turn
  <2> QED BY <1>2, <2>1, <2>2
<1>3. ASSUME NEW e, e.cmd = "SQUIT", r = Plus(q, e) PROVE Path(r, m, u, v)
  <2>1. Turn(m, e, v, v)
    BY <1>3 DEF Turn
  <2>2. v \in Views
    BY PathTyped
  <2> QED BY <1>3, <2>1, <2>2, PathLonger
<1> QED BY <1>1, <1>2, <1>3 DEF Alike

LEMMA AlikeSet ==
  ASSUME NEW q \in Seq(Envelope), NEW r, Alike(q, r), NEW e, e.cmd # "SQUIT"
  PROVE  e \in ToSet(r) <=> e \in ToSet(q)
<1>1. CASE r = q
  BY <1>1
<1>2. CASE q # <<>> /\ Head(q).cmd = "SQUIT" /\ r = Tail(q)
  <2>1. ToSet(q) = {Head(q)} \cup ToSet(Tail(q))
    BY <1>2, Members
  <2> QED BY <1>2, <2>1
<1>3. ASSUME NEW f, f.cmd = "SQUIT", r = Plus(q, f) PROVE e \in ToSet(r) <=> e \in ToSet(q)
  <2>1. ToSet(r) = ToSet(q) \cup {f}
    BY <1>3, Members
  <2> QED BY <1>3, <2>1
<1> QED BY <1>1, <1>2, <1>3 DEF Alike

LEMMA CalmAlike ==
  ASSUME TypeInv, Calm,
         \A a \in Nodes : \A c \in conns'[a] : ~c.told,
         \A a \in Nodes : Own(a)' = Own(a),
         \A a \in Nodes : \A b \in Nodes \ {a} : Sent(a, b)' =>
           Sent(a, b) /\ Image(b, a)' = Image(b, a) /\ Alike(queue[a][b], queue'[a][b])
  PROVE  Calm'
<1> SUFFICES ASSUME NEW a \in Nodes, NEW b \in Nodes \ {a}, Sent(a, b)'
             PROVE  Path(queue'[a][b], a, Image(b, a)', Own(a)')
  BY DEF Calm, Path, Turn, Views
<1>1. Path(queue[a][b], a, Image(b, a), Own(a))
  BY DEF Calm
<1>2. queue[a][b] \in Seq(Envelope)
  BY Queues DEF TypeInv
<1>3. Path(queue'[a][b], a, Image(b, a), Own(a))
  BY <1>1, <1>2, AlikePath
<1> QED BY <1>3

\* A user of n does something, and its node tells the others.
LEMMA CalmTold ==
  ASSUME TypeInv, TypeInv', Calm, NEW n \in Nodes, NEW peers, NEW e,
         queue' = Told(queue, n, peers, <<e>>), stage' = stage,
         \A a \in Nodes : \A c \in conns'[a] : ~c.told,
         \A b \in Nodes \ {n} : Sent(n, b) => b \in peers,
         \A a \in Nodes : \A b \in Nodes \ {a} : Image(b, a)' = Image(b, a),
         \A a \in Nodes \ {n} : Own(a)' = Own(a),
         Turn(n, e, Own(n), Own(n)')
  PROVE  Calm'
<1> SUFFICES ASSUME NEW a \in Nodes, NEW b \in Nodes \ {a}, Sent(a, b)'
             PROVE  Path(queue'[a][b], a, Image(b, a)', Own(a)')
  BY DEF Calm, Path, Turn, Views
<1>0. Sent(a, b)
  BY DEF Sent
<1>1. Path(queue[a][b], a, Image(b, a), Own(a))
  BY <1>0 DEF Calm
<1>2. queue[a][b] \in Seq(Envelope) /\ Mail(queue)
  BY Queues DEF TypeInv
<1>3. CASE a # n
  <2>1. queue'[a][b] = queue[a][b]
    BY <1>2, <1>3, ToldOne
  <2> QED BY <1>1, <1>3, <2>1
<1>4. CASE a = n
  <2>1. queue'[a][b] = Plus(queue[a][b], e)
    BY <1>0, <1>2, <1>4, ToldOne
  <2>2. Own(n)' \in Views
    <3>1. world'[n] \in [Nicks -> Record \cup {None}]
      BY DEF TypeInv, WorldOK
    <3> QED BY <3>1 DEF Own, Views
  <2>3. PICK z : z = Own(n)'
    OBVIOUS
  <2>4. Path(Plus(queue[a][b], e), a, Image(b, a), z)
    BY <1>1, <1>2, <1>4, <2>2, <2>3, PathLonger
  <2> QED BY <1>4, <2>1, <2>3, <2>4
<1> QED BY <1>3, <1>4

\* A message of m arrives at n.
LEMMA CalmArrives ==
  ASSUME TypeInv, Calm, NEW n \in Nodes, NEW m \in Nodes \ {n}, queue[m][n] # <<>>, Sent(m, n),
         queue' = Rest(n, m), stage' = stage,
         \A a \in Nodes : \A c \in conns'[a] : ~c.told,
         \A a \in Nodes : Own(a)' = Own(a),
         \A a \in Nodes : \A b \in Nodes \ {a} : a # m \/ b # n => Image(b, a)' = Image(b, a),
         \A z \in Views : Turn(m, First(n, m), Image(n, m), z) => Image(n, m)' = z
  PROVE  Calm'
<1> SUFFICES ASSUME NEW a \in Nodes, NEW b \in Nodes \ {a}, Sent(a, b)'
             PROVE  Path(queue'[a][b], a, Image(b, a)', Own(a)')
  BY DEF Calm, Path, Turn, Views
<1>0. Sent(a, b)
  BY DEF Sent
<1>1. Path(queue[a][b], a, Image(b, a), Own(a))
  BY <1>0 DEF Calm
<1>2. queue[a][b] \in Seq(Envelope) /\ Mail(queue)
  BY Queues DEF TypeInv
<1>3. queue'[a][b] = IF a = m /\ b = n THEN Tail(queue[m][n]) ELSE queue[a][b]
  BY <1>2, RestAt
<1>4. CASE a # m \/ b # n
  BY <1>1, <1>3, <1>4
<1>5. CASE a = m /\ b = n
  <2>1. PICK z \in Views : Turn(m, Head(queue[m][n]), Image(n, m), z) /\ Path(Tail(queue[m][n]), m, z, Own(m))
    BY <1>1, <1>2, <1>5, PathShorter
  <2>2. Image(n, m)' = z
    BY <2>1 DEF First
  <2> QED BY <1>3, <1>5, <2>1, <2>2
<1> QED BY <1>4, <1>5

-----------------------------------------------------------------------------
(* Once the orders are settled, nothing but what users do is under way. *)

LEMMA NoOrders ==
  ASSUME ~Orders
  PROVE  /\ \A a, b \in Nodes : \A e \in ToSet(queue[a][b]) : e.cmd # "KICK" /\ e.cmd # "KILL"
         /\ \A a \in Nodes : \A c \in conns[a] : ~c.told
<1>1. \A a, b \in Nodes : \A e \in ToSet(queue[a][b]) : e \in UnderWay
  BY DEF UnderWay
<1> QED BY <1>1 DEF Orders

LEMMA ViewsEqual ==
  ASSUME NEW u \in Views, NEW v \in Views, \A k \in Nicks : u[k] = v[k]
  PROVE  u = v
BY DEF Views

LEMMA RecordsEqual ==
  ASSUME NEW r \in Record, NEW s \in Record, r.home = s.home, r.ts = s.ts, r.in = s.in
  PROVE  r = s
BY DEF Record

LEMMA PutAt ==
  ASSUME NEW u \in Views, NEW k \in Nicks, NEW r \in Record \cup {None}
  PROVE  Put(u, k, r) \in Views /\ Put(u, k, r)[k] = r /\ \A l \in Nicks \ {k} : Put(u, k, r)[l] = u[l]
BY DEF Views, Put

LEMMA IsPut ==
  ASSUME NEW u \in Views, NEW v \in Views, NEW k \in Nicks, NEW r \in Record \cup {None},
         v[k] = r, \A l \in Nicks \ {k} : v[l] = u[l]
  PROVE  v = Put(u, k, r)
<1>1. PICK z : z = Put(u, k, r)
  OBVIOUS
<1>2. z \in Views /\ z[k] = r /\ \A l \in Nicks \ {k} : z[l] = u[l]
  BY <1>1, PutAt
<1> QED BY <1>1, <1>2, ViewsEqual

LEMMA Settles ==
  ASSUME TypeInv, Traffic, ~Orders
  PROVE  Calm
<1>1. /\ \A a, b \in Nodes : \A e \in ToSet(queue[a][b]) : e.cmd # "KICK" /\ e.cmd # "KILL"
      /\ \A a \in Nodes : \A c \in conns[a] : ~c.told
  BY NoOrders
<1>2. /\ \A a, b \in Nodes : queue[a][b] \in Seq(Envelope)
      /\ \A a \in Nodes : Own(a) \in Views /\ \A b \in Nodes : Image(b, a) \in Views
  BY Queues, ViewTypes DEF TypeInv
<1>3. ASSUME NEW n \in Nodes, NEW k \in Nicks, Kicking(n, k) PROVE Calm
  <2>1. \A a \in Nodes : \A b \in Nodes \ {a} : \A e \in ToSet(queue[a][b]) : e.cmd = "SQUIT"
    BY <1>1, <1>3 DEF Kicking, Order
  <2>2. \A x \in Nodes : world[x][k] # None => ~world[x][k].in
    <3> SUFFICES ASSUME NEW x \in Nodes, world[x][k] # None, world[x][k].in PROVE FALSE
      OBVIOUS
    <3>1. PICK e \in ToSet(queue[n][x]) : e.cmd = "KICK"
      BY <1>3 DEF Kicking, Order
    <3> QED BY <1>1, <3>1
  <2>3. ASSUME NEW a \in Nodes, NEW b \in Nodes \ {a}, Sent(a, b)
        PROVE  Path(queue[a][b], a, Image(b, a), Own(a))
    <3>1. SameBut(Image(b, a), Own(a), k)
      BY <1>3, <2>3 DEF Kicking
    <3>2. Image(b, a)[k] = Own(a)[k]
      <4>1. CASE Image(b, a)[k] = None
        BY <3>1, <4>1 DEF SameBut
      <4>2. CASE Image(b, a)[k] # None
        <5>1. Image(b, a)[k] = world[b][k] /\ Own(a)[k] = world[a][k]
              /\ world[b][k] # None /\ world[a][k] # None
          BY <3>1, <4>2 DEF SameBut, Image, Own
        <5>2. world[b][k].home = world[a][k].home /\ world[b][k].ts = world[a][k].ts
          BY <3>1, <4>2, <5>1 DEF SameBut
        <5>3. world[b][k] \in Record /\ world[a][k] \in Record
              /\ world[a][k].in \in BOOLEAN /\ world[b][k].in \in BOOLEAN
          BY <5>1, Shapes
        <5>4. world[b][k].in = world[a][k].in
          BY <2>2, <5>1, <5>3
        <5> QED BY <5>1, <5>2, <5>3, <5>4, RecordsEqual
      <4> QED BY <4>1, <4>2
    <3>3. Image(b, a) = Own(a)
      BY <1>2, <3>1, <3>2, ViewsEqual DEF SameBut
    <3>4. \A e \in ToSet(queue[a][b]) : Turn(a, e, Own(a), Own(a))
      BY <2>1 DEF Turn
    <3> QED BY <1>2, <3>3, <3>4, PathStill
  <2> QED BY <1>1, <2>3 DEF Calm
<1>4. ASSUME NEW n \in Nodes, NEW h \in Nodes, NEW k \in Nicks, Killing(n, h, k) PROVE Calm
  <2>1. \A a \in Nodes : \A b \in Nodes \ {a} : \A e \in ToSet(queue[a][b]) :
          e.cmd = "SQUIT" \/ (e.cmd = "QUIT" /\ e.nick = k)
    BY <1>1, <1>4 DEF Killing, Order
  <2>2. ASSUME NEW x \in Nodes, world[x][k] # None
        PROVE  x = h /\ world[x][k].home = h /\ \A c \in conns[h] : c.nick = k => ~c.announced
    <3>1. /\ world[x][k].home = h
          /\ (\E e \in ToSet(queue[n][x]) : e.cmd = "KILL") \/ (x = h /\ Alone(h, k))
      BY <1>4, <2>2 DEF Killing, Order
    <3> QED BY <1>1, <3>1 DEF Alone
  <2>3. ASSUME NEW a \in Nodes, NEW b \in Nodes \ {a}, Sent(a, b)
        PROVE  Path(queue[a][b], a, Image(b, a), Own(a))
    <3>1. Image(b, a)[k] = None /\ Own(a)[k] = None
      <4>1. Image(b, a)[k] = None
        BY <2>2 DEF Image
      <4>2. world[a][k] = None \/ ~\E c \in conns[a] : c.nick = k /\ c.announced
        BY <2>2
      <4> QED BY <4>1, <4>2 DEF Own
    <3>2. Image(b, a) = Own(a)
      BY <1>2, <1>4, <2>3, <3>1, ViewsEqual DEF Killing
    <3>3. Put(Own(a), k, None) = Own(a)
      BY <1>2, <3>1 DEF Put, Views
    <3>4. \A e \in ToSet(queue[a][b]) : Turn(a, e, Own(a), Own(a))
      BY <2>1, <3>3 DEF Turn
    <3> QED BY <1>2, <3>2, <3>4, PathStill
  <2> QED BY <1>1, <2>3 DEF Calm
<1> QED BY <1>3, <1>4 DEF Traffic

\* A user acts, and its node has told everybody that it is linked to.
LEMMA Acting ==
  ASSUME TypeInv, Good, NEW n \in Nodes, ~ActsAt(n)
  PROVE  Calm /\ ~Orders /\ \A b \in Nodes \ {n} : Sent(n, b) <=> b \in Registered(n)
<1>1. ~Orders /\ \A b \in Nodes \ {n} : stage[n][b] # "burst"
  BY DEF ActsAt, Bursting
<1>2. Calm
  BY <1>1, Settles DEF Good
<1> QED BY <1>1, <1>2 DEF Sent, Registered

-----------------------------------------------------------------------------
(* What users do. *)

LEMMA OwnersTold ==
  ASSUME TypeInv, OneOwner, NEW n \in Nodes, NEW peers, NEW e,
         queue' = Told(queue, n, peers, <<e>>),
         \A x \in Nodes, l \in Nicks : world'[x][l] # None =>
           world[x][l] # None /\ world'[x][l].home = world[x][l].home,
         \A l \in Nicks : About(e, l) => Local(n, l)
  PROVE  OneOwner'
<1>1. Mail(queue)
  BY DEF TypeInv
<1>2. \A x \in Nodes, l \in Nicks : world'[x][l] # None => Claims(world'[x][l].home, l)
  BY DEF Claims
<1>3. ASSUME NEW a \in Nodes, NEW b \in Nodes, NEW l \in Nicks, NEW f \in ToSet(queue'[a][b]), About(f, l)
      PROVE  Claims(a, l)
  <2>1. f \in ToSet(queue[a][b]) \/ (a = n /\ f = e)
    BY <1>1, ToldSet
  <2>2. CASE f \in ToSet(queue[a][b])
    BY <1>3, <2>2 DEF Claims
  <2>3. CASE a = n /\ f = e
    BY <1>3, <2>3 DEF Claims, Local
  <2> QED BY <2>1, <2>2, <2>3
<1> QED BY <1>2, <1>3, OwnersStay

\* What is told goes to peers that have been sent a burst.
LEMMA ToldToSent ==
  ASSUME TypeInv, NEW n \in Nodes, NEW peers, NEW e, queue' = Told(queue, n, peers, <<e>>),
         \A b \in Nodes \ {n} : b \in peers => Sent(n, b)
  PROVE  \A a \in Nodes : \A b \in Nodes \ {a} : ~Sent(a, b) => queue'[a][b] = queue[a][b]
BY ToldOne DEF TypeInv

LEMMA AnnounceGood ==
  ASSUME KeptInv, KeptInv', Good, ~spoilt', NEW n \in Nodes, NEW c, Announce(n, c)
  PROVE  Good'
<1> DEFINE d == [c EXCEPT !.announced = TRUE]
<1>0. TypeInv /\ TypeInv' /\ OneOwner /\ Homed /\ Fresh /\ Apart /\ AllSubscribed
  BY DEF KeptInv, Good
<1>1. PICK e : e = Message("NICK", c.nick, None, c.ts)
  OBVIOUS
<1>2. /\ c \in conns[n] /\ ~c.announced /\ conns' = [conns EXCEPT ![n] = (@ \ {c}) \cup {d}]
      /\ queue' = Told(queue, n, Registered(n), <<e>>)
      /\ UNCHANGED <<world, stage, subs, seen, ops, missed>> /\ ~ActsAt(n)
  BY <1>1 DEF Announce, Spoil
<1>3. Calm /\ ~Orders /\ \A b \in Nodes \ {n} : Sent(n, b) <=> b \in Registered(n)
  BY <1>0, <1>2, Acting
<1>4. c \in Conn /\ c.nick \in Nicks /\ c.ts \in TS /\ Owns(n, c)
  BY <1>0, <1>2, Shapes DEF Homed
<1>5. d.nick = c.nick /\ d.ts = c.ts /\ d.announced /\ d.told = c.told
  BY <1>4 DEF Conn
<1> HIDE DEF d
<1>6. conns'[n] = (conns[n] \ {c}) \cup {d} /\ \A a \in Nodes \ {n} : conns'[a] = conns[a]
  BY <1>0, <1>2 DEF TypeInv, ConnsOK
<1>7. e.cmd = "NICK" /\ e.nick = c.nick /\ e.ts = c.ts
  BY <1>1 DEF Message
<1>8. OneOwner'
  <2>1. \A l \in Nicks : About(e, l) => Local(n, l)
    BY <1>4, <1>7 DEF About, Owns
  <2> QED BY <1>0, <1>2, <2>1, OwnersTold
<1>9. /\ \A a \in Nodes : \A x \in conns'[a] : \E y \in conns[a] :
           x.nick = y.nick /\ x.ts = y.ts /\ (y.announced => x.announced)
      /\ \A a \in Nodes : \A y \in conns[a] : \E x \in conns'[a] : x.nick = y.nick
      /\ \A a \in Nodes : \A x \in conns'[a] : ~x.announced =>
           \E y \in conns[a] : y.nick = x.nick /\ ~y.announced
  BY <1>2, <1>5, <1>6
<1>10. Homed'
  BY <1>0, <1>2, <1>9, HomedStays DEF Local
<1>11. Fresh'
  BY <1>0, <1>2, <1>9, FreshStays
<1>12. /\ \A a, b \in Nodes : Image(b, a)' = Image(b, a)
       /\ \A a \in Nodes \ {n} : Own(a)' = Own(a)
  BY <1>2, <1>6 DEF Image, Own
<1>13. Apart'
  <2>1. \A a \in Nodes : \A b \in Nodes \ {a} : ~Sent(a, b) => queue'[a][b] = queue[a][b]
    BY <1>0, <1>2, <1>3, ToldToSent
  <2> QED BY <1>0, <1>2, <1>12, <2>1, ApartStays
<1>14. AllSubscribed'
  BY <1>0, <1>2, SubscribedStay DEF Local
<1>15. Calm'
  <2>1. Own(n) \in Views /\ Own(n)' \in Views
    BY <1>0, ViewTypes, <1>2, <1>6 DEF TypeInv, WorldOK, Own, Views
  <2>2. Own(n)[c.nick] = None
    <3>1. \A x \in conns[n] : x.nick = c.nick => x = c
      BY <1>0, <1>2, SameConn
    <3> QED BY <1>2, <1>4, <3>1 DEF Own
  <2>3. Own(n)'[c.nick] = world[n][c.nick] /\ \A l \in Nicks \ {c.nick} : Own(n)'[l] = Own(n)[l]
    BY <1>2, <1>4, <1>5, <1>6 DEF Own
  <2>4. Record0(n, c.ts) \in Record
    BY <1>4 DEF Record0, Record
  <2>5. world[n][c.nick] = Record0(n, c.ts)
    <3>1. world[n][c.nick] \in Record /\ world[n][c.nick].home = n /\ world[n][c.nick].ts = c.ts
          /\ ~world[n][c.nick].in /\ world[n][c.nick].in \in BOOLEAN
      BY <1>0, <1>2, <1>4, Shapes DEF Owns, Local, Fresh
    <3>2. Record0(n, c.ts).home = n /\ Record0(n, c.ts).ts = c.ts /\ Record0(n, c.ts).in = FALSE
      BY DEF Record0
    <3>3. world[n][c.nick].in = FALSE
      BY <3>1
    <3> QED BY <2>4, <3>1, <3>2, <3>3, RecordsEqual
  <2>6. Own(n)' = Put(Own(n), c.nick, Record0(n, c.ts))
    <3>1. PICK u : u = Own(n)'
      OBVIOUS
    <3> QED BY <1>4, <2>1, <2>3, <2>4, <2>5, <3>1, IsPut
  <2>7. Turn(n, e, Own(n), Own(n)')
    BY <1>7, <2>2, <2>6 DEF Turn
  <2>8. \A a \in Nodes : \A x \in conns'[a] : ~x.told
    BY <1>2, <1>3, <1>5, <1>6 DEF Calm
  <2>9. \A b \in Nodes \ {n} : Sent(n, b) => b \in Registered(n)
    BY <1>3
  <2> QED BY <1>0, <1>2, <1>3, <1>12, <2>7, <2>8, <2>9, CalmTold
<1> QED BY <1>8, <1>10, <1>11, <1>13, <1>14, <1>15 DEF Good, Traffic

\* A nick that nobody knows of.
LEMMA NoTrace ==
  ASSUME TypeInv, Homed, NEW n \in Nodes, NEW k \in Nicks, world[n][k] = None, ~Trace(n, k)
  PROVE  \A a \in Nodes : ~Claims(a, k)
<1>1. \A a, b \in Nodes : \A e \in ToSet(queue[a][b]) : e.nick # k /\ e.to # k
  BY DEF Trace, UnderWay
<1>2. \A a \in Nodes : world[a][k] = None
  BY DEF Trace
<1> QED BY <1>1, <1>2 DEF Claims, About

LEMMA ConnectGood ==
  ASSUME KeptInv, KeptInv', Good, ~spoilt', NEW n \in Nodes, NEW k \in Nicks, Connect(n, k)
  PROVE  Good'
<1>0. TypeInv /\ TypeInv' /\ OneOwner /\ Homed /\ Fresh /\ Apart /\ AllSubscribed
  BY DEF KeptInv, Good
<1>1. PICK t : t = Now
  OBVIOUS
<1> DEFINE r == [home |-> n, ts |-> t, in |-> FALSE]
           d == [nick |-> k, ts |-> t, listed |-> FALSE, announced |-> FALSE, told |-> FALSE]
<1>2. /\ world[n][k] = None /\ world' = [world EXCEPT ![n][k] = r]
      /\ conns' = [conns EXCEPT ![n] = @ \cup {d}]
      /\ UNCHANGED <<queue, stage, subs, seen, missed>> /\ ~ActsAt(n) /\ ~Trace(n, k)
  BY <1>1 DEF Connect, Spoil
<1>3. Calm /\ ~Orders
  BY <1>0, <1>2, Acting
<1>4. r.home = n /\ r.ts = t /\ ~r.in /\ d.nick = k /\ d.ts = t /\ ~d.announced /\ ~d.told
  OBVIOUS
<1>5. /\ world'[n][k] = r /\ \A l \in Nicks \ {k} : world'[n][l] = world[n][l]
      /\ \A x \in Nodes \ {n} : world'[x] = world[x]
  BY <1>0, <1>2 DEF TypeInv, WorldOK
<1>6. conns'[n] = conns[n] \cup {d} /\ \A a \in Nodes \ {n} : conns'[a] = conns[a]
  BY <1>0, <1>2 DEF TypeInv, ConnsOK
<1>7. r # None
  <2>1. t \in TS
    BY <1>1, Facts DEF Connect, Act, Now, KeptInv, TypeInv, ConnsOK
  <2>2. r \in Record
    BY <2>1 DEF Record
  <2> QED BY <2>2, Facts
<1> HIDE DEF r, d
<1>8. \A x \in conns[n] : x.nick # k /\ x.nick \in Nicks
  BY <1>0, <1>2, Shapes DEF Homed, Owns, Local
<1>9. OneOwner'
  <2>1. \A a \in Nodes : ~Claims(a, k)
    BY <1>0, <1>2, NoTrace
  <2>2. \A a \in Nodes, l \in Nicks : Claims(a, l)' => Claims(a, l) \/ (a = n /\ l = k)
    BY <1>2, <1>4, <1>5 DEF Claims
  <2> QED BY <1>0, <2>1, <2>2 DEF OneOwner
<1>10. Homed'
  <2>1. ASSUME NEW a \in Nodes, NEW x \in conns'[a] PROVE Owns(a, x)'
    <3>1. CASE a = n /\ x = d
      BY <1>4, <1>5, <1>7, <3>1 DEF Owns, Local
    <3>2. CASE ~(a = n /\ x = d)
      <4>1. x \in conns[a] /\ x.nick \in Nicks /\ Owns(a, x)
        BY <1>0, <1>6, <2>1, <3>2, Shapes DEF Homed
      <4> QED BY <1>5, <1>8, <4>1 DEF Owns, Local
    <3> QED BY <3>1, <3>2
  <2>2. ASSUME NEW a \in Nodes, NEW l \in Nicks, Local(a, l)' PROVE \E x \in conns'[a] : x.nick = l
    <3>1. CASE a = n /\ l = k
      BY <1>4, <1>6, <3>1
    <3>2. CASE ~(a = n /\ l = k)
      <4>1. Local(a, l)
        BY <1>5, <2>2, <3>2 DEF Local
      <4>2. PICK x \in conns[a] : x.nick = l
        BY <1>0, <4>1 DEF Homed
      <4> QED BY <1>6, <4>2
    <3> QED BY <3>1, <3>2
  <2> QED BY <2>1, <2>2 DEF Homed
<1>11. Fresh'
  <2> SUFFICES ASSUME NEW a \in Nodes, NEW x \in conns'[a], ~x.announced PROVE ~world'[a][x.nick].in
    BY DEF Fresh
  <2>1. CASE a = n /\ x = d
    BY <1>4, <1>5, <2>1
  <2>2. CASE ~(a = n /\ x = d)
    <3>1. x \in conns[a] /\ x.nick \in Nicks
      BY <1>0, <1>6, <2>2, Shapes
    <3>2. ~world[a][x.nick].in
      BY <1>0, <3>1 DEF Fresh
    <3>3. world'[a][x.nick] = world[a][x.nick]
      BY <1>5, <1>8, <3>1
    <3> QED BY <3>2, <3>3
  <2> QED BY <2>1, <2>2
<1>12. /\ \A a \in Nodes : \A b \in Nodes \ {a} : Image(b, a)' = Image(b, a)
       /\ \A a \in Nodes : Own(a)' = Own(a)
  <2>1. ASSUME NEW a \in Nodes, NEW b \in Nodes \ {a} PROVE Image(b, a)' = Image(b, a)
    <3>1. \A l \in Nicks : \/ world'[b][l] = world[b][l]
                           \/ b = n /\ l = k /\ world[b][l] = None /\ world'[b][l].home # a
      BY <1>2, <1>4, <1>5
    <3> QED BY <3>1 DEF Image
  <2>2. ASSUME NEW a \in Nodes PROVE Own(a)' = Own(a)
    <3>1. \A l \in Nicks : (\E x \in conns'[a] : x.nick = l /\ x.announced)
                             <=> (\E x \in conns[a] : x.nick = l /\ x.announced)
      BY <1>4, <1>6
    <3>2. \A l \in Nicks : (\E x \in conns[a] : x.nick = l /\ x.announced) => world'[a][l] = world[a][l]
      BY <1>5, <1>8
    <3> QED BY <3>1, <3>2 DEF Own
  <2> QED BY <2>1, <2>2
<1>13. Apart'
  BY <1>0, <1>2, <1>12, ApartStays
<1>14. AllSubscribed'
  <2>1. \A a \in Nodes, l \in Nicks : Local(a, l)' /\ world'[a][l].in => Local(a, l) /\ world[a][l].in
    BY <1>4, <1>5 DEF Local
  <2> QED BY <1>0, <1>2, <2>1, SubscribedStay
<1>15. Calm'
  <2>1. \A a \in Nodes : \A x \in conns'[a] : ~x.told
    BY <1>3, <1>4, <1>6 DEF Calm
  <2>2. \A a \in Nodes : \A b \in Nodes \ {a} : Sent(a, b)' =>
          Sent(a, b) /\ Image(b, a)' = Image(b, a) /\ Alike(queue[a][b], queue'[a][b])
    BY <1>2, <1>12 DEF Alike, Sent
  <2> QED BY <1>0, <1>3, <1>12, <2>1, <2>2, CalmAlike
<1> QED BY <1>9, <1>10, <1>11, <1>13, <1>14, <1>15 DEF Good, Traffic

\* Somebody enters or leaves the channel.
Flips(n, k, b) == world[n][k] # None /\ world' = [world EXCEPT ![n][k].in = b]
LEMMA InAt ==
  ASSUME WorldOK, NEW n \in Nodes, NEW k \in Nicks, NEW b \in BOOLEAN, Flips(n, k, b)
  PROVE  /\ world'[n][k] = Within(world[n][k], b)
         /\ \A l \in Nicks \ {k} : world'[n][l] = world[n][l]
         /\ \A x \in Nodes \ {n} : world'[x] = world[x]
         /\ Within(world[n][k], b) \in Record /\ Within(world[n][k], b) # None
         /\ Within(world[n][k], b).home = world[n][k].home
         /\ Within(world[n][k], b).ts = world[n][k].ts
         /\ Within(world[n][k], b).in = b
<1>1. world[n] \in [Nicks -> Record \cup {None}] /\ world[n][k] \in Record
  BY DEF WorldOK, Flips
<1> DEFINE r == [world[n][k] EXCEPT !.in = b]
           row == [world[n] EXCEPT ![k] = r]
<1>2. world' = [world EXCEPT ![n] = row]
  BY <1>1 DEF WorldOK, Flips
<1>3. row[k] = r /\ \A l \in Nicks \ {k} : row[l] = world[n][l]
  BY <1>1
<1> HIDE DEF row
<1>4. world'[n] = row /\ \A x \in Nodes \ {n} : world'[x] = world[x]
  BY <1>2 DEF WorldOK
<1>5. r \in Record /\ r.home = world[n][k].home /\ r.ts = world[n][k].ts /\ r.in = b
  BY <1>1 DEF Record
<1>6. r # None
  BY <1>5, Facts
<1>7. r = Within(world[n][k], b)
  BY DEF Within
<1> HIDE DEF r
<1> QED BY <1>3, <1>4, <1>5, <1>6, <1>7

\* ... and who there is stays the same.
LEMMA InStays ==
  ASSUME TypeInv, TypeInv', NEW n \in Nodes, NEW k \in Nicks, NEW b \in BOOLEAN, Flips(n, k, b)
  PROVE  /\ \A x \in Nodes, l \in Nicks : world'[x][l] = None <=> world[x][l] = None
         /\ \A x \in Nodes, l \in Nicks : world[x][l] # None =>
              world'[x][l].home = world[x][l].home /\ world'[x][l].ts = world[x][l].ts
         /\ \A x \in Nodes, l \in Nicks : Local(x, l)' <=> Local(x, l)
         /\ \A a \in Nodes : \A x \in Nodes : x # n \/ world[n][k].home # a => Image(x, a)' = Image(x, a)
         /\ \A a, x \in Nodes : Image(x, a) = Blank => Image(x, a)' = Blank
<1>1. WorldOK
  BY DEF TypeInv
<1>2. /\ world[n][k] # None /\ world'[n][k] # None /\ \A l \in Nicks \ {k} : world'[n][l] = world[n][l]
      /\ \A x \in Nodes \ {n} : world'[x] = world[x]
      /\ world'[n][k].home = world[n][k].home
      /\ world'[n][k].ts = world[n][k].ts
  <2>1. /\ world'[n][k] = Within(world[n][k], b)
        /\ \A l \in Nicks \ {k} : world'[n][l] = world[n][l]
        /\ \A x \in Nodes \ {n} : world'[x] = world[x]
        /\ Within(world[n][k], b) # None
        /\ Within(world[n][k], b).home = world[n][k].home
        /\ Within(world[n][k], b).ts = world[n][k].ts
    BY <1>1, InAt
  <2> QED BY <2>1 DEF Flips
<1>3. /\ \A x \in Nodes, l \in Nicks : world'[x][l] = None <=> world[x][l] = None
      /\ \A x \in Nodes, l \in Nicks : world[x][l] # None =>
              world'[x][l].home = world[x][l].home /\ world'[x][l].ts = world[x][l].ts
  BY <1>2
<1>4. \A x \in Nodes, l \in Nicks : Local(x, l)' <=> Local(x, l)
  BY <1>3 DEF Local
<1>5. ASSUME NEW a \in Nodes, NEW x \in Nodes, x # n \/ world[n][k].home # a PROVE Image(x, a)' = Image(x, a)
  <2>1. \A l \in Nicks : \/ world'[x][l] = world[x][l]
                         \/ world[x][l].home # a /\ world'[x][l].home # a
    BY <1>2, <1>5
  <2> QED BY <2>1 DEF Image
<1>6. ASSUME NEW a \in Nodes, NEW x \in Nodes, Image(x, a) = Blank PROVE Image(x, a)' = Blank
  <2>1. \A l \in Nicks : Image(x, a)[l] = None
    BY <1>6 DEF Blank
  <2>2. \A l \in Nicks : world[x][l] = None \/ world[x][l].home # a
    BY <2>1 DEF Image
  <2>3. \A l \in Nicks : world'[x][l] = None \/ world'[x][l].home # a
    BY <1>3, <2>2
  <2> QED BY <2>3 DEF Image, Blank
<1> QED BY <1>3, <1>4, <1>5, <1>6

\* What stays as it was when somebody enters or leaves.
LEMMA FlipStays ==
  ASSUME KeptInv, KeptInv', Good, NEW n \in Nodes, NEW k \in Nicks, NEW b \in BOOLEAN, Flips(n, k, b),
         conns' = conns, stage' = stage,
         \A a \in Nodes : \A x \in Nodes \ {a} : x \in subs[a] => x \in subs'[a],
         \A a \in Nodes : \A x \in Nodes \ {a} : ~Sent(a, x) => queue'[a][x] = queue[a][x],
         b => \A c \in conns[n] : c.nick = k => c.announced,
         b /\ Local(n, k) => \A x \in Nodes \ {n} : Sent(n, x) => x \in subs'[n]
  PROVE  Homed' /\ Fresh' /\ Apart' /\ AllSubscribed'
<1>0. TypeInv /\ TypeInv' /\ OneOwner /\ Homed /\ Fresh /\ Apart /\ AllSubscribed /\ WorldOK
  BY DEF KeptInv, Good, TypeInv
<1>1. /\ \A x \in Nodes, l \in Nicks : world[x][l] # None =>
              world'[x][l].home = world[x][l].home /\ world'[x][l].ts = world[x][l].ts
      /\ \A x \in Nodes, l \in Nicks : Local(x, l)' <=> Local(x, l)
      /\ \A a, x \in Nodes : Image(x, a) = Blank => Image(x, a)' = Blank
  BY <1>0, InStays
<1>2. Homed'
  <2>1. \A x \in Nodes, l \in Nicks : Local(x, l) => world'[x][l].ts = world[x][l].ts
    BY <1>1 DEF Local
  <2> QED BY <1>0, <1>1, <2>1, HomedStays
<1>3. /\ world'[n][k].in = b
      /\ \A l \in Nicks \ {k} : world'[n][l] = world[n][l]
      /\ \A x \in Nodes \ {n} : world'[x] = world[x]
  <2>1. world'[n][k] = Within(world[n][k], b) /\ Within(world[n][k], b).in = b
    BY <1>0, InAt
  <2>2. /\ \A l \in Nicks \ {k} : world'[n][l] = world[n][l]
        /\ \A x \in Nodes \ {n} : world'[x] = world[x]
    BY <1>0, InAt
  <2>3. world'[n][k].in = b
    BY <2>1, Zenon
  <2> QED BY <2>2, <2>3, Zenon
<1>4. Fresh'
  <2>1. ASSUME NEW x \in Nodes, NEW c \in conns'[x], ~c.announced, world'[x][c.nick].in
        PROVE  world[x][c.nick].in
    <3>1. CASE x = n /\ c.nick = k
      <4>1. b
        BY <1>3, <2>1, <3>1, Zenon
      <4> QED BY <2>1, <3>1, <4>1
    <3>2. CASE ~(x = n /\ c.nick = k)
      <4>1. c.nick \in Nicks
        BY <1>0, <2>1, Shapes
      <4>2. world'[x][c.nick] = world[x][c.nick]
        BY <1>3, <3>2, <4>1
      <4> QED BY <2>1, <4>2, Zenon
    <3> QED BY <3>1, <3>2
  <2> QED BY <1>0, <2>1, FreshStays
<1>5. Apart'
  BY <1>0, <1>1, ApartStays
<1>6. AllSubscribed'
  <2> SUFFICES ASSUME NEW a \in Nodes, NEW x \in Nodes \ {a}, Sent(a, x)',
                      NEW l \in Nicks, Local(a, l)', world'[a][l].in
               PROVE  x \in subs'[a]
    BY DEF AllSubscribed
  <2>1. Sent(a, x) /\ Local(a, l)
    BY <1>1 DEF Sent
  <2>2. CASE a = n /\ l = k
    <3>1. b
      BY <1>3, <2>2, Zenon
    <3> QED BY <2>1, <2>2, <3>1
  <2>3. CASE ~(a = n /\ l = k)
    <3>1. world'[a][l] = world[a][l]
      BY <1>3, <2>3
    <3>2. world[a][l].in
      BY <3>1, Zenon
    <3> QED BY <1>0, <2>1, <3>2 DEF AllSubscribed
  <2> QED BY <2>2, <2>3
<1> QED BY <1>2, <1>4, <1>5, <1>6

\* A user of n enters or leaves the channel.
LEMMA LocalFlip ==
  ASSUME TypeInv, TypeInv', Homed, Calm, NEW n \in Nodes, NEW c \in Users(n), NEW b \in BOOLEAN,
         NEW peers, NEW e, Flips(n, c.nick, b), conns' = conns, stage' = stage,
         queue' = Told(queue, n, peers, <<e>>), \A x \in Nodes \ {n} : Sent(n, x) => x \in peers,
         e.nick = c.nick, (e.cmd = "JOIN" /\ b) \/ (e.cmd = "PART" /\ ~b)
  PROVE  Calm'
<1>1. c \in conns[n] /\ c.nick \in Nicks /\ Owns(n, c) /\ c.announced
  BY Shapes DEF Users
<1>2. PICK r : r = Within(world[n][c.nick], b)
  OBVIOUS
<1>3. /\ world'[n][c.nick] = r /\ r \in Record
      /\ \A l \in Nicks \ {c.nick} : world'[n][l] = world[n][l]
      /\ \A x \in Nodes \ {n} : world'[x] = world[x]
  <2>1. WorldOK
    BY DEF TypeInv
  <2> QED BY <1>1, <1>2, <2>1, InAt
<1>4. Own(n) \in Views /\ Own(n)' \in Views
  <2>1. Own(n) \in Views
    BY ViewTypes DEF TypeInv
  <2>2. world'[n] \in [Nicks -> Record \cup {None}]
    BY DEF TypeInv, WorldOK
  <2> QED BY <2>1, <2>2 DEF Own, Views
<1>5. /\ Own(n)[c.nick] = world[n][c.nick] /\ world[n][c.nick] # None
      /\ Own(n)'[c.nick] = r
      /\ \A l \in Nicks \ {c.nick} : Own(n)'[l] = Own(n)[l]
  BY <1>1, <1>3 DEF Own, Owns, Local
<1>6. Own(n)' = Put(Own(n), c.nick, r)
  <2>1. PICK v : v = Own(n)'
    OBVIOUS
  <2> QED BY <1>1, <1>3, <1>4, <1>5, <2>1, IsPut
<1>7. Turn(n, e, Own(n), Own(n)')
  <2>1. CASE e.cmd = "JOIN" /\ b
    <3>1. b = TRUE
      BY <2>1, Zenon
    <3>2. r = Within(Own(n)[c.nick], TRUE)
      BY <1>2, <1>5, <3>1
    <3> QED BY <1>5, <1>6, <2>1, <3>2 DEF Turn
  <2>2. CASE e.cmd = "PART" /\ ~b
    <3>1. b = FALSE
      BY <2>2, Zenon
    <3>2. r = Within(Own(n)[c.nick], FALSE)
      BY <1>2, <1>5, <3>1
    <3> QED BY <1>5, <1>6, <2>2, <3>2 DEF Turn
  <2> QED BY <2>1, <2>2
<1>8. \A a \in Nodes : \A x \in Nodes \ {a} : Image(x, a)' = Image(x, a)
  <2>1. world[n][c.nick].home = n
    BY <1>1 DEF Owns, Local
  <2> QED BY <1>1, <2>1, InStays
<1>9. \A a \in Nodes \ {n} : Own(a)' = Own(a)
  BY <1>3 DEF Own
<1>10. \A a \in Nodes : \A x \in conns'[a] : ~x.told
  BY DEF Calm
<1> QED BY <1>7, <1>8, <1>9, <1>10, CalmTold

LEMMA JoinGood ==
  ASSUME KeptInv, KeptInv', Good, ~spoilt', NEW n \in Nodes, NEW c, Join(n, c)
  PROVE  Good'
<1>0. TypeInv /\ TypeInv' /\ OneOwner /\ Homed
  BY DEF KeptInv, Good
<1>1. PICK e : e = Message("JOIN", c.nick, None, 0)
  OBVIOUS
<1>2. /\ c \in Users(n) /\ world' = [world EXCEPT ![n][c.nick].in = TRUE]
      /\ queue' = Told(queue, n, Registered(n), <<e>>)
      /\ subs' = [subs EXCEPT ![n] = @ \cup Registered(n)]
      /\ UNCHANGED <<conns, stage, seen, missed>> /\ ~ActsAt(n)
  BY <1>1 DEF Join, Spoil
<1>3. Calm /\ ~Orders /\ \A b \in Nodes \ {n} : Sent(n, b) <=> b \in Registered(n)
  BY <1>0, <1>2, Acting
<1>4. c \in conns[n] /\ c.nick \in Nicks /\ Owns(n, c) /\ c.announced
  BY <1>0, <1>2, Shapes DEF Users
<1>5. Flips(n, c.nick, TRUE) /\ Local(n, c.nick)
  BY <1>2, <1>4 DEF Flips, Owns, Local
<1>6. e.cmd = "JOIN" /\ e.nick = c.nick
  BY <1>1 DEF Message
<1>7. subs \in [Nodes -> SUBSET Nodes]
  BY <1>0 DEF TypeInv, LinksOK
<1>8. Homed' /\ Fresh' /\ Apart' /\ AllSubscribed'
  <2>1. \A a \in Nodes : \A x \in Nodes \ {a} : x \in subs[a] => x \in subs'[a]
    BY <1>2, <1>7
  <2>2. \A a \in Nodes : \A x \in Nodes \ {a} : ~Sent(a, x) => queue'[a][x] = queue[a][x]
    BY <1>0, <1>2, <1>3, ToldToSent
  <2>3. \A d \in conns[n] : d.nick = c.nick => d.announced
    BY <1>0, <1>4, SameConn
  <2>4. \A x \in Nodes \ {n} : Sent(n, x) => x \in subs'[n]
    BY <1>2, <1>3, <1>7
  <2> QED BY <1>2, <1>4, <1>5, <2>1, <2>2, <2>3, <2>4, FlipStays
<1>9. OneOwner'
  <2>1. \A l \in Nicks : About(e, l) => Local(n, l)
    BY <1>5, <1>6 DEF About
  <2>2. \A x \in Nodes, l \in Nicks : world'[x][l] # None =>
           world[x][l] # None /\ world'[x][l].home = world[x][l].home
    BY <1>0, <1>4, <1>5, InStays
  <2> QED BY <1>0, <1>2, <2>1, <2>2, OwnersTold
<1>10. Calm'
  <2>1. \A x \in Nodes \ {n} : Sent(n, x) => x \in Registered(n)
    BY <1>3
  <2> QED BY <1>0, <1>2, <1>3, <1>5, <1>6, <2>1, LocalFlip
<1> QED BY <1>8, <1>9, <1>10 DEF Good, Traffic

LEMMA PartGood ==
  ASSUME KeptInv, KeptInv', Good, ~spoilt', NEW n \in Nodes, NEW c, Part(n, c)
  PROVE  Good'
<1>0. TypeInv /\ TypeInv' /\ OneOwner /\ Homed /\ AllSubscribed
  BY DEF KeptInv, Good
<1>1. PICK e : e = Message("PART", c.nick, None, 0)
  OBVIOUS
<1>2. /\ c \in Users(n) /\ world[n][c.nick].in /\ world' = [world EXCEPT ![n][c.nick].in = FALSE]
      /\ queue' = Told(queue, n, Subscribed(n), <<e>>)
      /\ UNCHANGED <<conns, stage, subs, seen, missed>> /\ ~ActsAt(n)
  BY <1>1 DEF Part, Spoil
<1>3. Calm /\ ~Orders /\ \A b \in Nodes \ {n} : Sent(n, b) <=> b \in Registered(n)
  BY <1>0, <1>2, Acting
<1>4. c \in conns[n] /\ c.nick \in Nicks /\ Owns(n, c) /\ c.announced
  BY <1>0, <1>2, Shapes DEF Users
<1>5. Flips(n, c.nick, FALSE) /\ Local(n, c.nick)
  BY <1>2, <1>4 DEF Flips, Owns, Local
<1>6. e.cmd = "PART" /\ e.nick = c.nick
  BY <1>1 DEF Message
<1>7. \A b \in Nodes \ {n} : Sent(n, b) <=> b \in Subscribed(n)
  BY <1>0, <1>2, <1>3, <1>4, <1>5 DEF Subscribed, AllSubscribed
<1>8. Homed' /\ Fresh' /\ Apart' /\ AllSubscribed'
  <2>1. \A a \in Nodes : \A x \in Nodes \ {a} : ~Sent(a, x) => queue'[a][x] = queue[a][x]
    BY <1>0, <1>2, <1>7, ToldToSent
  <2> QED BY <1>2, <1>4, <1>5, <2>1, FlipStays
<1>9. OneOwner'
  <2>1. \A l \in Nicks : About(e, l) => Local(n, l)
    BY <1>5, <1>6 DEF About
  <2>2. \A x \in Nodes, l \in Nicks : world'[x][l] # None =>
           world[x][l] # None /\ world'[x][l].home = world[x][l].home
    BY <1>0, <1>4, <1>5, InStays
  <2> QED BY <1>0, <1>2, <2>1, <2>2, OwnersTold
<1>10. Calm'
  <2>1. \A x \in Nodes \ {n} : Sent(n, x) => x \in Subscribed(n)
    BY <1>7
  <2> QED BY <1>0, <1>2, <1>3, <1>5, <1>6, <2>1, LocalFlip
<1> QED BY <1>8, <1>9, <1>10 DEF Good, Traffic

LEMMA RenameGood ==
  ASSUME KeptInv, KeptInv', Good, ~spoilt', NEW n \in Nodes, NEW c, NEW k \in Nicks, Rename(n, c, k)
  PROVE  Good'
<1> DEFINE d == [c EXCEPT !.nick = k]
<1>0. TypeInv /\ TypeInv' /\ OneOwner /\ Homed /\ Fresh /\ Apart /\ AllSubscribed /\ WorldOK
  BY DEF KeptInv, Good, TypeInv
<1>1. PICK e, o : e = Message("RENAME", c.nick, k, 0) /\ o = c.nick
  OBVIOUS
<1>2. /\ c \in Users(n) /\ world[n][k] = None
      /\ world' = [world EXCEPT ![n][k] = world[n][c.nick], ![n][c.nick] = None]
      /\ conns' = [conns EXCEPT ![n] = (@ \ {c}) \cup {d}]
      /\ queue' = Told(queue, n, Registered(n), <<e>>)
      /\ UNCHANGED <<stage, subs, seen, missed>> /\ ~ActsAt(n) /\ ~Trace(n, k)
  BY <1>1 DEF Rename, Spoil
<1>3. Calm /\ ~Orders /\ \A b \in Nodes \ {n} : Sent(n, b) <=> b \in Registered(n)
  BY <1>0, <1>2, Acting
<1>4. c \in conns[n] /\ c \in Conn /\ o \in Nicks /\ Owns(n, c) /\ c.announced /\ ~c.told
  BY <1>0, <1>1, <1>2, Shapes DEF Users
<1>5. d.nick = k /\ d.ts = c.ts /\ d.announced /\ ~d.told
  BY <1>4 DEF Conn
<1> HIDE DEF d
<1>6. conns'[n] = (conns[n] \ {c}) \cup {d} /\ \A a \in Nodes \ {n} : conns'[a] = conns[a]
  BY <1>0, <1>2 DEF TypeInv, ConnsOK
<1>7. o # k /\ world[n][o] # None /\ world[n][o].home = n /\ world[n][o].ts = c.ts
  BY <1>1, <1>2, <1>4 DEF Owns, Local
<1>8. /\ world'[n][k] = world[n][o] /\ world'[n][o] = None
      /\ \A l \in Nicks \ {k, o} : world'[n][l] = world[n][l]
      /\ \A x \in Nodes \ {n} : world'[x] = world[x]
  BY <1>0, <1>1, <1>2, <1>4, <1>7 DEF WorldOK
<1>9. e.cmd = "RENAME" /\ e.nick = o /\ e.to = k
  BY <1>1 DEF Message
<1>10. \A x \in conns[n] : x.nick \in Nicks /\ x.nick # k /\ (x.nick = o => x = c)
  <2>1. \A x \in conns[n] : x.nick \in Nicks /\ x.nick # k
    BY <1>0, <1>2, Shapes DEF Homed, Owns, Local
  <2>2. \A x \in conns[n] : x.nick = o => x = c
    BY <1>0, <1>1, <1>4, SameConn
  <2> QED BY <2>1, <2>2
<1>11. OneOwner'
  <2>1. \A a \in Nodes : ~Claims(a, k)
    BY <1>0, <1>2, NoTrace
  <2>2. ASSUME NEW a \in Nodes, NEW l \in Nicks, Claims(a, l)' PROVE Claims(a, l) \/ (a = n /\ l = k)
    <3>1. ASSUME NEW x \in Nodes, world'[x][l] # None, world'[x][l].home = a
          PROVE  Claims(a, l) \/ (a = n /\ l = k)
      BY <1>7, <1>8, <3>1 DEF Claims
    <3>2. ASSUME NEW x \in Nodes, NEW f \in ToSet(queue'[a][x]), About(f, l)
          PROVE  Claims(a, l) \/ (a = n /\ l = k)
      <4>1. f \in ToSet(queue[a][x]) \/ (a = n /\ f = e)
        BY <1>0, <1>2, ToldSet DEF TypeInv
      <4>2. CASE f \in ToSet(queue[a][x])
        BY <3>2, <4>2 DEF Claims
      <4>3. CASE a = n /\ f = e
        <5>1. l = o \/ l = k
          BY <1>9, <3>2, <4>3 DEF About
        <5> QED BY <1>7, <4>3, <5>1 DEF Claims
      <4> QED BY <4>1, <4>2, <4>3
    <3> QED BY <2>2, <3>1, <3>2 DEF Claims
  <2> QED BY <1>0, <2>1, <2>2 DEF OneOwner
<1>12. Homed'
  <2>1. ASSUME NEW a \in Nodes, NEW x \in conns'[a] PROVE Owns(a, x)'
    <3>1. CASE a = n /\ x = d
      BY <1>5, <1>7, <1>8, <3>1 DEF Owns, Local
    <3>2. CASE ~(a = n /\ x = d)
      <4>1. x \in conns[a] /\ (a # n \/ x # c) /\ x.nick \in Nicks /\ Owns(a, x)
        BY <1>0, <1>6, <2>1, <3>2, Shapes DEF Homed
      <4>2. world'[a][x.nick] = world[a][x.nick]
        BY <1>8, <1>10, <4>1
      <4> QED BY <4>1, <4>2 DEF Owns, Local
    <3> QED BY <3>1, <3>2
  <2>2. ASSUME NEW a \in Nodes, NEW l \in Nicks, Local(a, l)' PROVE \E x \in conns'[a] : x.nick = l
    <3>1. CASE a = n /\ l = k
      BY <1>5, <1>6, <3>1
    <3>2. CASE ~(a = n /\ l = k)
      <4>1. Local(a, l) /\ (a # n \/ l # o)
        BY <1>8, <2>2, <3>2 DEF Local
      <4>2. PICK x \in conns[a] : x.nick = l
        BY <1>0, <4>1 DEF Homed
      <4> QED BY <1>1, <1>6, <4>1, <4>2
    <3> QED BY <3>1, <3>2
  <2> QED BY <2>1, <2>2 DEF Homed
<1>13. Fresh'
  <2> SUFFICES ASSUME NEW a \in Nodes, NEW x \in conns'[a], ~x.announced PROVE ~world'[a][x.nick].in
    BY DEF Fresh
  <2>1. x \in conns[a] /\ (a # n \/ x # c) /\ x.nick \in Nicks
    BY <1>0, <1>4, <1>5, <1>6, Shapes
  <2>2. ~world[a][x.nick].in
    BY <1>0, <2>1 DEF Fresh
  <2>3. world'[a][x.nick] = world[a][x.nick]
    BY <1>8, <1>10, <2>1
  <2> QED BY <2>2, <2>3
<1>14. \A a \in Nodes : \A b \in Nodes \ {a} : Image(b, a)' = Image(b, a)
  <2>1. ASSUME NEW a \in Nodes, NEW b \in Nodes \ {a}, NEW l \in Nicks
        PROVE  \/ world'[b][l] = world[b][l]
               \/ /\ world[b][l] = None \/ world[b][l].home # a
                  /\ world'[b][l] = None \/ world'[b][l].home # a
    <3>1. CASE b # n
      BY <1>8, <3>1
    <3>2. CASE b = n /\ l \notin {k, o}
      BY <1>8, <3>2
    <3>3. CASE b = n /\ l = k
      BY <1>2, <1>7, <1>8, <3>3
    <3>4. CASE b = n /\ l = o
      BY <1>7, <1>8, <3>4
    <3> QED BY <3>1, <3>2, <3>3, <3>4
  <2>2. ASSUME NEW a \in Nodes, NEW b \in Nodes \ {a} PROVE Image(b, a)' = Image(b, a)
    BY <2>1 DEF Image
  <2> QED BY <2>2
<1>15. \A a \in Nodes \ {n} : Own(a)' = Own(a)
  BY <1>6, <1>8 DEF Own
<1>16. Apart'
  <2>1. \A a \in Nodes : \A b \in Nodes \ {a} : ~Sent(a, b) => queue'[a][b] = queue[a][b]
    BY <1>0, <1>2, <1>3, ToldToSent
  <2> QED BY <1>0, <1>2, <1>14, <2>1, ApartStays
<1>17. AllSubscribed'
  <2> SUFFICES ASSUME NEW a \in Nodes, NEW b \in Nodes \ {a}, Sent(a, b)',
                      NEW l \in Nicks, Local(a, l)', world'[a][l].in
               PROVE  b \in subs'[a]
    BY DEF AllSubscribed
  <2>1. Sent(a, b) /\ subs' = subs
    BY <1>2 DEF Sent
  <2>2. \E j \in Nicks : Local(a, j) /\ world[a][j].in
    <3>1. CASE a = n /\ l = k
      <4>1. Local(n, o)
        BY <1>7 DEF Local
      <4>2. world[n][o].in
        BY <1>8, <3>1, Zenon
      <4> QED BY <1>4, <3>1, <4>1, <4>2
    <3>2. CASE ~(a = n /\ l = k)
      <4>1. world'[a][l] = world[a][l]
        BY <1>8, <3>2 DEF Local
      <4>2. world[a][l].in
        BY <4>1, Zenon
      <4> QED BY <4>1, <4>2 DEF Local
    <3> QED BY <3>1, <3>2
  <2> QED BY <1>0, <2>1, <2>2 DEF AllSubscribed
<1>18. Calm'
  <2>1. PICK u, v, w : u = Own(n) /\ v = Own(n)' /\ w = Put(u, k, u[o])
    OBVIOUS
  <2>2. u \in Views /\ v \in Views
    <3>1. world'[n] \in [Nicks -> Record \cup {None}]
      BY <1>0 DEF TypeInv, WorldOK
    <3>2. u \in Views
      BY <1>0, <2>1, ViewTypes
    <3>3. v \in Views
      BY <2>1, <3>1 DEF Own, Views
    <3> QED BY <3>2, <3>3
  <2>3. u[o] = world[n][o] /\ u[k] = None
    BY <1>1, <1>2, <1>4, <2>1 DEF Own
  <2>4. v[k] = world[n][o] /\ v[o] = None /\ \A l \in Nicks \ {k, o} : v[l] = u[l]
    <3>1. v[k] = world[n][o] /\ v[o] = None
      BY <1>4, <1>5, <1>6, <1>8, <2>1 DEF Own
    <3>2. ASSUME NEW l \in Nicks \ {k, o} PROVE v[l] = u[l]
      <4>1. (\E x \in conns'[n] : x.nick = l /\ x.announced) <=> (\E x \in conns[n] : x.nick = l /\ x.announced)
        BY <1>1, <1>5, <1>6
      <4> QED BY <1>8, <2>1, <4>1 DEF Own
    <3> QED BY <3>1, <3>2
  <2>5. u[o] \in Record \cup {None}
    BY <1>4, <2>2 DEF Views
  <2>6. w \in Views /\ w[k] = u[o] /\ \A l \in Nicks \ {k} : w[l] = u[l]
    BY <2>1, <2>2, <2>5, PutAt
  <2>7. v = Put(w, o, None)
    <3>1. v[o] = None /\ \A l \in Nicks \ {o} : v[l] = w[l]
      BY <2>3, <2>4, <2>6
    <3> QED BY <1>4, <2>2, <2>6, <3>1, IsPut
  <2>8. Turn(n, e, u, v)
    BY <1>7, <1>9, <2>1, <2>3, <2>7 DEF Turn
  <2>9. \A a \in Nodes : \A x \in conns'[a] : ~x.told
    BY <1>3, <1>5, <1>6 DEF Calm
  <2>10. \A b \in Nodes \ {n} : Sent(n, b) => b \in Registered(n)
    BY <1>3
  <2>11. Turn(n, e, Own(n), Own(n)')
    BY <2>1, <2>8
  <2> QED BY <1>0, <1>2, <1>3, <1>14, <1>15, <2>9, <2>10, <2>11, CalmTold
<1> QED BY <1>11, <1>12, <1>13, <1>16, <1>17, <1>18 DEF Good, Traffic

\* A connection ends, and with it its user.
LEMMA CloseFacts ==
  ASSUME TypeInv, Homed, NEW n \in Nodes, NEW c \in conns[n], CloseOf(n, c)
  PROVE  /\ world'[n][c.nick] = None /\ \A l \in Nicks \ {c.nick} : world'[n][l] = world[n][l]
         /\ \A x \in Nodes \ {n} : world'[x] = world[x]
         /\ conns'[n] = conns[n] \ {c} /\ \A x \in Nodes \ {n} : conns'[x] = conns[x]
         /\ \A x \in conns'[n] : x.nick # c.nick
         /\ Local(n, c.nick) /\ c.nick \in Nicks
<1>1. Local(n, c.nick) /\ world[n][c.nick].ts = c.ts /\ c.nick \in Nicks
  BY Shapes DEF Homed, Owns
<1>2. conns'[n] = conns[n] \ {c} /\ \A x \in Nodes \ {n} : conns'[x] = conns[x]
  BY DEF CloseOf, TypeInv, ConnsOK
<1>3. \A x \in conns'[n] : x.nick # c.nick
  BY <1>2, SameConn
<1>4. world' = [world EXCEPT ![n] = [world[n] EXCEPT ![c.nick] = None]]
  BY <1>1 DEF CloseOf, Removed, TypeInv, WorldOK
<1>5. world[n] \in [Nicks -> Record \cup {None}]
  BY DEF TypeInv, WorldOK
<1>6. /\ world'[n] = [world[n] EXCEPT ![c.nick] = None]
      /\ \A x \in Nodes \ {n} : world'[x] = world[x]
  BY <1>4 DEF TypeInv, WorldOK
<1> QED BY <1>1, <1>2, <1>3, <1>5, <1>6

LEMMA CloseStays ==
  ASSUME KeptInv, KeptInv', Good, NEW n \in Nodes, NEW c \in conns[n], CloseOf(n, c),
         stage' = stage, subs' = subs
  PROVE  /\ OneOwner' /\ Homed' /\ Fresh' /\ Apart' /\ AllSubscribed'
         /\ \A a \in Nodes : \A b \in Nodes \ {a} : Image(b, a)' = Image(b, a)
         /\ \A a \in Nodes \ {n} : Own(a)' = Own(a)
         /\ Own(n)'[c.nick] = None
         /\ \A l \in Nicks \ {c.nick} : Own(n)'[l] = Own(n)[l]
<1>0. TypeInv /\ TypeInv' /\ OneOwner /\ Homed /\ Fresh /\ Apart /\ AllSubscribed /\ WorldOK
  BY DEF KeptInv, Good, TypeInv
<1>1. PICK e, k : e = Message("QUIT", c.nick, None, 0) /\ k = c.nick
  OBVIOUS
<1>2. queue' = Told(queue, n, Registered(n), <<e>>) /\ e.cmd = "QUIT" /\ e.nick = k
  BY <1>1 DEF CloseOf, Message
<1>3. /\ world'[n][k] = None /\ \A l \in Nicks \ {k} : world'[n][l] = world[n][l]
      /\ \A x \in Nodes \ {n} : world'[x] = world[x]
      /\ conns'[n] = conns[n] \ {c} /\ \A x \in Nodes \ {n} : conns'[x] = conns[x]
      /\ \A x \in conns'[n] : x.nick # k
      /\ Local(n, k) /\ k \in Nicks
  BY <1>0, <1>1, CloseFacts
<1>4. OneOwner'
  <2>1. \A l \in Nicks : About(e, l) => Local(n, l)
    BY <1>2, <1>3 DEF About
  <2>2. \A x \in Nodes, l \in Nicks : world'[x][l] # None =>
           world[x][l] # None /\ world'[x][l].home = world[x][l].home
    BY <1>3
  <2> QED BY <1>0, <1>2, <2>1, <2>2, OwnersTold
<1>5. \A a \in Nodes : \A x \in conns'[a] :
        x \in conns[a] /\ x.nick \in Nicks /\ (a = n => x.nick # k) /\ world'[a][x.nick] = world[a][x.nick]
  <2>1. \A a \in Nodes : \A x \in conns'[a] : x \in conns[a] /\ x.nick \in Nicks /\ (a = n => x.nick # k)
    BY <1>0, <1>3, Shapes
  <2> QED BY <1>3, <2>1
<1>6. Homed'
  <2>1. ASSUME NEW a \in Nodes, NEW x \in conns'[a] PROVE Owns(a, x)'
    <3>1. Owns(a, x)
      BY <1>0, <1>5 DEF Homed
    <3> QED BY <1>5, <3>1 DEF Owns, Local
  <2>2. ASSUME NEW a \in Nodes, NEW l \in Nicks, Local(a, l)' PROVE \E x \in conns'[a] : x.nick = l
    <3>1. Local(a, l) /\ (a # n \/ l # k)
      BY <1>3, <2>2 DEF Local
    <3>2. PICK x \in conns[a] : x.nick = l
      BY <1>0, <3>1 DEF Homed
    <3> QED BY <1>1, <1>3, <3>1, <3>2
  <2> QED BY <2>1, <2>2 DEF Homed
<1>7. Fresh'
  <2>1. ASSUME NEW a \in Nodes, NEW x \in conns'[a], ~x.announced PROVE ~world'[a][x.nick].in
    <3>1. ~world[a][x.nick].in
      BY <1>0, <1>5, <2>1 DEF Fresh
    <3> QED BY <1>5, <3>1
  <2> QED BY <2>1 DEF Fresh
<1>8. \A a \in Nodes : \A b \in Nodes \ {a} : Image(b, a)' = Image(b, a)
  <2>1. ASSUME NEW a \in Nodes, NEW b \in Nodes \ {a}, NEW l \in Nicks
        PROVE  \/ world'[b][l] = world[b][l]
               \/ world[b][l].home # a /\ world'[b][l] = None
    BY <1>3 DEF Local
  <2>2. ASSUME NEW a \in Nodes, NEW b \in Nodes \ {a} PROVE Image(b, a)' = Image(b, a)
    BY <2>1 DEF Image
  <2> QED BY <2>2
<1>9. /\ \A a \in Nodes \ {n} : Own(a)' = Own(a)
      /\ Own(n)'[k] = None
      /\ \A l \in Nicks \ {k} : Own(n)'[l] = Own(n)[l]
  <2>1. \A a \in Nodes \ {n} : Own(a)' = Own(a)
    BY <1>3 DEF Own
  <2>2. Own(n)'[k] = None
    BY <1>3 DEF Own
  <2>3. ASSUME NEW l \in Nicks \ {k} PROVE Own(n)'[l] = Own(n)[l]
    <3>1. (\E x \in conns'[n] : x.nick = l /\ x.announced) <=> (\E x \in conns[n] : x.nick = l /\ x.announced)
      BY <1>1, <1>3
    <3> QED BY <1>3, <3>1 DEF Own
  <2> QED BY <2>1, <2>2, <2>3
<1>10. Apart'
  <2>1. \A b \in Nodes \ {n} : b \in Registered(n) => Sent(n, b)
    BY DEF Registered, Sent
  <2>2. \A a \in Nodes : \A b \in Nodes \ {a} : ~Sent(a, b) => queue'[a][b] = queue[a][b]
    BY <1>0, <1>2, <2>1, ToldToSent
  <2> QED BY <1>0, <1>8, <2>2, ApartStays
<1>11. AllSubscribed'
  <2>1. \A a \in Nodes, l \in Nicks : Local(a, l)' /\ world'[a][l].in => Local(a, l) /\ world[a][l].in
    BY <1>3 DEF Local
  <2> QED BY <1>0, <2>1, SubscribedStay
<1> QED BY <1>1, <1>4, <1>6, <1>7, <1>8, <1>9, <1>10, <1>11

LEMMA QuitGood ==
  ASSUME KeptInv, KeptInv', Good, ~spoilt', NEW n \in Nodes, NEW c, Quit(n, c)
  PROVE  Good'
<1>0. TypeInv /\ TypeInv' /\ Homed
  BY DEF KeptInv, Good
<1>1. PICK e, k : e = Message("QUIT", c.nick, None, 0) /\ k = c.nick
  OBVIOUS
<1>2. /\ c \in conns[n] /\ CloseOf(n, c) /\ UNCHANGED <<stage, subs, seen, missed>> /\ ~ActsAt(n)
  BY DEF Quit, Spoil, Users
<1>3. Calm /\ ~Orders /\ \A b \in Nodes \ {n} : Sent(n, b) <=> b \in Registered(n)
  BY <1>0, <1>2, Acting DEF Good
<1>4. queue' = Told(queue, n, Registered(n), <<e>>) /\ e.cmd = "QUIT" /\ e.nick = k
  BY <1>1, <1>2 DEF CloseOf, Message
<1>5. /\ OneOwner' /\ Homed' /\ Fresh' /\ Apart' /\ AllSubscribed'
      /\ \A a \in Nodes : \A b \in Nodes \ {a} : Image(b, a)' = Image(b, a)
      /\ \A a \in Nodes \ {n} : Own(a)' = Own(a)
      /\ Own(n)'[k] = None
      /\ \A l \in Nicks \ {k} : Own(n)'[l] = Own(n)[l]
  BY <1>1, <1>2, CloseStays
<1>6. Turn(n, e, Own(n), Own(n)')
  <2>1. PICK v : v = Own(n)'
    OBVIOUS
  <2>2. Own(n) \in Views /\ v \in Views /\ k \in Nicks
    <3>1. world'[n] \in [Nicks -> Record \cup {None}]
      BY <1>0 DEF TypeInv, WorldOK
    <3>2. v \in Views
      BY <2>1, <3>1 DEF Own, Views
    <3> QED BY <1>0, <1>1, <1>2, <3>2, ViewTypes, Shapes
  <2>3. v = Put(Own(n), k, None)
    BY <1>5, <2>1, <2>2, IsPut
  <2> QED BY <1>4, <2>1, <2>3 DEF Turn
<1>7. \A a \in Nodes : \A x \in conns'[a] : ~x.told
  <2>1. \A a \in Nodes : \A x \in conns'[a] : x \in conns[a]
    BY <1>0, <1>2, CloseFacts
  <2> QED BY <1>3, <2>1 DEF Calm
<1>8. \A b \in Nodes \ {n} : Sent(n, b) => b \in Registered(n)
  BY <1>3
<1>9. Calm'
  BY <1>0, <1>2, <1>3, <1>4, <1>5, <1>6, <1>7, <1>8, CalmTold
<1> QED BY <1>5, <1>9 DEF Good, Traffic

-----------------------------------------------------------------------------
(* Orders. *)

LEMMA SameButStays ==
  ASSUME NEW k \in Nicks, NEW u, NEW v, NEW x, NEW y, SameBut(u, v, k), SameBut(x, u, k), SameBut(y, v, k)
  PROVE  SameBut(x, y, k)
BY DEF SameBut

LEMMA FlipSame ==
  ASSUME TypeInv, TypeInv', NEW n \in Nodes, NEW k \in Nicks, NEW b \in BOOLEAN, Flips(n, k, b), conns' = conns
  PROVE  \A a, x \in Nodes : SameBut(Image(x, a)', Image(x, a), k) /\ SameBut(Own(a)', Own(a), k)
<1>1. /\ \A x \in Nodes, l \in Nicks : world'[x][l] = None <=> world[x][l] = None
      /\ \A x \in Nodes, l \in Nicks : world[x][l] # None =>
              world'[x][l].home = world[x][l].home /\ world'[x][l].ts = world[x][l].ts
  BY InStays
<1>2. \A x \in Nodes, l \in Nicks \ {k} : world'[x][l] = world[x][l]
  <2>1. WorldOK
    BY DEF TypeInv
  <2>2. /\ \A l \in Nicks \ {k} : world'[n][l] = world[n][l]
        /\ \A x \in Nodes \ {n} : world'[x] = world[x]
    BY <2>1, InAt
  <2> QED BY <2>2
<1>3. ASSUME NEW a \in Nodes, NEW x \in Nodes PROVE SameBut(Image(x, a)', Image(x, a), k)
  BY <1>1, <1>2 DEF SameBut, Image
<1>4. ASSUME NEW a \in Nodes PROVE SameBut(Own(a)', Own(a), k)
  BY <1>1, <1>2 DEF SameBut, Own
<1> QED BY <1>3, <1>4

\* When nothing is under way, what is known of a node is what it has told of.
LEMMA Quiet ==
  ASSUME Calm, UnderWay = {}, TypeInv
  PROVE  /\ \A a, b \in Nodes : queue[a][b] = <<>> /\ ToSet(queue[a][b]) = {}
         /\ \A a \in Nodes : \A b \in Nodes \ {a} : Sent(a, b) => Image(b, a) = Own(a)
<1>1. ASSUME NEW a \in Nodes, NEW b \in Nodes PROVE queue[a][b] = <<>> /\ ToSet(queue[a][b]) = {}
  <2>1. ToSet(queue[a][b]) = {}
    BY DEF UnderWay
  <2>2. queue[a][b] \in Seq(Envelope)
    BY Queues DEF TypeInv
  <2> QED BY <2>1, <2>2, Members
<1>2. ASSUME NEW a \in Nodes, NEW b \in Nodes \ {a}, Sent(a, b) PROVE Image(b, a) = Own(a)
  <2>1. Path(queue[a][b], a, Image(b, a), Own(a))
    BY <1>2 DEF Calm
  <2>2. queue[a][b] = <<>>
    BY <1>1
  <2>3. PICK u, v : u = Image(b, a) /\ v = Own(a)
    OBVIOUS
  <2>4. Path(<<>>, a, u, v)
    BY <2>1, <2>2, <2>3
  <2>5. \A x, y : Path(<<>>, a, x, y) => x = y
    BY PathEmpty
  <2>6. u = v
    BY <2>4, <2>5
  <2> QED BY <2>3, <2>6
<1> QED BY <1>1, <1>2

LEMMA KickGood ==
  ASSUME KeptInv, KeptInv', Good, ~spoilt', NEW n \in Nodes, NEW c, NEW k \in Nicks, Kick(n, c, k)
  PROVE  Good'
<1>0. TypeInv /\ TypeInv' /\ OneOwner /\ Homed /\ AllSubscribed
  BY DEF KeptInv, Good
<1>1. PICK e : e = Message("KICK", k, None, 0)
  OBVIOUS
<1>2. /\ c \in Users(n) /\ world[n][c.nick].in /\ Flips(n, k, FALSE)
      /\ queue' = Told(queue, n, Subscribed(n), <<e>>)
      /\ UNCHANGED <<conns, stage, subs, seen, missed>> /\ ~ActsAt(n)
      /\ UnderWay = {} /\ Registered(n) = Nodes \ {n}
  BY <1>1 DEF Kick, Spoil, OrderAt, Flips
<1>3. Calm /\ ~Orders /\ \A b \in Nodes \ {n} : Sent(n, b) <=> b \in Registered(n)
  BY <1>0, <1>2, Acting
<1>4. c \in conns[n] /\ c.nick \in Nicks /\ Owns(n, c) /\ Local(n, c.nick)
  BY <1>0, <1>2, Shapes DEF Users, Owns
<1>5. e.cmd = "KICK" /\ e.nick = k
  BY <1>1 DEF Message
<1>6. \A b \in Nodes \ {n} : Sent(n, b) /\ b \in Subscribed(n)
  BY <1>0, <1>2, <1>3, <1>4 DEF Subscribed, AllSubscribed
<1>7. Homed' /\ Fresh' /\ Apart' /\ AllSubscribed'
  <2>1. \A a \in Nodes : \A x \in Nodes \ {a} : ~Sent(a, x) => queue'[a][x] = queue[a][x]
    BY <1>0, <1>2, <1>6, ToldToSent
  <2> QED BY <1>2, <2>1, FlipStays
<1>8. OneOwner'
  <2>1. \A l \in Nicks : About(e, l) => Local(n, l)
    BY <1>5 DEF About
  <2>2. \A x \in Nodes, l \in Nicks : world'[x][l] # None =>
           world[x][l] # None /\ world'[x][l].home = world[x][l].home
    BY <1>0, <1>2, InStays
  <2> QED BY <1>0, <1>2, <2>1, <2>2, OwnersTold
<1>9. /\ \A a, b \in Nodes : ToSet(queue[a][b]) = {}
      /\ \A a \in Nodes : \A b \in Nodes \ {a} : Sent(a, b) => Image(b, a) = Own(a)
  BY <1>0, <1>2, <1>3, Quiet
<1>10. Kicking(n, k)'
  <2>1. \A a \in Nodes : \A x \in conns'[a] : ~x.told
    BY <1>2, <1>3 DEF Calm
  <2>2. \A a \in Nodes : \A b \in Nodes \ {a} : \A f \in ToSet(queue'[a][b]) : a = n /\ f = e
    <3>1. \A a, b \in Nodes : \A f \in ToSet(queue'[a][b]) : f \in ToSet(queue[a][b]) \/ (a = n /\ f = e)
      BY <1>0, <1>2, ToldSet DEF TypeInv
    <3> QED BY <1>9, <3>1
  <2>3. \A b \in Nodes \ {n} : e \in ToSet(queue'[n][b])
    BY <1>0, <1>2, <1>6, ToldSet DEF TypeInv
  <2>4. ~world'[n][k].in
    <3>1. world'[n][k] = Within(world[n][k], FALSE) /\ Within(world[n][k], FALSE).in = FALSE
      BY <1>0, <1>2, InAt DEF TypeInv
    <3> QED BY <3>1, Zenon
  <2>5. ASSUME NEW x \in Nodes, world'[x][k] # None, world'[x][k].in
        PROVE  x # n /\ \E f \in ToSet(queue'[n][x]) : Order(f, "KICK", k)
    <3>1. x # n
      BY <2>4, <2>5, Zenon
    <3> QED BY <1>5, <2>3, <3>1 DEF Order
  <2>6. ASSUME NEW a \in Nodes, NEW b \in Nodes \ {a}, Sent(a, b)' PROVE SameBut(Image(b, a)', Own(a)', k)
    <3>1. Sent(a, b)
      BY <1>2, <2>6 DEF Sent
    <3>2. SameBut(Image(b, a), Own(a), k)
      BY <1>9, <3>1 DEF SameBut
    <3>3. SameBut(Image(b, a)', Image(b, a), k) /\ SameBut(Own(a)', Own(a), k)
      BY <1>0, <1>2, FlipSame
    <3> QED BY <3>2, <3>3, SameButStays
  <2>7. \A a \in Nodes : \A b \in Nodes \ {a} : \A f \in ToSet(queue'[a][b]) :
          f.cmd = "SQUIT" \/ (a = n /\ Order(f, "KICK", k))
    BY <1>5, <2>2 DEF Order
  <2> QED BY <2>1, <2>5, <2>6, <2>7 DEF Kicking, SameBut, Order
<1> QED BY <1>7, <1>8, <1>10 DEF Good, Traffic

\* A record of another node's user goes.
Goes(n, k) == Remote(n, k) /\ world' = [world EXCEPT ![n] = Removed(@, k)]
LEMMA GoneStays ==
  ASSUME KeptInv, KeptInv', Good, NEW n \in Nodes, NEW k \in Nicks, Goes(n, k),
         conns' = conns, stage' = stage, subs' = subs,
         \A a \in Nodes : \A b \in Nodes \ {a} : ~Sent(a, b) => queue'[a][b] = queue[a][b]
  PROVE  /\ Homed' /\ Fresh' /\ Apart' /\ AllSubscribed'
         /\ world'[n][k] = None /\ \A l \in Nicks \ {k} : world'[n][l] = world[n][l]
         /\ \A x \in Nodes \ {n} : world'[x] = world[x]
         /\ \A a \in Nodes : Own(a)' = Own(a)
         /\ \A a \in Nodes : \A b \in Nodes \ {a} :
              b # n \/ world[n][k].home # a => Image(b, a)' = Image(b, a)
         /\ \A a \in Nodes : \A b \in Nodes \ {a} : \A j \in Nicks \ {k} : Image(b, a)'[j] = Image(b, a)[j]
         /\ \A a \in Nodes : \A b \in Nodes \ {a} : world[b][k] = None => Image(b, a)' = Image(b, a)
<1>0. TypeInv /\ TypeInv' /\ Homed /\ Fresh /\ Apart /\ AllSubscribed
  BY DEF KeptInv, Good
<1>1. /\ world'[n][k] = None /\ \A l \in Nicks \ {k} : world'[n][l] = world[n][l]
      /\ \A x \in Nodes \ {n} : world'[x] = world[x]
  BY <1>0 DEF Goes, TypeInv, WorldOK, Removed
<1>2. world[n][k].home # n /\ world[n][k] # None
  BY DEF Goes, Remote
<1>3. \A x \in Nodes, l \in Nicks : Local(x, l)' <=> Local(x, l)
  BY <1>1, <1>2 DEF Local
<1>4. \A x \in Nodes, l \in Nicks : Local(x, l) => world'[x][l] = world[x][l]
  BY <1>1, <1>2 DEF Local
<1>5. Homed'
  BY <1>0, <1>3, <1>4, HomedStays
<1>6. \A x \in Nodes : \A c \in conns[x] : Local(x, c.nick) /\ c.nick \in Nicks
  BY <1>0, Shapes DEF Homed, Owns
<1>7. Fresh'
  BY <1>0, <1>4, <1>6 DEF Fresh
<1>8. \A a \in Nodes : \A b \in Nodes : \A l \in Nicks :
        world'[b][l] = world[b][l] \/ (b = n /\ l = k /\ world'[b][l] = None)
  BY <1>1
<1>9. /\ \A a \in Nodes : \A b \in Nodes \ {a} :
              b # n \/ world[n][k].home # a => Image(b, a)' = Image(b, a)
      /\ \A a \in Nodes : \A b \in Nodes \ {a} : \A j \in Nicks \ {k} : Image(b, a)'[j] = Image(b, a)[j]
      /\ \A a \in Nodes : \A b \in Nodes \ {a} : world[b][k] = None => Image(b, a)' = Image(b, a)
  <2>1. ASSUME NEW a \in Nodes, NEW b \in Nodes \ {a}, b # n \/ world[n][k].home # a
        PROVE  Image(b, a)' = Image(b, a)
    BY <1>8, <2>1 DEF Image
  <2>2. ASSUME NEW a \in Nodes, NEW b \in Nodes \ {a}, NEW j \in Nicks \ {k}
        PROVE  Image(b, a)'[j] = Image(b, a)[j]
    BY <1>8 DEF Image
  <2>3. ASSUME NEW a \in Nodes, NEW b \in Nodes \ {a}, world[b][k] = None
        PROVE  Image(b, a)' = Image(b, a)
    BY <1>8, <2>3 DEF Image
  <2> QED BY <2>1, <2>2, <2>3
<1>10. Apart'
  <2>1. ASSUME NEW a \in Nodes, NEW b \in Nodes \ {a}, Image(b, a) = Blank PROVE Image(b, a)' = Blank
    <3>1. \A l \in Nicks : Image(b, a)[l] = None
      BY <2>1 DEF Blank
    <3>2. \A l \in Nicks : world[b][l] = None \/ world[b][l].home # a
      BY <3>1 DEF Image
    <3>3. \A l \in Nicks : world'[b][l] = None \/ world'[b][l].home # a
      BY <1>8, <3>2
    <3> QED BY <3>3 DEF Image, Blank
  <2> QED BY <1>0, <2>1, ApartStays
<1>11. AllSubscribed'
  <2>1. \A a \in Nodes, l \in Nicks : Local(a, l)' /\ world'[a][l].in => Local(a, l) /\ world[a][l].in
    BY <1>3, <1>4
  <2> QED BY <1>0, <2>1, SubscribedStay
<1>12. \A a \in Nodes : Own(a)' = Own(a)
  <2>1. ASSUME NEW a \in Nodes PROVE Own(a)' = Own(a)
    <3>1. \A l \in Nicks : (\E c \in conns[a] : c.nick = l /\ c.announced) => world'[a][l] = world[a][l]
      BY <1>4, <1>6
    <3> QED BY <3>1 DEF Own
  <2> QED BY <2>1
<1> QED BY <1>1, <1>5, <1>7, <1>9, <1>10, <1>11, <1>12

\* Connections are told to go.
LEMMA ToldStays ==
  ASSUME KeptInv, KeptInv', Good, world' = world, stage' = stage, subs' = subs,
         \A a \in Nodes : \A b \in Nodes \ {a} : ~Sent(a, b) => queue'[a][b] = queue[a][b],
         \A a \in Nodes : \A c \in conns'[a] : \E d \in conns[a] :
           c.nick = d.nick /\ c.ts = d.ts /\ (c.announced <=> d.announced),
         \A a \in Nodes : \A d \in conns[a] : \E c \in conns'[a] :
           c.nick = d.nick /\ (c.announced <=> d.announced)
  PROVE  /\ Homed' /\ Fresh' /\ Apart' /\ AllSubscribed'
         /\ \A a \in Nodes : Own(a)' = Own(a)
         /\ \A a, b \in Nodes : Image(b, a)' = Image(b, a)
<1>0. TypeInv /\ TypeInv' /\ Homed /\ Fresh /\ Apart /\ AllSubscribed
  BY DEF KeptInv, Good
<1>1. \A x, l : (Local(x, l)' <=> Local(x, l))
  BY DEF Local
<1>2. Homed'
  <2>1. /\ \A a \in Nodes : \A c \in conns'[a] : \E d \in conns[a] :
             c.nick = d.nick /\ c.ts = d.ts /\ (d.announced => c.announced)
        /\ \A a \in Nodes : \A d \in conns[a] : \E c \in conns'[a] : c.nick = d.nick
    OBVIOUS
  <2> QED BY <1>0, <1>1, <2>1, HomedStays
<1>3. Fresh'
  <2>1. \A a \in Nodes : \A c \in conns'[a] : ~c.announced => \E d \in conns[a] : d.nick = c.nick /\ ~d.announced
    OBVIOUS
  <2> QED BY <1>0, <2>1, FreshStays
<1>4. \A a, b \in Nodes : Image(b, a)' = Image(b, a)
  BY DEF Image
<1>5. Apart'
  BY <1>0, <1>4, ApartStays
<1>6. AllSubscribed'
  BY <1>0, <1>1, SubscribedStay
<1>7. \A a \in Nodes : Own(a)' = Own(a)
  <2>1. ASSUME NEW a \in Nodes PROVE Own(a)' = Own(a)
    <3>1. \A l \in Nicks : (\E c \in conns'[a] : c.nick = l /\ c.announced)
                             <=> (\E c \in conns[a] : c.nick = l /\ c.announced)
      OBVIOUS
    <3> QED BY <3>1 DEF Own
  <2> QED BY <2>1
<1> QED BY <1>2, <1>3, <1>4, <1>5, <1>6, <1>7

\* A connection enters the registry.
LEMMA RegisterConnGood ==
  ASSUME KeptInv, KeptInv', Good, NEW n \in Nodes, NEW c, RegisterConn(n, c)
  PROVE  Good'
<1>0. TypeInv /\ TypeInv' /\ OneOwner /\ Traffic
  BY DEF KeptInv, Good
<1>1. PICK d : d = [c EXCEPT !.listed = TRUE]
  OBVIOUS
<1>2. /\ c \in conns[n] /\ conns' = [conns EXCEPT ![n] = (@ \ {c}) \cup {d}]
      /\ UNCHANGED <<world, queue, stage, subs>>
  BY <1>1 DEF RegisterConn
<1>3. d.nick = c.nick /\ d.ts = c.ts /\ d.announced = c.announced /\ d.told = c.told
  BY <1>0, <1>1, <1>2, Shapes DEF Conn
<1>4. conns'[n] = (conns[n] \ {c}) \cup {d} /\ \A a \in Nodes \ {n} : conns'[a] = conns[a]
  BY <1>0, <1>2 DEF TypeInv, ConnsOK
<1>5. /\ \A a \in Nodes : \A x \in conns'[a] : \E y \in conns[a] :
           x.nick = y.nick /\ x.ts = y.ts /\ x.announced = y.announced /\ x.told = y.told
      /\ \A a \in Nodes : \A y \in conns[a] : \E x \in conns'[a] :
           x.nick = y.nick /\ x.announced = y.announced /\ x.told = y.told
  BY <1>2, <1>3, <1>4
<1>6. /\ Homed' /\ Fresh' /\ Apart' /\ AllSubscribed'
      /\ \A a \in Nodes : Own(a)' = Own(a)
      /\ \A a, b \in Nodes : Image(b, a)' = Image(b, a)
  <2>1. /\ \A a \in Nodes : \A x \in conns'[a] : \E y \in conns[a] :
             x.nick = y.nick /\ x.ts = y.ts /\ (x.announced <=> y.announced)
        /\ \A a \in Nodes : \A y \in conns[a] : \E x \in conns'[a] :
             x.nick = y.nick /\ (x.announced <=> y.announced)
    BY <1>5
  <2> QED BY <1>2, <2>1, ToldStays
<1>7. OneOwner'
  <2>1. \A x \in Nodes, l \in Nicks : world'[x][l] # None => Claims(world'[x][l].home, l)
    BY <1>2 DEF Claims
  <2>2. \A a, b \in Nodes, l \in Nicks : \A f \in ToSet(queue'[a][b]) : About(f, l) => Claims(a, l)
    BY <1>2 DEF Claims
  <2> QED BY <1>0, <2>1, <2>2, OwnersStay
<1>8. Traffic'
  <2>1. \A a, b \in Nodes : Sent(a, b)' <=> Sent(a, b)
    BY <1>2 DEF Sent
  <2>2. CASE Calm
    <3>1. \A a \in Nodes : \A x \in conns'[a] : ~x.told
      BY <1>5, <2>2 DEF Calm
    <3>2. ASSUME NEW a \in Nodes, NEW b \in Nodes \ {a}, Sent(a, b)'
          PROVE  Path(queue'[a][b], a, Image(b, a)', Own(a)')
      BY <1>2, <1>6, <2>1, <2>2, <3>2 DEF Calm
    <3> QED BY <3>1, <3>2 DEF Calm, Traffic, Path
  <2>3. ASSUME NEW o \in Nodes, NEW k \in Nicks, Kicking(o, k) PROVE Kicking(o, k)'
    <3>1. \A a \in Nodes : \A x \in conns'[a] : ~x.told
      BY <1>5, <2>3 DEF Kicking
    <3> QED BY <1>2, <1>6, <2>1, <2>3, <3>1 DEF Kicking, SameBut
  <2>4. ASSUME NEW o \in Nodes, NEW h \in Nodes, NEW k \in Nicks, Killing(o, h, k)
        PROVE  Killing(o, h, k)'
    <3>1. \A a \in Nodes : \A x \in conns'[a] : x.told => a = h /\ x.nick = k
      BY <1>5, <2>4 DEF Killing
    <3>2. Alone(h, k)' <=> Alone(h, k)
      BY <1>5 DEF Alone
    <3> QED BY <1>2, <1>6, <2>1, <2>4, <3>1, <3>2 DEF Killing
  <2> QED BY <1>0, <2>2, <2>3, <2>4 DEF Traffic
<1> QED BY <1>6, <1>7, <1>8 DEF Good

\* An order that n gives when nothing is under way.
LEMMA Ordered ==
  ASSUME KeptInv, Good, NEW n \in Nodes, ~ActsAt(n), ~OrderAt(n), NEW k \in Nicks, NEW e, e.cmd = "KILL", e.nick = k,
         queue' = Told(queue, n, Registered(n), <<e>>)
  PROVE  /\ Calm
         /\ \A a \in Nodes : \A b \in Nodes \ {a} : Sent(a, b) => Image(b, a) = Own(a)
         /\ \A a \in Nodes : \A b \in Nodes \ {a} : \A f \in ToSet(queue'[a][b]) : a = n /\ f = e
         /\ \A b \in Nodes \ {n} : e \in ToSet(queue'[n][b])
         /\ \A a \in Nodes : \A b \in Nodes \ {a} : ~Sent(a, b) => queue'[a][b] = queue[a][b]
         /\ \A a, b \in Nodes : \A f \in ToSet(queue'[a][b]) : \A l \in Nicks : ~About(f, l)
<1>0. TypeInv /\ Mail(queue) /\ UnderWay = {} /\ Registered(n) = Nodes \ {n}
  BY DEF KeptInv, TypeInv, OrderAt
<1>1. Calm /\ \A b \in Nodes \ {n} : Sent(n, b) <=> b \in Registered(n)
  BY <1>0, Acting
<1>2. /\ \A a, b \in Nodes : ToSet(queue[a][b]) = {}
      /\ \A a \in Nodes : \A b \in Nodes \ {a} : Sent(a, b) => Image(b, a) = Own(a)
  BY <1>0, <1>1, Quiet
<1>3. \A a, b \in Nodes : \A f \in ToSet(queue'[a][b]) : f \in ToSet(queue[a][b]) \/ (a = n /\ f = e)
  BY <1>0, ToldSet
<1>4. \A b \in Nodes \ {n} : e \in ToSet(queue'[n][b])
  BY <1>0, ToldSet
<1>5. \A a \in Nodes : \A b \in Nodes \ {a} : ~Sent(a, b) => queue'[a][b] = queue[a][b]
  BY <1>0, <1>1, ToldToSent
<1>6. \A a, b \in Nodes : \A f \in ToSet(queue'[a][b]) : a = n /\ f = e
  BY <1>2, <1>3
<1>7. \A l \in Nicks : ~About(e, l)
  BY DEF About
<1>8. \A a, b \in Nodes : \A f \in ToSet(queue'[a][b]) : \A l \in Nicks : ~About(f, l)
  BY <1>6, <1>7
<1>9. \A a \in Nodes : \A b \in Nodes \ {a} : \A f \in ToSet(queue'[a][b]) : a = n /\ f = e
  BY <1>6
<1> QED BY <1>1, <1>2, <1>4, <1>5, <1>8, <1>9

LEMMA KillGood ==
  ASSUME KeptInv, KeptInv', Good, ~spoilt', NEW n \in Nodes, NEW c, NEW k \in Nicks, Kill(n, c, k)
  PROVE  Good'
<1>0. TypeInv /\ TypeInv' /\ OneOwner /\ Homed
  BY DEF KeptInv, Good
<1>1. PICK e, h : e = Message("KILL", k, None, 0) /\ h = world[n][k].home
  OBVIOUS
<1>2. /\ world[n][k] # None
      /\ queue' = Told(queue, n, Registered(n), <<e>>)
      /\ UNCHANGED <<stage, subs, seen, missed>> /\ ~ActsAt(n) /\ ~OrderAt(n)
      /\ e.cmd = "KILL" /\ e.nick = k
  BY <1>1 DEF Kill, Spoil, Message
<1>3. /\ Calm
      /\ \A a \in Nodes : \A b \in Nodes \ {a} : Sent(a, b) => Image(b, a) = Own(a)
      /\ \A a \in Nodes : \A b \in Nodes \ {a} : \A f \in ToSet(queue'[a][b]) : a = n /\ f = e
      /\ \A b \in Nodes \ {n} : e \in ToSet(queue'[n][b])
      /\ \A a \in Nodes : \A b \in Nodes \ {a} : ~Sent(a, b) => queue'[a][b] = queue[a][b]
      /\ \A a, b \in Nodes : \A f \in ToSet(queue'[a][b]) : \A l \in Nicks : ~About(f, l)
  BY <1>2, Ordered
<1>4. h \in Nodes /\ \A x \in Nodes : world[x][k] # None => world[x][k].home = h
  <2>1. \A x \in Nodes : world[x][k] # None => Claims(world[x][k].home, k) /\ world[x][k].home \in Nodes
    BY <1>0, Shapes DEF Claims
  <2> QED BY <1>0, <1>1, <1>2, <2>1 DEF OneOwner
<1>5. \A a \in Nodes : \A b \in Nodes \ {a} : \A f \in ToSet(queue'[a][b]) : a = n /\ Order(f, "KILL", k)
  BY <1>2, <1>3 DEF Order
<1>6. ASSUME \A x \in Nodes, l \in Nicks : world'[x][l] # None =>
               world[x][l] # None /\ world'[x][l].home = world[x][l].home
      PROVE  OneOwner'
  <2>1. \A x \in Nodes, l \in Nicks : world'[x][l] # None => Claims(world'[x][l].home, l)
    BY <1>6 DEF Claims
  <2>2. \A a, b \in Nodes, l \in Nicks : \A f \in ToSet(queue'[a][b]) : About(f, l) => Claims(a, l)
    BY <1>3
  <2> QED BY <1>0, <2>1, <2>2, OwnersStay
<1>7. CASE Remote(n, k)
  <2>1. Goes(n, k) /\ conns' = conns
    BY <1>7 DEF Kill, Goes
  <2>2. /\ Homed' /\ Fresh' /\ Apart' /\ AllSubscribed'
        /\ world'[n][k] = None /\ \A l \in Nicks \ {k} : world'[n][l] = world[n][l]
        /\ \A x \in Nodes \ {n} : world'[x] = world[x]
        /\ \A a \in Nodes : Own(a)' = Own(a)
        /\ \A a \in Nodes : \A b \in Nodes \ {a} : \A j \in Nicks \ {k} : Image(b, a)'[j] = Image(b, a)[j]
    BY <1>2, <1>3, <1>7, <2>1, GoneStays
  <2>3. OneOwner'
    BY <1>6, <2>2
  <2>4. Killing(n, h, k)'
    <3>1. \A a \in Nodes : \A x \in conns'[a] : ~x.told
      BY <1>3, <2>1 DEF Calm
    <3>2. ASSUME NEW x \in Nodes, world'[x][k] # None
          PROVE  /\ world'[x][k].home = h
                 /\ x # n /\ \E f \in ToSet(queue'[n][x]) : Order(f, "KILL", k)
      <4>1. x # n /\ world'[x] = world[x]
        BY <2>2, <3>2
      <4> QED BY <1>2, <1>3, <1>4, <3>2, <4>1 DEF Order
    <3>3. ASSUME NEW a \in Nodes, NEW b \in Nodes \ {a}, Sent(a, b)', NEW j \in Nicks \ {k}
          PROVE  Image(b, a)'[j] = Own(a)'[j]
      <4>1. Sent(a, b)
        BY <1>2, <3>3 DEF Sent
      <4> QED BY <1>3, <2>2, <4>1
    <3> QED BY <1>5, <3>1, <3>2, <3>3 DEF Killing, Order
  <2> QED BY <1>4, <2>2, <2>3, <2>4 DEF Good, Traffic
<1>8. CASE ~Remote(n, k)
  <2> DEFINE mark(d) == [d EXCEPT !.told = @ \/ (d.listed /\ d.nick = k /\ d.ts = world[n][k].ts)]
  <2>1. /\ conns' = [conns EXCEPT ![n] = {mark(d) : d \in @}]
        /\ world' = world
    BY <1>8 DEF Kill
  <2>2. h = n /\ Local(n, k)
    BY <1>1, <1>2, <1>8 DEF Remote, Local
  <2>3. \A d \in conns[n] :
          mark(d).nick = d.nick /\ mark(d).ts = d.ts /\ mark(d).announced = d.announced
    BY <1>0, Shapes DEF Conn
  <2>4. \A d \in conns[n] : mark(d).told = (d.told \/ (d.listed /\ d.nick = k /\ d.ts = world[n][k].ts))
    BY <1>0, Shapes DEF Conn
  <2> HIDE DEF mark
  <2>5. conns'[n] = {mark(d) : d \in conns[n]} /\ \A a \in Nodes \ {n} : conns'[a] = conns[a]
    BY <1>0, <2>1 DEF TypeInv, ConnsOK
  <2>6. \A d \in conns[n] : ~d.told
    BY <1>3 DEF Calm
  <2>7. /\ \A a \in Nodes : \A x \in conns'[a] : \E d \in conns[a] :
             x.nick = d.nick /\ x.ts = d.ts /\ (x.announced <=> d.announced)
        /\ \A a \in Nodes : \A d \in conns[a] : \E x \in conns'[a] :
             x.nick = d.nick /\ (x.announced <=> d.announced)
    BY <2>3, <2>5
  <2>8. /\ Homed' /\ Fresh' /\ Apart' /\ AllSubscribed'
        /\ \A a \in Nodes : Own(a)' = Own(a)
        /\ \A a, b \in Nodes : Image(b, a)' = Image(b, a)
    BY <1>2, <1>3, <2>1, <2>7, ToldStays
  <2>9. OneOwner'
    BY <1>6, <2>1
  <2>10. Killing(n, n, k)'
    <3>1. ASSUME NEW a \in Nodes, NEW x \in conns'[a], x.told PROVE a = n /\ x.nick = k
      <4>1. a = n
        BY <1>3, <2>5, <3>1 DEF Calm
      <4>2. PICK d \in conns[n] : x = mark(d)
        BY <2>5, <3>1, <4>1
      <4>3. mark(d).told
        BY <3>1, <4>2
      <4>4. d.nick = k
        BY <2>4, <2>6, <4>3
      <4> QED BY <2>3, <4>1, <4>2, <4>4
    <3>2. Alone(n, k)'
      <4>1. CASE \E d \in conns[n] : d.nick = k /\ d.listed
        <5>1. PICK d \in conns[n] : d.nick = k /\ d.listed
          BY <4>1
        <5>2. d.ts = world[n][k].ts
          BY <1>0, <5>1 DEF Homed, Owns
        <5>3. mark(d).told
          BY <2>4, <5>1, <5>2, Zenon
        <5>4. mark(d) \in conns'[n]
          BY <2>5
        <5> QED BY <5>3, <5>4 DEF Alone
      <4>2. CASE \A d \in conns[n] : d.nick = k => ~d.listed
        <5>1. \A d \in conns[n] : d.nick = k => ~d.announced
          BY <1>0, <4>2 DEF TypeInv, ConnsOK, Conn
        <5>2. \A x \in conns'[n] : x.nick = k => ~x.announced
          BY <2>7, <5>1
        <5> QED BY <5>2 DEF Alone
      <4> QED BY <4>1, <4>2
    <3>3. ASSUME NEW x \in Nodes, world'[x][k] # None
          PROVE  /\ world'[x][k].home = n
                 /\ \/ x # n /\ \E f \in ToSet(queue'[n][x]) : Order(f, "KILL", k)
                    \/ x = n /\ Alone(n, k)'
      <4>1. world'[x][k].home = n
        BY <1>4, <2>1, <2>2, <3>3
      <4>2. x # n => \E f \in ToSet(queue'[n][x]) : Order(f, "KILL", k)
        BY <1>2, <1>3 DEF Order
      <4> QED BY <3>2, <4>1, <4>2
    <3>4. ASSUME NEW a \in Nodes, NEW b \in Nodes \ {a}, Sent(a, b)', NEW j \in Nicks \ {k}
          PROVE  Image(b, a)'[j] = Own(a)'[j]
      <4>1. Sent(a, b)
        BY <1>2, <3>4 DEF Sent
      <4> QED BY <1>3, <2>8, <4>1
    <3> QED BY <1>5, <3>1, <3>3, <3>4 DEF Killing, Order
  <2> QED BY <2>8, <2>9, <2>10 DEF Good, Traffic
<1> QED BY <1>7, <1>8

\* The connection that was told to go ends.
LEMMA CloseGood ==
  ASSUME KeptInv, KeptInv', Good, NEW n \in Nodes, NEW c, Close(n, c), ~spoilt'
  PROVE  Good'
<1>0. TypeInv /\ TypeInv' /\ Homed /\ Traffic
  BY DEF KeptInv, Good
<1>1. PICK e, j : e = Message("QUIT", c.nick, None, 0) /\ j = c.nick
  OBVIOUS
<1>2. /\ c \in conns[n] /\ CloseOf(n, c) /\ UNCHANGED <<stage, subs>> /\ c.told
      /\ queue' = Told(queue, n, Registered(n), <<e>>)
      /\ e.cmd = "QUIT" /\ e.nick = j
  BY <1>1 DEF Close, CloseOf, Message
<1>3. /\ OneOwner' /\ Homed' /\ Fresh' /\ Apart' /\ AllSubscribed'
      /\ \A a \in Nodes : \A b \in Nodes \ {a} : Image(b, a)' = Image(b, a)
      /\ \A a \in Nodes \ {n} : Own(a)' = Own(a)
      /\ \A l \in Nicks \ {j} : Own(n)'[l] = Own(n)[l]
  BY <1>1, <1>2, CloseStays
<1>4. PICK o \in Nodes, h \in Nodes, k \in Nicks : Killing(o, h, k)
  BY <1>0, <1>2 DEF Traffic, Calm, Kicking
<1>5. h = n /\ j = k
  BY <1>1, <1>2, <1>4 DEF Killing
<1>6. /\ world'[n][k] = None /\ \A x \in Nodes \ {n} : world'[x] = world[x]
      /\ conns'[n] = conns[n] \ {c} /\ \A x \in Nodes \ {n} : conns'[x] = conns[x]
  <2>1. c \in conns[n] /\ CloseOf(n, c) /\ TypeInv /\ Homed /\ c.nick = k
    BY <1>0, <1>1, <1>2, <1>5
  <2>2. world'[n][c.nick] = None /\ \A x \in Nodes \ {n} : world'[x] = world[x]
    BY <2>1, CloseFacts
  <2>3. conns'[n] = conns[n] \ {c} /\ \A x \in Nodes \ {n} : conns'[x] = conns[x]
    BY <2>1, CloseFacts
  <2> QED BY <2>1, <2>2, <2>3
<1>7. /\ \A a, b \in Nodes : \A f \in ToSet(queue'[a][b]) : f \in ToSet(queue[a][b]) \/ (a = n /\ f = e)
      /\ \A a, b \in Nodes : \A f \in ToSet(queue[a][b]) : f \in ToSet(queue'[a][b])
  <2>0. Mail(queue)
    BY <1>0 DEF TypeInv
  <2>1. \A a, b \in Nodes : \A f \in ToSet(queue'[a][b]) : f \in ToSet(queue[a][b]) \/ (a = n /\ f = e)
    BY <1>2, <2>0, ToldSet
  <2>2. \A a, b \in Nodes : ToSet(queue[a][b]) \subseteq ToSet(queue'[a][b])
    BY <1>2, <2>0, ToldSet
  <2> QED BY <2>1, <2>2
<1>8. Killing(o, n, k)'
  <2>1. \A a \in Nodes : \A x \in conns'[a] : x.told => a = n /\ x.nick = k
    BY <1>4, <1>5, <1>6 DEF Killing
  <2>2. ASSUME NEW a \in Nodes, NEW b \in Nodes \ {a}, NEW f \in ToSet(queue'[a][b])
        PROVE  \/ f.cmd = "SQUIT" \/ (a = o /\ Order(f, "KILL", k))
               \/ a = n /\ Order(f, "QUIT", k)
    <3>1. CASE f \in ToSet(queue[a][b])
      BY <1>4, <1>5, <3>1 DEF Killing
    <3>2. CASE a = n /\ f = e
      BY <1>2, <1>5, <3>2 DEF Order
    <3> QED BY <1>7, <3>1, <3>2
  <2>3. ASSUME NEW x \in Nodes, world'[x][k] # None
        PROVE  /\ world'[x][k].home = n
               /\ x # o /\ \E f \in ToSet(queue'[o][x]) : Order(f, "KILL", k)
    <3>1. x # n /\ world'[x] = world[x]
      BY <1>6, <2>3
    <3>2. world[x][k].home = n /\ x # o /\ \E f \in ToSet(queue[o][x]) : Order(f, "KILL", k)
      BY <1>4, <1>5, <2>3, <3>1 DEF Killing
    <3> QED BY <1>7, <3>1, <3>2
  <2>4. ASSUME NEW a \in Nodes, NEW b \in Nodes \ {a}, Sent(a, b)', NEW l \in Nicks \ {k}
        PROVE  Image(b, a)'[l] = Own(a)'[l]
    <3>1. Sent(a, b)
      BY <1>2, <2>4 DEF Sent
    <3>2. Image(b, a)[l] = Own(a)[l]
      BY <1>4, <3>1 DEF Killing
    <3>3. Own(a)'[l] = Own(a)[l]
      BY <1>3, <1>5
    <3> QED BY <1>3, <3>2, <3>3
  <2> QED BY <2>1, <2>2, <2>3, <2>4 DEF Killing, Order
<1> QED BY <1>3, <1>8 DEF Good, Traffic

-----------------------------------------------------------------------------
(* Links. *)

LEMMA TrafficAlike ==
  ASSUME TypeInv, Traffic, conns' = conns,
         \A x \in Nodes, l \in Nicks : world'[x][l] = world[x][l] \/ world'[x][l] = None,
         \A a \in Nodes : Own(a)' = Own(a),
         \A a \in Nodes : \A b \in Nodes \ {a} : Sent(a, b)' => Sent(a, b) /\ Image(b, a)' = Image(b, a),
         \A a, b \in Nodes : Alike(queue[a][b], queue'[a][b])
  PROVE  Traffic'
<1>0. \A a, b \in Nodes : queue[a][b] \in Seq(Envelope)
  BY Queues DEF TypeInv
<1>1. \A a, b \in Nodes : \A e \in ToSet(queue'[a][b]) : e.cmd = "SQUIT" \/ e \in ToSet(queue[a][b])
  BY <1>0, AlikeSet
<1>2. \A a, b \in Nodes : \A e \in ToSet(queue[a][b]) : e.cmd = "SQUIT" \/ e \in ToSet(queue'[a][b])
  BY <1>0, AlikeSet
<1>3. CASE Calm
  <2>1. \A a \in Nodes : \A c \in conns'[a] : ~c.told
    BY <1>3 DEF Calm
  <2> QED BY <1>3, <2>1, CalmAlike DEF Traffic
<1>4. ASSUME NEW n \in Nodes, NEW k \in Nicks, Kicking(n, k) PROVE Kicking(n, k)'
  <2>1. \A a \in Nodes : \A c \in conns'[a] : ~c.told
    BY <1>4 DEF Kicking
  <2>2. \A a \in Nodes : \A b \in Nodes \ {a} : \A e \in ToSet(queue'[a][b]) :
          e.cmd = "SQUIT" \/ (a = n /\ Order(e, "KICK", k))
    BY <1>1, <1>4 DEF Kicking
  <2>3. ASSUME NEW x \in Nodes, world'[x][k] # None, world'[x][k].in
        PROVE  x # n /\ \E e \in ToSet(queue'[n][x]) : Order(e, "KICK", k)
    <3>1. world'[x][k] = world[x][k]
      BY <2>3
    <3>2. world[x][k] # None /\ world[x][k].in
      BY <2>3, <3>1, Zenon
    <3>3. x # n
      BY <1>4, <3>2 DEF Kicking
    <3>4. PICK e \in ToSet(queue[n][x]) : Order(e, "KICK", k)
      BY <1>4, <3>2 DEF Kicking
    <3>5. e \in ToSet(queue'[n][x])
      BY <1>2, <3>4 DEF Order
    <3> QED BY <3>3, <3>4, <3>5
  <2>4. \A a \in Nodes : \A b \in Nodes \ {a} : Sent(a, b)' => SameBut(Image(b, a)', Own(a)', k)
    BY <1>4 DEF Kicking, SameBut
  <2> QED BY <2>1, <2>2, <2>3, <2>4 DEF Kicking, Order, SameBut
<1>5. ASSUME NEW n \in Nodes, NEW h \in Nodes, NEW k \in Nicks, Killing(n, h, k) PROVE Killing(n, h, k)'
  <2>1. \A a \in Nodes : \A c \in conns'[a] : c.told => a = h /\ c.nick = k
    BY <1>5 DEF Killing
  <2>2. \A a \in Nodes : \A b \in Nodes \ {a} : \A e \in ToSet(queue'[a][b]) :
          \/ e.cmd = "SQUIT" \/ (a = n /\ Order(e, "KILL", k))
          \/ a = h /\ Order(e, "QUIT", k)
    BY <1>1, <1>5 DEF Killing
  <2>3. ASSUME NEW x \in Nodes, world'[x][k] # None
        PROVE  /\ world'[x][k].home = h
               /\ \/ x # n /\ \E e \in ToSet(queue'[n][x]) : Order(e, "KILL", k)
                  \/ x = h /\ Alone(h, k)'
    <3>1. world'[x][k] = world[x][k]
      BY <2>3
    <3>2. /\ world'[x][k].home = h
          /\ \/ x # n /\ \E e \in ToSet(queue[n][x]) : Order(e, "KILL", k)
             \/ x = h /\ Alone(h, k)
      BY <1>5, <2>3, <3>1 DEF Killing
    <3>3. ASSUME NEW e \in ToSet(queue[n][x]), Order(e, "KILL", k) PROVE e \in ToSet(queue'[n][x])
      BY <1>2, <3>3 DEF Order
    <3>4. Alone(h, k)' <=> Alone(h, k)
      BY DEF Alone
    <3> QED BY <3>2, <3>3, <3>4
  <2>4. \A a \in Nodes : \A b \in Nodes \ {a} : Sent(a, b)' =>
          \A j \in Nicks \ {k} : Image(b, a)'[j] = Own(a)'[j]
    BY <1>5 DEF Killing
  <2> QED BY <2>1, <2>2, <2>3, <2>4 DEF Killing, Order
<1> QED BY <1>3, <1>4, <1>5 DEF Traffic

\* A link is made, and a node counts it among those it tells.
LEMMA StillGood ==
  ASSUME KeptInv, KeptInv', Good, UNCHANGED <<world, conns, queue, subs>>,
         \A a \in Nodes : \A b \in Nodes \ {a} : Sent(a, b)' <=> Sent(a, b),
         Apart'
  PROVE  Good'
<1>0. TypeInv /\ TypeInv' /\ OneOwner /\ Homed /\ Fresh /\ AllSubscribed /\ Traffic
  BY DEF KeptInv, Good
<1>1. /\ \A a \in Nodes : Own(a)' = Own(a)
      /\ \A a, b \in Nodes : Image(b, a)' = Image(b, a)
      /\ \A a, l : Local(a, l)' <=> Local(a, l)
  BY DEF Own, Image, Local
<1>2. Homed'
  BY <1>0, <1>1, HomedStays
<1>3. Fresh'
  BY <1>0, FreshStays
<1>4. AllSubscribed'
  BY <1>0, <1>1 DEF AllSubscribed
<1>5. OneOwner'
  <2>1. \A x \in Nodes, l \in Nicks : world'[x][l] # None => Claims(world'[x][l].home, l)
    BY DEF Claims
  <2>2. \A a, b \in Nodes, l \in Nicks : \A e \in ToSet(queue'[a][b]) : About(e, l) => Claims(a, l)
    BY DEF Claims
  <2> QED BY <1>0, <2>1, <2>2, OwnersStay
<1>6. Traffic'
  <2>1. \A a, b \in Nodes : Alike(queue[a][b], queue'[a][b])
    BY DEF Alike
  <2> QED BY <1>0, <1>1, <2>1, TrafficAlike
<1> QED BY <1>2, <1>3, <1>4, <1>5, <1>6 DEF Good

\* What one end thinks of a link, or both.
Staged(n, m, s) == stage' = [stage EXCEPT ![n][m] = s]
BothStaged(n, m, s) == stage' = [stage EXCEPT ![n][m] = s, ![m][n] = s]
Ends(a, b, n, m) == (a = n /\ b = m) \/ (a = m /\ b = n)
LEMMA StagedAt ==
  ASSUME LinksOK, NEW n \in Nodes, NEW m \in Nodes \ {n}, NEW s, Staged(n, m, s)
  PROVE  \A a \in Nodes : \A b \in Nodes \ {a} : stage'[a][b] = IF a = n /\ b = m THEN s ELSE stage[a][b]
<1>1. stage[n] \in [Nodes \ {n} -> Stages]
  BY DEF LinksOK
<1> DEFINE row == [stage[n] EXCEPT ![m] = s]
<1>2. stage' = [stage EXCEPT ![n] = row]
  BY DEF LinksOK, Staged
<1>3. row[m] = s /\ \A b \in Nodes \ {n, m} : row[b] = stage[n][b]
  BY <1>1
<1> HIDE DEF row
<1>4. stage'[n] = row /\ \A a \in Nodes \ {n} : stage'[a] = stage[a]
  BY <1>2 DEF LinksOK
<1> QED BY <1>3, <1>4

LEMMA BothStagedAt ==
  ASSUME LinksOK, NEW n \in Nodes, NEW m \in Nodes \ {n}, NEW s, BothStaged(n, m, s)
  PROVE  \A a \in Nodes : \A b \in Nodes \ {a} :
           stage'[a][b] = IF Ends(a, b, n, m) THEN s ELSE stage[a][b]
<1>1. stage[n] \in [Nodes \ {n} -> Stages] /\ stage[m] \in [Nodes \ {m} -> Stages]
  BY DEF LinksOK
<1> DEFINE row == [stage[n] EXCEPT ![m] = s]
           line == [stage[m] EXCEPT ![n] = s]
<1>2. stage' = [[stage EXCEPT ![n] = row] EXCEPT ![m] = line]
  BY DEF LinksOK, BothStaged
<1>3. /\ row[m] = s /\ \A b \in Nodes \ {n, m} : row[b] = stage[n][b]
      /\ line[n] = s /\ \A b \in Nodes \ {n, m} : line[b] = stage[m][b]
  BY <1>1
<1> HIDE DEF row, line
<1>4. stage'[n] = row /\ stage'[m] = line /\ \A a \in Nodes \ {n, m} : stage'[a] = stage[a]
  BY <1>2 DEF LinksOK
<1> QED BY <1>3, <1>4 DEF Ends

LEMMA LinkUpGood ==
  ASSUME KeptInv, KeptInv', Good, NEW n \in Nodes, NEW m \in Nodes \ {n}, LinkUp(n, m)
  PROVE  Good'
<1>0. LinksOK /\ Apart
  BY DEF KeptInv, TypeInv, Good
<1>1. stage[n][m] = "down" /\ stage[m][n] = "down" /\ UNCHANGED <<world, conns, queue, subs>>
  BY DEF LinkUp
<1>2. \A a \in Nodes : \A b \in Nodes \ {a} :
        stage'[a][b] = IF Ends(a, b, n, m) THEN "linked" ELSE stage[a][b]
  <2>1. BothStaged(n, m, "linked")
    BY DEF BothStaged, LinkUp
  <2> QED BY <1>0, <2>1, BothStagedAt
<1>4. \A a, b : Image(b, a)' = Image(b, a) /\ Blank' = Blank
  BY <1>1 DEF Image, Blank
<1>5. ASSUME NEW a \in Nodes, NEW b \in Nodes \ {a}
      PROVE  /\ Sent(a, b)' <=> Sent(a, b)
             /\ stage'[a][b] \in {"lost", "down"} <=> stage'[b][a] \in {"lost", "down"}
             /\ ~Sent(a, b)' => queue'[a][b] = <<>>
             /\ stage'[a][b] = "linked" \/ stage'[b][a] = "down" => Image(b, a)' = Blank
  <2>1. /\ stage[a][b] \in {"lost", "down"} <=> stage[b][a] \in {"lost", "down"}
        /\ ~Sent(a, b) => queue[a][b] = <<>>
        /\ stage[a][b] = "linked" \/ stage[b][a] = "down" => Image(b, a) = Blank
    BY <1>0 DEF Apart
  <2> QED BY <1>1, <1>2, <1>4, <2>1 DEF Sent, Ends
<1>6. Apart'
  BY <1>4, <1>5 DEF Apart
<1> QED BY <1>1, <1>5, <1>6, StillGood

LEMMA RegisterGood ==
  ASSUME KeptInv, KeptInv', Good, NEW n \in Nodes, NEW m \in Nodes \ {n}, Register(n, m)
  PROVE  Good'
<1>0. LinksOK /\ Apart
  BY DEF KeptInv, TypeInv, Good
<1>1. stage[n][m] = "burst" /\ UNCHANGED <<world, conns, queue, subs>>
  BY DEF Register
<1>2. \A a \in Nodes : \A b \in Nodes \ {a} :
        stage'[a][b] = IF a = n /\ b = m THEN "up" ELSE stage[a][b]
  <2>1. Staged(n, m, "up")
    BY DEF Staged, Register
  <2> QED BY <1>0, <2>1, StagedAt
<1>4. \A a, b : Image(b, a)' = Image(b, a) /\ Blank' = Blank
  BY <1>1 DEF Image, Blank
<1>5. ASSUME NEW a \in Nodes, NEW b \in Nodes \ {a}
      PROVE  /\ Sent(a, b)' <=> Sent(a, b)
             /\ stage'[a][b] \in {"lost", "down"} <=> stage'[b][a] \in {"lost", "down"}
             /\ ~Sent(a, b)' => queue'[a][b] = <<>>
             /\ stage'[a][b] = "linked" \/ stage'[b][a] = "down" => Image(b, a)' = Blank
  <2>1. /\ stage[a][b] \in {"lost", "down"} <=> stage[b][a] \in {"lost", "down"}
        /\ ~Sent(a, b) => queue[a][b] = <<>>
        /\ stage[a][b] = "linked" \/ stage[b][a] = "down" => Image(b, a) = Blank
    BY <1>0 DEF Apart
  <2> QED BY <1>1, <1>2, <1>4, <2>1 DEF Sent
<1>6. Apart'
  BY <1>4, <1>5 DEF Apart
<1> QED BY <1>1, <1>5, <1>6, StillGood

BothEmptied(n, m) == queue' = [queue EXCEPT ![n][m] = <<>>, ![m][n] = <<>>]
LEMMA BothEmptiedAt ==
  ASSUME Mail(queue), NEW n \in Nodes, NEW m \in Nodes \ {n}, BothEmptied(n, m)
  PROVE  \A a \in Nodes : \A b \in Nodes : queue'[a][b] = IF Ends(a, b, n, m) THEN <<>> ELSE queue[a][b]
<1>1. queue \in [Nodes -> [Nodes -> Seq(Envelope)]]
  BY DEF Mail
<1> DEFINE row == [queue[n] EXCEPT ![m] = <<>>]
           line == [queue[m] EXCEPT ![n] = <<>>]
<1>2. queue' = [[queue EXCEPT ![n] = row] EXCEPT ![m] = line]
  BY <1>1 DEF BothEmptied
<1>3. /\ row[m] = <<>> /\ \A b \in Nodes \ {m} : row[b] = queue[n][b]
      /\ line[n] = <<>> /\ \A b \in Nodes \ {n} : line[b] = queue[m][b]
  BY <1>1
<1> HIDE DEF row, line
<1>4. queue'[n] = row /\ queue'[m] = line /\ \A a \in Nodes \ {n, m} : queue'[a] = queue[a]
  BY <1>1, <1>2
<1> QED BY <1>3, <1>4 DEF Ends

LEMMA LinkDownGood ==
  ASSUME KeptInv, KeptInv', Good, ~spoilt', NEW n \in Nodes, NEW m \in Nodes \ {n}, LinkDown(n, m)
  PROVE  Good'
<1>0. TypeInv /\ TypeInv' /\ LinksOK /\ OneOwner /\ Homed /\ Fresh /\ Apart /\ AllSubscribed /\ Traffic
  BY DEF KeptInv, TypeInv, Good
<1>1. /\ UNCHANGED <<world, conns, subs, seen, missed>> /\ ~Orders
      /\ BothStaged(n, m, "lost") /\ BothEmptied(n, m)
  BY DEF LinkDown, Spoil, BothStaged, BothEmptied
<1>2. \A a \in Nodes : \A b \in Nodes \ {a} : stage'[a][b] = IF Ends(a, b, n, m) THEN "lost" ELSE stage[a][b]
  BY <1>0, <1>1, BothStagedAt
<1>3. \A a \in Nodes : \A b \in Nodes : queue'[a][b] = IF Ends(a, b, n, m) THEN <<>> ELSE queue[a][b]
  BY <1>0, <1>1, BothEmptiedAt DEF TypeInv
<1>4. Calm
  BY <1>0, <1>1, Settles
<1>5. /\ \A a \in Nodes : Own(a)' = Own(a)
      /\ \A a, b \in Nodes : Image(b, a)' = Image(b, a)
      /\ \A a, l : Local(a, l)' <=> Local(a, l)
      /\ Blank' = Blank
  BY <1>1 DEF Own, Image, Local, Blank
<1>6. Homed'
  BY <1>0, <1>1, <1>5, HomedStays
<1>7. Fresh'
  BY <1>0, <1>1, FreshStays
<1>8. \A a \in Nodes : \A b \in Nodes \ {a} : Sent(a, b)' => Sent(a, b) /\ ~Ends(a, b, n, m)
  BY <1>2 DEF Sent
<1>9. AllSubscribed'
  BY <1>0, <1>1, <1>5, <1>8 DEF AllSubscribed
<1>10. OneOwner'
  <2>1. \A x \in Nodes, l \in Nicks : world'[x][l] # None => Claims(world'[x][l].home, l)
    BY <1>1 DEF Claims
  <2>2. ASSUME NEW a \in Nodes, NEW b \in Nodes, NEW l \in Nicks, NEW e \in ToSet(queue'[a][b]), About(e, l)
        PROVE  Claims(a, l)
    <3>1. ToSet(<<>>) = {}
      BY DEF ToSet
    <3>2. e \in ToSet(queue[a][b])
      BY <1>3, <2>2, <3>1
    <3> QED BY <2>2, <3>2 DEF Claims
  <2> QED BY <1>0, <2>1, <2>2, OwnersStay
<1>11. Apart'
  <2>1. ASSUME NEW a \in Nodes, NEW b \in Nodes \ {a}
        PROVE  /\ stage'[a][b] \in {"lost", "down"} <=> stage'[b][a] \in {"lost", "down"}
               /\ ~Sent(a, b)' => queue'[a][b] = <<>>
               /\ stage'[a][b] = "linked" \/ stage'[b][a] = "down" => Image(b, a)' = Blank
    <3>1. /\ stage[a][b] \in {"lost", "down"} <=> stage[b][a] \in {"lost", "down"}
          /\ ~Sent(a, b) => queue[a][b] = <<>>
          /\ stage[a][b] = "linked" \/ stage[b][a] = "down" => Image(b, a) = Blank
      BY <1>0 DEF Apart
    <3>2. Ends(a, b, n, m) <=> Ends(b, a, n, m)
      BY DEF Ends
    <3>3. CASE Ends(a, b, n, m)
      BY <1>2, <1>3, <3>2, <3>3
    <3>4. CASE ~Ends(a, b, n, m)
      BY <1>2, <1>3, <1>5, <3>1, <3>2, <3>4 DEF Sent
    <3> QED BY <3>3, <3>4
  <2> QED BY <1>5, <2>1 DEF Apart
<1>12. Calm'
  <2>1. \A a \in Nodes : \A c \in conns'[a] : ~c.told
    BY <1>1, <1>4 DEF Calm
  <2>2. \A a \in Nodes : \A b \in Nodes \ {a} : Sent(a, b)' =>
          Sent(a, b) /\ Image(b, a)' = Image(b, a) /\ Alike(queue[a][b], queue'[a][b])
    BY <1>3, <1>5, <1>8 DEF Alike
  <2> QED BY <1>0, <1>4, <1>5, <2>1, <2>2, CalmAlike
<1> QED BY <1>6, <1>7, <1>9, <1>10, <1>11, <1>12 DEF Good, Traffic

\* The users of a node that does not tell n of them leave n.
LEMMA SquitStays ==
  ASSUME KeptInv, KeptInv', Good, NEW n \in Nodes, NEW p \in Nodes \ {n}, NEW q, Squit(n, p, q),
         Mail(q), conns' = conns, p \in seen[n] \/ ~Sent(p, n),
         \A a \in Nodes : \A b \in Nodes \ {a} : Sent(a, b)' <=> Sent(a, b),
         \A a \in Nodes : \A b \in Nodes \ {a} : ~Sent(a, b) => q[a][b] = queue[a][b],
         \A a, b \in Nodes : Alike(queue[a][b], q[a][b]),
         \A b \in Nodes : q[n][b] = queue[n][b]
  PROVE  /\ OneOwner' /\ Homed' /\ Fresh' /\ Traffic'
         /\ \A a \in Nodes : \A b \in Nodes \ {a} : ~Sent(a, b) => queue'[a][b] = queue[a][b]
         /\ \A a, x \in Nodes : Image(x, a) = Blank => Image(x, a)' = Blank
         /\ p \notin seen[n] => Image(n, p)' = Blank
         /\ \A a \in Nodes, l \in Nicks : Local(a, l)' => Local(a, l) /\ world'[a][l] = world[a][l]
<1>0. TypeInv /\ TypeInv' /\ WorldOK /\ OneOwner /\ Homed /\ Fresh /\ Traffic
  BY DEF KeptInv, TypeInv, Good
<1>1. PICK e : e = Message("SQUIT", None, p, 0)
  OBVIOUS
<1>2. e.cmd = "SQUIT"
  BY <1>1 DEF Message
<1>3. \/ p \in seen[n] /\ world' = world /\ queue' = q
      \/ /\ p \notin seen[n] /\ queue' = Told(q, n, Registered(n) \ {p}, <<e>>)
         /\ world' = [world EXCEPT ![n] = [k \in Nicks |-> IF @[k] # None /\ @[k].home = p THEN None ELSE @[k]]]
  BY <1>1 DEF Squit
<1>4. ASSUME NEW x \in Nodes, NEW l \in Nicks
      PROVE  \/ world'[x][l] = world[x][l]
             \/ x = n /\ world[x][l] # None /\ world[x][l].home = p /\ world'[x][l] = None
  BY <1>0, <1>3 DEF WorldOK
<1>5. p \notin seen[n] => \A l \in Nicks : world'[n][l] = None \/ world'[n][l].home # p
  BY <1>0, <1>3 DEF WorldOK
<1>6. \A a, b \in Nodes : \/ queue'[a][b] = q[a][b]
                          \/ a = n /\ b \in Registered(n) /\ queue'[a][b] = Plus(q[a][b], e)
  BY <1>3, ToldOne
<1>7. \A a, b \in Nodes : Alike(queue[a][b], queue'[a][b])
  BY <1>2, <1>6 DEF Alike
<1>8. \A a \in Nodes : \A b \in Nodes \ {a} : ~Sent(a, b) => queue'[a][b] = queue[a][b]
  <2>1. \A b \in Nodes : b \in Registered(n) => Sent(n, b)
    BY DEF Registered, Sent
  <2> QED BY <1>6, <2>1
<1>9. \A a, x \in Nodes : a # p \/ x # n \/ p \in seen[n] => Image(x, a)' = Image(x, a)
  <2>1. ASSUME NEW a \in Nodes, NEW x \in Nodes, a # p \/ x # n \/ p \in seen[n] PROVE Image(x, a)' = Image(x, a)
    <3>1. \A l \in Nicks : \/ world'[x][l] = world[x][l]
                           \/ world[x][l].home # a /\ world'[x][l] = None
      BY <1>3, <1>4, <2>1
    <3> QED BY <3>1 DEF Image
  <2> QED BY <2>1
<1>10. \A a, x \in Nodes : Image(x, a) = Blank => Image(x, a)' = Blank
  <2>1. ASSUME NEW a \in Nodes, NEW x \in Nodes, Image(x, a) = Blank PROVE Image(x, a)' = Blank
    <3>1. \A l \in Nicks : Image(x, a)[l] = None
      BY <2>1 DEF Blank
    <3>2. \A l \in Nicks : world[x][l] = None \/ world[x][l].home # a
      BY <3>1 DEF Image
    <3>3. \A l \in Nicks : world'[x][l] = None \/ world'[x][l].home # a
      BY <1>4, <3>2
    <3> QED BY <3>3 DEF Image, Blank
  <2> QED BY <2>1
<1>11. p \notin seen[n] => Image(n, p)' = Blank
  BY <1>5 DEF Image, Blank
<1>12. \A a \in Nodes, l \in Nicks : Local(a, l)' \/ Local(a, l) =>
         Local(a, l) /\ Local(a, l)' /\ world'[a][l] = world[a][l]
  BY <1>4 DEF Local
<1>13. \A a \in Nodes : \A c \in conns[a] : Local(a, c.nick) /\ c.nick \in Nicks
  BY <1>0, Shapes DEF Homed, Owns
<1>14. \A a \in Nodes : Own(a)' = Own(a)
  <2>1. \A a \in Nodes : \A l \in Nicks : (\E c \in conns[a] : c.nick = l /\ c.announced) => world'[a][l] = world[a][l]
    BY <1>12, <1>13
  <2> QED BY <2>1 DEF Own
<1>15. Homed'
  BY <1>0, <1>12, HomedStays
<1>16. Fresh'
  BY <1>0, <1>12, <1>13, FreshStays
<1>17. OneOwner'
  <2>1. \A x \in Nodes, l \in Nicks : world'[x][l] # None => Claims(world'[x][l].home, l)
    BY <1>4 DEF Claims
  <2>2. ASSUME NEW a \in Nodes, NEW b \in Nodes, NEW l \in Nicks, NEW f \in ToSet(queue'[a][b]), About(f, l)
        PROVE  Claims(a, l)
    <3>1. f.cmd # "SQUIT"
      BY <2>2 DEF About
    <3>2. queue[a][b] \in Seq(Envelope)
      BY <1>0, Queues DEF TypeInv
    <3>3. f \in ToSet(queue[a][b])
      BY <1>7, <3>1, <3>2, AlikeSet
    <3> QED BY <2>2, <3>3 DEF Claims
  <2> QED BY <1>0, <2>1, <2>2, OwnersStay
<1>18. Traffic'
  <2>1. \A x \in Nodes, l \in Nicks : world'[x][l] = world[x][l] \/ world'[x][l] = None
    BY <1>4
  <2>2. \A a \in Nodes : \A b \in Nodes \ {a} : Sent(a, b)' => Sent(a, b) /\ Image(b, a)' = Image(b, a)
    BY <1>9
  <2> QED BY <1>0, <1>7, <1>14, <2>1, <2>2, TrafficAlike
<1> QED BY <1>8, <1>10, <1>11, <1>12, <1>15, <1>16, <1>17, <1>18

LEMMA OnClosedGood ==
  ASSUME KeptInv, KeptInv', Good, ~spoilt', NEW n \in Nodes, NEW m \in Nodes \ {n}, OnClosed(n, m)
  PROVE  Good'
<1>0. TypeInv /\ TypeInv' /\ LinksOK /\ Apart /\ AllSubscribed
  BY DEF KeptInv, TypeInv, Good
<1>1. /\ stage[n][m] = "lost" /\ Staged(n, m, "down")
      /\ subs' = [subs EXCEPT ![n] = @ \ {m}]
      /\ Squit(n, m, queue) /\ m \notin seen[n] /\ UNCHANGED <<conns, ops, missed>>
  BY DEF OnClosed, Spoil, Staged
<1>2. \A a \in Nodes : \A b \in Nodes \ {a} : stage'[a][b] = IF a = n /\ b = m THEN "down" ELSE stage[a][b]
  BY <1>0, <1>1, StagedAt
<1>3. \A a \in Nodes : \A b \in Nodes \ {a} : Sent(a, b)' <=> Sent(a, b)
  BY <1>1, <1>2 DEF Sent
<1>4. ~Sent(m, n) /\ ~Sent(n, m)
  BY <1>0, <1>1 DEF Apart, Sent
<1>5. /\ OneOwner' /\ Homed' /\ Fresh' /\ Traffic'
      /\ \A a \in Nodes : \A b \in Nodes \ {a} : ~Sent(a, b) => queue'[a][b] = queue[a][b]
      /\ \A a, x \in Nodes : Image(x, a) = Blank => Image(x, a)' = Blank
      /\ Image(n, m)' = Blank
      /\ \A a \in Nodes, l \in Nicks : Local(a, l)' => Local(a, l) /\ world'[a][l] = world[a][l]
  <2>1. Mail(queue) /\ \A a, b \in Nodes : Alike(queue[a][b], queue[a][b])
    BY <1>0 DEF TypeInv, Alike
  <2> QED BY <1>1, <1>3, <1>4, <2>1, SquitStays
<1>6. Apart'
  <2>0. Blank' = Blank
    BY DEF Blank
  <2>1. ASSUME NEW a \in Nodes, NEW b \in Nodes \ {a}
        PROVE  /\ stage'[a][b] \in {"lost", "down"} <=> stage'[b][a] \in {"lost", "down"}
               /\ ~Sent(a, b)' => queue'[a][b] = <<>>
               /\ stage'[a][b] = "linked" \/ stage'[b][a] = "down" => Image(b, a)' = Blank
    <3>1. /\ stage[a][b] \in {"lost", "down"} <=> stage[b][a] \in {"lost", "down"}
          /\ ~Sent(a, b) => queue[a][b] = <<>>
          /\ stage[a][b] = "linked" \/ stage[b][a] = "down" => Image(b, a) = Blank
      BY <1>0 DEF Apart
    <3>2. stage'[a][b] \in {"lost", "down"} <=> stage'[b][a] \in {"lost", "down"}
      BY <1>1, <1>2, <3>1
    <3>3. ~Sent(a, b)' => queue'[a][b] = <<>>
      BY <1>3, <1>5, <3>1
    <3>4. CASE b = n /\ a = m
      BY <1>5, <3>2, <3>3, <3>4
    <3>5. CASE ~(b = n /\ a = m)
      <4>1. stage'[a][b] = "linked" \/ stage'[b][a] = "down" => Image(b, a) = Blank
        BY <1>2, <3>1, <3>5
      <4> QED BY <1>5, <3>2, <3>3, <4>1
    <3> QED BY <3>4, <3>5
  <2> QED BY <2>0, <2>1 DEF Apart
<1>7. AllSubscribed'
  <2>1. \A a \in Nodes : \A b \in Nodes \ {a} : Sent(a, b) /\ b \in subs[a] => b \in subs'[a]
    BY <1>0, <1>1, <1>4 DEF LinksOK
  <2>2. \A a \in Nodes, l \in Nicks : Local(a, l)' /\ world'[a][l].in => Local(a, l) /\ world[a][l].in
    BY <1>5
  <2> QED BY <1>0, <1>3, <2>1, <2>2 DEF AllSubscribed
<1> QED BY <1>5, <1>6, <1>7 DEF Good

-----------------------------------------------------------------------------
(* Messages arrive. *)

LEMMA Delivered ==
  ASSUME TypeInv, Apart, NEW n \in Nodes, NEW m \in Nodes \ {n}, NEW cmd, Arrives(n, m, cmd)
  PROVE  /\ Mail(queue) /\ queue[m][n] # <<>> /\ Sent(m, n) /\ stage[n][m] # "down"
         /\ First(n, m) \in For(n) /\ First(n, m).cmd = cmd
         /\ First(n, m) \in ToSet(queue[m][n])
         /\ \A a, b \in Nodes : \A e \in ToSet(Rest(n, m)[a][b]) : e \in ToSet(queue[a][b])
         /\ \A a, b \in Nodes : \A e \in ToSet(queue[a][b]) :
              e \in ToSet(Rest(n, m)[a][b]) \/ (a = m /\ b = n /\ e = First(n, m))
         /\ \A a \in Nodes : \A b \in Nodes \ {a} : ~Sent(a, b) => Rest(n, m)[a][b] = queue[a][b]
<1>1. Mail(queue) /\ queue[m][n] # <<>> /\ First(n, m).cmd = cmd /\ stage[n][m] # "down"
  BY DEF TypeInv, Arrives
<1>2. Sent(m, n)
  BY <1>1 DEF Apart
<1>3. First(n, m) \in For(n)
  BY <1>1, FirstMail
<1>4. /\ First(n, m) \in ToSet(queue[m][n])
      /\ \A a, b \in Nodes : \A e \in ToSet(Rest(n, m)[a][b]) : e \in ToSet(queue[a][b])
      /\ \A a, b \in Nodes : \A e \in ToSet(queue[a][b]) :
           e \in ToSet(Rest(n, m)[a][b]) \/ (a = m /\ b = n /\ e = First(n, m))
  BY <1>1, RestSet
<1>5. \A a \in Nodes : \A b \in Nodes \ {a} : ~Sent(a, b) => Rest(n, m)[a][b] = queue[a][b]
  BY <1>1, <1>2, RestAt
<1> QED BY <1>1, <1>2, <1>3, <1>4, <1>5

LEMMA SquitArrivesGood ==
  ASSUME KeptInv, KeptInv', Good, ~spoilt', NEW n \in Nodes, NEW m \in Nodes \ {n}, SquitArrives(n, m)
  PROVE  Good'
<1>0. TypeInv /\ TypeInv' /\ Apart /\ AllSubscribed
  BY DEF KeptInv, Good
<1>1. PICK p, q : p = First(n, m).to /\ q = Rest(n, m)
  OBVIOUS
<1>2. /\ Arrives(n, m, "SQUIT") /\ p # n /\ Squit(n, p, q)
      /\ p \in seen[n] \/ stage[n][p] = "down"
      /\ UNCHANGED <<conns, stage, subs>>
  BY <1>1 DEF SquitArrives, Spoil
<1>3. /\ queue[m][n] # <<>> /\ Sent(m, n) /\ First(n, m) \in For(n) /\ First(n, m).cmd = "SQUIT"
      /\ \A a \in Nodes : \A b \in Nodes \ {a} : ~Sent(a, b) => q[a][b] = queue[a][b]
  <2>1. \A a \in Nodes : \A b \in Nodes \ {a} : ~Sent(a, b) => Rest(n, m)[a][b] = queue[a][b]
    BY <1>0, <1>2, Delivered
  <2>2. queue[m][n] # <<>> /\ Sent(m, n) /\ First(n, m) \in For(n) /\ First(n, m).cmd = "SQUIT"
    BY <1>0, <1>2, Delivered
  <2> QED BY <1>1, <2>1, <2>2
<1>4. p \in Nodes \ {n}
  BY <1>1, <1>3 DEF For
<1>5. p \in seen[n] \/ ~Sent(p, n)
  BY <1>0, <1>2, <1>4 DEF Apart, Sent
<1>6. Mail(q)
  BY <1>0, <1>1, <1>3, FirstMail DEF TypeInv
<1>7. \A a, b \in Nodes : q[a][b] = IF a = m /\ b = n THEN Tail(queue[m][n]) ELSE queue[a][b]
  BY <1>0, <1>1, RestAt DEF TypeInv
<1>8. \A a, b \in Nodes : Alike(queue[a][b], q[a][b])
  BY <1>3, <1>7 DEF Alike, First
<1>9. \A a \in Nodes : \A b \in Nodes \ {a} : Sent(a, b)' <=> Sent(a, b)
  BY <1>2 DEF Sent
<1>10. \A b \in Nodes : q[n][b] = queue[n][b]
  BY <1>7
<1>11. /\ OneOwner' /\ Homed' /\ Fresh' /\ Traffic'
       /\ \A a \in Nodes : \A b \in Nodes \ {a} : ~Sent(a, b) => queue'[a][b] = queue[a][b]
       /\ \A a, x \in Nodes : Image(x, a) = Blank => Image(x, a)' = Blank
       /\ \A a \in Nodes, l \in Nicks : Local(a, l)' => Local(a, l) /\ world'[a][l] = world[a][l]
  <2>1. conns' = conns /\ Squit(n, p, q)
    BY <1>2
  <2>2. \A a \in Nodes : \A b \in Nodes \ {a} : ~Sent(a, b) => q[a][b] = queue[a][b]
    BY <1>3
  <2> QED BY <1>4, <1>5, <1>6, <1>8, <1>9, <1>10, <2>1, <2>2, SquitStays
<1>12. Apart'
  BY <1>0, <1>2, <1>11, ApartStays
<1>13. AllSubscribed'
  <2>1. \A a \in Nodes, l \in Nicks : Local(a, l)' /\ world'[a][l].in => Local(a, l) /\ world[a][l].in
    BY <1>11
  <2> QED BY <1>0, <1>2, <2>1, SubscribedStay
<1> QED BY <1>11, <1>12, <1>13 DEF Good

LEMMA ImageTyped ==
  ASSUME TypeInv, TypeInv', NEW n \in Nodes, NEW m \in Nodes
  PROVE  Image(n, m) \in Views /\ Image(n, m)' \in Views
<1>1. world'[n] \in [Nicks -> Record \cup {None}]
  BY DEF TypeInv, WorldOK
<1>2. Image(n, m)' \in Views
  BY <1>1 DEF Image, Views
<1> QED BY <1>2, ViewTypes DEF TypeInv

\* What is no order comes when there are none.
LEMMA Ordinary ==
  ASSUME TypeInv, Apart, Traffic, NEW n \in Nodes, NEW m \in Nodes \ {n},
         NEW cmd \in {"NICK", "RENAME", "JOIN", "PART"}, Arrives(n, m, cmd)
  PROVE  Calm /\ \E z \in Views : Turn(m, First(n, m), Image(n, m), z)
<1>1. /\ Mail(queue) /\ queue[m][n] # <<>> /\ Sent(m, n)
      /\ First(n, m).cmd = cmd /\ First(n, m) \in ToSet(queue[m][n])
  BY Delivered
<1>2. Calm
  BY <1>1 DEF Traffic, Kicking, Killing, Order
<1>3. Path(queue[m][n], m, Image(n, m), Own(m))
  BY <1>1, <1>2 DEF Calm
<1>4. queue[m][n] \in Seq(Envelope)
  BY <1>1, Queues
<1>5. \E z \in Views : Turn(m, Head(queue[m][n]), Image(n, m), z)
  BY <1>1, <1>3, <1>4, PathShorter
<1> QED BY <1>2, <1>5 DEF First

LEMMA OwnersArrive ==
  ASSUME TypeInv, Apart, OneOwner, NEW n \in Nodes, NEW m \in Nodes \ {n}, NEW cmd, Arrives(n, m, cmd),
         queue' = Rest(n, m),
         \A x \in Nodes, l \in Nicks : world'[x][l] # None => Claims(world'[x][l].home, l)
  PROVE  OneOwner'
<1>1. \A a, b \in Nodes : \A e \in ToSet(queue'[a][b]) : e \in ToSet(queue[a][b])
  BY Delivered
<1>2. \A a, b \in Nodes, l \in Nicks : \A e \in ToSet(queue'[a][b]) : About(e, l) => Claims(a, l)
  BY <1>1 DEF Claims
<1> QED BY <1>2, OwnersStay

LEMMA NickArrivesGood ==
  ASSUME KeptInv, KeptInv', Good, NEW n \in Nodes, NEW m \in Nodes \ {n}, NickArrives(n, m)
  PROVE  Good'
<1>0. TypeInv /\ TypeInv' /\ WorldOK /\ OneOwner /\ Homed /\ Fresh /\ Apart /\ AllSubscribed /\ Traffic
  BY DEF KeptInv, TypeInv, Good
<1>1. PICK e, k, r : e = First(n, m) /\ k = e.nick /\ r = Record0(m, e.ts)
  OBVIOUS
<1>2. /\ Arrives(n, m, "NICK") /\ world[n][k] = None
      /\ world' = [world EXCEPT ![n][k] = r] /\ queue' = Rest(n, m)
      /\ UNCHANGED <<conns, stage, subs, seen, missed>>
  BY <1>1 DEF NickArrives, Record0
<1>3. /\ queue[m][n] # <<>> /\ Sent(m, n) /\ stage[n][m] # "down"
      /\ e \in For(n) /\ e.cmd = "NICK" /\ e \in ToSet(queue[m][n])
  BY <1>0, <1>1, <1>2, Delivered
<1>4. \A a \in Nodes : \A b \in Nodes \ {a} : ~Sent(a, b) => queue'[a][b] = queue[a][b]
  BY <1>0, <1>2, Delivered
<1>5. Calm
  BY <1>0, <1>2, Ordinary
<1>6. k \in Nicks /\ r \in Record /\ r.home = m /\ r # None
  <2>1. k \in Nicks /\ e.ts \in TS
    BY <1>1, <1>3 DEF For
  <2>2. r \in Record /\ r.home = m
    BY <1>1, <2>1 DEF Record0, Record
  <2> QED BY <2>1, <2>2, Facts
<1>7. /\ world'[n][k] = r /\ \A l \in Nicks \ {k} : world'[n][l] = world[n][l]
      /\ \A x \in Nodes \ {n} : world'[x] = world[x]
  BY <1>0, <1>2, <1>6 DEF WorldOK
<1>8. OneOwner'
  <2>1. Claims(m, k)
    BY <1>1, <1>3 DEF Claims, About
  <2>2. \A x \in Nodes, l \in Nicks : world'[x][l] # None => Claims(world'[x][l].home, l)
    BY <1>6, <1>7, <2>1 DEF Claims
  <2> QED BY <1>0, <1>2, <2>2, OwnersArrive
<1>9. \A x \in Nodes, l \in Nicks : Local(x, l)' \/ Local(x, l) =>
         Local(x, l) /\ Local(x, l)' /\ world'[x][l] = world[x][l]
  BY <1>2, <1>6, <1>7 DEF Local
<1>10. \A a \in Nodes : \A c \in conns[a] : Local(a, c.nick) /\ c.nick \in Nicks
  BY <1>0, Shapes DEF Homed, Owns
<1>11. Homed'
  BY <1>0, <1>2, <1>9, HomedStays
<1>12. Fresh'
  BY <1>0, <1>2, <1>9, <1>10, FreshStays
<1>13. AllSubscribed'
  BY <1>0, <1>2, <1>9, SubscribedStay
<1>14. \A a \in Nodes : \A b \in Nodes \ {a} : a # m \/ b # n => Image(b, a)' = Image(b, a)
  <2>1. ASSUME NEW a \in Nodes, NEW b \in Nodes \ {a}, a # m \/ b # n PROVE Image(b, a)' = Image(b, a)
    <3>1. \A l \in Nicks : \/ world'[b][l] = world[b][l]
                           \/ world[b][l] = None /\ world'[b][l].home # a
      BY <1>2, <1>6, <1>7, <2>1
    <3> QED BY <3>1 DEF Image
  <2> QED BY <2>1
<1>15. Apart'
  BY <1>0, <1>2, <1>3, <1>4, <1>14, ApartStays
<1>16. \A a \in Nodes : Own(a)' = Own(a)
  <2>1. \A a \in Nodes : \A l \in Nicks : (\E c \in conns[a] : c.nick = l /\ c.announced) => world'[a][l] = world[a][l]
    BY <1>9, <1>10
  <2> QED BY <1>2, <2>1 DEF Own
<1>17. Calm'
  <2>1. PICK u, v : u = Image(n, m) /\ v = Image(n, m)'
    OBVIOUS
  <2>2. u \in Views /\ v \in Views
    BY <1>0, <2>1, ImageTyped
  <2>3. v[k] = r /\ \A l \in Nicks \ {k} : v[l] = u[l]
    BY <1>6, <1>7, <2>1 DEF Image
  <2>4. v = Put(u, k, r)
    BY <1>6, <2>2, <2>3, IsPut
  <2>5. \A z \in Views : Turn(m, First(n, m), Image(n, m), z) => Image(n, m)' = z
    BY <1>1, <1>3, <2>1, <2>4 DEF Turn
  <2>6. \A a \in Nodes : \A c \in conns'[a] : ~c.told
    BY <1>2, <1>5 DEF Calm
  <2> QED BY <1>0, <1>2, <1>3, <1>5, <1>14, <1>16, <2>5, <2>6, CalmArrives
<1> QED BY <1>8, <1>11, <1>12, <1>13, <1>15, <1>17 DEF Good, Traffic

LEMMA RenameArrivesGood ==
  ASSUME KeptInv, KeptInv', Good, ~spoilt', NEW n \in Nodes, NEW m \in Nodes \ {n}, RenameArrives(n, m)
  PROVE  Good'
<1>0. TypeInv /\ TypeInv' /\ WorldOK /\ OneOwner /\ Homed /\ Fresh /\ Apart /\ AllSubscribed /\ Traffic
  BY DEF KeptInv, TypeInv, Good
<1>1. PICK e, k, to : e = First(n, m) /\ k = e.nick /\ to = e.to
  OBVIOUS
<1>2. /\ Arrives(n, m, "RENAME") /\ queue' = Rest(n, m)
      /\ UNCHANGED <<conns, stage, subs, seen, missed>>
  BY DEF RenameArrives
<1>3. /\ queue[m][n] # <<>> /\ Sent(m, n) /\ stage[n][m] # "down"
      /\ e \in For(n) /\ e.cmd = "RENAME" /\ e \in ToSet(queue[m][n])
  BY <1>0, <1>1, <1>2, Delivered
<1>4. \A a \in Nodes : \A b \in Nodes \ {a} : ~Sent(a, b) => queue'[a][b] = queue[a][b]
  BY <1>0, <1>2, Delivered
<1>5. Calm /\ \E z \in Views : Turn(m, e, Image(n, m), z)
  BY <1>0, <1>1, <1>2, Ordinary
<1>6. k \in Nicks /\ to \in Nicks
  BY <1>1, <1>3 DEF For
<1>7. Image(n, m)[k] # None /\ Image(n, m)[to] = None
  BY <1>1, <1>3, <1>5 DEF Turn
<1>8. world[n][k] # None /\ world[n][k].home = m /\ Image(n, m)[k] = world[n][k]
  BY <1>6, <1>7 DEF Image
<1>9. world[n][to] = None /\ world' = [world EXCEPT ![n][to] = world[n][k], ![n][k] = None]
  <2>1. Remote(n, k)
    BY <1>8 DEF Remote
  <2> QED BY <1>1, <2>1 DEF RenameArrives, Spoil
<1>10. /\ k # to /\ world'[n][to] = world[n][k] /\ world'[n][k] = None
       /\ \A l \in Nicks \ {k, to} : world'[n][l] = world[n][l]
       /\ \A x \in Nodes \ {n} : world'[x] = world[x]
  BY <1>0, <1>6, <1>8, <1>9 DEF WorldOK
<1>11. OneOwner'
  <2>1. Claims(m, to) /\ Claims(m, k)
    BY <1>1, <1>3 DEF Claims, About
  <2>2. \A x \in Nodes, l \in Nicks : world'[x][l] # None => Claims(world'[x][l].home, l)
    BY <1>8, <1>10, <2>1 DEF Claims
  <2> QED BY <1>0, <1>2, <2>2, OwnersArrive
<1>12. \A x \in Nodes, l \in Nicks : Local(x, l)' \/ Local(x, l) =>
         Local(x, l) /\ Local(x, l)' /\ world'[x][l] = world[x][l]
  BY <1>8, <1>9, <1>10 DEF Local
<1>13. \A a \in Nodes : \A c \in conns[a] : Local(a, c.nick) /\ c.nick \in Nicks
  BY <1>0, Shapes DEF Homed, Owns
<1>14. Homed'
  BY <1>0, <1>2, <1>12, HomedStays
<1>15. Fresh'
  BY <1>0, <1>2, <1>12, <1>13, FreshStays
<1>16. AllSubscribed'
  BY <1>0, <1>2, <1>12, SubscribedStay
<1>17. \A a \in Nodes : \A b \in Nodes \ {a} : a # m \/ b # n => Image(b, a)' = Image(b, a)
  <2>1. ASSUME NEW a \in Nodes, NEW b \in Nodes \ {a}, a # m \/ b # n PROVE Image(b, a)' = Image(b, a)
    <3>1. \A l \in Nicks : \/ world'[b][l] = world[b][l]
                           \/ /\ world[b][l] = None \/ world[b][l].home # a
                              /\ world'[b][l] = None \/ world'[b][l].home # a
      BY <1>8, <1>9, <1>10, <2>1
    <3> QED BY <3>1 DEF Image
  <2> QED BY <2>1
<1>18. Apart'
  BY <1>0, <1>2, <1>3, <1>4, <1>17, ApartStays
<1>19. \A a \in Nodes : Own(a)' = Own(a)
  <2>1. \A a \in Nodes : \A l \in Nicks : (\E c \in conns[a] : c.nick = l /\ c.announced) => world'[a][l] = world[a][l]
    BY <1>12, <1>13
  <2> QED BY <1>2, <2>1 DEF Own
<1>20. Calm'
  <2>1. PICK u, v : u = Image(n, m) /\ v = Image(n, m)'
    OBVIOUS
  <2>2. u \in Views /\ v \in Views
    BY <1>0, <2>1, ImageTyped
  <2>3. v[k] = None /\ v[to] = u[k] /\ \A l \in Nicks \ {k, to} : v[l] = u[l]
    BY <1>6, <1>8, <1>10, <2>1 DEF Image
  <2>4. PICK w : w = Put(u, to, u[k])
    OBVIOUS
  <2>5. u[k] \in Record \cup {None}
    BY <1>6, <2>2 DEF Views
  <2>6. w \in Views /\ w[to] = u[k] /\ \A l \in Nicks \ {to} : w[l] = u[l]
    BY <1>6, <2>2, <2>4, <2>5, PutAt
  <2>7. \A l \in Nicks \ {k} : v[l] = w[l]
    BY <2>3, <2>6
  <2>8. v = Put(w, k, None)
    BY <1>6, <2>2, <2>3, <2>6, <2>7, IsPut
  <2>9. \A z \in Views : Turn(m, First(n, m), Image(n, m), z) => Image(n, m)' = z
    BY <1>1, <1>3, <2>1, <2>4, <2>8 DEF Turn
  <2>10. \A a \in Nodes : \A c \in conns'[a] : ~c.told
    BY <1>2, <1>5 DEF Calm
  <2> QED BY <1>0, <1>2, <1>3, <1>5, <1>17, <1>19, <2>9, <2>10, CalmArrives
<1> QED BY <1>11, <1>14, <1>15, <1>16, <1>18, <1>20 DEF Good, Traffic

\* A member of the channel, as its own node says.
LEMMA FlipArrives ==
  ASSUME KeptInv, KeptInv', Good, NEW n \in Nodes, NEW m \in Nodes \ {n}, NEW cmd, Arrives(n, m, cmd),
         NEW b \in BOOLEAN, (cmd = "JOIN" /\ b) \/ (cmd = "PART" /\ ~b),
         Flips(n, First(n, m).nick, b), queue' = Rest(n, m), conns' = conns, stage' = stage,
         \A a \in Nodes : \A x \in Nodes \ {a} : x \in subs[a] => x \in subs'[a],
         world[n][First(n, m).nick].home = m, Calm
  PROVE  Good'
<1>0. TypeInv /\ TypeInv' /\ WorldOK /\ OneOwner /\ Homed /\ Apart
  BY DEF KeptInv, TypeInv, Good
<1>1. PICK e, k, r : e = First(n, m) /\ k = e.nick /\ r = Within(world[n][k], b)
  OBVIOUS
<1>2. /\ queue[m][n] # <<>> /\ Sent(m, n) /\ e \in For(n) /\ e.cmd = cmd
  BY <1>0, <1>1, Delivered
<1>3. \A a \in Nodes : \A x \in Nodes \ {a} : ~Sent(a, x) => queue'[a][x] = queue[a][x]
  BY <1>0, Delivered
<1>4. k \in Nicks
  BY <1>1, <1>2 DEF For
<1>5. Flips(n, k, b) /\ world[n][k].home = m /\ world[n][k] # None
  BY <1>1 DEF Flips
<1>6. /\ world'[n][k] = r /\ r \in Record /\ r # None /\ r.home = m
      /\ \A l \in Nicks \ {k} : world'[n][l] = world[n][l]
      /\ \A x \in Nodes \ {n} : world'[x] = world[x]
  BY <1>0, <1>1, <1>4, <1>5, InAt
<1>7. /\ \A x \in Nodes, l \in Nicks : world[x][l] # None => world'[x][l].home = world[x][l].home
      /\ \A x \in Nodes, l \in Nicks : world'[x][l] = None <=> world[x][l] = None
      /\ \A a, x \in Nodes : x # n \/ world[n][k].home # a => Image(x, a)' = Image(x, a)
  BY <1>0, <1>4, <1>5, InStays
<1>8. ~Local(n, k) /\ \A c \in conns[n] : c.nick # k
  <2>1. ~Local(n, k)
    BY <1>5 DEF Local
  <2> QED BY <1>0, <2>1 DEF Homed, Owns
<1>9. Homed' /\ Fresh' /\ Apart' /\ AllSubscribed'
  BY <1>3, <1>4, <1>5, <1>8, FlipStays
<1>10. OneOwner'
  <2>1. \A x \in Nodes, l \in Nicks : world'[x][l] # None => Claims(world'[x][l].home, l)
    BY <1>7 DEF Claims
  <2> QED BY <1>0, <2>1, OwnersArrive
<1>11. \A a \in Nodes : Own(a)' = Own(a)
  <2>1. \A a \in Nodes : \A l \in Nicks : (\E c \in conns[a] : c.nick = l /\ c.announced) => world'[a][l] = world[a][l]
    BY <1>6, <1>8
  <2> QED BY <2>1 DEF Own
<1>12. \A a \in Nodes : \A x \in Nodes \ {a} : a # m \/ x # n => Image(x, a)' = Image(x, a)
  BY <1>5, <1>7
<1>13. \A z \in Views : Turn(m, First(n, m), Image(n, m), z) => Image(n, m)' = z
  <2>1. PICK u, v : u = Image(n, m) /\ v = Image(n, m)'
    OBVIOUS
  <2>2. u \in Views /\ v \in Views
    BY <1>0, <2>1, ImageTyped
  <2>3. u[k] = world[n][k] /\ v[k] = r /\ \A l \in Nicks \ {k} : v[l] = u[l]
    BY <1>4, <1>5, <1>6, <2>1 DEF Image
  <2>4. v = Put(u, k, r)
    BY <1>4, <1>6, <2>2, <2>3, IsPut
  <2>5. CASE cmd = "JOIN" /\ b
    <3>1. b = TRUE
      BY <2>5, Zenon
    <3>2. r = Within(u[k], TRUE)
      BY <1>1, <2>3, <3>1
    <3> QED BY <1>1, <1>2, <2>1, <2>4, <2>5, <3>2 DEF Turn
  <2>6. CASE cmd = "PART" /\ ~b
    <3>1. b = FALSE
      BY <2>6, Zenon
    <3>2. r = Within(u[k], FALSE)
      BY <1>1, <2>3, <3>1
    <3> QED BY <1>1, <1>2, <2>1, <2>4, <2>6, <3>2 DEF Turn
  <2> QED BY <2>5, <2>6
<1>14. Calm'
  <2>1. \A a \in Nodes : \A c \in conns'[a] : ~c.told
    BY DEF Calm
  <2> QED BY <1>0, <1>2, <1>11, <1>12, <1>13, <2>1, CalmArrives
<1> QED BY <1>9, <1>10, <1>14 DEF Good, Traffic

LEMMA JoinArrivesGood ==
  ASSUME KeptInv, KeptInv', Good, NEW n \in Nodes, NEW m \in Nodes \ {n}, JoinArrives(n, m)
  PROVE  Good'
<1>0. TypeInv /\ Apart /\ Traffic
  BY DEF KeptInv, Good
<1>1. PICK e, k : e = First(n, m) /\ k = e.nick
  OBVIOUS
<1>2. Arrives(n, m, "JOIN") /\ queue' = Rest(n, m) /\ conns' = conns /\ stage' = stage
  BY DEF JoinArrives
<1>3. Calm /\ \E z \in Views : Turn(m, e, Image(n, m), z)
  BY <1>0, <1>1, <1>2, Ordinary
<1>4. e.cmd = "JOIN" /\ k \in Nicks
  <2>1. e \in For(n) /\ e.cmd = "JOIN"
    BY <1>0, <1>1, <1>2, Delivered
  <2> QED BY <1>1, <2>1 DEF For
<1>5. Image(n, m)[k] # None
  BY <1>1, <1>3, <1>4 DEF Turn
<1>6. world[n][k] # None /\ world[n][k].home = m
  BY <1>4, <1>5 DEF Image
<1>7. Remote(n, k)
  BY <1>6 DEF Remote
<1>8. world' = [world EXCEPT ![n][k].in = TRUE] /\ subs' = [subs EXCEPT ![n] = @ \cup {m}]
  BY <1>1, <1>7 DEF JoinArrives
<1>9. Flips(n, First(n, m).nick, TRUE)
  BY <1>1, <1>6, <1>8 DEF Flips
<1>10. \A a \in Nodes : \A x \in Nodes \ {a} : x \in subs[a] => x \in subs'[a]
  BY <1>0, <1>8 DEF TypeInv, LinksOK
<1>11. world[n][First(n, m).nick].home = m
  BY <1>1, <1>6
<1> QED BY <1>2, <1>3, <1>9, <1>10, <1>11, FlipArrives

LEMMA PartArrivesGood ==
  ASSUME KeptInv, KeptInv', Good, NEW n \in Nodes, NEW m \in Nodes \ {n}, PartArrives(n, m)
  PROVE  Good'
<1>0. TypeInv /\ Apart /\ Traffic
  BY DEF KeptInv, Good
<1>1. PICK e, k : e = First(n, m) /\ k = e.nick
  OBVIOUS
<1>2. Arrives(n, m, "PART") /\ queue' = Rest(n, m) /\ conns' = conns /\ stage' = stage /\ subs' = subs
  BY DEF PartArrives
<1>3. Calm /\ \E z \in Views : Turn(m, e, Image(n, m), z)
  BY <1>0, <1>1, <1>2, Ordinary
<1>4. e.cmd = "PART" /\ k \in Nicks
  <2>1. e \in For(n) /\ e.cmd = "PART"
    BY <1>0, <1>1, <1>2, Delivered
  <2> QED BY <1>1, <2>1 DEF For
<1>5. Image(n, m)[k] # None
  BY <1>1, <1>3, <1>4 DEF Turn
<1>6. world[n][k] # None /\ world[n][k].home = m
  BY <1>4, <1>5 DEF Image
<1>7. Remote(n, k)
  BY <1>6 DEF Remote
<1>8. world' = [world EXCEPT ![n][k].in = FALSE]
  BY <1>1, <1>7 DEF PartArrives
<1>9. Flips(n, First(n, m).nick, FALSE)
  BY <1>1, <1>6, <1>8 DEF Flips
<1>11. world[n][First(n, m).nick].home = m
  BY <1>1, <1>6
<1> QED BY <1>2, <1>3, <1>9, <1>11, FlipArrives

LEMMA Popped ==
  ASSUME TypeInv, Apart, NEW n \in Nodes, NEW m \in Nodes \ {n}, NEW cmd, Arrives(n, m, cmd)
  PROVE  queue' = Rest(n, m) =>
           /\ \A a, b \in Nodes : \A e \in ToSet(queue'[a][b]) : e \in ToSet(queue[a][b])
           /\ \A a, b \in Nodes : \A e \in ToSet(queue[a][b]) :
                e \in ToSet(queue'[a][b]) \/ (a = m /\ b = n /\ e = First(n, m))
<1>1. Mail(queue) /\ queue[m][n] # <<>>
  BY DEF TypeInv, Arrives
<1>2. \A a, b \in Nodes : \A e \in ToSet(Rest(n, m)[a][b]) : e \in ToSet(queue[a][b])
  BY <1>1, RestSet, SMTT(40)
<1>3. \A a, b \in Nodes : \A e \in ToSet(queue[a][b]) :
        e \in ToSet(Rest(n, m)[a][b]) \/ (a = m /\ b = n /\ e = First(n, m))
  BY <1>1, RestSet
<1> QED BY <1>2, <1>3

LEMMA KillingStays ==
  ASSUME TypeInv, Apart, NEW o \in Nodes, NEW h \in Nodes, NEW k \in Nicks, Killing(o, h, k),
         NEW n \in Nodes, NEW m \in Nodes \ {n}, NEW cmd, Arrives(n, m, cmd),
         queue' = Rest(n, m), stage' = stage,
         \A a \in Nodes : \A c \in conns'[a] : c.told => a = h /\ c.nick = k,
         Alone(h, k) => Alone(h, k)',
         \A x \in Nodes \ {n} : world'[x] = world[x],
         \/ world'[n][k] = None
         \/ /\ world'[n][k] = world[n][k]
            /\ cmd # "KILL" \/ (n = h /\ Alone(h, k)'),
         \A a \in Nodes : Own(a)' = Own(a),
         \A a \in Nodes : \A b \in Nodes \ {a} : \A j \in Nicks \ {k} : Image(b, a)'[j] = Image(b, a)[j]
  PROVE  Killing(o, h, k)'
<1>1. /\ First(n, m).cmd = cmd
      /\ \A a, b \in Nodes : \A e \in ToSet(queue'[a][b]) : e \in ToSet(queue[a][b])
      /\ \A a, b \in Nodes : \A e \in ToSet(queue[a][b]) :
           e \in ToSet(queue'[a][b]) \/ (a = m /\ b = n /\ e = First(n, m))
  BY Popped DEF Arrives
<1>2. \A a \in Nodes : \A b \in Nodes \ {a} : \A e \in ToSet(queue'[a][b]) :
        \/ e.cmd = "SQUIT" \/ (a = o /\ Order(e, "KILL", k))
        \/ a = h /\ Order(e, "QUIT", k)
  <2>1. \A a, b \in Nodes : \A e \in ToSet(queue'[a][b]) : e \in ToSet(queue[a][b])
    BY <1>1
  <2>2. \A a \in Nodes : \A b \in Nodes \ {a} : \A e \in ToSet(queue[a][b]) :
          \/ e.cmd = "SQUIT" \/ (a = o /\ Order(e, "KILL", k))
          \/ a = h /\ Order(e, "QUIT", k)
    BY DEF Killing
  <2> QED BY <2>1, <2>2
<1>3. ASSUME NEW x \in Nodes, world'[x][k] # None
      PROVE  /\ world'[x][k].home = h
             /\ \/ x # o /\ \E e \in ToSet(queue'[o][x]) : Order(e, "KILL", k)
                \/ x = h /\ Alone(h, k)'
  <2>1. world'[x][k] = world[x][k]
    BY <1>3
  <2>2. /\ world[x][k].home = h
        /\ \/ x # o /\ \E e \in ToSet(queue[o][x]) : Order(e, "KILL", k)
           \/ x = h /\ Alone(h, k)
    BY <1>3, <2>1 DEF Killing
  <2>3. CASE x = h /\ Alone(h, k)
    BY <2>1, <2>2, <2>3
  <2>4. ASSUME x # o, NEW e \in ToSet(queue[o][x]), Order(e, "KILL", k)
        PROVE  \/ x # o /\ \E f \in ToSet(queue'[o][x]) : Order(f, "KILL", k)
               \/ x = h /\ Alone(h, k)'
    <3>1. CASE e \in ToSet(queue'[o][x])
      BY <2>4, <3>1
    <3>2. CASE x = n /\ e = First(n, m)
      <4>1. cmd = "KILL"
        BY <1>1, <2>4, <3>2 DEF Order
      <4> QED BY <1>3, <3>2, <4>1
    <3> QED BY <1>1, <3>1, <3>2
  <2> QED BY <2>1, <2>2, <2>3, <2>4
<1>4. ASSUME NEW a \in Nodes, NEW b \in Nodes \ {a}, Sent(a, b)', NEW j \in Nicks \ {k}
      PROVE  Image(b, a)'[j] = Own(a)'[j]
  <2>1. Sent(a, b)
    BY <1>4 DEF Sent
  <2>2. Image(b, a)[j] = Own(a)[j]
    BY <2>1 DEF Killing
  <2> QED BY <2>2
<1> QED BY <1>2, <1>3, <1>4 DEF Killing, Order

\* A message arrives that changes nothing.
LEMMA Idle ==
  ASSUME KeptInv, KeptInv', Good, NEW n \in Nodes, NEW m \in Nodes \ {n}, NEW cmd, Arrives(n, m, cmd),
         queue' = Rest(n, m), UNCHANGED <<world, conns, stage, subs>>
  PROVE  /\ OneOwner' /\ Homed' /\ Fresh' /\ Apart' /\ AllSubscribed'
         /\ \A a \in Nodes : Own(a)' = Own(a)
         /\ \A a, b \in Nodes : Image(b, a)' = Image(b, a)
<1>0. TypeInv /\ OneOwner /\ Apart
  BY DEF KeptInv, Good
<1>1. \A a \in Nodes : \A b \in Nodes \ {a} : ~Sent(a, b) => queue'[a][b] = queue[a][b]
  BY <1>0, Delivered
<1>2. OneOwner'
  <2>1. \A x \in Nodes, l \in Nicks : world'[x][l] # None => Claims(world'[x][l].home, l)
    BY DEF Claims
  <2> QED BY <1>0, <2>1, OwnersArrive
<1>3. /\ Homed' /\ Fresh' /\ Apart' /\ AllSubscribed'
      /\ \A a \in Nodes : Own(a)' = Own(a)
      /\ \A a, b \in Nodes : Image(b, a)' = Image(b, a)
  BY <1>1, ToldStays
<1> QED BY <1>2, <1>3

LEMMA QuitArrivesGood ==
  ASSUME KeptInv, KeptInv', Good, NEW n \in Nodes, NEW m \in Nodes \ {n}, QuitArrives(n, m)
  PROVE  Good'
<1>0. TypeInv /\ TypeInv' /\ OneOwner /\ Homed /\ Apart /\ Traffic
  BY DEF KeptInv, Good
<1>1. PICK e, k : e = First(n, m) /\ k = e.nick
  OBVIOUS
<1>2. Arrives(n, m, "QUIT") /\ queue' = Rest(n, m) /\ UNCHANGED <<conns, stage, subs>>
  BY DEF QuitArrives
<1>3. /\ queue[m][n] # <<>> /\ Sent(m, n) /\ e \in For(n) /\ e.cmd = "QUIT" /\ e \in ToSet(queue[m][n])
  BY <1>0, <1>1, <1>2, Delivered
<1>4. \A a \in Nodes : \A b \in Nodes \ {a} : ~Sent(a, b) => queue'[a][b] = queue[a][b]
  BY <1>0, <1>2, Delivered
<1>5. k \in Nicks
  BY <1>1, <1>3 DEF For
<1>6. Remote(n, k) => world[n][k].home = m
  <2>1. Claims(m, k)
    BY <1>1, <1>3 DEF Claims, About
  <2>2. Remote(n, k) => Claims(world[n][k].home, k) /\ world[n][k].home \in Nodes
    BY <1>0, <1>5, Shapes DEF Claims, Remote
  <2> QED BY <1>0, <1>5, <2>1, <2>2 DEF OneOwner
<1>7. /\ OneOwner' /\ Homed' /\ Fresh' /\ Apart' /\ AllSubscribed'
      /\ \A a \in Nodes : Own(a)' = Own(a)
      /\ \A x \in Nodes \ {n} : world'[x] = world[x]
      /\ world'[n][k] = None \/ world'[n][k] = world[n][k]
      /\ \A a \in Nodes : \A b \in Nodes \ {a} : \A j \in Nicks \ {k} : Image(b, a)'[j] = Image(b, a)[j]
      /\ \A a \in Nodes : \A b \in Nodes \ {a} : a # m \/ b # n => Image(b, a)' = Image(b, a)
      /\ Image(n, m)'[k] = None
  <2>1. CASE Remote(n, k)
    <3>1. Goes(n, k)
      BY <1>1, <2>1 DEF QuitArrives, Goes
    <3>2. /\ Homed' /\ Fresh' /\ Apart' /\ AllSubscribed'
          /\ world'[n][k] = None /\ \A l \in Nicks \ {k} : world'[n][l] = world[n][l]
          /\ \A x \in Nodes \ {n} : world'[x] = world[x]
          /\ \A a \in Nodes : Own(a)' = Own(a)
          /\ \A a \in Nodes : \A b \in Nodes \ {a} :
               b # n \/ world[n][k].home # a => Image(b, a)' = Image(b, a)
          /\ \A a \in Nodes : \A b \in Nodes \ {a} : \A j \in Nicks \ {k} : Image(b, a)'[j] = Image(b, a)[j]
      BY <1>2, <1>4, <1>5, <3>1, GoneStays
    <3>3. OneOwner'
      <4>1. \A x \in Nodes, l \in Nicks : world'[x][l] # None => Claims(world'[x][l].home, l)
        BY <3>2 DEF Claims
      <4> QED BY <1>0, <1>2, <4>1, OwnersArrive
    <3>4. Image(n, m)'[k] = None
      BY <1>5, <3>2 DEF Image
    <3> QED BY <1>6, <2>1, <3>2, <3>3, <3>4
  <2>2. CASE ~Remote(n, k)
    <3>1. world' = world
      BY <1>1, <2>2 DEF QuitArrives
    <3>2. /\ OneOwner' /\ Homed' /\ Fresh' /\ Apart' /\ AllSubscribed'
          /\ \A a \in Nodes : Own(a)' = Own(a)
          /\ \A a, b \in Nodes : Image(b, a)' = Image(b, a)
      BY <1>2, <3>1, Idle
    <3>3. Image(n, m)'[k] = None
      BY <1>5, <2>2, <3>1 DEF Image, Remote
    <3> QED BY <3>1, <3>2, <3>3
  <2> QED BY <2>1, <2>2
<1>8. CASE Calm
  <2>1. PICK u, v : u = Image(n, m) /\ v = Image(n, m)'
    OBVIOUS
  <2>2. u \in Views /\ v \in Views
    BY <1>0, <2>1, ImageTyped
  <2>3. v = Put(u, k, None)
    BY <1>5, <1>7, <2>1, <2>2, IsPut
  <2>4. \A z \in Views : Turn(m, First(n, m), Image(n, m), z) => Image(n, m)' = z
    BY <1>1, <1>3, <2>1, <2>3 DEF Turn
  <2>5. \A a \in Nodes : \A c \in conns'[a] : ~c.told
    BY <1>2, <1>8 DEF Calm
  <2>6. Calm'
    BY <1>0, <1>2, <1>3, <1>7, <1>8, <2>4, <2>5, CalmArrives
  <2> QED BY <1>7, <2>6 DEF Good, Traffic
<1>9. ASSUME NEW o \in Nodes, NEW h \in Nodes, NEW l \in Nicks, Killing(o, h, l) PROVE Good'
  <2>1. l = k
    BY <1>1, <1>3, <1>9 DEF Killing, Order
  <2>2. \A a \in Nodes : \A c \in conns'[a] : c.told => a = h /\ c.nick = k
    BY <1>2, <1>9, <2>1 DEF Killing
  <2>3. Alone(h, k) => Alone(h, k)'
    BY <1>2 DEF Alone
  <2>4. /\ \A x \in Nodes \ {n} : world'[x] = world[x]
        /\ world'[n][k] = None \/ (world'[n][k] = world[n][k] /\ "QUIT" # "KILL")
    BY <1>7
  <2>5. Killing(o, h, k)'
    BY <1>0, <1>2, <1>5, <1>7, <1>9, <2>1, <2>2, <2>3, <2>4, KillingStays
  <2> QED BY <1>5, <1>7, <2>5 DEF Good, Traffic
<1>10. ASSUME NEW o \in Nodes, NEW l \in Nicks, Kicking(o, l) PROVE FALSE
  BY <1>1, <1>3, <1>10 DEF Kicking, Order
<1> QED BY <1>0, <1>8, <1>9, <1>10 DEF Traffic

LEMMA KillArrivesGood ==
  ASSUME KeptInv, KeptInv', Good, NEW n \in Nodes, NEW m \in Nodes \ {n}, KillArrives(n, m)
  PROVE  Good'
<1>0. TypeInv /\ TypeInv' /\ OneOwner /\ Homed /\ Apart /\ Traffic
  BY DEF KeptInv, Good
<1>1. PICK e, k : e = First(n, m) /\ k = e.nick
  OBVIOUS
<1>2. Arrives(n, m, "KILL") /\ queue' = Rest(n, m) /\ UNCHANGED <<stage, subs>>
  BY DEF KillArrives
<1>3. /\ queue[m][n] # <<>> /\ Sent(m, n) /\ e \in For(n) /\ e.cmd = "KILL" /\ e \in ToSet(queue[m][n])
  BY <1>0, <1>1, <1>2, Delivered
<1>4. \A a \in Nodes : \A b \in Nodes \ {a} : ~Sent(a, b) => queue'[a][b] = queue[a][b]
  BY <1>0, <1>2, Delivered
<1>5. k \in Nicks
  BY <1>1, <1>3 DEF For
<1>6. PICK o \in Nodes, h \in Nodes, l \in Nicks : Killing(o, h, l)
  <2>1. ~Calm
    <3>1. Calm => \E z \in Views : Turn(m, Head(queue[m][n]), Image(n, m), z)
      <4>1. queue[m][n] \in Seq(Envelope)
        BY <1>0, Queues DEF TypeInv
      <4>2. Calm => Path(queue[m][n], m, Image(n, m), Own(m))
        BY <1>3 DEF Calm
      <4> QED BY <1>3, <4>1, <4>2, PathShorter
    <3> QED BY <1>1, <1>3, <3>1 DEF Turn, First
  <2>2. \A a \in Nodes, l \in Nicks : ~Kicking(a, l)
    BY <1>3 DEF Kicking, Order
  <2> QED BY <1>0, <2>1, <2>2 DEF Traffic
<1>7. l = k /\ Killing(o, h, k)
  BY <1>1, <1>3, <1>6 DEF Killing, Order
<1>8. CASE Local(n, k)
  <2>1. PICK cs \in Dropped(conns[n], k) : conns' = [conns EXCEPT ![n] = cs]
    BY <1>1, <1>8 DEF KillArrives
  <2>2. world' = world /\ h = n
    BY <1>1, <1>5, <1>7, <1>8 DEF KillArrives, Killing, Local
  <2>3. OneOwner'
    <3>1. \A x \in Nodes, j \in Nicks : world'[x][j] # None => Claims(world'[x][j].home, j)
      BY <2>2 DEF Claims
    <3> QED BY <1>0, <1>2, <3>1, OwnersArrive
  <2>4. /\ Homed' /\ Fresh' /\ Apart' /\ AllSubscribed'
        /\ \A a \in Nodes : Own(a)' = Own(a)
        /\ \A a, b \in Nodes : Image(b, a)' = Image(b, a)
        /\ \A a \in Nodes : \A c \in conns'[a] : c.told => a = h /\ c.nick = k
        /\ Alone(h, k)'
    <3> DEFINE mark(d) == [d EXCEPT !.told = TRUE]
    <3>1. CASE \E d \in conns[n] : d.listed /\ d.nick = k
      <4>1. PICK d \in conns[n] : d.nick = k /\ cs = (conns[n] \ {d}) \cup {mark(d)}
        BY <2>1, <3>1 DEF Dropped
      <4>2. mark(d).nick = k /\ mark(d).ts = d.ts /\ mark(d).announced = d.announced /\ mark(d).told
        BY <1>0, <4>1, Shapes DEF Conn
      <4> HIDE DEF mark
      <4>3. conns'[n] = (conns[n] \ {d}) \cup {mark(d)} /\ \A a \in Nodes \ {n} : conns'[a] = conns[a]
        BY <1>0, <2>1, <4>1 DEF TypeInv, ConnsOK
      <4>4. /\ \A a \in Nodes : \A x \in conns'[a] : \E y \in conns[a] :
                 x.nick = y.nick /\ x.ts = y.ts /\ (x.announced <=> y.announced)
            /\ \A a \in Nodes : \A y \in conns[a] : \E x \in conns'[a] :
                 x.nick = y.nick /\ (x.announced <=> y.announced)
        BY <4>1, <4>2, <4>3
      <4>5. /\ Homed' /\ Fresh' /\ Apart' /\ AllSubscribed'
            /\ \A a \in Nodes : Own(a)' = Own(a)
            /\ \A a, b \in Nodes : Image(b, a)' = Image(b, a)
        BY <1>2, <1>4, <2>2, <4>4, ToldStays
      <4>6. \A a \in Nodes : \A c \in conns'[a] : c.told => a = h /\ c.nick = k
        BY <1>7, <2>2, <4>2, <4>3 DEF Killing
      <4>7. Alone(h, k)'
        BY <2>2, <4>2, <4>3 DEF Alone
      <4> QED BY <4>5, <4>6, <4>7
    <3>2. CASE \A d \in conns[n] : ~(d.listed /\ d.nick = k)
      <4>1. conns' = conns
        BY <1>0, <2>1, <3>2 DEF Dropped, TypeInv, ConnsOK
      <4>2. /\ Homed' /\ Fresh' /\ Apart' /\ AllSubscribed'
            /\ \A a \in Nodes : Own(a)' = Own(a)
            /\ \A a, b \in Nodes : Image(b, a)' = Image(b, a)
        BY <1>2, <2>2, <4>1, Idle
      <4>3. \A d \in conns[n] : d.nick = k => ~d.announced
        BY <1>0, <3>2 DEF TypeInv, ConnsOK, Conn
      <4>4. \A a \in Nodes : \A c \in conns'[a] : c.told => a = h /\ c.nick = k
        BY <1>7, <4>1 DEF Killing
      <4> QED BY <2>2, <4>1, <4>2, <4>3, <4>4 DEF Alone
    <3> QED BY <3>1, <3>2
  <2>5. /\ \A x \in Nodes \ {n} : world'[x] = world[x]
        /\ \/ world'[n][k] = None
           \/ /\ world'[n][k] = world[n][k]
              /\ "KILL" # "KILL" \/ (n = h /\ Alone(h, k)')
    BY <2>2, <2>4
  <2>6. Killing(o, h, k)'
    <3>1. /\ Alone(h, k) => Alone(h, k)'
          /\ \A a \in Nodes : Own(a)' = Own(a)
          /\ \A a \in Nodes : \A b \in Nodes \ {a} : \A j \in Nicks \ {k} : Image(b, a)'[j] = Image(b, a)[j]
          /\ stage' = stage
      BY <1>2, <2>4
    <3> QED BY <1>0, <1>2, <1>5, <1>7, <2>4, <2>5, <3>1, KillingStays
  <2> QED BY <1>5, <2>3, <2>4, <2>6 DEF Good, Traffic
<1>9. CASE ~Local(n, k)
  <2>1. world' = [world EXCEPT ![n] = Removed(@, k)] /\ conns' = conns
    BY <1>1, <1>9 DEF KillArrives
  <2>2. /\ OneOwner' /\ Homed' /\ Fresh' /\ Apart' /\ AllSubscribed'
        /\ \A a \in Nodes : Own(a)' = Own(a)
        /\ \A x \in Nodes \ {n} : world'[x] = world[x]
        /\ world'[n][k] = None
        /\ \A a \in Nodes : \A b \in Nodes \ {a} : \A j \in Nicks \ {k} : Image(b, a)'[j] = Image(b, a)[j]
    <3>1. CASE Remote(n, k)
      <4>1. Goes(n, k)
        BY <2>1, <3>1 DEF Goes
      <4>2. /\ Homed' /\ Fresh' /\ Apart' /\ AllSubscribed'
            /\ world'[n][k] = None /\ \A j \in Nicks \ {k} : world'[n][j] = world[n][j]
            /\ \A x \in Nodes \ {n} : world'[x] = world[x]
            /\ \A a \in Nodes : Own(a)' = Own(a)
            /\ \A a \in Nodes : \A b \in Nodes \ {a} : \A j \in Nicks \ {k} : Image(b, a)'[j] = Image(b, a)[j]
        BY <1>2, <1>4, <1>5, <2>1, <4>1, GoneStays
      <4>3. OneOwner'
        <5>1. \A x \in Nodes, j \in Nicks : world'[x][j] # None => Claims(world'[x][j].home, j)
          BY <4>2 DEF Claims
        <5> QED BY <1>0, <1>2, <5>1, OwnersArrive
      <4> QED BY <4>2, <4>3
    <3>2. CASE ~Remote(n, k)
      <4>1. world[n][k] = None
        BY <1>9, <3>2 DEF Local, Remote
      <4>2. world' = world
        BY <1>0, <1>5, <2>1, <4>1 DEF TypeInv, WorldOK, Removed
      <4>3. /\ OneOwner' /\ Homed' /\ Fresh' /\ Apart' /\ AllSubscribed'
            /\ \A a \in Nodes : Own(a)' = Own(a)
            /\ \A a, b \in Nodes : Image(b, a)' = Image(b, a)
        BY <1>2, <2>1, <4>2, Idle
      <4> QED BY <4>1, <4>2, <4>3
    <3> QED BY <3>1, <3>2
  <2>3. \A a \in Nodes : \A c \in conns'[a] : c.told => a = h /\ c.nick = k
    BY <1>7, <2>1 DEF Killing
  <2>4. Alone(h, k) => Alone(h, k)'
    BY <2>1 DEF Alone
  <2>5. Killing(o, h, k)'
    BY <1>0, <1>2, <1>5, <1>7, <2>2, <2>3, <2>4, KillingStays
  <2> QED BY <1>5, <2>2, <2>5 DEF Good, Traffic
<1> QED BY <1>8, <1>9

LEMMA KickArrivesGood ==
  ASSUME KeptInv, KeptInv', Good, NEW n \in Nodes, NEW m \in Nodes \ {n}, KickArrives(n, m)
  PROVE  Good'
<1>0. TypeInv /\ TypeInv' /\ OneOwner /\ Homed /\ Apart /\ Traffic
  BY DEF KeptInv, Good
<1>1. PICK e, k : e = First(n, m) /\ k = e.nick
  OBVIOUS
<1>2. Arrives(n, m, "KICK") /\ queue' = Rest(n, m) /\ UNCHANGED <<conns, stage, subs>>
  BY DEF KickArrives
<1>3. /\ queue[m][n] # <<>> /\ Sent(m, n) /\ e \in For(n) /\ e.cmd = "KICK" /\ e \in ToSet(queue[m][n])
  BY <1>0, <1>1, <1>2, Delivered
<1>4. \A a \in Nodes : \A b \in Nodes \ {a} : ~Sent(a, b) => queue'[a][b] = queue[a][b]
  BY <1>0, <1>2, Delivered
<1>5. k \in Nicks
  BY <1>1, <1>3 DEF For
<1>6. PICK o \in Nodes, l \in Nicks : Kicking(o, l)
  <2>1. ~Calm
    <3>1. Calm => \E z \in Views : Turn(m, Head(queue[m][n]), Image(n, m), z)
      <4>1. queue[m][n] \in Seq(Envelope)
        BY <1>0, Queues DEF TypeInv
      <4>2. Calm => Path(queue[m][n], m, Image(n, m), Own(m))
        BY <1>3 DEF Calm
      <4> QED BY <1>3, <4>1, <4>2, PathShorter
    <3> QED BY <1>1, <1>3, <3>1 DEF Turn, First
  <2>2. \A a, h \in Nodes, l \in Nicks : ~Killing(a, h, l)
    BY <1>3 DEF Killing, Order
  <2> QED BY <1>0, <2>1, <2>2 DEF Traffic
<1>7. l = k /\ Kicking(o, k)
  BY <1>1, <1>3, <1>6 DEF Kicking, Order
<1>8. /\ \A a, b \in Nodes : \A f \in ToSet(queue'[a][b]) : f \in ToSet(queue[a][b])
      /\ \A a, b \in Nodes : \A f \in ToSet(queue[a][b]) : f \in ToSet(queue'[a][b]) \/ b = n
  BY <1>0, <1>2, Popped
<1>9. ASSUME world'[n][k] = None \/ ~world'[n][k].in,
             \A x \in Nodes \ {n} : world'[x] = world[x],
             \A a, x \in Nodes : SameBut(Image(x, a)', Image(x, a), k) /\ SameBut(Own(a)', Own(a), k)
      PROVE  Kicking(o, k)'
  <2>1. \A a \in Nodes : \A c \in conns'[a] : ~c.told
    BY <1>2, <1>7 DEF Kicking
  <2>2. \A a \in Nodes : \A b \in Nodes \ {a} : \A f \in ToSet(queue'[a][b]) :
          f.cmd = "SQUIT" \/ (a = o /\ Order(f, "KICK", k))
    BY <1>7, <1>8 DEF Kicking
  <2>3. ASSUME NEW x \in Nodes, world'[x][k] # None, world'[x][k].in
        PROVE  x # o /\ \E f \in ToSet(queue'[o][x]) : Order(f, "KICK", k)
    <3>1. x # n
      BY <1>9, <2>3, Zenon
    <3>2. world'[x][k] = world[x][k]
      BY <1>9, <3>1
    <3>3. world[x][k] # None /\ world[x][k].in
      BY <2>3, <3>2, Zenon
    <3>4. x # o /\ \E f \in ToSet(queue[o][x]) : Order(f, "KICK", k)
      BY <1>7, <3>3 DEF Kicking
    <3> QED BY <1>8, <3>1, <3>4
  <2>4. ASSUME NEW a \in Nodes, NEW b \in Nodes \ {a}, Sent(a, b)' PROVE SameBut(Image(b, a)', Own(a)', k)
    <3>1. Sent(a, b)
      BY <1>2, <2>4 DEF Sent
    <3>2. SameBut(Image(b, a), Own(a), k)
      BY <1>7, <3>1 DEF Kicking
    <3>3. SameBut(Image(b, a)', Image(b, a), k) /\ SameBut(Own(a)', Own(a), k)
      BY <1>9
    <3> QED BY <1>5, <3>2, <3>3, SameButStays
  <2> QED BY <2>1, <2>2, <2>3, <2>4 DEF Kicking, SameBut, Order
<1>10. CASE world[n][k] # None
  <2>1. Flips(n, k, FALSE)
    BY <1>1, <1>10 DEF KickArrives, Flips
  <2>2. Homed' /\ Fresh' /\ Apart' /\ AllSubscribed'
    BY <1>2, <1>4, <1>5, <2>1, FlipStays
  <2>3. OneOwner'
    <3>1. /\ \A x \in Nodes, j \in Nicks : world[x][j] # None => world'[x][j].home = world[x][j].home
          /\ \A x \in Nodes, j \in Nicks : world'[x][j] = None <=> world[x][j] = None
      BY <1>0, <1>5, <2>1, InStays
    <3>2. \A x \in Nodes, j \in Nicks : world'[x][j] # None => Claims(world'[x][j].home, j)
      BY <3>1 DEF Claims
    <3> QED BY <1>0, <1>2, <3>2, OwnersArrive
  <2>4. ~world'[n][k].in
    <3>1. world'[n][k] = Within(world[n][k], FALSE) /\ Within(world[n][k], FALSE).in = FALSE
      BY <1>0, <1>5, <2>1, InAt DEF TypeInv
    <3> QED BY <3>1, Zenon
  <2>5. \A x \in Nodes \ {n} : world'[x] = world[x]
    BY <1>0, <1>5, <2>1, InAt DEF TypeInv
  <2>6. \A a, x \in Nodes : SameBut(Image(x, a)', Image(x, a), k) /\ SameBut(Own(a)', Own(a), k)
    BY <1>0, <1>2, <1>5, <2>1, FlipSame
  <2>7. Kicking(o, k)'
    BY <1>9, <2>4, <2>5, <2>6
  <2> QED BY <1>5, <2>2, <2>3, <2>7 DEF Good, Traffic
<1>11. CASE world[n][k] = None
  <2>1. world' = world
    BY <1>1, <1>11 DEF KickArrives
  <2>2. /\ OneOwner' /\ Homed' /\ Fresh' /\ Apart' /\ AllSubscribed'
        /\ \A a \in Nodes : Own(a)' = Own(a)
        /\ \A a, b \in Nodes : Image(b, a)' = Image(b, a)
    BY <1>2, <2>1, Idle
  <2>3. \A a, x \in Nodes : SameBut(Image(x, a)', Image(x, a), k) /\ SameBut(Own(a)', Own(a), k)
    BY <2>2 DEF SameBut
  <2>4. Kicking(o, k)'
    BY <1>9, <1>11, <2>1, <2>3
  <2> QED BY <1>5, <2>2, <2>4 DEF Good, Traffic
<1> QED BY <1>10, <1>11

-----------------------------------------------------------------------------
(* The burst. *)

AllAnnounced(n) == \A k \in Nicks : Local(n, k) <=> \E c \in conns[n] : c.nick = k /\ c.announced
\* What a burst makes of no user is all of them.
LEMMA BurstPath ==
  ASSUME WorldOK, NEW n \in Nodes, NEW N, NEW M, NEW mine, NEW members, NEW q,
         Listing(mine, N, Mine(n)), Listing(members, M, Insiders(n)),
         BurstRow(q, n, N, mine, M, members), AllAnnounced(n)
  PROVE  Path(q, n, Blank, Own(n))
<1> DEFINE Entry(k, b) == Within(Record0(n, world[n][k].ts), b)
           Named(i, k) == \E j \in 1..N : j <= i /\ mine[j] = k
           Inside(i, k) == \E j \in 1..M : N + j <= i /\ members[j] = k
           w == [i \in 0..(N + M) |-> [k \in Nicks |->
                  IF Named(i, k) THEN Entry(k, Inside(i, k)) ELSE None]]
<1>1. /\ N \in Nat /\ M \in Nat /\ 0 \in 0..(N + M) /\ N + M \in 0..(N + M)
      /\ \A i \in 1..N : mine[i] \in Nicks /\ Local(n, mine[i])
      /\ \A i \in 1..M : members[i] \in Nicks /\ Local(n, members[i])
      /\ \A i, j \in 1..N : mine[i] = mine[j] => i = j
      /\ \A i, j \in 1..M : members[i] = members[j] => i = j
      /\ \A k \in Nicks : Local(n, k) <=> \E i \in 1..N : mine[i] = k
  BY DEF Listing, Mine, Insiders
<1>2. \A k \in Nicks : (Local(n, k) /\ world[n][k].in) <=> \E i \in 1..M : members[i] = k
  BY DEF Listing, Mine, Insiders
<1>3. \A k \in Nicks : Local(n, k) => world[n][k] \in Record /\ world[n][k].ts \in TS /\ world[n][k].home = n
  BY DEF Local, WorldOK, Record
<1>4. \A i, k : Inside(i, k) \in BOOLEAN
  OBVIOUS
<1>5. \A k \in Nicks, b \in BOOLEAN : Local(n, k) =>
        /\ Entry(k, b) \in Record
        /\ Entry(k, b) # None
        /\ Entry(k, b).home = n
        /\ Entry(k, b).ts = world[n][k].ts
        /\ Entry(k, b).in = b
        /\ \A d \in BOOLEAN : Within(Entry(k, b), d) = Entry(k, d)
  BY <1>3, Facts DEF Within, Record0, Record
<1>6. \A i, k : k \in Nicks /\ Named(i, k) => Local(n, k)
  BY <1>1
<1>7. w \in [0..(N + M) -> Views]
  <2>1. ASSUME NEW i \in 0..(N + M), NEW k \in Nicks
        PROVE  (IF Named(i, k) THEN Entry(k, Inside(i, k)) ELSE None) \in Record \cup {None}
    <3> HIDE DEF Inside, Named
    <3> QED BY <1>4, <1>5, <1>6
  <2> QED BY <2>1 DEF Views
<1>8. \A i \in 0..(N + M), k \in Nicks :
        w[i][k] = IF Named(i, k) THEN Entry(k, Inside(i, k)) ELSE None
  OBVIOUS
<1> HIDE DEF w
<1>14. \A i, h \in 0..(N + M), k \in Nicks :
         (Named(i, k) <=> Named(h, k)) /\ Inside(i, k) = Inside(h, k) => w[i][k] = w[h][k]
  <2> HIDE DEF Inside, Named, Entry
  <2> QED BY <1>8, Zenon
<1>15. \A cmd, k, to, ts : /\ Message(cmd, k, to, ts).cmd = cmd /\ Message(cmd, k, to, ts).nick = k
                           /\ Message(cmd, k, to, ts).ts = ts
  BY DEF Message
<1>9. w[0] = Blank
  <2>1. \A k \in Nicks : ~Named(0, k)
    BY <1>1
  <2>2. \A k \in Nicks : w[0][k] = None
    BY <1>1, <1>8, <2>1
  <2> QED BY <1>1, <1>7, <2>2 DEF Views, Blank
<1>10. w[N + M] = Own(n)
  <2>1. \A k \in Nicks : Named(N + M, k) <=> Local(n, k)
    BY <1>1
  <2>2. \A k \in Nicks : Inside(N + M, k) <=> (Local(n, k) /\ world[n][k].in)
    BY <1>1, <1>2
  <2>3. ASSUME NEW k \in Nicks PROVE w[N + M][k] = Own(n)[k]
    <3>1. Own(n)[k] = IF Local(n, k) THEN world[n][k] ELSE None
      BY DEF Own, AllAnnounced
    <3>2. CASE ~Local(n, k)
      BY <1>1, <1>8, <2>1, <3>1, <3>2
    <3>3. CASE Local(n, k)
      <4>1. w[N + M][k] = Entry(k, Inside(N + M, k))
        BY <1>1, <1>8, <2>1, <3>3
      <4>2. Inside(N + M, k) = world[n][k].in
        <5>1. world[n][k].in \in BOOLEAN
          BY <1>3, <3>3 DEF Record
        <5> HIDE DEF Inside
        <5> QED BY <1>4, <2>2, <3>3, <5>1, Zenon
      <4> HIDE DEF Inside
      <4>3. PICK r : r = Entry(k, Inside(N + M, k))
        OBVIOUS
      <4>4. r \in Record /\ r.home = n /\ r.ts = world[n][k].ts
        BY <1>4, <1>5, <3>3, <4>3
      <4>5. r.in = Inside(N + M, k)
        BY <1>4, <1>5, <3>3, <4>3, Zenon
      <4>6. r.in = world[n][k].in
        BY <4>2, <4>5, Zenon
      <4>7. r = world[n][k]
        BY <1>3, <3>3, <4>4, <4>6, RecordsEqual
      <4> QED BY <3>1, <3>3, <4>1, <4>3, <4>7
    <3> QED BY <3>2, <3>3
  <2>4. Own(n) \in Views /\ w[N + M] \in Views
    BY <1>1, <1>7, ViewTypes
  <2> QED BY <2>3, <2>4, ViewsEqual
<1>11. ASSUME NEW i \in 1..N PROVE Turn(n, q[i], w[i - 1], w[i])
  <2>1. PICK k : k = mine[i]
    OBVIOUS
  <2>2. k \in Nicks /\ Local(n, k) /\ i - 1 \in 0..(N + M) /\ i \in 0..(N + M)
    BY <1>1, <2>1
  <2>3. ~Named(i - 1, k) /\ Named(i, k) /\ \A l \in Nicks \ {k} : Named(i, l) <=> Named(i - 1, l)
    BY <1>1, <2>1
  <2>4. \A l \in Nicks : Inside(i, l) = FALSE /\ Inside(i - 1, l) = FALSE
    BY <1>1
  <2> HIDE DEF Inside, Named, Entry
  <2>5. w[i - 1] \in Views /\ w[i] \in Views
    BY <1>7, <2>2
  <2>6. w[i - 1][k] = None
    BY <1>8, <2>2, <2>3
  <2>7. w[i][k] = Record0(n, world[n][k].ts)
    <3>1. w[i][k] = Entry(k, FALSE)
      BY <1>8, <2>2, <2>3, <2>4
    <3> QED BY <3>1 DEF Within, Record0, Entry
  <2>8. \A l \in Nicks \ {k} : w[i][l] = w[i - 1][l]
    <3>1. \A l \in Nicks \ {k} : Inside(i, l) = Inside(i - 1, l)
      BY <2>4, Zenon
    <3> QED BY <1>14, <2>2, <2>3, <3>1
  <2>9. Record0(n, world[n][k].ts) \in Record
    BY <1>3, <2>2 DEF Record0, Record
  <2>10. w[i] = Put(w[i - 1], k, Record0(n, world[n][k].ts))
    BY <2>2, <2>5, <2>7, <2>8, <2>9, IsPut
  <2>11. q[i].cmd = "NICK" /\ q[i].nick = k /\ q[i].ts = world[n][k].ts
    <3>1. q[i] = Message("NICK", k, None, world[n][k].ts)
      BY <2>1 DEF BurstRow
    <3> QED BY ONLY <1>15, <3>1
  <2> QED BY <2>6, <2>10, <2>11 DEF Turn
<1>12. ASSUME NEW j \in 1..M PROVE Turn(n, q[N + j], w[N + j - 1], w[N + j])
  <2>1. PICK k : k = members[j]
    OBVIOUS
  <2>2. k \in Nicks /\ Local(n, k) /\ N + j - 1 \in 0..(N + M) /\ N + j \in 0..(N + M)
    BY <1>1, <2>1
  <2>3. Named(N + j - 1, k) /\ Named(N + j, k) /\ \A l \in Nicks : Named(N + j, l) <=> Named(N + j - 1, l)
    BY <1>1, <2>1
  <2>4. Inside(N + j, k) = TRUE /\ \A l \in Nicks \ {k} : Inside(N + j, l) <=> Inside(N + j - 1, l)
    BY <1>1, <2>1
  <2> HIDE DEF Inside, Named, Entry
  <2>5. w[N + j - 1] \in Views /\ w[N + j] \in Views
    BY <1>7, <2>2
  <2>6. w[N + j][k] = Entry(k, TRUE)
    BY <1>8, <2>2, <2>3, <2>4
  <2>7. w[N + j - 1][k] = Entry(k, Inside(N + j - 1, k))
    BY <1>8, <2>2, <2>3
  <2>8. /\ w[N + j - 1][k] # None
        /\ w[N + j][k] = Within(w[N + j - 1][k], TRUE)
        /\ Within(w[N + j - 1][k], TRUE) \in Record
    <3>1. PICK b : b = Inside(N + j - 1, k)
      OBVIOUS
    <3>2. b \in BOOLEAN /\ TRUE \in BOOLEAN
      BY <1>4, <3>1, Zenon
    <3>3. Entry(k, b) # None /\ Within(Entry(k, b), TRUE) = Entry(k, TRUE)
      BY <1>5, <2>2, <3>2, Zenon
    <3>4. Entry(k, TRUE) \in Record
      BY <1>5, <2>2, <3>2, Zenon
    <3>5. w[N + j - 1][k] = Entry(k, b)
      BY <2>7, <3>1, Zenon
    <3> QED BY <2>6, <3>3, <3>4, <3>5, Zenon
  <2>9. \A l \in Nicks \ {k} : w[N + j][l] = w[N + j - 1][l]
    <3>1. \A l \in Nicks \ {k} : Inside(N + j, l) = Inside(N + j - 1, l)
      BY <1>4, <2>4, Zenon
    <3> QED BY <1>14, <2>2, <2>3, <3>1
  <2>10. w[N + j] = Put(w[N + j - 1], k, Within(w[N + j - 1][k], TRUE))
    <3>1. PICK u : u = w[N + j - 1]
      OBVIOUS
    <3>2. PICK v : v = w[N + j]
      OBVIOUS
    <3>3. PICK r : r = Within(u[k], TRUE)
      OBVIOUS
    <3>4. u \in Views /\ v \in Views /\ r \in Record /\ v[k] = r /\ \A l \in Nicks \ {k} : v[l] = u[l]
      BY <2>5, <2>8, <2>9, <3>1, <3>2, <3>3
    <3>5. v = Put(u, k, r)
      BY <2>2, <3>4, IsPut
    <3> QED BY <3>1, <3>2, <3>3, <3>5
  <2>11. q[N + j].cmd = "JOIN" /\ q[N + j].nick = k
    <3>1. q[N + j] = Message("JOIN", k, None, 0)
      BY <2>1 DEF BurstRow
    <3> QED BY ONLY <1>15, <3>1
  <2> QED BY <2>8, <2>10, <2>11 DEF Turn
<1>16. Len(q) = N + M
  BY DEF BurstRow
<1>13. \A i \in 1..Len(q) : Turn(n, q[i], w[i - 1], w[i])
  <2>1. ASSUME NEW i \in 1..(N + M), i > N PROVE Turn(n, q[i], w[i - 1], w[i])
    <3>1. i - N \in 1..M /\ N + (i - N) = i /\ N + (i - N) - 1 = i - 1
      BY <1>1, <2>1
    <3> QED BY <1>12, <3>1
  <2>2. \A i \in 1..(N + M) : i > N \/ i \in 1..N
    BY <1>1
  <2> QED BY <1>11, <1>16, <2>1, <2>2
<1> QED BY <1>7, <1>9, <1>10, <1>13, <1>16 DEF Path

\* All of it is about users of the node.
LEMMA RowClaims ==
  ASSUME NEW n \in Nodes, NEW N, NEW M, NEW mine, NEW members, NEW S, NEW ms \in Seq(S),
         Listing(mine, N, Mine(n)), Listing(members, M, Insiders(n)), BurstRow(ms, n, N, mine, M, members)
  PROVE  \A e \in ToSet(ms), k \in Nicks : About(e, k) => Local(n, k)
<1>1. \A cmd, k, to, ts : Message(cmd, k, to, ts).cmd = cmd /\ Message(cmd, k, to, ts).nick = k
  BY DEF Message
<1>2. /\ N \in Nat /\ M \in Nat
      /\ \A i \in 1..N : Local(n, mine[i])
      /\ \A i \in 1..M : Local(n, members[i])
  BY DEF Listing, Mine, Insiders
<1>3. ASSUME NEW i \in 1..Len(ms)
      PROVE  Local(n, ms[i].nick) /\ ms[i].cmd \in {"NICK", "JOIN"}
  <2>1. Len(ms) = N + M
    BY DEF BurstRow
  <2>2. CASE i \in 1..N
    <3>1. ms[i] = Message("NICK", mine[i], None, world[n][mine[i]].ts)
      BY <2>2 DEF BurstRow
    <3>2. ms[i].cmd = "NICK" /\ ms[i].nick = mine[i]
      BY ONLY <1>1, <3>1
    <3> QED BY <1>2, <2>2, <3>2
  <2>3. CASE i \notin 1..N
    <3>0. PICK j \in 1..M : i = N + j
      <4>1. i - N \in 1..M /\ i = N + (i - N)
        BY <1>2, <2>1, <2>3
      <4> QED BY <4>1
    <3>1. ms[i] = Message("JOIN", members[j], None, 0)
      BY <3>0 DEF BurstRow
    <3>2. ms[i].cmd = "JOIN" /\ ms[i].nick = members[j]
      BY ONLY <1>1, <3>1
    <3> QED BY <1>2, <3>0, <3>2
  <2> QED BY <2>2, <2>3
<1>4. ASSUME NEW e \in ToSet(ms), NEW k \in Nicks, About(e, k) PROVE Local(n, k)
  <2>1. PICK i \in 1..Len(ms) : ms[i] = e
    BY DEF ToSet
  <2>2. e.cmd \in {"NICK", "JOIN"} /\ Local(n, e.nick)
    BY <1>3, <2>1
  <2> QED BY <1>4, <2>2 DEF About
<1> QED BY <1>4

LEMMA BurstGood ==
  ASSUME KeptInv, KeptInv', Good, ~spoilt', NEW n \in Nodes, NEW m \in Nodes \ {n}, Burst(n, m)
  PROVE  Good'
<1>0. TypeInv /\ TypeInv' /\ LinksOK /\ OneOwner /\ Homed /\ Fresh /\ Apart /\ AllSubscribed /\ Traffic
  BY DEF KeptInv, TypeInv, Good
<1>1. /\ stage[n][m] = "linked" /\ Staged(n, m, "burst") /\ world' = world /\ conns' = conns
      /\ ~Orders /\ \A c \in conns[n] : c.announced
  BY DEF Burst, Spoil, Staged
<1>2. PICK ms, N, mine, M, members :
        /\ Listing(mine, N, Mine(n)) /\ Listing(members, M, Insiders(n))
        /\ ms \in Seq(For(m)) /\ BurstRow(ms, n, N, mine, M, members) /\ Joined(<<>>, ms) = ms
        /\ Sends(n, m, ms) /\ Subscribes(n, m, members)
  BY BurstRows
<1>3. \A a \in Nodes : \A b \in Nodes \ {a} : stage'[a][b] = IF a = n /\ b = m THEN "burst" ELSE stage[a][b]
  BY <1>0, <1>1, StagedAt
<1>4. /\ ~Sent(n, m) /\ queue[n][m] = <<>> /\ Image(m, n) = Blank
      /\ stage[m][n] \notin {"lost", "down"}
  <2>1. ~Sent(n, m)
    BY <1>1 DEF Sent
  <2> QED BY <1>0, <1>1, <2>1 DEF Apart
<1>5. queue'[n][m] = ms /\ \A a, b \in Nodes : a # n \/ b # m => queue'[a][b] = queue[a][b]
  <2>1. Mail(queue)
    BY <1>0 DEF TypeInv
  <2>2. \A a, b \in Nodes : IF a = n /\ b \in {m} THEN queue'[a][b] = Joined(queue[a][b], ms)
                                                  ELSE queue'[a][b] = queue[a][b]
    BY <1>2, <2>1, ToldAt DEF Sends
  <2> QED BY <1>2, <1>4, <2>2
<1>6. /\ \A a \in Nodes : Own(a)' = Own(a)
      /\ \A a, b : Image(b, a)' = Image(b, a) /\ Blank' = Blank
      /\ \A a, l : Local(a, l)' <=> Local(a, l)
  BY <1>1 DEF Own, Image, Local, Blank
<1>7. Homed'
  BY <1>0, <1>1, <1>6, HomedStays
<1>8. Fresh'
  BY <1>0, <1>1, FreshStays
<1>9. \A a \in Nodes : \A b \in Nodes \ {a} : Sent(a, b)' <=> Sent(a, b) \/ (a = n /\ b = m)
  BY <1>3 DEF Sent
<1>10. Apart'
  <2>1. ASSUME NEW a \in Nodes, NEW b \in Nodes \ {a}
        PROVE  /\ stage'[a][b] \in {"lost", "down"} <=> stage'[b][a] \in {"lost", "down"}
               /\ ~Sent(a, b)' => queue'[a][b] = <<>>
               /\ stage'[a][b] = "linked" \/ stage'[b][a] = "down" => Image(b, a)' = Blank
    <3>1. /\ stage[a][b] \in {"lost", "down"} <=> stage[b][a] \in {"lost", "down"}
          /\ ~Sent(a, b) => queue[a][b] = <<>>
          /\ stage[a][b] = "linked" \/ stage[b][a] = "down" => Image(b, a) = Blank
      BY <1>0 DEF Apart
    <3> QED BY <1>1, <1>3, <1>4, <1>5, <1>6, <1>9, <3>1
  <2> QED BY <1>6, <2>1 DEF Apart
<1>11. AllSubscribed'
  <2>1. /\ \A a \in Nodes \ {n} : subs'[a] = subs[a]
        /\ subs'[n] = IF members = <<>> THEN subs[n] ELSE subs[n] \cup {m}
    BY <1>0, <1>2 DEF LinksOK, Subscribes
  <2>2. ASSUME NEW k \in Nicks, Local(n, k), world[n][k].in PROVE members # <<>>
    <3>1. k \in Insiders(n)
      BY <2>2 DEF Insiders
    <3>2. PICK i \in 1..M : members[i] = k
      BY <1>2, <3>1 DEF Listing
    <3>3. DOMAIN members = 1..M
      BY <1>2 DEF Listing
    <3>4. DOMAIN <<>> = {}
      OBVIOUS
    <3> QED BY <3>2, <3>3, <3>4, Zenon
  <2>3. ASSUME NEW a \in Nodes, NEW b \in Nodes \ {a}, Sent(a, b)', NEW k \in Nicks, Local(a, k)', world'[a][k].in
        PROVE  b \in subs'[a]
    <3>1. Local(a, k) /\ world[a][k].in
      BY <1>1, <1>6, <2>3
    <3>2. CASE a = n /\ b = m
      BY <2>1, <2>2, <3>1, <3>2
    <3>3. CASE ~(a = n /\ b = m)
      <4>1. Sent(a, b)
        BY <1>9, <2>3, <3>3
      <4>2. b \in subs[a]
        BY <1>0, <3>1, <4>1 DEF AllSubscribed
      <4> QED BY <2>1, <4>2
    <3> QED BY <3>2, <3>3
  <2> QED BY <2>3 DEF AllSubscribed
<1>12. OneOwner'
  <2>1. \A x \in Nodes, l \in Nicks : world'[x][l] # None => Claims(world'[x][l].home, l)
    BY <1>1 DEF Claims
  <2>2. ASSUME NEW a \in Nodes, NEW b \in Nodes, NEW l \in Nicks, NEW e \in ToSet(queue'[a][b]), About(e, l)
        PROVE  Claims(a, l)
    <3>1. CASE a = n /\ b = m
      <4>1. Local(n, l)
        BY <1>2, <1>5, <2>2, <3>1, RowClaims
      <4> QED BY <3>1, <4>1 DEF Local, Claims
    <3>2. CASE ~(a = n /\ b = m)
      BY <1>5, <2>2, <3>2 DEF Claims
    <3> QED BY <3>1, <3>2
  <2> QED BY <1>0, <2>1, <2>2, OwnersStay
<1>13. Calm'
  <2>1. Calm
    BY <1>0, <1>1, Settles
  <2>2. AllAnnounced(n)
    BY <1>0, <1>1 DEF AllAnnounced, Homed, Owns
  <2>3. Path(ms, n, Blank, Own(n))
    BY <1>0, <1>2, <2>2, BurstPath DEF TypeInv
  <2>4. ASSUME NEW a \in Nodes, NEW b \in Nodes \ {a}, Sent(a, b)'
        PROVE  Path(queue'[a][b], a, Image(b, a)', Own(a)')
    <3>1. CASE a = n /\ b = m
      BY <1>4, <1>5, <1>6, <2>3, <3>1
    <3>2. CASE ~(a = n /\ b = m)
      <4>1. Sent(a, b)
        BY <1>9, <2>4, <3>2
      <4>2. Path(queue[a][b], a, Image(b, a), Own(a))
        BY <2>1, <4>1 DEF Calm
      <4> QED BY <1>5, <1>6, <3>2, <4>2
    <3> QED BY <3>1, <3>2
  <2>5. \A a \in Nodes : \A c \in conns'[a] : ~c.told
    BY <1>1, <2>1 DEF Calm
  <2> QED BY <2>4, <2>5 DEF Calm, Path, Turn, Views, TS, Record
<1> QED BY <1>7, <1>8, <1>10, <1>11, <1>12, <1>13 DEF Good, Traffic

-----------------------------------------------------------------------------
(* All together. *)

LEMMA InitGood == Init => Good
<1> SUFFICES ASSUME Init PROVE Good
  OBVIOUS
<1>0. TypeInv
  BY InitKept DEF KeptInv
<1>1. PICK present \in SUBSET {k \in Nicks : Homes[k] # None} :
        /\ world = [n \in Nodes |-> [k \in Nicks |->
             IF Homes[k] = None THEN None
             ELSE [home |-> Homes[k], ts |-> Oldest[k], in |-> k \in present]]]
        /\ conns = [n \in Nodes |->
             {[nick |-> k, ts |-> Oldest[k], listed |-> TRUE, announced |-> TRUE,
               told |-> FALSE] :
                k \in {l \in Nicks : Homes[l] = n}}]
        /\ subs = [n \in Nodes |->
             UNION {IF Homes[k] = n THEN Nodes \ {n} ELSE {Homes[k]} : k \in present}]
        /\ queue = [n \in Nodes |-> [m \in Nodes |-> <<>>]]
        /\ stage = [n \in Nodes |-> [m \in Nodes \ {n} |-> "up"]]
  BY DEF Init
<1>2. /\ \A n \in Nodes, m \in Nodes : queue[n][m] = <<>>
      /\ \A n \in Nodes : \A m \in Nodes \ {n} : stage[n][m] = "up"
  BY <1>1
<1>3. ASSUME NEW n \in Nodes, NEW k \in Nicks, world[n][k] # None
      PROVE  Homes[k] \in Nodes /\ world[n][k].home = Homes[k] /\ world[n][k].ts = Oldest[k]
  BY <1>1, <1>3, FederationAssumption
<1>4. \A n, m \in Nodes, k \in Nicks : world[n][k] = world[m][k]
  BY <1>1
<1>5. ASSUME NEW n \in Nodes, NEW c \in conns[n]
      PROVE  c.nick \in Nicks /\ Homes[c.nick] = n /\ c.ts = Oldest[c.nick] /\ c.announced /\ ~c.told
  BY <1>1, <1>5
<1>6. ASSUME NEW n \in Nodes, NEW k \in Nicks, Homes[k] = n
      PROVE  (\E c \in conns[n] : c.nick = k) /\ world[n][k] # None
  <2>1. n # None
    BY Facts
  <2>2. world[n][k] = [home |-> n, ts |-> Oldest[k], in |-> k \in present]
    BY <1>1, <1>6, <2>1
  <2>3. world[n][k].home = n
    BY <2>2
  <2>4. world[n][k] # None
    <3>1. world[n][k] = None => [home |-> n, ts |-> Oldest[k], in |-> k \in present] = None
      BY <2>2
    <3>2. Oldest[k] \in TS
      BY OldestFacts, Facts
    <3>3. (k \in present) \in BOOLEAN
      OBVIOUS
    <3>4. [home |-> n, ts |-> Oldest[k], in |-> k \in present] \in Record
      BY <3>2, <3>3 DEF Record
    <3> QED BY <3>1, <3>4, Facts
  <2>5. [nick |-> k, ts |-> Oldest[k], listed |-> TRUE, announced |-> TRUE, told |-> FALSE] \in conns[n]
    BY <1>1, <1>6
  <2> QED BY <2>4, <2>5
<1>7. OneOwner
  <2>1. ToSet(<<>>) = {}
    BY DEF ToSet
  <2>2. \A a \in Nodes, k \in Nicks : Claims(a, k) => a = Homes[k]
    BY <1>2, <1>3, <2>1 DEF Claims
  <2> QED BY <2>2 DEF OneOwner
<1>8. Homed
  <2>1. \A n \in Nodes : \A c \in conns[n] : Owns(n, c)
    BY <1>3, <1>5, <1>6 DEF Owns, Local
  <2>2. \A n \in Nodes, k \in Nicks : Local(n, k) => \E c \in conns[n] : c.nick = k
    BY <1>3, <1>6 DEF Local
  <2> QED BY <2>1, <2>2 DEF Homed
<1>9. Fresh
  BY <1>5 DEF Fresh
<1>10. Apart
  BY <1>2 DEF Apart, Sent
<1>11. AllSubscribed
  <2> SUFFICES ASSUME NEW a \in Nodes, NEW b \in Nodes \ {a}, NEW k \in Nicks, Local(a, k), world[a][k].in
               PROVE  b \in subs[a]
    BY DEF AllSubscribed
  <2>1. Homes[k] = a /\ Homes[k] # None
    BY <1>3, Facts DEF Local
  <2>2. world[a][k] = [home |-> Homes[k], ts |-> Oldest[k], in |-> k \in present]
    BY <1>1, <2>1
  <2>3. [home |-> Homes[k], ts |-> Oldest[k], in |-> k \in present].in = (k \in present)
    BY Zenon
  <2>4. k \in present
    BY <2>2, <2>3, Zenon
  <2>5. subs[a] = UNION {IF Homes[j] = a THEN Nodes \ {a} ELSE {Homes[j]} : j \in present}
    BY <1>1
  <2> QED BY <2>1, <2>4, <2>5
<1>12. Calm
  <2>1. ASSUME NEW a \in Nodes, NEW b \in Nodes \ {a} PROVE Path(queue[a][b], a, Image(b, a), Own(a))
    <3>1. \A k \in Nicks : (\E c \in conns[a] : c.nick = k /\ c.announced) <=> Homes[k] = a
      BY <1>5, <1>6
    <3>2. \A k \in Nicks : world[b][k] # None /\ world[b][k].home = a <=> Homes[k] = a
      BY <1>3, <1>4, <1>6
    <3>3. Image(b, a) = Own(a)
      BY <1>4, <3>1, <3>2 DEF Image, Own
    <3>4. PICK u : u = Own(a)
      OBVIOUS
    <3>5. u \in Views
      BY <1>0, <3>4, ViewTypes DEF TypeInv
    <3>6. Path(<<>>, a, u, u)
      BY <3>5, PathEmpty
    <3> QED BY <1>2, <3>3, <3>4, <3>6
  <2> QED BY <1>5, <2>1 DEF Calm
<1> QED BY <1>7, <1>8, <1>9, <1>10, <1>11, <1>12 DEF Good, Traffic

\* Nothing is under way, and nobody is about to go: the nodes agree.
LEMMA SettledAgree ==
  ASSUME KeptInv, Good, Settled
  PROVE  \A n \in Nodes : \A m \in Registered(n) : n \in Registered(m) =>
           \A k \in Nicks : Local(m, k) \/ (Remote(n, k) /\ world[n][k].home = m) => world[n][k] = world[m][k]
<1>0. TypeInv /\ Homed /\ Traffic /\ UnderWay = {}
  BY DEF KeptInv, Good, Settled
<1>1. Calm
  <2>1. ~Orders
    BY <1>0 DEF Orders, Settled
  <2> QED BY <1>0, <2>1, Settles
<1>2. ASSUME NEW n \in Nodes, NEW m \in Registered(n), n \in Registered(m), NEW k \in Nicks,
             Local(m, k) \/ (Remote(n, k) /\ world[n][k].home = m)
      PROVE  world[n][k] = world[m][k]
  <2>1. m \in Nodes \ {n} /\ Sent(m, n)
    BY <1>2 DEF Registered, Sent
  <2>2. Image(n, m) = Own(m)
    BY <1>0, <1>1, <2>1, Quiet
  <2>3. Image(n, m)[k] = Own(m)[k]
    BY <2>2
  <2>4. CASE Local(m, k)
    <3>1. PICK c \in conns[m] : c.nick = k
      BY <1>0, <2>1, <2>4 DEF Homed
    <3>2. c.announced
      BY <2>1, <3>1 DEF Settled
    <3>3. Own(m)[k] = world[m][k] /\ world[m][k] # None
      BY <2>4, <3>1, <3>2 DEF Own, Local
    <3> QED BY <2>3, <3>3 DEF Image
  <2>5. CASE Remote(n, k) /\ world[n][k].home = m
    <3>1. Image(n, m)[k] = world[n][k] /\ world[n][k] # None
      BY <2>5 DEF Image, Remote
    <3> QED BY <2>3, <3>1 DEF Own
  <2> QED BY <1>2, <2>4, <2>5
<1> QED BY <1>2

LEMMA SpoiltStays ==
  ASSUME KeptInv, [Next]_vars, ~spoilt'
  PROVE  ~spoilt
<1>1. CASE UNCHANGED vars
  BY <1>1 DEF vars
<1>2. ASSUME NEW n \in Nodes, NEW k \in Nicks, Connect(n, k) PROVE ~spoilt
  BY <1>2 DEF Connect, Spoil
<1>3. ASSUME NEW n \in Nodes, NEW c \in conns[n],
             \/ RegisterConn(n, c) \/ Announce(n, c) \/ Close(n, c)
             \/ Join(n, c) \/ Part(n, c) \/ Quit(n, c)
      PROVE  ~spoilt
  BY <1>3 DEF RegisterConn, Announce, Join, Part, Quit, Close, Spoil
<1>4. ASSUME NEW n \in Nodes, NEW c \in conns[n], NEW k \in Nicks,
             Rename(n, c, k) \/ Kick(n, c, k) \/ Kill(n, c, k)
      PROVE  ~spoilt
  BY <1>4 DEF Rename, Kick, Kill, Spoil
<1>5. ASSUME NEW n \in Nodes, NEW m \in Nodes, n # m, Deliver(n, m)
      PROVE  ~spoilt
  <2>1. CASE NickArrives(n, m) \/ QuitArrives(n, m) \/ JoinArrives(n, m) \/ PartArrives(n, m)
    BY <2>1 DEF NickArrives, QuitArrives, JoinArrives, PartArrives
  <2>2. CASE KickArrives(n, m) \/ KillArrives(n, m)
    BY <2>2 DEF KickArrives, KillArrives
  <2>3. CASE NickCollides(n, m)
    BY <2>3 DEF NickCollides, Spoil
  <2>4. CASE RenameArrives(n, m)
    BY <2>4 DEF RenameArrives, Spoil
  <2>5. CASE SquitArrives(n, m)
    BY <2>5 DEF SquitArrives, Spoil
  <2> QED BY <1>5, <2>1, <2>2, <2>3, <2>4, <2>5 DEF Deliver
<1>6. ASSUME NEW n \in Nodes, NEW m \in Nodes, n # m, Links(n, m) \/ LinkDown(n, m) \/ LinkUp(n, m)
      PROVE  ~spoilt
  BY <1>6 DEF Links, OnClosed, Burst, Register, LinkDown, LinkUp, Spoil
<1> QED BY <1>1, <1>2, <1>3, <1>4, <1>5, <1>6 DEF Next

LEMMA NextGood == MirrorInv /\ [Next]_vars => MirrorInv'
<1>0. ASSUME MirrorInv, [Next]_vars PROVE KeptInv /\ KeptInv'
  BY <1>0, NextKept DEF MirrorInv
<1> SUFFICES ASSUME KeptInv, KeptInv', MirrorInv, [Next]_vars, ~spoilt' PROVE Good'
  BY <1>0 DEF MirrorInv
<1>1. Good
  BY SpoiltStays DEF MirrorInv
<1>2. CASE UNCHANGED vars
  <2>1. /\ UNCHANGED <<world, conns, queue, subs, stage>>
    BY <1>2 DEF vars
  <2>2. Apart'
    BY <1>1, <2>1 DEF Good, Apart, Sent, Image, Blank
  <2> QED BY <1>1, <2>1, <2>2, StillGood DEF Sent
<1>3. ASSUME NEW n \in Nodes, NEW k \in Nicks, Connect(n, k) PROVE Good'
  BY <1>1, <1>3, ConnectGood
<1>4. ASSUME NEW n \in Nodes, NEW c \in conns[n],
             \/ RegisterConn(n, c) \/ Announce(n, c) \/ Close(n, c)
             \/ Join(n, c) \/ Part(n, c) \/ Quit(n, c)
      PROVE  Good'
  BY <1>1, <1>4, RegisterConnGood, AnnounceGood, JoinGood, PartGood, QuitGood, CloseGood
<1>5. ASSUME NEW n \in Nodes, NEW c \in conns[n], NEW k \in Nicks,
             Rename(n, c, k) \/ Kick(n, c, k) \/ Kill(n, c, k)
      PROVE  Good'
  BY <1>1, <1>5, RenameGood, KickGood, KillGood
<1>6. ASSUME NEW n \in Nodes, NEW m \in Nodes, n # m, Deliver(n, m)
      PROVE  Good'
  <2>1. ~NickCollides(n, m)
    BY DEF NickCollides, Spoil
  <2> QED BY <1>1, <1>6, <2>1, NickArrivesGood, RenameArrivesGood, QuitArrivesGood, JoinArrivesGood,
        PartArrivesGood, KickArrivesGood, KillArrivesGood, SquitArrivesGood DEF Deliver
<1>7. ASSUME NEW n \in Nodes, NEW m \in Nodes, n # m, Links(n, m) \/ LinkDown(n, m) \/ LinkUp(n, m)
      PROVE  Good'
  BY <1>1, <1>7, OnClosedGood, BurstGood, RegisterGood, LinkDownGood, LinkUpGood DEF Links
<1> QED BY <1>2, <1>3, <1>4, <1>5, <1>6, <1>7 DEF Next

\* When nothing is under way, nodes that are linked agree on each other's users:
\* whatever they did (announceUserToFederation, forwardJoinToFederation,
\* forwardChannelToSubscribed, close, HandleSquit, sendBurst and the handlers of
\* dispatch, in any order the queues allow), for any number of servers, nicks
\* and steps, unless something happened that the rules have no remedy for.
THEOREM NodesAgree == Spec => []Mirrored
<1>1. Init => MirrorInv
  BY InitKept, InitGood DEF MirrorInv
<1>2. Spec => []MirrorInv
  BY <1>1, NextGood, PTL DEF Spec
<1>3. MirrorInv => Mirrored
  <2>1. ASSUME MirrorInv, Settled, ~spoilt
        PROVE  \A n \in Nodes : \A m \in Registered(n) : n \in Registered(m) =>
                 \A k \in Nicks : Local(m, k) \/ (Remote(n, k) /\ world[n][k].home = m)
                                    => world[n][k] = world[m][k]
    <3>1. KeptInv /\ Good
      BY <2>1 DEF MirrorInv
    <3> QED BY ONLY <2>1, <3>1, SettledAgree
  <2> QED BY <2>1 DEF Mirrored
<1> QED BY <1>2, <1>3, PTL
===============================================================================

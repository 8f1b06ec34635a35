--------------------------- MODULE Registry_proofs ---------------------------
(***************************************************************************)
(* The safety properties of Registry for any users, bots, battles and      *)
(* numbers of events.  The messages on their way lead, one by one, from    *)
(* the world that the client sees to the one that the server knows.        *)
(***************************************************************************)
EXTENDS Registry, FiniteSetTheorems, TLAPS

(* A world as the client sees it after some messages: users, founders,     *)
(* where each user is, the battle of the room, bots that are surely in the *)
(* room's battle, users that are surely in the channel's list, and whether *)
(* there is a channel.                                                     *)
Worlds ==
  [users : SUBSET Users, founder : [Battles -> Users \cup {None}],
   place : [Users -> Battles \cup {None}], room : Battles \cup {None},
   crew : SUBSET Bots, chan : SUBSET Users, joined : BOOLEAN]

Possible(w) ==
  /\ w \in Worlds
  /\ Me \in w.users
  /\ \A u \in Users : w.place[u] # None => u \in w.users /\ w.place[u] \in Open(w)
  /\ \A b \in Open(w) : w.place[w.founder[b]] = b
  /\ w.room \in Open(w) \cup {None}
  /\ w.chan \subseteq w.users /\ (w.chan # {} => w.joined)

(* The registry r shows the world w, with more bots and users of the       *)
(* channel perhaps.                                                        *)
Shows(r, w) ==
  /\ r \in Registries
  /\ r.users = w.users /\ r.battles = Open(w) /\ r.founder = w.founder
  /\ r.battle = w.place /\ r.room = w.room
  /\ \A b \in Battles : r.members[b] \cap Users = {u \in Users : w.place[u] = b}
  /\ w.room # None => w.crew \subseteq r.members[w.room]
  /\ w.chan \subseteq r.chan /\ r.chan \subseteq r.users
  /\ w.joined => r.hasChan

(* What becomes of a world with a message.                                 *)
Closed(w, b) ==
  [w EXCEPT !.founder[b] = None, !.room = IF @ = b THEN None ELSE @,
            !.place = [u \in Users |-> IF @[u] = b THEN None ELSE @[u]]]

Vacated(w, u, b) ==
  [w EXCEPT !.place[u] = None, !.room = IF u = Me /\ @ = b THEN None ELSE @]

Departed(w, u) ==
  LET b == w.place[u] IN
    IF b = None THEN w ELSE IF w.founder[b] = u THEN Closed(w, b) ELSE Vacated(w, u, b)

Without(w, u) == [w EXCEPT !.users = @ \ {u}, !.chan = @ \ {u}]

HeardUser(w, m, x) ==
  \/ m.is = "ADDUSER" /\ x = [w EXCEPT !.users = @ \cup {m.who}]
  \/ m.is = "REMOVEUSER" /\ m.who = Me /\ x = w
  \/ /\ m.is = "REMOVEUSER" /\ m.who # Me /\ m.who \in w.users
     /\ x = Without(Departed(w, m.who), m.who)

HeardBattle(w, m, x) ==
  \/ /\ m.is = "BATTLEOPENED"
     /\ m.at \notin Open(w) /\ m.who \in w.users /\ w.place[m.who] = None
     /\ x = [w EXCEPT !.founder[m.at] = m.who, !.place[m.who] = m.at]
  \/ m.is = "BATTLECLOSED" /\ m.at \in Open(w) /\ x = Closed(w, m.at)
  \/ /\ m.is \in {"OPENBATTLE", "JOINBATTLE"} /\ m.at \in Open(w)
     /\ x = [w EXCEPT !.room = m.at, !.crew = {}]

HeardMember(w, m, x) ==
  \/ /\ m.is = "JOINEDBATTLE"
     /\ m.at \in Open(w) /\ m.who \in w.users /\ w.place[m.who] = None
     /\ x = [w EXCEPT !.place[m.who] = m.at]
  \/ /\ m.is = "LEFTBATTLE"
     /\ w.place[m.who] = m.at /\ w.founder[m.at] # m.who
     /\ x = Vacated(w, m.who, m.at)
  \/ m.is = "ADDBOT" /\ x = w
  \/ m.is = "ADDBOT" /\ m.at = w.room /\ x = [w EXCEPT !.crew = @ \cup {m.who}]
  \/ m.is = "REMOVEBOT" /\ x = [w EXCEPT !.crew = @ \ {m.who}]

HeardChannel(w, m, x) ==
  \/ m.is = "JOIN" /\ x = [w EXCEPT !.joined = TRUE]
  \/ /\ m.is \in {"JOINED", "CLIENTS"} /\ w.joined /\ m.who \in w.users
     /\ x = [w EXCEPT !.chan = @ \cup {m.who}]
  \/ m.is = "LEFT" /\ x = [w EXCEPT !.chan = @ \ {m.who}]

Heard(w, m, x) ==
  HeardUser(w, m, x) \/ HeardBattle(w, m, x) \/ HeardMember(w, m, x) \/ HeardChannel(w, m, x)

Step(w, m, x) == Possible(w) /\ Possible(x) /\ Heard(w, m, x)

(* The messages q lead from the world w to the world v.                    *)
Leads(w, q, v) ==
  /\ Possible(w) /\ Possible(v) /\ q \in Seq(Message)
  /\ \E f \in [0 .. Len(q) -> Worlds] :
       /\ f[0] = w /\ f[Len(q)] = v
       /\ \A i \in 1 .. Len(q) : Step(f[i - 1], q[i], f[i])

(* The world v is what the server would have the client see.               *)
Agrees(v, s) ==
  /\ v.users = s.users /\ v.founder = s.founder /\ v.place = s.place
  /\ v.room = s.place[Me]
  /\ v.room # None => s.bots[v.room] \subseteq v.crew
  /\ Me \in s.chan => s.chan \subseteq v.chan

(* The server has no bots but in battles, and nobody in the channel that   *)
(* is not there.                                                           *)
Sound(s) ==
  /\ s \in Truths
  /\ s.chan \subseteq s.users
  /\ \A b \in Battles : s.founder[b] = None => s.bots[b] = {}

(* The inductive invariant.                                                *)
IInv ==
  /\ events \in 0 .. MaxEvents /\ Sound(srv)
  /\ \E w, v \in Worlds : Shows(reg, w) /\ Leads(w, in, v) /\ Agrees(v, srv)
-----------------------------------------------------------------------------
(* The ways of messages.  No message leads nowhere,                        *)
LEMMA LeadsEmpty ==
  ASSUME NEW w, Possible(w)
  PROVE  Leads(w, <<>>, w)
<1> DEFINE f == [i \in 0 .. 0 |-> w]
<1>1. f \in [0 .. Len(<<>>) -> Worlds] /\ f[0] = w
  BY DEF Possible
<1>2. <<>> \in Seq(Message) /\ Len(<<>>) = 0
  OBVIOUS
<1> HIDE DEF f
<1> QED
  BY <1>1, <1>2 DEF Leads

(* from there the world is where it was;                                   *)
LEMMA LeadsNowhere ==
  ASSUME NEW w, NEW v, Leads(w, <<>>, v)
  PROVE  w = v
<1>1. Len(<<>>) = 0
  OBVIOUS
<1> QED
  BY <1>1 DEF Leads

(* one of them to the next world,                                          *)
LEMMA LeadsOne ==
  ASSUME NEW w, NEW m \in Message, NEW x, Step(w, m, x)
  PROVE  Leads(w, <<m>>, x)
<1> DEFINE f == [i \in 0 .. 1 |-> IF i = 0 THEN w ELSE x]
<1>1. w \in Worlds /\ x \in Worlds
  BY DEF Step, Possible
<1>2. f \in [0 .. 1 -> Worlds] /\ f[0] = w /\ f[1] = x
  BY <1>1
<1>3. <<m>> \in Seq(Message) /\ Len(<<m>>) = 1 /\ <<m>>[1] = m
  OBVIOUS
<1> HIDE DEF f
<1>4. \A i \in 1 .. 1 : i = 1 /\ i - 1 = 0
  OBVIOUS
<1>5. \A i \in 1 .. 1 : Step(f[i - 1], <<m>>[i], f[i])
  BY <1>2, <1>3, <1>4
<1> QED
  BY <1>2, <1>3, <1>5 DEF Leads, Step

(* and two ways one after the other are one.                               *)
LEMMA LeadsOn ==
  ASSUME NEW w, NEW q, NEW v, Leads(w, q, v), NEW p, NEW x, Leads(v, p, x)
  PROVE  Leads(w, q \o p, x)
<1>1. q \in Seq(Message) /\ p \in Seq(Message) /\ Possible(w) /\ Possible(x)
  BY DEF Leads
<1>2. PICK f \in [0 .. Len(q) -> Worlds] :
        /\ f[0] = w /\ f[Len(q)] = v
        /\ \A i \in 1 .. Len(q) : Step(f[i - 1], q[i], f[i])
  BY DEF Leads
<1>3. PICK g \in [0 .. Len(p) -> Worlds] :
        /\ g[0] = v /\ g[Len(p)] = x
        /\ \A i \in 1 .. Len(p) : Step(g[i - 1], p[i], g[i])
  BY DEF Leads
<1> DEFINE n == Len(q)
           h == [i \in 0 .. n + Len(p) |-> IF i <= n THEN f[i] ELSE g[i - n]]
<1>4. /\ q \o p \in Seq(Message) /\ Len(q \o p) = n + Len(p)
      /\ n \in Nat /\ Len(p) \in Nat
      /\ \A i \in 1 .. n : (q \o p)[i] = q[i]
      /\ \A i \in 1 .. Len(p) : (q \o p)[i + n] = p[i]
  BY <1>1
<1>5. h \in [0 .. Len(q \o p) -> Worlds]
  BY <1>4
<1>6. h[0] = w /\ h[Len(q \o p)] = x
  <2>1. h[0] = w
    <3>1. 0 \in 0 .. n + Len(p) /\ 0 <= n
      BY <1>4
    <3> QED
      BY <1>2, <3>1
  <2>2. CASE Len(p) = 0
    <3>1. n + Len(p) = n /\ n \in 0 .. n + Len(p)
      BY <1>4, <2>2
    <3>2. h[n + Len(p)] = f[n]
      BY <3>1
    <3> QED
      BY <1>2, <1>3, <1>4, <2>1, <2>2, <3>2
  <2>3. CASE Len(p) > 0
    <3>1. n + Len(p) \in 0 .. n + Len(p) /\ ~ n + Len(p) <= n
          /\ n + Len(p) - n = Len(p)
      BY <1>4, <2>3
    <3>2. h[n + Len(p)] = g[Len(p)]
      BY <3>1
    <3> QED
      BY <1>3, <1>4, <2>1, <3>2
  <2> QED
    BY <1>4, <2>1, <2>2, <2>3
<1>7. ASSUME NEW i \in 1 .. Len(q \o p)
      PROVE  Step(h[i - 1], (q \o p)[i], h[i])
  <2>1. CASE i <= n
    <3>1. h[i - 1] = f[i - 1] /\ h[i] = f[i] /\ i \in 1 .. n
      BY <1>4, <2>1
    <3> QED
      BY <1>2, <1>4, <3>1
  <2>2. CASE i > n
    <3> DEFINE j == i - n
    <3>1. j \in 1 .. Len(p) /\ i = j + n
      BY <1>4, <2>2
    <3>2. h[i] = g[j]
      BY <1>4, <2>2
    <3>3. h[i - 1] = g[j - 1]
      <4>1. CASE j = 1
        <5>1. i - 1 = n /\ j - 1 = 0 /\ n \in 0 .. n + Len(p)
          BY <1>4, <4>1
        <5>2. h[n] = f[n]
          BY <1>4
        <5> QED
          BY <1>2, <1>3, <5>1, <5>2
      <4>2. CASE j # 1
        <5>1. i - 1 \in 0 .. n + Len(p) /\ ~ i - 1 <= n /\ i - 1 - n = j - 1
          BY <1>4, <3>1, <4>2
        <5> QED
          BY <5>1
      <4> QED
        BY <4>1, <4>2
    <3> HIDE DEF h, n
    <3>4. (q \o p)[i] = p[j]
      BY <1>4, <3>1
    <3> HIDE DEF j
    <3> QED
      BY <1>3, <3>1, <3>2, <3>3, <3>4
  <2> QED
    BY <1>4, <2>1, <2>2
<1> HIDE DEF h, n
<1> QED
  BY <1>1, <1>4, <1>5, <1>6, <1>7 DEF Leads

(* The first message leads to the next world, the others from there.       *)
LEMMA LeadsTail ==
  ASSUME NEW w, NEW q, NEW v, Leads(w, q, v), q # <<>>
  PROVE  \E x \in Worlds : Step(w, Head(q), x) /\ Leads(x, Tail(q), v)
<1>1. q \in Seq(Message) /\ Possible(v)
  BY DEF Leads
<1>2. PICK f \in [0 .. Len(q) -> Worlds] :
        /\ f[0] = w /\ f[Len(q)] = v
        /\ \A i \in 1 .. Len(q) : Step(f[i - 1], q[i], f[i])
  BY DEF Leads
<1> DEFINE g == [i \in 0 .. Len(Tail(q)) |-> f[i + 1]]
<1>3. /\ Tail(q) \in Seq(Message) /\ Len(Tail(q)) = Len(q) - 1 /\ Len(q) \in Nat
      /\ Len(q) >= 1 /\ Head(q) = q[1]
      /\ \A i \in 1 .. Len(Tail(q)) : i + 1 \in 1 .. Len(q) /\ Tail(q)[i] = q[i + 1]
  BY <1>1
<1>4. /\ g \in [0 .. Len(Tail(q)) -> Worlds] /\ g[0] = f[1] /\ g[Len(Tail(q))] = v
      /\ \A i \in 1 .. Len(Tail(q)) : g[i] = f[i + 1] /\ g[i - 1] = f[i + 1 - 1]
  BY <1>2, <1>3
<1>5. Step(w, Head(q), f[1]) /\ f[1] \in Worlds
  <2>1. 1 \in 1 .. Len(q) /\ 1 \in 0 .. Len(q) /\ 1 - 1 = 0
    BY <1>3
  <2> QED
    BY <1>2, <1>3, <2>1
<1> HIDE DEF g
<1>6. \A i \in 1 .. Len(Tail(q)) : Step(g[i - 1], Tail(q)[i], g[i])
  BY <1>2, <1>3, <1>4
<1>7. Leads(f[1], Tail(q), v)
  BY <1>1, <1>3, <1>4, <1>5, <1>6 DEF Leads, Step
<1> QED
  BY <1>5, <1>7
-----------------------------------------------------------------------------
(* What the messages are about.                                            *)
LEMMA MessageParts ==
  ASSUME NEW m \in Message
  PROVE  /\ m.is \in {"ADDUSER", "REMOVEUSER", "CLIENTS", "JOINED", "LEFT",
                      "BATTLEOPENED", "JOINEDBATTLE", "LEFTBATTLE"} => m.who \in Users
         /\ m.is \in {"BATTLEOPENED", "JOINEDBATTLE", "LEFTBATTLE", "BATTLECLOSED",
                      "OPENBATTLE", "JOINBATTLE", "ADDBOT", "REMOVEBOT"} => m.at \in Battles
         /\ m.is \in {"ADDBOT", "REMOVEBOT"} => m.who \in Bots
  BY DEF Message

(* The names for nobody and no battle are taken by none.                   *)
LEMMA NoneApart ==
  /\ None \notin Users /\ None \notin Battles /\ Me \in Users
  /\ \A n \in Bots : n \notin Users
  BY RegistryAssumption DEF Names, Users

(* A founder is a user that is in its battle.                              *)
LEMMA FounderThere ==
  ASSUME NEW w, Possible(w), NEW b \in Open(w)
  PROVE  /\ b \in Battles /\ w.founder[b] \in Users /\ w.founder[b] # None
         /\ w.place[w.founder[b]] = b
  BY DEF Possible, Worlds, Open

(* A world stays possible when a battle is closed,                         *)
LEMMA ClosedPossible ==
  ASSUME NEW w, Possible(w), NEW b \in Battles
  PROVE  /\ Possible(Closed(w, b))
         /\ Closed(w, b).users = w.users /\ Closed(w, b).chan = w.chan
         /\ Closed(w, b).joined = w.joined /\ Closed(w, b).crew = w.crew
         /\ Closed(w, b).founder = [w.founder EXCEPT ![b] = None]
         /\ Closed(w, b).place = [u \in Users |-> IF w.place[u] = b THEN None ELSE w.place[u]]
         /\ Closed(w, b).room = IF w.room = b THEN None ELSE w.room
<1> DEFINE x == Closed(w, b)
<1>1. w \in Worlds
  BY DEF Possible
<1>2. /\ x \in Worlds
      /\ x.users = w.users /\ x.chan = w.chan /\ x.joined = w.joined /\ x.crew = w.crew
      /\ x.founder = [w.founder EXCEPT ![b] = None]
      /\ x.place = [u \in Users |-> IF w.place[u] = b THEN None ELSE w.place[u]]
      /\ x.room = IF w.room = b THEN None ELSE w.room
  BY <1>1 DEF Closed, Worlds
<1> HIDE DEF x
<1>3. Open(x) = Open(w) \ {b}
  BY <1>1, <1>2 DEF Open, Worlds
<1>4. \A u \in Users : x.place[u] # None => u \in x.users /\ x.place[u] \in Open(x)
  BY <1>2, <1>3 DEF Possible
<1>5. ASSUME NEW c \in Open(x)
      PROVE  x.place[x.founder[c]] = c
  <2>1. c \in Open(w) /\ c # b /\ x.founder[c] = w.founder[c]
    BY <1>1, <1>2, <1>3, <1>5 DEF Worlds, Open
  <2> QED
    BY <1>2, <2>1, FounderThere
<1>6. x.room \in Open(x) \cup {None}
  BY <1>2, <1>3 DEF Possible
<1>7. Possible(x)
  BY <1>2, <1>4, <1>5, <1>6 DEF Possible
<1> QED
  BY <1>2, <1>7 DEF x

(* when a user that does not found its battle leaves it,                   *)
LEMMA VacatedPossible ==
  ASSUME NEW w, Possible(w), NEW u \in Users, NEW b \in Battles,
         w.place[u] = b, w.founder[b] # u
  PROVE  /\ Possible(Vacated(w, u, b))
         /\ Vacated(w, u, b).users = w.users /\ Vacated(w, u, b).chan = w.chan
         /\ Vacated(w, u, b).joined = w.joined /\ Vacated(w, u, b).crew = w.crew
         /\ Vacated(w, u, b).founder = w.founder
         /\ Vacated(w, u, b).place = [w.place EXCEPT ![u] = None]
         /\ Vacated(w, u, b).room = IF u = Me /\ w.room = b THEN None ELSE w.room
<1> DEFINE x == Vacated(w, u, b)
<1>1. w \in Worlds
  BY DEF Possible
<1>2. /\ x \in Worlds
      /\ x.users = w.users /\ x.chan = w.chan /\ x.joined = w.joined /\ x.crew = w.crew
      /\ x.founder = w.founder /\ x.place = [w.place EXCEPT ![u] = None]
      /\ x.room = IF u = Me /\ w.room = b THEN None ELSE w.room
  BY <1>1 DEF Vacated, Worlds
<1> HIDE DEF x
<1>3. Open(x) = Open(w)
  BY <1>2 DEF Open
<1>4. \A v \in Users : x.place[v] # None => v \in x.users /\ x.place[v] \in Open(x)
  BY <1>1, <1>2, <1>3 DEF Possible, Worlds
<1>5. ASSUME NEW c \in Open(x)
      PROVE  x.place[x.founder[c]] = c
  <2>1. w.founder[c] \in Users /\ w.place[w.founder[c]] = c
    BY <1>3, <1>5, FounderThere
  <2>2. w.founder[c] # u
    BY <2>1
  <2> QED
    BY <1>1, <1>2, <2>1, <2>2 DEF Worlds
<1>6. x.room \in Open(x) \cup {None}
  BY <1>2, <1>3 DEF Possible
<1>7. Possible(x)
  BY <1>2, <1>4, <1>5, <1>6 DEF Possible
<1> QED
  BY <1>2, <1>7 DEF x

(* when a user leaves as it is, after which it founds nothing,             *)
LEMMA DepartedPossible ==
  ASSUME NEW w, Possible(w), NEW u \in Users
  PROVE  /\ Possible(Departed(w, u)) /\ Departed(w, u).place[u] = None
         /\ Departed(w, u).users = w.users /\ Departed(w, u).chan = w.chan
         /\ Departed(w, u).joined = w.joined /\ Departed(w, u).crew = w.crew
<1>1. w \in Worlds
  BY DEF Possible
<1>2. CASE w.place[u] = None
  BY <1>2 DEF Departed
<1>3. CASE w.place[u] # None
  <2>1. PICK b \in Battles : b = w.place[u]
    BY <1>1, <1>3 DEF Worlds
  <2>2. CASE w.founder[b] = u
    <3> DEFINE x == Closed(w, b)
    <3>1. Departed(w, u) = x
      BY <1>3, <2>1, <2>2 DEF Departed
    <3>2. /\ Possible(x) /\ x.users = w.users /\ x.chan = w.chan
          /\ x.joined = w.joined /\ x.crew = w.crew
          /\ x.place = [v \in Users |-> IF w.place[v] = b THEN None ELSE w.place[v]]
      BY ClosedPossible
    <3> HIDE DEF x
    <3>3. x.place[u] = None
      BY <2>1, <3>2
    <3> QED
      BY <3>1, <3>2, <3>3
  <2>3. CASE w.founder[b] # u
    <3> DEFINE x == Vacated(w, u, b)
    <3>1. Departed(w, u) = x
      BY <1>3, <2>1, <2>3 DEF Departed
    <3>2. /\ Possible(x) /\ x.users = w.users /\ x.chan = w.chan
          /\ x.joined = w.joined /\ x.crew = w.crew
          /\ x.place = [w.place EXCEPT ![u] = None]
      BY <2>1, <2>3, VacatedPossible
    <3> HIDE DEF x
    <3>3. x.place[u] = None
      BY <1>1, <3>2 DEF Worlds
    <3> QED
      BY <3>1, <3>2, <3>3
  <2> QED
    BY <2>2, <2>3
<1> QED
  BY <1>2, <1>3

(* and when another user that is in no battle goes.                        *)
LEMMA WithoutPossible ==
  ASSUME NEW w, Possible(w), NEW u \in Users, u # Me, w.place[u] = None
  PROVE  /\ Possible(Without(w, u))
         /\ Without(w, u).users = w.users \ {u} /\ Without(w, u).chan = w.chan \ {u}
         /\ Without(w, u).joined = w.joined /\ Without(w, u).crew = w.crew
         /\ Without(w, u).founder = w.founder /\ Without(w, u).place = w.place
         /\ Without(w, u).room = w.room
<1> DEFINE x == Without(w, u)
<1>1. /\ x \in Worlds
      /\ x.users = w.users \ {u} /\ x.chan = w.chan \ {u}
      /\ x.joined = w.joined /\ x.crew = w.crew
      /\ x.founder = w.founder /\ x.place = w.place /\ x.room = w.room
  BY DEF Without, Possible, Worlds
<1> HIDE DEF x
<1>2. Open(x) = Open(w)
  BY <1>1 DEF Open
<1>3. Possible(x)
  BY <1>1, <1>2 DEF Possible
<1> QED
  BY <1>1, <1>3 DEF x

(* Every message that the server sends leaves the world possible.          *)
LEMMA HeardPossible ==
  ASSUME NEW w, Possible(w), NEW m \in Message, NEW x, Heard(w, m, x)
  PROVE  Possible(x)
<1>1. w \in Worlds
  BY DEF Possible
<1>2. CASE HeardUser(w, m, x)
  <2>1. m.who \in Users
    BY <1>2, MessageParts DEF HeardUser
  <2>2. CASE x = [w EXCEPT !.users = @ \cup {m.who}]
    <3>1. /\ x \in Worlds /\ x.users = w.users \cup {m.who} /\ x.chan = w.chan
          /\ x.joined = w.joined /\ x.founder = w.founder /\ x.place = w.place
          /\ x.room = w.room
      BY <1>1, <2>1, <2>2 DEF Worlds
    <3>2. Open(x) = Open(w)
      BY <3>1 DEF Open
    <3> QED
      BY <3>1, <3>2 DEF Possible
  <2>3. CASE x = w
    BY <2>3
  <2>4. CASE m.who # Me /\ x = Without(Departed(w, m.who), m.who)
    BY <2>1, <2>4, DepartedPossible, WithoutPossible
  <2> QED
    BY <1>2, <2>2, <2>3, <2>4 DEF HeardUser
<1>3. CASE HeardBattle(w, m, x)
  <2>1. m.at \in Battles
    BY <1>3, MessageParts DEF HeardBattle
  <2>2. CASE m.is = "BATTLEOPENED"
    <3>1. /\ m.at \notin Open(w) /\ m.who \in w.users /\ w.place[m.who] = None
          /\ x = [w EXCEPT !.founder[m.at] = m.who, !.place[m.who] = m.at]
      BY <1>3, <2>2 DEF HeardBattle
    <3>2. m.who \in Users
      BY <2>2, MessageParts
    <3>3. /\ x \in Worlds /\ x.users = w.users /\ x.chan = w.chan
          /\ x.joined = w.joined /\ x.room = w.room
          /\ x.founder = [w.founder EXCEPT ![m.at] = m.who]
          /\ x.place = [w.place EXCEPT ![m.who] = m.at]
      BY <1>1, <2>1, <3>1, <3>2 DEF Worlds
    <3>4. Open(x) = Open(w) \cup {m.at}
      BY <1>1, <2>1, <3>2, <3>3, NoneApart DEF Open, Worlds
    <3>5. \A u \in Users : x.place[u] # None => u \in x.users /\ x.place[u] \in Open(x)
      BY <1>1, <3>1, <3>3, <3>4 DEF Possible, Worlds
    <3>6. ASSUME NEW c \in Open(x)
          PROVE  x.place[x.founder[c]] = c
      <4>1. CASE c = m.at
        BY <1>1, <2>1, <3>2, <3>3, <4>1 DEF Worlds
      <4>2. CASE c # m.at
        <5>1. c \in Open(w) /\ x.founder[c] = w.founder[c]
          BY <1>1, <3>3, <3>4, <3>6, <4>2 DEF Worlds, Open
        <5>2. c \in Battles /\ w.founder[c] \in Users /\ w.place[w.founder[c]] = c
          BY <5>1, FounderThere
        <5>3. w.founder[c] # m.who
          BY <3>1, <5>2, NoneApart
        <5> QED
          BY <1>1, <3>3, <5>1, <5>2, <5>3 DEF Worlds
      <4> QED
        BY <4>1, <4>2
    <3>7. x.room \in Open(x) \cup {None}
      BY <3>3, <3>4 DEF Possible
    <3> QED
      BY <3>3, <3>5, <3>6, <3>7 DEF Possible
  <2>3. CASE x = Closed(w, m.at)
    BY <2>1, <2>3, ClosedPossible
  <2>4. CASE m.at \in Open(w) /\ x = [w EXCEPT !.room = m.at, !.crew = {}]
    <3>1. /\ x \in Worlds /\ x.users = w.users /\ x.chan = w.chan
          /\ x.joined = w.joined /\ x.founder = w.founder /\ x.place = w.place
          /\ x.room = m.at
      BY <1>1, <2>1, <2>4 DEF Worlds
    <3>2. Open(x) = Open(w)
      BY <3>1 DEF Open
    <3> QED
      BY <2>4, <3>1, <3>2 DEF Possible
  <2> QED
    BY <1>3, <2>2, <2>3, <2>4 DEF HeardBattle
<1>4. CASE HeardMember(w, m, x)
  <2>1. m.at \in Battles
    BY <1>4, MessageParts DEF HeardMember
  <2>2. CASE m.is = "JOINEDBATTLE"
    <3>1. /\ m.at \in Open(w) /\ m.who \in w.users /\ w.place[m.who] = None
          /\ x = [w EXCEPT !.place[m.who] = m.at]
      BY <1>4, <2>2 DEF HeardMember
    <3>2. m.who \in Users
      BY <2>2, MessageParts
    <3>3. /\ x \in Worlds /\ x.users = w.users /\ x.chan = w.chan
          /\ x.joined = w.joined /\ x.room = w.room /\ x.founder = w.founder
          /\ x.place = [w.place EXCEPT ![m.who] = m.at]
      BY <1>1, <2>1, <3>1, <3>2 DEF Worlds
    <3>4. Open(x) = Open(w)
      BY <3>3 DEF Open
    <3>5. \A u \in Users : x.place[u] # None => u \in x.users /\ x.place[u] \in Open(x)
      BY <1>1, <3>1, <3>3, <3>4 DEF Possible, Worlds
    <3>6. ASSUME NEW c \in Open(x)
          PROVE  x.place[x.founder[c]] = c
      <4>1. c \in Battles /\ w.founder[c] \in Users /\ w.place[w.founder[c]] = c
        BY <3>4, <3>6, FounderThere
      <4>2. w.founder[c] # m.who
        BY <3>1, <4>1, NoneApart
      <4> QED
        BY <1>1, <3>3, <4>1, <4>2 DEF Worlds
    <3> QED
      BY <3>3, <3>4, <3>5, <3>6 DEF Possible
  <2>3. CASE m.is = "LEFTBATTLE"
    <3>1. /\ w.place[m.who] = m.at /\ w.founder[m.at] # m.who
          /\ x = Vacated(w, m.who, m.at) /\ m.who \in Users
      BY <1>4, <2>3, MessageParts DEF HeardMember
    <3> QED
      BY <2>1, <3>1, VacatedPossible
  <2>4. CASE m.is \in {"ADDBOT", "REMOVEBOT"}
    <3>1. m.who \in Bots
      BY <2>4, MessageParts
    <3>2. \/ x = w \/ x = [w EXCEPT !.crew = @ \cup {m.who}]
          \/ x = [w EXCEPT !.crew = @ \ {m.who}]
      BY <1>4, <2>4 DEF HeardMember
    <3>3. /\ x \in Worlds /\ x.users = w.users /\ x.chan = w.chan
          /\ x.joined = w.joined /\ x.founder = w.founder /\ x.place = w.place
          /\ x.room = w.room
      BY <1>1, <3>1, <3>2 DEF Worlds
    <3>4. Open(x) = Open(w)
      BY <3>3 DEF Open
    <3> QED
      BY <3>3, <3>4 DEF Possible
  <2> QED
    BY <1>4, <2>2, <2>3, <2>4 DEF HeardMember
<1>5. CASE HeardChannel(w, m, x)
  <2>1. \/ x = [w EXCEPT !.joined = TRUE]
        \/ w.joined /\ m.who \in w.users /\ x = [w EXCEPT !.chan = @ \cup {m.who}]
        \/ x = [w EXCEPT !.chan = @ \ {m.who}]
    BY <1>5 DEF HeardChannel
  <2>2. /\ x \in Worlds /\ x.users = w.users /\ x.room = w.room
        /\ x.founder = w.founder /\ x.place = w.place
        /\ x.chan \subseteq w.users /\ (x.chan # {} => x.joined)
    <3>1. CASE x = [w EXCEPT !.joined = TRUE]
      BY <1>1, <3>1 DEF Worlds, Possible
    <3>2. CASE w.joined /\ m.who \in w.users /\ x = [w EXCEPT !.chan = @ \cup {m.who}]
      BY <1>1, <3>2 DEF Worlds, Possible
    <3>3. CASE x = [w EXCEPT !.chan = @ \ {m.who}]
      BY <1>1, <3>3 DEF Worlds, Possible
    <3> QED
      BY <2>1, <3>1, <3>2, <3>3
  <2>3. Open(x) = Open(w)
    BY <2>2 DEF Open
  <2> QED
    BY <2>2, <2>3 DEF Possible
<1> QED
  BY <1>2, <1>3, <1>4, <1>5 DEF Heard
-----------------------------------------------------------------------------
(* The handlers.  The registry shows a world but for the users of a battle *)
(* that is about to be closed, of whom some have gone already.             *)
ShowsBut(r, w, b) ==
  /\ r \in Registries
  /\ r.users = w.users /\ r.battles = Open(w) /\ r.founder = w.founder
  /\ \A u \in Users : u \in r.members[b] => w.place[u] = b
  /\ \A u \in Users : u \notin r.members[b] =>
       r.battle[u] = IF w.place[u] = b THEN None ELSE w.place[u]
  /\ r.room = w.room \/ (w.room = b /\ r.room = None)
  /\ \A c \in Battles : c # b => r.members[c] \cap Users = {u \in Users : w.place[u] = c}
  /\ w.room \notin {b, None} => w.crew \subseteq r.members[w.room]
  /\ w.chan \subseteq r.chan /\ r.chan \subseteq r.users
  /\ w.joined => r.hasChan

(* At first all of them are there.                                         *)
LEMMA ShowsAll ==
  ASSUME NEW r, NEW w, Possible(w), Shows(r, w), NEW b \in Battles
  PROVE  ShowsBut(r, w, b)
<1>1. \A u \in Users : u \in r.members[b] <=> w.place[u] = b
  BY DEF Shows
<1>2. r.battle = w.place
  BY DEF Shows
<1> QED
  BY <1>1, <1>2 DEF Shows, ShowsBut

(* BATTLECLOSED.                                                           *)
LEMMA ClosedShown ==
  ASSUME NEW r, NEW w, Possible(w), NEW b \in Open(w), ShowsBut(r, w, b)
  PROVE  Shows(OnBattleClosed(r, b), Closed(w, b))
<1> DEFINE t == OnBattleClosed(r, b)
           x == Closed(w, b)
<1>1. b \in Battles /\ b \in r.battles /\ b # None
  BY NoneApart DEF ShowsBut, Open
<1>2. /\ Possible(x) /\ x.users = w.users /\ x.chan = w.chan
      /\ x.joined = w.joined /\ x.crew = w.crew
      /\ x.founder = [w.founder EXCEPT ![b] = None]
      /\ x.place = [u \in Users |-> IF w.place[u] = b THEN None ELSE w.place[u]]
      /\ x.room = IF w.room = b THEN None ELSE w.room
  BY <1>1, ClosedPossible
<1>3. w \in Worlds
  BY DEF Possible
<1>4. /\ t \in Registries /\ t.users = r.users /\ t.battles = r.battles \ {b}
      /\ t.founder = [r.founder EXCEPT ![b] = None]
      /\ t.members = [r.members EXCEPT ![b] = {}]
      /\ t.room = IF r.room = b THEN None ELSE r.room
      /\ t.battle = [u \in Users |-> IF u \in r.members[b] THEN None ELSE r.battle[u]]
      /\ t.chan = r.chan /\ t.hasChan = r.hasChan
  BY <1>1 DEF OnBattleClosed, ShowsBut, Registries
<1> HIDE DEF t, x
<1>5. Open(x) = Open(w) \ {b}
  BY <1>2, <1>3 DEF Open, Worlds
<1>6. t.battles = Open(x) /\ t.users = x.users /\ t.founder = x.founder
  BY <1>2, <1>4, <1>5 DEF ShowsBut
<1>7. t.battle = x.place
  <2>1. \A u \in Users : (IF u \in r.members[b] THEN None ELSE r.battle[u])
                           = IF w.place[u] = b THEN None ELSE w.place[u]
    BY DEF ShowsBut
  <2> QED
    BY <1>2, <1>4, <2>1
<1>8. t.room = x.room
  BY <1>2, <1>4 DEF ShowsBut
<1>9. ASSUME NEW c \in Battles
      PROVE  t.members[c] \cap Users = {u \in Users : x.place[u] = c}
  <2>1. r.members \in [Battles -> SUBSET Names]
    BY DEF ShowsBut, Registries
  <2>2. CASE c = b
    <3>1. t.members[c] = {}
      BY <1>4, <2>1, <2>2
    <3>2. \A u \in Users : x.place[u] # b
      BY <1>1, <1>2
    <3> QED
      BY <2>2, <3>1, <3>2
  <2>3. CASE c # b
    <3>1. t.members[c] = r.members[c]
      BY <1>4, <2>1, <2>3
    <3>2. \A u \in Users : x.place[u] = c <=> w.place[u] = c
      BY <1>2, <2>3, NoneApart
    <3> QED
      BY <2>3, <3>1, <3>2 DEF ShowsBut
  <2> QED
    BY <2>2, <2>3
<1>10. x.room # None => x.crew \subseteq t.members[x.room]
  <2>1. ASSUME x.room # None
        PROVE  x.crew \subseteq t.members[x.room]
    <3>1. x.room = w.room /\ w.room \notin {b, None} /\ w.room \in Battles
      BY <1>2, <1>3, <2>1 DEF Worlds
    <3>2. t.members[w.room] = r.members[w.room]
      BY <1>4, <3>1 DEF ShowsBut, Registries
    <3> QED
      BY <1>2, <3>1, <3>2 DEF ShowsBut
  <2> QED
    BY <2>1
<1>11. /\ x.chan \subseteq t.chan /\ t.chan \subseteq t.users
       /\ x.joined => t.hasChan
  BY <1>2, <1>4 DEF ShowsBut
<1>12. Shows(t, x)
  BY <1>4, <1>6, <1>7, <1>8, <1>9, <1>10, <1>11 DEF Shows
<1> QED
  BY <1>12 DEF t, x

(* What changes when some users leave a battle.                            *)
LEMMA LeaveParts ==
  ASSUME NEW r \in Registries, NEW b \in Battles, NEW gone
  PROVE  /\ UsersLeave(r, b, gone) \in Registries
         /\ UsersLeave(r, b, gone).users = r.users
         /\ UsersLeave(r, b, gone).battles = r.battles
         /\ UsersLeave(r, b, gone).founder = r.founder
         /\ UsersLeave(r, b, gone).members = [r.members EXCEPT ![b] = @ \ gone]
         /\ UsersLeave(r, b, gone).room = IF Me \in gone /\ r.room = b THEN None ELSE r.room
         /\ UsersLeave(r, b, gone).battle =
              [u \in Users |-> IF u \in gone THEN None ELSE r.battle[u]]
         /\ UsersLeave(r, b, gone).chan = r.chan
         /\ UsersLeave(r, b, gone).hasChan = r.hasChan
<1> DEFINE t == OnUsersRemoved(r, b, gone)
<1>1. /\ t \in Registries /\ t.users = r.users /\ t.battles = r.battles
      /\ t.founder = r.founder /\ t.members = [r.members EXCEPT ![b] = @ \ gone]
      /\ t.room = r.room /\ t.chan = r.chan /\ t.hasChan = r.hasChan
      /\ t.battle = [u \in Users |-> IF u \in gone THEN None ELSE r.battle[u]]
  BY DEF OnUsersRemoved, Registries
<1>2. UsersLeave(r, b, gone) =
        IF Me \in gone /\ r.room = b THEN [t EXCEPT !.room = None] ELSE t
  BY DEF UsersLeave, LeaveCurrentBattle
<1> HIDE DEF t
<1>3. CASE Me \in gone /\ r.room = b
  BY <1>1, <1>2, <1>3 DEF Registries
<1>4. CASE ~ (Me \in gone /\ r.room = b)
  BY <1>1, <1>2, <1>4
<1> QED
  BY <1>3, <1>4

(* LEFTBATTLE of a user that does not found the battle.                    *)
LEMMA VacatedShown ==
  ASSUME NEW r, NEW w, Possible(w), Shows(r, w), NEW u \in Users, NEW b \in Battles,
         w.place[u] = b, w.founder[b] # u
  PROVE  Shows(OnUserLeftBattle(r, b, u), Vacated(w, u, b))
<1> DEFINE t == OnUserLeftBattle(r, b, u)
           x == Vacated(w, u, b)
<1>1. /\ Possible(x) /\ x.users = w.users /\ x.chan = w.chan
      /\ x.joined = w.joined /\ x.crew = w.crew
      /\ x.founder = w.founder /\ x.place = [w.place EXCEPT ![u] = None]
      /\ x.room = IF u = Me /\ w.room = b THEN None ELSE w.room
  BY VacatedPossible
<1>2. w \in Worlds
  BY DEF Possible
<1>3. b \in r.battles /\ u \in r.members[b]
  <2>1. b \in Open(w)
    BY NoneApart DEF Possible
  <2> QED
    BY <2>1 DEF Shows
<1>4. t = UsersLeave(r, b, {u})
  BY <1>3 DEF OnUserLeftBattle
<1>5. /\ t \in Registries /\ t.users = r.users /\ t.battles = r.battles
      /\ t.founder = r.founder /\ t.members = [r.members EXCEPT ![b] = @ \ {u}]
      /\ t.room = IF u = Me /\ r.room = b THEN None ELSE r.room
      /\ t.battle = [v \in Users |-> IF v \in {u} THEN None ELSE r.battle[v]]
      /\ t.chan = r.chan /\ t.hasChan = r.hasChan
  BY <1>4, LeaveParts DEF Shows
<1> HIDE DEF t, x
<1>6. Open(x) = Open(w)
  BY <1>1 DEF Open
<1>7. /\ t.users = x.users /\ t.battles = Open(x) /\ t.founder = x.founder
      /\ t.room = x.room
  BY <1>1, <1>5, <1>6 DEF Shows
<1>8. t.battle = x.place
  BY <1>1, <1>2, <1>5 DEF Shows, Worlds
<1>9. ASSUME NEW c \in Battles
      PROVE  t.members[c] \cap Users = {v \in Users : x.place[v] = c}
  <2>1. r.members \in [Battles -> SUBSET Names]
    BY DEF Shows, Registries
  <2>2. \A v \in Users : v \in r.members[c] <=> w.place[v] = c
    BY DEF Shows
  <2>3. \A v \in Users : x.place[v] = c <=> v # u /\ w.place[v] = c
    BY <1>1, <1>2, NoneApart DEF Worlds
  <2>4. \A v \in Users : v \in t.members[c] <=> v # u /\ v \in r.members[c]
    BY <1>5, <2>1, <2>2
  <2> QED
    BY <2>2, <2>3, <2>4
<1>10. x.room # None => x.crew \subseteq t.members[x.room]
  <2>1. ASSUME x.room # None
        PROVE  x.crew \subseteq t.members[x.room]
    <3>1. x.room = w.room /\ w.room # None /\ w.room \in Battles
      BY <1>1, <1>2, <2>1 DEF Worlds
    <3>2. u \notin w.crew
      BY <1>2, NoneApart DEF Worlds
    <3>3. r.members[w.room] \ {u} \subseteq t.members[w.room]
      BY <1>5, <3>1 DEF Shows, Registries
    <3> QED
      BY <1>1, <3>1, <3>2, <3>3 DEF Shows
  <2> QED
    BY <2>1
<1>11. /\ x.chan \subseteq t.chan /\ t.chan \subseteq t.users
       /\ x.joined => t.hasChan
  BY <1>1, <1>5 DEF Shows
<1>12. Shows(t, x)
  BY <1>5, <1>7, <1>8, <1>9, <1>10, <1>11 DEF Shows
<1> QED
  BY <1>12 DEF t, x

(* REMOVEUSER.                                                             *)
LEMMA DepartedShown ==
  ASSUME NEW r, NEW w, Possible(w), Shows(r, w), NEW u \in Users
  PROVE  Shows(LeaveBattleOf(r, u), Departed(w, u))
<1>1. w \in Worlds /\ r \in Registries /\ r.battle[u] = w.place[u]
  BY DEF Possible, Shows
<1>2. CASE w.place[u] = None
  BY <1>1, <1>2 DEF LeaveBattleOf, Departed
<1>3. CASE w.place[u] # None
  <2>1. PICK b \in Battles : b = w.place[u]
    BY <1>1, <1>3 DEF Worlds
  <2>2. b \in Open(w) /\ b # None
    BY <1>3, <2>1 DEF Possible
  <2>3. r.founder[b] = w.founder[b] /\ r.founder[b] \in r.members[b]
    <3>1. w.founder[b] \in Users /\ w.place[w.founder[b]] = b
      BY <2>2, FounderThere
    <3> QED
      BY <3>1 DEF Shows
  <2>4. CASE w.founder[b] # u
    <3>1. LeaveBattleOf(r, u) = OnUserLeftBattle(r, b, u)
      BY <1>1, <2>1, <2>2, <2>3, <2>4 DEF LeaveBattleOf
    <3>2. Departed(w, u) = Vacated(w, u, b)
      BY <2>1, <2>2, <2>4 DEF Departed
    <3> QED
      BY <2>1, <2>4, <3>1, <3>2, VacatedShown
  <2>5. CASE w.founder[b] = u
    <3> DEFINE gone == EverySecond(r.members[b])
               t == UsersLeave(r, b, gone)
    <3>1. LeaveBattleOf(r, u) = OnBattleClosed(t, b)
      BY <1>1, <2>1, <2>2, <2>3, <2>5 DEF LeaveBattleOf
    <3>2. Departed(w, u) = Closed(w, b)
      BY <2>1, <2>2, <2>5 DEF Departed
    <3>3. gone \subseteq r.members[b]
      BY DEF EverySecond
    <3> HIDE DEF gone
    <3>4. /\ t \in Registries /\ t.users = r.users /\ t.battles = r.battles
          /\ t.founder = r.founder /\ t.members = [r.members EXCEPT ![b] = @ \ gone]
          /\ t.room = IF Me \in gone /\ r.room = b THEN None ELSE r.room
          /\ t.battle = [v \in Users |-> IF v \in gone THEN None ELSE r.battle[v]]
          /\ t.chan = r.chan /\ t.hasChan = r.hasChan
      BY <1>1, LeaveParts
    <3> HIDE DEF t
    <3>5. r.members \in [Battles -> SUBSET Names]
      BY <1>1 DEF Registries
    <3>6. t.members[b] = r.members[b] \ gone
          /\ \A c \in Battles : c # b => t.members[c] = r.members[c]
      BY <3>4, <3>5
    <3>7. \A v \in Users : v \in r.members[b] <=> w.place[v] = b
      BY DEF Shows
    <3>8. ASSUME NEW v \in Users, v \notin t.members[b]
          PROVE  t.battle[v] = IF w.place[v] = b THEN None ELSE w.place[v]
      <4>1. CASE v \in gone
        BY <3>3, <3>4, <3>7, <4>1
      <4>2. CASE v \notin gone
        <5>1. w.place[v] # b
          BY <3>6, <3>7, <3>8, <4>2
        <5>2. t.battle[v] = w.place[v]
          BY <3>4, <4>2 DEF Shows
        <5> QED
          BY <5>1, <5>2
      <4> QED
        BY <4>1, <4>2
    <3>9. t.room = w.room \/ (w.room = b /\ t.room = None)
      BY <3>4 DEF Shows
    <3>10. w.room \notin {b, None} => w.crew \subseteq t.members[w.room]
      BY <1>1, <3>6 DEF Shows, Worlds
    <3>11. \A c \in Battles : c # b => t.members[c] \cap Users = {v \in Users : w.place[v] = c}
      BY <3>6 DEF Shows
    <3>12. \A v \in Users : v \in t.members[b] => w.place[v] = b
      BY <3>6, <3>7
    <3>13. ShowsBut(t, w, b)
      BY <3>4, <3>8, <3>9, <3>10, <3>11, <3>12 DEF Shows, ShowsBut
    <3> QED
      BY <2>2, <3>1, <3>2, <3>13, ClosedShown
  <2> QED
    BY <2>4, <2>5
<1> QED
  BY <1>2, <1>3

(* After that a user that is in no battle is removed,                      *)
LEMMA WithoutShown ==
  ASSUME NEW r, NEW w, Possible(w), Shows(r, w), NEW u \in Users, u # Me, w.place[u] = None
  PROVE  Shows(RemoveUser(r, u), Without(w, u))
<1> DEFINE t == RemoveUser(r, u)
           x == Without(w, u)
<1>1. /\ x.users = w.users \ {u} /\ x.chan = w.chan \ {u}
      /\ x.joined = w.joined /\ x.crew = w.crew
      /\ x.founder = w.founder /\ x.place = w.place /\ x.room = w.room
  BY WithoutPossible
<1>2. /\ t \in Registries /\ t.users = r.users \ {u} /\ t.chan = r.chan \ {u}
      /\ t.battles = r.battles /\ t.founder = r.founder /\ t.members = r.members
      /\ t.room = r.room /\ t.hasChan = r.hasChan
      /\ t.battle = [r.battle EXCEPT ![u] = None]
  BY DEF RemoveUser, Shows, Registries
<1>3. r.battle = w.place /\ r.battle \in [Users -> Battles \cup {None}]
  BY DEF Shows, Registries
<1> HIDE DEF t, x
<1>4. t.battle = x.place
  BY <1>1, <1>2, <1>3
<1>5. Open(x) = Open(w)
  BY <1>1 DEF Open
<1>6. Shows(t, x)
  BY <1>1, <1>2, <1>4, <1>5 DEF Shows
<1> QED
  BY <1>6 DEF t, x

(* and so is any other but the client itself.                              *)
LEMMA QuitShown ==
  ASSUME NEW r, NEW w, Possible(w), Shows(r, w), NEW u \in w.users, u # Me, u \in Users
  PROVE  Shows(OnUserQuit(r, u), Without(Departed(w, u), u))
<1>1. OnUserQuit(r, u) = RemoveUser(LeaveBattleOf(r, u), u)
  BY DEF OnUserQuit, Shows
<1>2. Shows(LeaveBattleOf(r, u), Departed(w, u))
  BY DepartedShown
<1>3. Possible(Departed(w, u)) /\ Departed(w, u).place[u] = None
  BY DepartedPossible
<1> QED
  BY <1>1, <1>2, <1>3, WithoutShown

(* ADDUSER.                                                                *)
LEMMA NewUserShown ==
  ASSUME NEW r, NEW w, Possible(w), Shows(r, w), NEW u \in Users
  PROVE  Shows(OnNewUser(r, u), [w EXCEPT !.users = @ \cup {u}])
<1> DEFINE t == OnNewUser(r, u)
           x == [w EXCEPT !.users = @ \cup {u}]
<1>1. /\ x.users = w.users \cup {u} /\ x.chan = w.chan
      /\ x.joined = w.joined /\ x.crew = w.crew
      /\ x.founder = w.founder /\ x.place = w.place /\ x.room = w.room
  BY DEF Possible, Worlds
<1>2. /\ t \in Registries /\ t.users = r.users \cup {u} /\ t.chan = r.chan
      /\ t.battles = r.battles /\ t.founder = r.founder /\ t.members = r.members
      /\ t.room = r.room /\ t.hasChan = r.hasChan /\ t.battle = r.battle
  BY DEF OnNewUser, Shows, Registries
<1> HIDE DEF t, x
<1>3. Open(x) = Open(w)
  BY <1>1 DEF Open
<1>4. Shows(t, x)
  BY <1>1, <1>2, <1>3 DEF Shows
<1> QED
  BY <1>4 DEF t, x

(* What changes when a user or a bot is added to a battle.                 *)
LEMMA AddedParts ==
  ASSUME NEW r \in Registries, NEW b \in Battles, NEW n \in Names
  PROVE  /\ OnUserAdded(r, b, n) \in Registries
         /\ OnUserAdded(r, b, n).users = r.users
         /\ OnUserAdded(r, b, n).battles = r.battles
         /\ OnUserAdded(r, b, n).founder = r.founder
         /\ OnUserAdded(r, b, n).members = [r.members EXCEPT ![b] = @ \cup {n}]
         /\ OnUserAdded(r, b, n).room = r.room
         /\ OnUserAdded(r, b, n).battle = [u \in Users |-> IF u = n THEN b ELSE r.battle[u]]
         /\ OnUserAdded(r, b, n).chan = r.chan
         /\ OnUserAdded(r, b, n).hasChan = r.hasChan
  BY DEF OnUserAdded, Registries

(* A user that is nowhere appears in a battle.  In the first case it is    *)
(* open already; in the second it was opened a moment before.              *)
LEMMA EnteredShown ==
  ASSUME NEW r, r \in Registries, NEW w, w \in Worlds,
         NEW b \in Battles, NEW u \in Users, w.place[u] = None,
         r.users = w.users, r.battle = w.place, r.room = w.room,
         \A c \in Battles : r.members[c] \cap Users = {v \in Users : w.place[v] = c},
         w.room # None => w.crew \subseteq r.members[w.room],
         w.chan \subseteq r.chan, r.chan \subseteq r.users, w.joined => r.hasChan,
         NEW x, x.users = w.users, x.founder = r.founder, Open(x) = r.battles,
         x.place = [w.place EXCEPT ![u] = b], x.room = w.room,
         x.crew = w.crew, x.chan = w.chan, x.joined = w.joined
  PROVE  Shows(OnUserAdded(r, b, u), x)
<1> DEFINE t == OnUserAdded(r, b, u)
<1>1. /\ t \in Registries /\ t.users = r.users /\ t.battles = r.battles
      /\ t.founder = r.founder /\ t.members = [r.members EXCEPT ![b] = @ \cup {u}]
      /\ t.room = r.room /\ t.chan = r.chan /\ t.hasChan = r.hasChan
      /\ t.battle = [v \in Users |-> IF v = u THEN b ELSE r.battle[v]]
  BY AddedParts DEF Names
<1> HIDE DEF t
<1>2. w.place \in [Users -> Battles \cup {None}] /\ w.room \in Battles \cup {None}
  BY DEF Worlds
<1>3. t.battle = x.place
  BY <1>1, <1>2
<1>4. r.members \in [Battles -> SUBSET Names]
  BY DEF Registries
<1>5. ASSUME NEW c \in Battles
      PROVE  t.members[c] \cap Users = {v \in Users : x.place[v] = c}
  <2>1. \A v \in Users : v \in r.members[c] <=> w.place[v] = c
    OBVIOUS
  <2>2. \A v \in Users : x.place[v] = c <=> (v = u /\ c = b) \/ (v # u /\ w.place[v] = c)
    BY <1>2
  <2>3. \A v \in Users : v \in t.members[c] <=> (v = u /\ c = b) \/ v \in r.members[c]
    BY <1>1, <1>4
  <2>4. u \notin r.members[c]
    BY <2>1, NoneApart
  <2> QED
    BY <2>1, <2>2, <2>3, <2>4
<1>6. x.room # None => x.crew \subseteq t.members[x.room]
  <2>1. \A c \in Battles : r.members[c] \subseteq t.members[c]
    BY <1>1, <1>4
  <2> QED
    BY <1>2, <2>1
<1>7. Shows(t, x)
  BY <1>1, <1>3, <1>5, <1>6 DEF Shows
<1> QED
  BY <1>7 DEF t

(* JOINEDBATTLE and BATTLEOPENED.                                          *)
LEMMA JoinedShown ==
  ASSUME NEW r, NEW w, Possible(w), Shows(r, w), NEW u \in Users, NEW b \in Battles,
         b \in Open(w), u \in w.users, w.place[u] = None
  PROVE  Shows(OnUserJoinedBattle(r, b, u), [w EXCEPT !.place[u] = b])
<1> DEFINE x == [w EXCEPT !.place[u] = b]
<1>1. w \in Worlds
  BY DEF Possible
<1>2. /\ x.users = w.users /\ x.chan = w.chan /\ x.joined = w.joined
      /\ x.crew = w.crew /\ x.founder = w.founder /\ x.room = w.room
      /\ x.place = [w.place EXCEPT ![u] = b]
  BY <1>1 DEF Worlds
<1> HIDE DEF x
<1>3. OnUserJoinedBattle(r, b, u) = OnUserAdded(r, b, u)
  BY DEF OnUserJoinedBattle, Shows
<1>4. Open(x) = Open(w)
  BY <1>2 DEF Open
<1>5. Shows(OnUserAdded(r, b, u), x)
  <2>1. /\ r \in Registries /\ r.users = w.users /\ r.battle = w.place /\ r.room = w.room
        /\ \A c \in Battles : r.members[c] \cap Users = {v \in Users : w.place[v] = c}
        /\ w.room # None => w.crew \subseteq r.members[w.room]
        /\ w.chan \subseteq r.chan /\ r.chan \subseteq r.users /\ (w.joined => r.hasChan)
        /\ x.founder = r.founder /\ Open(x) = r.battles
    BY <1>2, <1>4 DEF Shows
  <2> QED
    BY <1>1, <1>2, <2>1, EnteredShown
<1> QED
  BY <1>3, <1>5 DEF x

(* BATTLEOPENED: the battle is added before its founder.                   *)
LEMMA OpenedShown ==
  ASSUME NEW r, NEW w, Possible(w), Shows(r, w), NEW u \in Users, NEW b \in Battles,
         b \notin Open(w), u \in w.users, w.place[u] = None
  PROVE  Shows(OnBattleOpened(r, b, u), [w EXCEPT !.founder[b] = u, !.place[u] = b])
<1> DEFINE x == [w EXCEPT !.founder[b] = u, !.place[u] = b]
           t == [r EXCEPT !.battles = @ \cup {b}, !.founder[b] = u]
<1>1. w \in Worlds
  BY DEF Possible
<1>2. /\ x.users = w.users /\ x.chan = w.chan /\ x.joined = w.joined
      /\ x.crew = w.crew /\ x.room = w.room
      /\ x.founder = [w.founder EXCEPT ![b] = u]
      /\ x.place = [w.place EXCEPT ![u] = b]
  BY <1>1 DEF Worlds
<1>3. /\ t \in Registries /\ t.users = r.users /\ t.chan = r.chan
      /\ t.battles = r.battles \cup {b} /\ t.founder = [r.founder EXCEPT ![b] = u]
      /\ t.members = r.members /\ t.battle = r.battle
      /\ t.room = r.room /\ t.hasChan = r.hasChan
  BY DEF Shows, Registries
<1>4. OnBattleOpened(r, b, u) = OnUserAdded(t, b, u)
  <2>1. b \notin r.battles /\ u \in r.users
    BY DEF Shows
  <2>2. [[r EXCEPT !.battles = @ \cup {b}] EXCEPT !.founder[b] = u] = t
    BY DEF Shows, Registries
  <2> QED
    BY <2>1, <2>2 DEF OnBattleOpened
<1> HIDE DEF x, t
<1>5. Open(x) = Open(w) \cup {b}
  BY <1>1, <1>2, NoneApart DEF Open, Worlds
<1>6. Shows(OnUserAdded(t, b, u), x)
  <2>1. /\ t \in Registries /\ t.users = w.users /\ t.battle = w.place /\ t.room = w.room
        /\ \A c \in Battles : t.members[c] \cap Users = {v \in Users : w.place[v] = c}
        /\ w.room # None => w.crew \subseteq t.members[w.room]
        /\ w.chan \subseteq t.chan /\ t.chan \subseteq t.users /\ (w.joined => t.hasChan)
        /\ x.founder = t.founder /\ Open(x) = t.battles
    BY <1>2, <1>3, <1>5 DEF Shows
  <2> QED
    BY <1>1, <1>2, <2>1, EnteredShown
<1> QED
  BY <1>4, <1>6 DEF x

(* OPENBATTLE and JOINBATTLE.                                              *)
LEMMA RoomShown ==
  ASSUME NEW r, NEW w, Possible(w), Shows(r, w), NEW b \in Open(w)
  PROVE  Shows(EnterRoom(r, b), [w EXCEPT !.room = b, !.crew = {}])
<1> DEFINE x == [w EXCEPT !.room = b, !.crew = {}]
           t == EnterRoom(r, b)
<1>1. w \in Worlds /\ b \in Battles
  BY DEF Possible, Open
<1>2. /\ x.users = w.users /\ x.chan = w.chan /\ x.joined = w.joined
      /\ x.crew = {} /\ x.room = b /\ x.founder = w.founder /\ x.place = w.place
  BY <1>1 DEF Worlds
<1>3. /\ t \in Registries /\ t.users = r.users /\ t.chan = r.chan
      /\ t.battles = r.battles /\ t.founder = r.founder
      /\ t.members = r.members /\ t.battle = r.battle
      /\ t.room = b /\ t.hasChan = r.hasChan
  BY <1>1 DEF EnterRoom, Shows, Registries
<1> HIDE DEF x, t
<1>4. Open(x) = Open(w)
  BY <1>2 DEF Open
<1>5. Shows(t, x)
  BY <1>2, <1>3, <1>4 DEF Shows
<1> QED
  BY <1>5 DEF x, t

(* ADDBOT, of a bot that may or may not count.                             *)
LEMMA BotAddedShown ==
  ASSUME NEW r, NEW w, Possible(w), Shows(r, w), NEW b \in Battles, NEW n \in Bots
  PROVE  /\ Shows(OnBattleAddBot(r, b, n), w)
         /\ b = w.room => Shows(OnBattleAddBot(r, b, n), [w EXCEPT !.crew = @ \cup {n}])
<1> DEFINE x == [w EXCEPT !.crew = @ \cup {n}]
           t == OnBattleAddBot(r, b, n)
<1>1. w \in Worlds /\ r \in Registries /\ n \in Names /\ n \notin Users
  BY NoneApart DEF Possible, Shows, Names
<1>2. /\ x.users = w.users /\ x.chan = w.chan /\ x.joined = w.joined
      /\ x.crew = w.crew \cup {n} /\ x.room = w.room
      /\ x.founder = w.founder /\ x.place = w.place
  BY <1>1 DEF Worlds
<1> HIDE DEF x, t
<1>3. Open(x) = Open(w)
  BY <1>2 DEF Open
<1>4. CASE b \notin r.battles
  <2>1. t = r /\ b \notin Open(w)
    BY <1>4 DEF OnBattleAddBot, Shows, t
  <2>2. b # w.room
    BY <2>1, NoneApart DEF Possible
  <2> QED
    BY <2>1, <2>2 DEF t
<1>5. CASE b \in r.battles
  <2>1. t = OnUserAdded(r, b, n)
    BY <1>5 DEF OnBattleAddBot, t
  <2>2. /\ t \in Registries /\ t.users = r.users /\ t.battles = r.battles
        /\ t.founder = r.founder /\ t.members = [r.members EXCEPT ![b] = @ \cup {n}]
        /\ t.room = r.room /\ t.chan = r.chan /\ t.hasChan = r.hasChan
        /\ t.battle = [u \in Users |-> IF u = n THEN b ELSE r.battle[u]]
    BY <1>1, <2>1, AddedParts
  <2>3. r.members \in [Battles -> SUBSET Names] /\ r.battle \in [Users -> Battles \cup {None}]
    BY <1>1 DEF Registries
  <2>4. t.battle = w.place
    BY <1>1, <2>2, <2>3 DEF Shows
  <2>5. \A c \in Battles : r.members[c] \subseteq t.members[c]
    BY <2>2, <2>3
  <2>6. \A c \in Battles : t.members[c] \cap Users = {u \in Users : w.place[u] = c}
    <3>1. \A c \in Battles : t.members[c] \cap Users = r.members[c] \cap Users
      BY <1>1, <2>2, <2>3
    <3> QED
      BY <3>1 DEF Shows
  <2>7. w.room \in Battles \cup {None}
    BY <1>1 DEF Worlds
  <2>8. w.room # None => w.crew \subseteq t.members[w.room]
    BY <2>5, <2>7 DEF Shows
  <2>9. Shows(t, w)
    BY <2>2, <2>4, <2>6, <2>8 DEF Shows
  <2>10. ASSUME b = w.room
         PROVE  Shows(t, x)
    <3>1. n \in t.members[w.room]
      BY <2>2, <2>3, <2>10
    <3>2. x.room # None => x.crew \subseteq t.members[x.room]
      BY <1>2, <2>8, <3>1
    <3> QED
      BY <1>2, <1>3, <2>2, <2>4, <2>6, <3>2 DEF Shows
  <2> QED
    BY <2>9, <2>10 DEF x, t
<1> QED
  BY <1>4, <1>5

(* REMOVEBOT.                                                              *)
LEMMA BotRemovedShown ==
  ASSUME NEW r, NEW w, Possible(w), Shows(r, w), NEW b \in Battles, NEW n \in Bots
  PROVE  Shows(OnUserLeftBattle(r, b, n), [w EXCEPT !.crew = @ \ {n}])
<1> DEFINE x == [w EXCEPT !.crew = @ \ {n}]
           t == OnUserLeftBattle(r, b, n)
<1>1. w \in Worlds /\ r \in Registries /\ n \notin Users /\ n # Me
  BY NoneApart DEF Possible, Shows
<1>2. /\ x.users = w.users /\ x.chan = w.chan /\ x.joined = w.joined
      /\ x.crew = w.crew \ {n} /\ x.room = w.room
      /\ x.founder = w.founder /\ x.place = w.place
  BY <1>1 DEF Worlds
<1>3. r.members \in [Battles -> SUBSET Names] /\ r.battle \in [Users -> Battles \cup {None}]
  BY <1>1 DEF Registries
<1>4. /\ t \in Registries /\ t.users = r.users /\ t.battles = r.battles
      /\ t.founder = r.founder /\ t.battle = r.battle
      /\ t.room = r.room /\ t.chan = r.chan /\ t.hasChan = r.hasChan
      /\ \A c \in Battles : r.members[c] \ {n} \subseteq t.members[c]
                            /\ t.members[c] \cap Users = r.members[c] \cap Users
  <2>1. CASE b \in r.battles /\ n \in r.members[b]
    <3>1. t = UsersLeave(r, b, {n})
      BY <2>1 DEF OnUserLeftBattle
    <3>2. /\ t \in Registries /\ t.users = r.users /\ t.battles = r.battles
          /\ t.founder = r.founder /\ t.members = [r.members EXCEPT ![b] = @ \ {n}]
          /\ t.room = IF Me \in {n} /\ r.room = b THEN None ELSE r.room
          /\ t.battle = [v \in Users |-> IF v \in {n} THEN None ELSE r.battle[v]]
          /\ t.chan = r.chan /\ t.hasChan = r.hasChan
      BY <1>1, <3>1, LeaveParts
    <3> HIDE DEF t
    <3>3. t.room = r.room /\ t.battle = r.battle
      BY <1>1, <1>3, <3>2
    <3> QED
      BY <1>1, <1>3, <3>2, <3>3
  <2>2. CASE ~ (b \in r.battles /\ n \in r.members[b])
    <3>1. t = r
      BY <2>2 DEF OnUserLeftBattle
    <3> HIDE DEF t
    <3> QED
      BY <1>1, <3>1
  <2> QED
    BY <2>1, <2>2
<1> HIDE DEF x, t
<1>5. Open(x) = Open(w)
  BY <1>2 DEF Open
<1>6. x.room # None => x.crew \subseteq t.members[x.room]
  BY <1>1, <1>2, <1>4 DEF Shows, Worlds
<1>7. Shows(t, x)
  BY <1>2, <1>4, <1>5, <1>6 DEF Shows
<1> QED
  BY <1>7 DEF x, t

(* JOIN, then JOINED and CLIENTS, and LEFT.                                *)
LEMMA ChannelOpenedShown ==
  ASSUME NEW r, NEW w, Possible(w), Shows(r, w)
  PROVE  Shows(OnJoinChannelResult(r), [w EXCEPT !.joined = TRUE])
<1> DEFINE x == [w EXCEPT !.joined = TRUE]
           t == OnJoinChannelResult(r)
<1>1. /\ x.users = w.users /\ x.chan = w.chan /\ x.joined = TRUE
      /\ x.crew = w.crew /\ x.room = w.room
      /\ x.founder = w.founder /\ x.place = w.place
  BY DEF Worlds, Possible
<1>2. /\ t \in Registries /\ t.users = r.users /\ t.battles = r.battles
      /\ t.founder = r.founder /\ t.battle = r.battle /\ t.members = r.members
      /\ t.room = r.room /\ t.chan = r.chan /\ t.hasChan = TRUE
  BY DEF OnJoinChannelResult, Shows, Registries
<1> HIDE DEF x, t
<1>3. Open(x) = Open(w)
  BY <1>1 DEF Open
<1>4. Shows(t, x)
  BY <1>1, <1>2, <1>3 DEF Shows
<1> QED
  BY <1>4 DEF x, t

(* JOINED and CLIENTS, of a user that is known.                            *)
LEMMA ChannelJoinedShown ==
  ASSUME NEW r, NEW w, Possible(w), Shows(r, w), w.joined, NEW u \in w.users
  PROVE  Shows(OnUserJoinChannel(r, u), [w EXCEPT !.chan = @ \cup {u}])
<1> DEFINE x == [w EXCEPT !.chan = @ \cup {u}]
           t == OnUserJoinChannel(r, u)
<1>1. /\ x.users = w.users /\ x.chan = w.chan \cup {u} /\ x.joined = w.joined
      /\ x.crew = w.crew /\ x.room = w.room
      /\ x.founder = w.founder /\ x.place = w.place
  BY DEF Worlds, Possible
<1>2. u \in r.users /\ r.hasChan /\ u \in Users
  BY DEF Shows, Possible, Worlds
<1>3. /\ t \in Registries /\ t.users = r.users /\ t.battles = r.battles
      /\ t.founder = r.founder /\ t.battle = r.battle /\ t.members = r.members
      /\ t.room = r.room /\ t.chan = r.chan \cup {u} /\ t.hasChan = r.hasChan
  BY <1>2 DEF OnUserJoinChannel, Shows, Registries
<1> HIDE DEF x, t
<1>4. Open(x) = Open(w)
  BY <1>1 DEF Open
<1>5. Shows(t, x)
  BY <1>1, <1>2, <1>3, <1>4 DEF Shows
<1> QED
  BY <1>5 DEF x, t

(* LEFT, of any user.                                                      *)
LEMMA ChannelLeftShown ==
  ASSUME NEW r, NEW w, Possible(w), Shows(r, w), NEW u \in Users
  PROVE  Shows(OnChannelPart(r, u), [w EXCEPT !.chan = @ \ {u}])
<1> DEFINE x == [w EXCEPT !.chan = @ \ {u}]
           t == OnChannelPart(r, u)
<1>1. /\ x.users = w.users /\ x.chan = w.chan \ {u} /\ x.joined = w.joined
      /\ x.crew = w.crew /\ x.room = w.room
      /\ x.founder = w.founder /\ x.place = w.place
  BY DEF Worlds, Possible
<1>2. /\ t \in Registries /\ t.users = r.users /\ t.battles = r.battles
      /\ t.founder = r.founder /\ t.battle = r.battle /\ t.members = r.members
      /\ t.room = r.room /\ t.chan \in {r.chan, r.chan \ {u}} /\ t.hasChan = r.hasChan
  BY DEF OnChannelPart, Shows, Registries
<1> HIDE DEF x, t
<1>3. Open(x) = Open(w)
  BY <1>1 DEF Open
<1>4. Shows(t, x)
  BY <1>1, <1>2, <1>3 DEF Shows
<1> QED
  BY <1>4 DEF x, t

(* Whatever message is received, the registry shows the next world.        *)
LEMMA Received ==
  ASSUME NEW w, Shows(reg, w), NEW x, Step(w, Message1, x), Message1 \in Message,
         RecvUser \/ RecvBattle \/ RecvRoom \/ RecvMember \/ RecvBot \/ RecvChannel
  PROVE  Shows(reg', x)
<1> DEFINE m == Message1
<1>1. Possible(w) /\ w \in Worlds /\ Heard(w, m, x)
  BY DEF Step, Possible
<1> HIDE DEF m
<1>2. CASE RecvUser
  <2>1. m.is \in {"ADDUSER", "REMOVEUSER"}
    BY <1>2 DEF RecvUser, Receive, m
  <2>2. m.who \in Users
    BY <2>1, MessageParts DEF m
  <2>3. HeardUser(w, m, x)
    BY <1>1, <2>1 DEF Heard, HeardBattle, HeardMember, HeardChannel
  <2>4. CASE m.is = "ADDUSER"
    <3>1. reg' = OnNewUser(reg, m.who) /\ x = [w EXCEPT !.users = @ \cup {m.who}]
      BY <1>2, <2>3, <2>4 DEF RecvUser, Receive, HeardUser, m
    <3> QED
      BY <1>1, <2>2, <3>1, NewUserShown
  <2>5. CASE m.is = "REMOVEUSER" /\ m.who = Me
    <3>1. reg' = reg /\ x = w
      BY <1>2, <2>3, <2>5 DEF RecvUser, Receive, HeardUser, m
    <3> QED
      BY <3>1
  <2>6. CASE m.is = "REMOVEUSER" /\ m.who # Me
    <3>1. reg' = OnUserQuit(reg, m.who) /\ m.who \in w.users
          /\ x = Without(Departed(w, m.who), m.who)
      BY <1>2, <2>3, <2>6 DEF RecvUser, Receive, HeardUser, m
    <3> QED
      BY <1>1, <2>2, <2>6, <3>1, QuitShown
  <2> QED
    BY <2>1, <2>4, <2>5, <2>6
<1>3. CASE RecvBattle \/ RecvRoom
  <2>1. m.is \in {"BATTLEOPENED", "BATTLECLOSED", "OPENBATTLE", "JOINBATTLE"}
    BY <1>3 DEF RecvBattle, RecvRoom, Receive, m
  <2>2. m.at \in Battles
    BY <2>1, MessageParts DEF m
  <2>3. HeardBattle(w, m, x)
    BY <1>1, <2>1 DEF Heard, HeardUser, HeardMember, HeardChannel
  <2>4. CASE m.is = "BATTLEOPENED"
    <3>1. /\ reg' = OnBattleOpened(reg, m.at, m.who)
          /\ m.at \notin Open(w) /\ m.who \in w.users /\ w.place[m.who] = None
          /\ x = [w EXCEPT !.founder[m.at] = m.who, !.place[m.who] = m.at]
      BY <1>3, <2>3, <2>4 DEF RecvBattle, RecvRoom, Receive, HeardBattle, m
    <3>2. m.who \in Users
      BY <2>4, MessageParts DEF m
    <3> QED
      BY <1>1, <2>2, <3>1, <3>2, OpenedShown
  <2>5. CASE m.is = "BATTLECLOSED"
    <3>1. reg' = OnBattleClosed(reg, m.at) /\ m.at \in Open(w) /\ x = Closed(w, m.at)
      BY <1>3, <2>3, <2>5 DEF RecvBattle, RecvRoom, Receive, HeardBattle, m
    <3> QED
      BY <1>1, <2>2, <3>1, ShowsAll, ClosedShown
  <2>6. CASE m.is \in {"OPENBATTLE", "JOINBATTLE"}
    <3>1. /\ reg' = EnterRoom(reg, m.at) /\ m.at \in Open(w)
          /\ x = [w EXCEPT !.room = m.at, !.crew = {}]
      BY <1>3, <2>3, <2>6 DEF RecvBattle, RecvRoom, Receive, HeardBattle, m
    <3> QED
      BY <1>1, <3>1, RoomShown
  <2> QED
    BY <2>1, <2>4, <2>5, <2>6
<1>4. CASE RecvMember \/ RecvBot
  <2>1. m.is \in {"JOINEDBATTLE", "LEFTBATTLE", "ADDBOT", "REMOVEBOT"}
    BY <1>4 DEF RecvMember, RecvBot, Receive, m
  <2>2. m.at \in Battles
    BY <2>1, MessageParts DEF m
  <2>3. HeardMember(w, m, x)
    BY <1>1, <2>1 DEF Heard, HeardUser, HeardBattle, HeardChannel
  <2>4. CASE m.is = "JOINEDBATTLE"
    <3>1. /\ reg' = OnUserJoinedBattle(reg, m.at, m.who)
          /\ m.at \in Open(w) /\ m.who \in w.users /\ w.place[m.who] = None
          /\ x = [w EXCEPT !.place[m.who] = m.at]
      BY <1>4, <2>3, <2>4 DEF RecvMember, RecvBot, Receive, HeardMember, m
    <3>2. m.who \in Users
      BY <2>4, MessageParts DEF m
    <3> QED
      BY <1>1, <2>2, <3>1, <3>2, JoinedShown
  <2>5. CASE m.is = "LEFTBATTLE"
    <3>1. /\ reg' = OnUserLeftBattle(reg, m.at, m.who)
          /\ w.place[m.who] = m.at /\ w.founder[m.at] # m.who
          /\ x = Vacated(w, m.who, m.at)
      BY <1>4, <2>3, <2>5 DEF RecvMember, RecvBot, Receive, HeardMember, m
    <3>2. m.who \in Users
      BY <2>5, MessageParts DEF m
    <3> QED
      BY <1>1, <2>2, <3>1, <3>2, VacatedShown
  <2>6. CASE m.is = "ADDBOT"
    <3>1. reg' = OnBattleAddBot(reg, m.at, m.who)
      BY <1>4, <2>6 DEF RecvMember, RecvBot, Receive, m
    <3>2. x = w \/ (m.at = w.room /\ x = [w EXCEPT !.crew = @ \cup {m.who}])
      BY <2>3, <2>6 DEF HeardMember
    <3>3. m.who \in Bots
      BY <2>6, MessageParts DEF m
    <3> QED
      BY <1>1, <2>2, <3>1, <3>2, <3>3, BotAddedShown
  <2>7. CASE m.is = "REMOVEBOT"
    <3>1. reg' = OnUserLeftBattle(reg, m.at, m.who)
          /\ x = [w EXCEPT !.crew = @ \ {m.who}]
      BY <1>4, <2>3, <2>7 DEF RecvMember, RecvBot, Receive, HeardMember, m
    <3>2. m.who \in Bots
      BY <2>7, MessageParts DEF m
    <3> QED
      BY <1>1, <2>2, <3>1, <3>2, BotRemovedShown
  <2> QED
    BY <2>1, <2>4, <2>5, <2>6, <2>7
<1>5. CASE RecvChannel
  <2>1. m.is \in {"JOIN", "JOINED", "CLIENTS", "LEFT"}
    BY <1>5 DEF RecvChannel, Receive, m
  <2>2. HeardChannel(w, m, x)
    BY <1>1, <2>1 DEF Heard, HeardUser, HeardBattle, HeardMember
  <2>3. CASE m.is = "JOIN"
    <3>1. reg' = OnJoinChannelResult(reg) /\ x = [w EXCEPT !.joined = TRUE]
      BY <1>5, <2>2, <2>3 DEF RecvChannel, Receive, HeardChannel, m
    <3> QED
      BY <1>1, <3>1, ChannelOpenedShown
  <2>4. CASE m.is \in {"JOINED", "CLIENTS"}
    <3>1. /\ reg' = OnUserJoinChannel(reg, m.who) /\ w.joined /\ m.who \in w.users
          /\ x = [w EXCEPT !.chan = @ \cup {m.who}]
      BY <1>5, <2>2, <2>4 DEF RecvChannel, Receive, HeardChannel, m
    <3> QED
      BY <1>1, <3>1, ChannelJoinedShown
  <2>5. CASE m.is = "LEFT"
    <3>1. reg' = OnChannelPart(reg, m.who) /\ x = [w EXCEPT !.chan = @ \ {m.who}]
      BY <1>5, <2>2, <2>5 DEF RecvChannel, Receive, HeardChannel, m
    <3>2. m.who \in Users
      BY <2>5, MessageParts DEF m
    <3> QED
      BY <1>1, <3>1, <3>2, ChannelLeftShown
  <2> QED
    BY <2>1, <2>3, <2>4, <2>5
<1> QED
  BY <1>2, <1>3, <1>4, <1>5
-----------------------------------------------------------------------------
(* What the server does.  The news of it lead from a world that agrees     *)
(* with what it knew to one that agrees with what it knows now.            *)
Brings(s, news, t) ==
  /\ news \in Seq(Message) /\ Sound(t)
  /\ \A v \in Worlds : Possible(v) /\ Agrees(v, s) =>
       \E x \in Worlds : Leads(v, news, x) /\ Agrees(x, t)

(* No news, if nothing of it concerns the client;                          *)
LEMMA BringsNothing ==
  ASSUME NEW s, NEW t, Sound(t), \A v \in Worlds : Agrees(v, s) => Agrees(v, t)
  PROVE  Brings(s, <<>>, t)
<1>1. <<>> \in Seq(Message)
  OBVIOUS
<1> QED
  BY <1>1, LeadsEmpty DEF Brings

(* one message,                                                            *)
LEMMA BringsOne ==
  ASSUME NEW s, NEW t, Sound(t), NEW m \in Message,
         \A v \in Worlds : Possible(v) /\ Agrees(v, s) =>
           \E x : Heard(v, m, x) /\ Agrees(x, t)
  PROVE  Brings(s, <<m>>, t)
<1>1. <<m>> \in Seq(Message)
  OBVIOUS
<1>2. ASSUME NEW v \in Worlds, Possible(v), Agrees(v, s)
      PROVE  \E x \in Worlds : Leads(v, <<m>>, x) /\ Agrees(x, t)
  <2>1. PICK x : Heard(v, m, x) /\ Agrees(x, t)
    BY <1>2
  <2>2. Possible(x)
    BY <1>2, <2>1, HeardPossible
  <2>3. Leads(v, <<m>>, x)
    BY <1>2, <2>1, <2>2, LeadsOne DEF Step
  <2> QED
    BY <2>1, <2>2, <2>3 DEF Possible
<1> QED
  BY <1>1, <1>2 DEF Brings

(* and some news after others.                                             *)
LEMMA BringsOn ==
  ASSUME NEW s, NEW p, NEW t, Brings(s, p, t), NEW q, NEW z, Brings(t, q, z)
  PROVE  Brings(s, p \o q, z)
<1>1. p \o q \in Seq(Message)
  BY DEF Brings
<1>2. ASSUME NEW v \in Worlds, Possible(v), Agrees(v, s)
      PROVE  \E x \in Worlds : Leads(v, p \o q, x) /\ Agrees(x, z)
  <2>1. PICK y \in Worlds : Leads(v, p, y) /\ Agrees(y, t)
    BY <1>2 DEF Brings
  <2>2. PICK x \in Worlds : Leads(y, q, x) /\ Agrees(x, z)
    BY <2>1 DEF Brings, Leads
  <2> QED
    BY <2>1, <2>2, LeadsOn
<1> QED
  BY <1>1, <1>2 DEF Brings

(* What becomes of the server's knowledge when a user leaves its battle.   *)
LEMMA LeavesParts ==
  ASSUME NEW s, Sound(s), NEW u \in Users
  PROVE  /\ Sound(LeavesBattle(s, u))
         /\ LeavesBattle(s, u).users = s.users /\ LeavesBattle(s, u).chan = s.chan
         /\ LeavesBattle(s, u).founder =
              IF Founds(s, u) THEN [s.founder EXCEPT ![s.place[u]] = None] ELSE s.founder
         /\ LeavesBattle(s, u).bots =
              IF Founds(s, u) THEN [s.bots EXCEPT ![s.place[u]] = {}] ELSE s.bots
         /\ LeavesBattle(s, u).place =
              IF Founds(s, u)
              THEN [v \in Users |-> IF s.place[v] = s.place[u] THEN None ELSE s.place[v]]
              ELSE [s.place EXCEPT ![u] = None]
<1> DEFINE t == LeavesBattle(s, u)
<1>1. s \in Truths
  BY DEF Sound
<1>2. CASE Founds(s, u)
  <2>1. PICK b \in Battles : b = s.place[u]
    BY <1>1, <1>2 DEF Founds, BattleOf, Truths
  <2>2. t = [s EXCEPT !.founder[b] = None, !.bots[b] = {},
                      !.place = [v \in Users |-> IF @[v] = b THEN None ELSE @[v]]]
    BY <1>2, <2>1 DEF LeavesBattle, BattleOf
  <2> HIDE DEF t
  <2>3. /\ t \in Truths /\ t.users = s.users /\ t.chan = s.chan
        /\ t.founder = [s.founder EXCEPT ![b] = None] /\ t.bots = [s.bots EXCEPT ![b] = {}]
        /\ t.place = [v \in Users |-> IF s.place[v] = b THEN None ELSE s.place[v]]
    BY <1>1, <2>2 DEF Truths
  <2>4. \A c \in Battles : t.founder[c] = None => t.bots[c] = {}
    BY <1>1, <2>3 DEF Sound, Truths
  <2>5. Sound(t)
    BY <2>3, <2>4 DEF Sound
  <2> QED
    BY <1>2, <2>1, <2>3, <2>5 DEF t
<1>3. CASE ~ Founds(s, u)
  <2>1. t = [s EXCEPT !.place[u] = None]
    BY <1>3 DEF LeavesBattle
  <2> HIDE DEF t
  <2>2. /\ t \in Truths /\ t.users = s.users /\ t.chan = s.chan
        /\ t.founder = s.founder /\ t.bots = s.bots
        /\ t.place = [s.place EXCEPT ![u] = None]
    BY <1>1, <2>1 DEF Truths
  <2>3. Sound(t)
    BY <2>2 DEF Sound
  <2> QED
    BY <1>3, <2>2, <2>3 DEF t
<1> QED
  BY <1>2, <1>3

(* A world agrees but for the room, which was perhaps left already.        *)
AgreesBut(v, s) ==
  /\ v.users = s.users /\ v.founder = s.founder /\ v.place = s.place
  /\ v.room \in {None, s.place[Me]}
  /\ Me \in s.chan => s.chan \subseteq v.chan

(* A departure in the world agrees with one at the server,                 *)
LEMMA DepartedAgrees ==
  ASSUME NEW v, Possible(v), NEW s, Sound(s), NEW u \in Users,
         Agrees(v, s) \/ (u = Me /\ AgreesBut(v, s))
  PROVE  Agrees(Departed(v, u), LeavesBattle(s, u))
<1> DEFINE x == Departed(v, u)
           t == LeavesBattle(s, u)
<1>1. /\ v.users = s.users /\ v.founder = s.founder /\ v.place = s.place
      /\ Me \in s.chan => s.chan \subseteq v.chan
      /\ v.room \in {None, s.place[Me]}
      /\ u # Me => v.room = s.place[Me] /\ (v.room # None => s.bots[v.room] \subseteq v.crew)
  BY DEF Agrees, AgreesBut
<1>2. v \in Worlds /\ s \in Truths /\ Me \in Users /\ None \notin Battles
  BY NoneApart DEF Possible, Sound
<1>3. /\ t.users = s.users /\ t.chan = s.chan
      /\ t.founder = IF Founds(s, u) THEN [s.founder EXCEPT ![s.place[u]] = None] ELSE s.founder
      /\ t.bots = IF Founds(s, u) THEN [s.bots EXCEPT ![s.place[u]] = {}] ELSE s.bots
      /\ t.place = IF Founds(s, u)
                   THEN [w \in Users |-> IF s.place[w] = s.place[u] THEN None ELSE s.place[w]]
                   ELSE [s.place EXCEPT ![u] = None]
  BY LeavesParts
<1> HIDE DEF t
<1>4. s.place \in [Users -> Battles \cup {None}] /\ s.bots \in [Battles -> SUBSET Bots]
  BY <1>2 DEF Truths
<1>5. v.room \in Battles \cup {None}
  BY <1>2 DEF Worlds
<1>6. CASE s.place[u] = None
  <2>1. x = v /\ ~ Founds(s, u)
    BY <1>1, <1>6 DEF Departed, Founds, BattleOf
  <2>2. t.place = s.place /\ t.bots = s.bots /\ t.founder = s.founder
    BY <1>3, <1>4, <1>6, <2>1
  <2>3. v.room = s.place[Me] /\ (v.room # None => s.bots[v.room] \subseteq v.crew)
    BY <1>1, <1>6 DEF Agrees
  <2> QED
    BY <1>1, <1>3, <2>1, <2>2, <2>3 DEF Agrees, t
<1>7. CASE s.place[u] # None
  <2>1. PICK b \in Battles : b = s.place[u]
    BY <1>4, <1>7
  <2>2. CASE s.founder[b] = u
    <3>1. Founds(s, u)
      BY <1>7, <2>1, <2>2 DEF Founds, BattleOf
    <3>2. x = Closed(v, b)
      BY <1>1, <1>7, <2>1, <2>2 DEF Departed
    <3> HIDE DEF x
    <3>3. /\ x.users = v.users /\ x.chan = v.chan /\ x.crew = v.crew
          /\ x.founder = [v.founder EXCEPT ![b] = None]
          /\ x.place = [w \in Users |-> IF v.place[w] = b THEN None ELSE v.place[w]]
          /\ x.room = IF v.room = b THEN None ELSE v.room
      BY <3>2, ClosedPossible
    <3>4. /\ t.founder = x.founder /\ t.place = x.place
          /\ t.bots = [s.bots EXCEPT ![b] = {}]
          /\ t.place[Me] = IF s.place[Me] = b THEN None ELSE s.place[Me]
      BY <1>1, <1>2, <1>3, <2>1, <3>1, <3>3
    <3>5. x.room = t.place[Me]
      BY <1>1, <2>1, <3>3, <3>4
    <3>6. ASSUME x.room # None
          PROVE  t.bots[x.room] \subseteq x.crew
      <4>1. x.room = v.room /\ v.room # b /\ v.room \in Battles
        BY <1>5, <3>3, <3>6
      <4>2. u # Me
        BY <1>1, <2>1, <3>6, <4>1
      <4>3. t.bots[v.room] = s.bots[v.room]
        BY <1>4, <3>4, <4>1
      <4> QED
        BY <1>1, <3>3, <3>6, <4>1, <4>2, <4>3
    <3> QED
      BY <1>1, <1>3, <3>3, <3>4, <3>5, <3>6 DEF Agrees, x, t
  <2>3. CASE s.founder[b] # u
    <3>1. ~ Founds(s, u)
      BY <1>7, <2>1, <2>3 DEF Founds, BattleOf
    <3>2. x = Vacated(v, u, b)
      BY <1>1, <1>7, <2>1, <2>3 DEF Departed
    <3> HIDE DEF x
    <3>3. /\ x.users = v.users /\ x.chan = v.chan /\ x.crew = v.crew
          /\ x.founder = v.founder /\ x.place = [v.place EXCEPT ![u] = None]
          /\ x.room = IF u = Me /\ v.room = b THEN None ELSE v.room
      BY <1>1, <2>1, <2>3, <3>2, VacatedPossible
    <3>4. t.founder = x.founder /\ t.place = x.place /\ t.bots = s.bots
      BY <1>1, <1>3, <3>1, <3>3
    <3>5. t.place[Me] = IF u = Me THEN None ELSE s.place[Me]
      BY <1>1, <1>2, <1>4, <3>3, <3>4
    <3>6. x.room = t.place[Me]
      BY <1>1, <2>1, <3>3, <3>5
    <3>7. x.room # None => t.bots[x.room] \subseteq x.crew
      BY <1>1, <3>3, <3>4, <3>5, <3>6
    <3> QED
      BY <1>1, <1>3, <3>3, <3>4, <3>6, <3>7 DEF Agrees, x, t
  <2> QED
    BY <2>2, <2>3
<1> QED
  BY <1>6, <1>7

(* and the news of it lead there.                                          *)
LEMMA LeaveLeads ==
  ASSUME NEW v, Possible(v), NEW s, Sound(s), NEW u \in Users,
         Agrees(v, s) \/ (u = Me /\ AgreesBut(v, s))
  PROVE  Leads(v, LeaveNews(s, u), Departed(v, u))
<1> DEFINE x == Departed(v, u)
<1>1. v.founder = s.founder /\ v.place = s.place
  BY DEF Agrees, AgreesBut
<1>2. v \in Worlds
  BY DEF Possible
<1>3. CASE s.place[u] = None
  <2>1. x = v /\ LeaveNews(s, u) = <<>>
    BY <1>1, <1>3 DEF Departed, LeaveNews, BattleOf
  <2> QED
    BY <2>1, LeadsEmpty
<1>4. CASE s.place[u] # None
  <2>1. PICK b \in Battles : b = s.place[u]
    BY <1>1, <1>2, <1>4 DEF Worlds
  <2>2. b \in Open(v)
    BY <1>1, <1>4, <2>1 DEF Possible
  <2>3. Possible(x)
    BY DepartedPossible
  <2>4. CASE s.founder[b] = u
    <3> DEFINE m == [is |-> "BATTLECLOSED", at |-> b]
    <3>1. LeaveNews(s, u) = <<m>>
      BY <1>4, <2>1, <2>4 DEF LeaveNews, Founds, BattleOf, About
    <3>2. x = Closed(v, b)
      BY <1>1, <1>4, <2>1, <2>4 DEF Departed
    <3>3. m \in Message
      BY DEF Message
    <3>4. m.is = "BATTLECLOSED" /\ m.at = b
      OBVIOUS
    <3> HIDE DEF m, x
    <3>5. Heard(v, m, x)
      BY <2>2, <3>2, <3>4 DEF Heard, HeardBattle
    <3> QED
      BY <2>3, <3>1, <3>3, <3>5, LeadsOne DEF Step, x
  <2>5. CASE s.founder[b] # u
    <3> DEFINE m == [is |-> "LEFTBATTLE", at |-> b, who |-> u]
    <3>1. LeaveNews(s, u) = <<m>>
      BY <1>4, <2>1, <2>5 DEF LeaveNews, Founds, BattleOf, Tells
    <3>2. x = Vacated(v, u, b)
      BY <1>1, <1>4, <2>1, <2>5 DEF Departed
    <3>3. m \in Message
      BY DEF Message
    <3>4. m.is = "LEFTBATTLE" /\ m.at = b /\ m.who = u
      OBVIOUS
    <3> HIDE DEF m, x
    <3>5. Heard(v, m, x)
      BY <1>1, <2>1, <2>5, <3>2, <3>4 DEF Heard, HeardMember
    <3> QED
      BY <2>3, <3>1, <3>3, <3>5, LeadsOne DEF Step, x
  <2> QED
    BY <2>4, <2>5
<1> QED
  BY <1>3, <1>4

(* So the news of a departure do what they should.                         *)
LEMMA LeaveBrings ==
  ASSUME NEW s, Sound(s), NEW u \in Users
  PROVE  Brings(s, LeaveNews(s, u), LeavesBattle(s, u))
<1>1. LeaveNews(s, u) \in Seq(Message)
  <2>1. s.place \in [Users -> Battles \cup {None}]
    BY DEF Sound, Truths
  <2>2. CASE s.place[u] = None
    BY <2>2 DEF LeaveNews, BattleOf
  <2>3. CASE s.place[u] # None
    <3>1. PICK b \in Battles : b = s.place[u]
      BY <2>1, <2>3
    <3>2. /\ [is |-> "BATTLECLOSED", at |-> b] \in Message
          /\ [is |-> "LEFTBATTLE", at |-> b, who |-> u] \in Message
      BY DEF Message
    <3>3. About("BATTLECLOSED", b) \in Seq(Message) /\ Tells("LEFTBATTLE", b, u) \in Seq(Message)
      BY <3>2 DEF About, Tells
    <3>4. LeaveNews(s, u) \in {About("BATTLECLOSED", b), Tells("LEFTBATTLE", b, u)}
      BY <2>3, <3>1 DEF LeaveNews, BattleOf
    <3> QED
      BY <3>3, <3>4
  <2> QED
    BY <2>2, <2>3
<1>2. Sound(LeavesBattle(s, u))
  BY LeavesParts
<1>3. ASSUME NEW v \in Worlds, Possible(v), Agrees(v, s)
      PROVE  \E x \in Worlds : Leads(v, LeaveNews(s, u), x) /\ Agrees(x, LeavesBattle(s, u))
  <2>1. Possible(Departed(v, u))
    BY <1>3, DepartedPossible
  <2> QED
    BY <1>3, <2>1, LeaveLeads, DepartedAgrees DEF Possible
<1> QED
  BY <1>1, <1>2, <1>3 DEF Brings

(* A user logs in.                                                         *)
LEMMA LogInBrings ==
  ASSUME NEW s, Sound(s), NEW u \in Users
  PROVE  Brings(s, Of("ADDUSER", u), [s EXCEPT !.users = @ \cup {u}])
<1> DEFINE t == [s EXCEPT !.users = @ \cup {u}]
           m == [is |-> "ADDUSER", who |-> u]
<1>1. /\ t \in Truths /\ t.users = s.users \cup {u} /\ t.founder = s.founder
      /\ t.place = s.place /\ t.bots = s.bots /\ t.chan = s.chan
  BY DEF Sound, Truths
<1>2. m \in Message /\ m.is = "ADDUSER" /\ m.who = u /\ Of("ADDUSER", u) = <<m>>
  BY DEF Message, Of
<1> HIDE DEF t, m
<1>3. Sound(t)
  BY <1>1 DEF Sound
<1>4. ASSUME NEW v \in Worlds, Agrees(v, s)
      PROVE  \E x : Heard(v, m, x) /\ Agrees(x, t)
  <2> DEFINE x == [v EXCEPT !.users = @ \cup {u}]
  <2>1. /\ x.users = v.users \cup {u} /\ x.founder = v.founder /\ x.place = v.place
        /\ x.room = v.room /\ x.crew = v.crew /\ x.chan = v.chan
    BY DEF Worlds
  <2>2. Heard(v, m, x)
    BY <1>2 DEF Heard, HeardUser
  <2> HIDE DEF x
  <2>3. Agrees(x, t)
    BY <1>1, <1>4, <2>1 DEF Agrees
  <2> QED
    BY <2>2, <2>3
<1>5. Brings(s, <<m>>, t)
  BY <1>2, <1>3, <1>4, BringsOne
<1> QED
  BY <1>2, <1>5 DEF t

(* A user parts from the channel, of which the client may hear or not if   *)
(* the user is about to go.                                                *)
LEMMA PartBrings ==
  ASSUME NEW s, Sound(s), NEW u \in Users
  PROVE  Brings(s, ChannelNews(s, u, "LEFT"), [s EXCEPT !.chan = @ \ {u}])
<1> DEFINE t == [s EXCEPT !.chan = @ \ {u}]
           m == [is |-> "LEFT", who |-> u]
<1>1. /\ t \in Truths /\ t.users = s.users /\ t.founder = s.founder
      /\ t.place = s.place /\ t.bots = s.bots /\ t.chan = s.chan \ {u}
  BY DEF Sound, Truths
<1>2. m \in Message /\ m.is = "LEFT" /\ m.who = u
  BY DEF Message
<1> HIDE DEF t
<1>3. Sound(t)
  BY <1>1 DEF Sound
<1>4. CASE Me \in s.chan /\ u \in s.chan
  <2>1. ChannelNews(s, u, "LEFT") = <<m>>
    BY <1>4 DEF ChannelNews, Of
  <2> HIDE DEF m
  <2>2. ASSUME NEW v \in Worlds, Agrees(v, s)
        PROVE  \E x : Heard(v, m, x) /\ Agrees(x, t)
    <3> DEFINE x == [v EXCEPT !.chan = @ \ {u}]
    <3>1. /\ x.users = v.users /\ x.founder = v.founder /\ x.place = v.place
          /\ x.room = v.room /\ x.crew = v.crew /\ x.chan = v.chan \ {u}
      BY DEF Worlds
    <3>2. Heard(v, m, x)
      BY <1>2 DEF Heard, HeardChannel
    <3> HIDE DEF x
    <3>3. Agrees(x, t)
      BY <1>1, <2>2, <3>1 DEF Agrees
    <3> QED
      BY <3>2, <3>3
  <2>3. Brings(s, <<m>>, t)
    BY <1>2, <1>3, <2>2, BringsOne
  <2> QED
    BY <2>1, <2>3 DEF t
<1>5. CASE ~ (Me \in s.chan /\ u \in s.chan)
  <2>1. ChannelNews(s, u, "LEFT") = <<>>
    BY <1>5 DEF ChannelNews
  <2>2. \A v \in Worlds : Agrees(v, s) => Agrees(v, t)
    BY <1>1, <1>5 DEF Agrees
  <2> QED
    BY <1>3, <2>1, <2>2, BringsNothing DEF t
<1> QED
  BY <1>4, <1>5

(* Who leaves and parts before it logs out is gone in the end like one     *)
(* that does not.                                                          *)
LEMMA QuitsParts ==
  ASSUME NEW s, Sound(s), NEW u \in Users
  PROVE  /\ Sound(Quits(s, u))
         /\ Quits(s, u).users = s.users \ {u} /\ Quits(s, u).chan = s.chan \ {u}
         /\ Quits(s, u).founder = LeavesBattle(s, u).founder
         /\ Quits(s, u).place = LeavesBattle(s, u).place
         /\ Quits(s, u).bots = LeavesBattle(s, u).bots
<1> DEFINE l == LeavesBattle(s, u)
           t == [l EXCEPT !.users = @ \ {u}, !.chan = @ \ {u}]
<1>1. Sound(l) /\ l.users = s.users /\ l.chan = s.chan
  BY LeavesParts
<1>2. Quits(s, u) = t
  BY DEF Quits
<1> HIDE DEF l
<1>3. /\ t \in Truths /\ t.users = l.users \ {u} /\ t.chan = l.chan \ {u}
      /\ t.founder = l.founder /\ t.place = l.place /\ t.bots = l.bots
  BY <1>1 DEF Sound, Truths
<1> HIDE DEF t
<1>4. Sound(t)
  BY <1>1, <1>3 DEF Sound
<1> QED
  BY <1>1, <1>2, <1>3, <1>4 DEF l

(* Equal in all parts is equal.                                            *)
LEMMA TruthsSame ==
  ASSUME NEW s \in Truths, NEW t \in Truths, s.users = t.users, s.founder = t.founder,
         s.place = t.place, s.bots = t.bots, s.chan = t.chan
  PROVE  s = t
BY DEF Truths

(* Leaving, or parting from the channel, before it makes no difference.    *)
LEMMA QuitsAnyway ==
  ASSUME NEW s, Sound(s), NEW u \in Users
  PROVE  /\ Quits(LeavesBattle(s, u), u) = Quits(s, u)
         /\ Quits([s EXCEPT !.chan = @ \ {u}], u) = Quits(s, u)
<1>1. s \in Truths
  BY DEF Sound
<1>2. Quits(LeavesBattle(s, u), u) = Quits(s, u)
  <2> DEFINE l == LeavesBattle(s, u)
  <2>1. /\ Sound(l) /\ l.users = s.users /\ l.chan = s.chan
    BY LeavesParts
  <2>2. l.place[u] = None
    <3>1. s.place \in [Users -> Battles \cup {None}]
      BY <1>1 DEF Truths
    <3>2. l.place = IF Founds(s, u)
                    THEN [v \in Users |-> IF s.place[v] = s.place[u] THEN None ELSE s.place[v]]
                    ELSE [s.place EXCEPT ![u] = None]
      BY LeavesParts
    <3> HIDE DEF l
    <3> QED
      BY <3>1, <3>2
  <2> HIDE DEF l
  <2> DEFINE k == LeavesBattle(l, u)
  <2>3. l \in Truths
    BY <2>1 DEF Sound
  <2>4. ~ Founds(l, u)
    BY <2>2 DEF Founds, BattleOf
  <2>5. k.founder = l.founder /\ k.bots = l.bots /\ k.place = [l.place EXCEPT ![u] = None]
    BY <2>1, <2>4, LeavesParts
  <2> HIDE DEF k
  <2>6. k.place = l.place
    BY <2>2, <2>3, <2>5 DEF Truths
  <2> DEFINE p == Quits(l, u)
             q == Quits(s, u)
  <2>7. /\ Sound(p) /\ p.users = l.users \ {u} /\ p.chan = l.chan \ {u}
        /\ p.founder = k.founder /\ p.place = k.place /\ p.bots = k.bots
    BY <2>1, QuitsParts DEF k
  <2>8. /\ Sound(q) /\ q.users = s.users \ {u} /\ q.chan = s.chan \ {u}
        /\ q.founder = l.founder /\ q.place = l.place /\ q.bots = l.bots
    BY QuitsParts DEF l
  <2> HIDE DEF p, q
  <2>9. p \in Truths /\ q \in Truths
    BY <2>7, <2>8 DEF Sound
  <2>10. /\ p.users = q.users /\ p.founder = q.founder /\ p.place = q.place
         /\ p.bots = q.bots /\ p.chan = q.chan
    BY <2>1, <2>5, <2>6, <2>7, <2>8
  <2>11. p = q
    BY <2>9, <2>10, TruthsSame
  <2> QED
    BY <2>11 DEF p, q, l
<1>3. Quits([s EXCEPT !.chan = @ \ {u}], u) = Quits(s, u)
  <2> DEFINE c == [s EXCEPT !.chan = @ \ {u}]
  <2>1. /\ c \in Truths /\ c.users = s.users /\ c.founder = s.founder
        /\ c.place = s.place /\ c.bots = s.bots /\ c.chan = s.chan \ {u}
    BY <1>1 DEF Truths
  <2> HIDE DEF c
  <2>2. Sound(c)
    BY <2>1 DEF Sound
  <2>3. Founds(c, u) <=> Founds(s, u)
    BY <2>1 DEF Founds, BattleOf
  <2> DEFINE k == LeavesBattle(c, u)
             l == LeavesBattle(s, u)
  <2>4. /\ k.founder =
             IF Founds(c, u) THEN [c.founder EXCEPT ![c.place[u]] = None] ELSE c.founder
        /\ k.bots =
             IF Founds(c, u) THEN [c.bots EXCEPT ![c.place[u]] = {}] ELSE c.bots
        /\ k.place =
             IF Founds(c, u)
             THEN [v \in Users |-> IF c.place[v] = c.place[u] THEN None ELSE c.place[v]]
             ELSE [c.place EXCEPT ![u] = None]
    BY <2>2, LeavesParts
  <2>5. /\ l.founder =
             IF Founds(s, u) THEN [s.founder EXCEPT ![s.place[u]] = None] ELSE s.founder
        /\ l.bots =
             IF Founds(s, u) THEN [s.bots EXCEPT ![s.place[u]] = {}] ELSE s.bots
        /\ l.place =
             IF Founds(s, u)
             THEN [v \in Users |-> IF s.place[v] = s.place[u] THEN None ELSE s.place[v]]
             ELSE [s.place EXCEPT ![u] = None]
    BY LeavesParts
  <2> HIDE DEF k, l
  <2>6. k.founder = l.founder /\ k.bots = l.bots /\ k.place = l.place
    BY <2>1, <2>3, <2>4, <2>5
  <2> DEFINE p == Quits(c, u)
             q == Quits(s, u)
  <2>7. /\ Sound(p) /\ p.users = c.users \ {u} /\ p.chan = c.chan \ {u}
        /\ p.founder = k.founder /\ p.place = k.place /\ p.bots = k.bots
    BY <2>2, QuitsParts DEF k
  <2>8. /\ Sound(q) /\ q.users = s.users \ {u} /\ q.chan = s.chan \ {u}
        /\ q.founder = l.founder /\ q.place = l.place /\ q.bots = l.bots
    BY QuitsParts DEF l
  <2> HIDE DEF p, q
  <2>9. p \in Truths /\ q \in Truths
    BY <2>7, <2>8 DEF Sound
  <2>10. /\ p.users = q.users /\ p.founder = q.founder /\ p.place = q.place
         /\ p.bots = q.bots /\ p.chan = q.chan
    BY <2>1, <2>6, <2>7, <2>8
  <2>11. p = q
    BY <2>9, <2>10, TruthsSame
  <2> QED
    BY <2>11 DEF p, q, c
<1> QED
  BY <1>2, <1>3

(* A user is removed, whatever else the server has said of it.             *)
LEMMA RemovalBrings ==
  ASSUME NEW s, Sound(s), NEW u \in Others
  PROVE  u \in s.users => Brings(s, Of("REMOVEUSER", u), Quits(s, u))
<1> SUFFICES ASSUME u \in s.users
             PROVE  Brings(s, Of("REMOVEUSER", u), Quits(s, u))
  OBVIOUS
<1> DEFINE t == Quits(s, u)
           l == LeavesBattle(s, u)
           m == [is |-> "REMOVEUSER", who |-> u]
<1>1. /\ Sound(t) /\ t.users = s.users \ {u} /\ t.chan = s.chan \ {u}
      /\ t.founder = l.founder /\ t.place = l.place /\ t.bots = l.bots
      /\ l.users = s.users /\ l.chan = s.chan
  <2>1. u \in Users
    BY DEF Users
  <2>2. /\ Sound(t) /\ t.users = s.users \ {u} /\ t.chan = s.chan \ {u}
        /\ t.founder = l.founder /\ t.place = l.place /\ t.bots = l.bots
    BY <2>1, QuitsParts
  <2>3. l.users = s.users /\ l.chan = s.chan
    BY <2>1, LeavesParts
  <2> QED
    BY <2>2, <2>3
<1>2. /\ m \in Message /\ m.is = "REMOVEUSER" /\ m.who = u /\ Of("REMOVEUSER", u) = <<m>>
      /\ u # Me /\ u \in Users
  BY RegistryAssumption DEF Message, Of, Users
<1> HIDE DEF t, m
<1>3. ASSUME NEW v \in Worlds, Possible(v), Agrees(v, s)
      PROVE  \E x : Heard(v, m, x) /\ Agrees(x, t)
  <2> DEFINE d == Departed(v, u)
             x == Without(d, u)
  <2>1. Heard(v, m, x)
    BY <1>2, <1>3 DEF Heard, HeardUser, Agrees
  <2>2. Possible(d) /\ d.place[u] = None
    BY <1>2, <1>3, DepartedPossible
  <2>3. Agrees(d, l)
    BY <1>2, <1>3, DepartedAgrees
  <2>4. /\ x.users = d.users \ {u} /\ x.chan = d.chan \ {u} /\ x.crew = d.crew
        /\ x.founder = d.founder /\ x.place = d.place /\ x.room = d.room
    BY <1>2, <2>2, WithoutPossible
  <2> HIDE DEF d, x, l
  <2>5. Agrees(x, t)
    BY <1>1, <2>3, <2>4 DEF Agrees
  <2> QED
    BY <2>1, <2>5
<1>4. Brings(s, <<m>>, t)
  BY <1>1, <1>2, <1>3, BringsOne
<1> QED
  BY <1>2, <1>4 DEF t

(* All that the server may say of a user that logs out.                    *)
LEMMA QuitBrings ==
  ASSUME NEW s, Sound(s), NEW u \in Others, u \in s.users, NEW news \in Farewells(s, u)
  PROVE  Brings(s, news, Quits(s, u))
<1>1. u \in Users
  BY DEF Users
<1>2. PICK left \in {<<>>, LeaveNews(s, u)}, part \in {<<>>, ChannelNews(s, u, "LEFT")} :
        news = left \o part \o Of("REMOVEUSER", u)
  BY DEF Farewells
<1>3. \A t : Sound(t) => Brings(t, <<>>, t)
  BY BringsNothing
<1>4. \E k : /\ Brings(s, left, k) /\ Sound(k) /\ k.users = s.users /\ k.chan = s.chan
             /\ Quits(k, u) = Quits(s, u)
  <2>1. CASE left = <<>>
    BY <1>3, <2>1
  <2>2. CASE left = LeaveNews(s, u)
    <3>1. /\ Sound(LeavesBattle(s, u)) /\ LeavesBattle(s, u).users = s.users
          /\ LeavesBattle(s, u).chan = s.chan
      BY <1>1, LeavesParts
    <3>2. Brings(s, LeaveNews(s, u), LeavesBattle(s, u))
      BY <1>1, LeaveBrings
    <3>3. Quits(LeavesBattle(s, u), u) = Quits(s, u)
      BY <1>1, QuitsAnyway
    <3> QED
      BY <2>2, <3>1, <3>2, <3>3
  <2> QED
    BY <2>1, <2>2
<1>5. PICK k : /\ Brings(s, left, k) /\ Sound(k) /\ k.users = s.users /\ k.chan = s.chan
               /\ Quits(k, u) = Quits(s, u)
  BY <1>4
<1>6. \E j : /\ Brings(k, part, j) /\ Sound(j) /\ j.users = s.users
             /\ Quits(j, u) = Quits(s, u)
  <2>1. CASE part = <<>>
    BY <1>3, <1>5, <2>1
  <2>2. CASE part = ChannelNews(s, u, "LEFT")
    <3> DEFINE j == [k EXCEPT !.chan = @ \ {u}]
    <3>1. ChannelNews(s, u, "LEFT") = ChannelNews(k, u, "LEFT")
      BY <1>5 DEF ChannelNews
    <3>2. Brings(k, part, j)
      BY <1>1, <1>5, <2>2, <3>1, PartBrings
    <3>3. j.users = s.users
      BY <1>5 DEF Sound, Truths
    <3>4. Quits(j, u) = Quits(s, u)
      BY <1>1, <1>5, QuitsAnyway
    <3> HIDE DEF j
    <3> QED
      BY <3>2, <3>3, <3>4 DEF Brings
  <2> QED
    BY <2>1, <2>2
<1>7. PICK j : /\ Brings(k, part, j) /\ Sound(j) /\ j.users = s.users
               /\ Quits(j, u) = Quits(s, u)
  BY <1>6
<1>8. Brings(j, Of("REMOVEUSER", u), Quits(s, u))
  BY <1>7, RemovalBrings
<1>9. Brings(s, left \o part, j)
  BY <1>5, <1>7, BringsOn
<1> QED
  BY <1>2, <1>8, <1>9, BringsOn

(* A user that is nowhere opens a battle: the client is told of it, and if *)
(* it is its own, to show it.                                              *)
LEMMA OpensParts ==
  ASSUME NEW s, Sound(s), NEW u \in Users, NEW b \in Battles
  PROVE  /\ Sound(OpensBattle(s, u, b))
         /\ OpensBattle(s, u, b).users = s.users /\ OpensBattle(s, u, b).chan = s.chan
         /\ OpensBattle(s, u, b).bots = s.bots
         /\ OpensBattle(s, u, b).founder = [s.founder EXCEPT ![b] = u]
         /\ OpensBattle(s, u, b).place = [s.place EXCEPT ![u] = b]
<1> DEFINE t == OpensBattle(s, u, b)
<1>1. /\ t \in Truths /\ t.users = s.users /\ t.chan = s.chan /\ t.bots = s.bots
      /\ t.founder = [s.founder EXCEPT ![b] = u] /\ t.place = [s.place EXCEPT ![u] = b]
  BY DEF OpensBattle, Sound, Truths
<1> HIDE DEF t
<1>2. ASSUME NEW c \in Battles, t.founder[c] = None
      PROVE  t.bots[c] = {}
  <2>1. s.founder \in [Battles -> Users \cup {None}]
    BY DEF Sound, Truths
  <2>2. c # b /\ s.founder[c] = None
    BY <1>1, <1>2, <2>1, NoneApart
  <2> QED
    BY <1>1, <2>2 DEF Sound
<1>3. Sound(t)
  BY <1>1, <1>2 DEF Sound
<1> QED
  BY <1>1, <1>3 DEF t

(* BATTLEOPENED, and OPENBATTLE if it is the client's.                     *)
LEMMA OpenBrings ==
  ASSUME NEW s, Sound(s), NEW u \in Users, NEW b \in Battles,
         u \in s.users, s.place[u] = None, b \notin Open(s)
  PROVE  Brings(s, OpenNews(u, b), OpensBattle(s, u, b))
<1> DEFINE t == OpensBattle(s, u, b)
           m == [is |-> "BATTLEOPENED", at |-> b, who |-> u]
           n == [is |-> "OPENBATTLE", at |-> b]
<1>1. /\ Sound(t) /\ t.users = s.users /\ t.chan = s.chan /\ t.bots = s.bots
      /\ t.founder = [s.founder EXCEPT ![b] = u] /\ t.place = [s.place EXCEPT ![u] = b]
  BY OpensParts
<1>2. /\ m \in Message /\ m.is = "BATTLEOPENED" /\ m.at = b /\ m.who = u
      /\ n \in Message /\ n.is = "OPENBATTLE" /\ n.at = b
  BY DEF Message
<1>3. /\ u = Me => OpenNews(u, b) = <<m>> \o <<n>>
      /\ u # Me => OpenNews(u, b) = <<m>>
  <2>1. <<m>> \o <<>> = <<m>>
    OBVIOUS
  <2> QED
    BY <2>1 DEF OpenNews, Tells, About
<1> HIDE DEF t, m, n
<1>4. s.place \in [Users -> Battles \cup {None}] /\ s.founder \in [Battles -> Users \cup {None}]
  BY DEF Sound, Truths
<1>5. ASSUME NEW v \in Worlds, Possible(v), Agrees(v, s)
      PROVE  \E y \in Worlds :
               /\ Leads(v, <<m>>, y) /\ b \in Open(y) /\ y.room = v.room /\ y.crew = v.crew
               /\ y.users = t.users /\ y.founder = t.founder /\ y.place = t.place
               /\ y.chan = v.chan
  <2> DEFINE y == [v EXCEPT !.founder[b] = u, !.place[u] = b]
  <2>1. /\ y.users = v.users /\ y.room = v.room /\ y.crew = v.crew /\ y.chan = v.chan
        /\ y.founder = [v.founder EXCEPT ![b] = u] /\ y.place = [v.place EXCEPT ![u] = b]
    BY DEF Worlds
  <2>2. Heard(v, m, y)
    <3>1. b \notin Open(v) /\ u \in v.users /\ v.place[u] = None
      BY <1>5 DEF Agrees, Open
    <3> QED
      BY <1>2, <3>1 DEF Heard, HeardBattle
  <2> HIDE DEF y
  <2>3. Possible(y) /\ Leads(v, <<m>>, y)
    BY <1>2, <1>5, <2>2, HeardPossible, LeadsOne DEF Step
  <2>4. b \in Open(y)
    BY <2>1, NoneApart DEF Open, Worlds
  <2> QED
    BY <1>1, <1>5, <2>1, <2>3, <2>4 DEF Possible, Agrees
<1>6. <<m>> \in Seq(Message) /\ <<n>> \in Seq(Message) /\ <<m>> \o <<n>> \in Seq(Message)
  BY <1>2
<1>7. CASE u # Me
  <2>1. ASSUME NEW v \in Worlds, Possible(v), Agrees(v, s)
        PROVE  \E x \in Worlds : Leads(v, <<m>>, x) /\ Agrees(x, t)
    <3>1. PICK y \in Worlds :
               /\ Leads(v, <<m>>, y) /\ b \in Open(y) /\ y.room = v.room /\ y.crew = v.crew
               /\ y.users = t.users /\ y.founder = t.founder /\ y.place = t.place
               /\ y.chan = v.chan
      BY <1>5, <2>1
    <3>2. t.place[Me] = s.place[Me]
      BY <1>1, <1>4, <1>7, NoneApart
    <3>3. Agrees(y, t)
      BY <1>1, <2>1, <3>1, <3>2 DEF Agrees
    <3> QED
      BY <3>1, <3>3
  <2> QED
    BY <1>1, <1>3, <1>6, <1>7, <2>1 DEF Brings, t
<1>8. CASE u = Me
  <2>1. ASSUME NEW v \in Worlds, Possible(v), Agrees(v, s)
        PROVE  \E x \in Worlds : Leads(v, <<m>> \o <<n>>, x) /\ Agrees(x, t)
    <3>1. PICK y \in Worlds :
               /\ Leads(v, <<m>>, y) /\ b \in Open(y) /\ y.room = v.room /\ y.crew = v.crew
               /\ y.users = t.users /\ y.founder = t.founder /\ y.place = t.place
               /\ y.chan = v.chan
      BY <1>5, <2>1
    <3> DEFINE x == [y EXCEPT !.room = b, !.crew = {}]
    <3>2. /\ x.users = y.users /\ x.founder = y.founder /\ x.place = y.place
          /\ x.chan = y.chan /\ x.room = b
      BY DEF Worlds
    <3>3. Heard(y, n, x)
      BY <1>2, <3>1 DEF Heard, HeardBattle
    <3> HIDE DEF x
    <3>4. Possible(y)
      BY <3>1 DEF Leads
    <3>5. Possible(x) /\ Leads(y, <<n>>, x)
      BY <1>2, <3>3, <3>4, HeardPossible, LeadsOne DEF Step
    <3>6. t.place[Me] = b /\ t.bots[b] = {}
      BY <1>1, <1>4, <1>8 DEF Sound, Open
    <3>7. Agrees(x, t)
      BY <1>1, <2>1, <3>1, <3>2, <3>6 DEF Agrees
    <3> QED
      BY <3>1, <3>5, <3>7, LeadsOn DEF Possible
  <2> QED
    BY <1>1, <1>3, <1>6, <1>8, <2>1 DEF Brings, t
<1> QED
  BY <1>7, <1>8

(* The bots of a battle that is joined arrive one by one,                  *)
LEMMA CrewLeads ==
  ASSUME NEW w, Possible(w), NEW b \in Battles, w.room = b, NEW list \in Seq(Bots),
         NEW x, x = [w EXCEPT !.crew = @ \cup {list[k] : k \in 1 .. Len(list)}]
  PROVE  Leads(w, BotNews(b, list), x)
<1> DEFINE n == Len(list)
           q == BotNews(b, list)
           f == [i \in 0 .. n |-> [w EXCEPT !.crew = @ \cup {list[k] : k \in 1 .. i}]]
<1>1. n \in Nat /\ (\A k \in 1 .. n : list[k] \in Bots) /\ DOMAIN list = 1 .. n
  OBVIOUS
<1>2. w \in Worlds
  BY DEF Possible
<1>3. q \in Seq(Message) /\ Len(q) = n
      /\ \A i \in 1 .. n : q[i] = [is |-> "ADDBOT", at |-> b, who |-> list[i]]
  <2>1. \A i \in 1 .. n : [is |-> "ADDBOT", at |-> b, who |-> list[i]] \in Message
    BY <1>1 DEF Message
  <2> QED
    BY <1>1, <2>1 DEF BotNews
<1> HIDE DEF n, q
<1>4. \A i \in 0 .. n : f[i] \in Worlds /\ f[i].room = b
        /\ f[i] = [w EXCEPT !.crew = @ \cup {list[k] : k \in 1 .. i}]
  BY <1>1, <1>2 DEF Worlds
<1>5. f[0] = w
  <2>1. 0 \in 0 .. n /\ {list[k] : k \in 1 .. 0} = {}
    BY <1>1
  <2>2. f[0] = [w EXCEPT !.crew = @ \cup {}]
    BY <1>4, <2>1
  <2> QED
    BY <1>2, <2>2 DEF Worlds
<1>6. f[n] = x
  <2>1. n \in 0 .. n
    BY <1>1
  <2> QED
    BY <1>4, <2>1 DEF n
<1>7. ASSUME NEW i \in 1 .. n
      PROVE  Heard(f[i - 1], q[i], f[i])
  <2>1. i - 1 \in 0 .. n /\ i \in 0 .. n /\ 1 .. i = (1 .. i - 1) \cup {i}
    BY <1>1
  <2>2. {list[k] : k \in 1 .. i} = {list[k] : k \in 1 .. i - 1} \cup {list[i]}
    BY <2>1
  <2> DEFINE p == {list[k] : k \in 1 .. i - 1}
  <2>3. /\ f[i - 1] = [w EXCEPT !.crew = @ \cup p]
        /\ f[i] = [w EXCEPT !.crew = @ \cup (p \cup {list[i]})]
    BY <1>4, <2>1, <2>2
  <2> HIDE DEF p, f
  <2>4. f[i] = [f[i - 1] EXCEPT !.crew = @ \cup {list[i]}]
    <3>1. w.crew \cup (p \cup {list[i]}) = (w.crew \cup p) \cup {list[i]}
      OBVIOUS
    <3>2. f[i - 1].crew = w.crew \cup p
      BY <1>2, <2>3 DEF Worlds
    <3>3. f[i] = [f[i - 1] EXCEPT !.crew = (w.crew \cup p) \cup {list[i]}]
      BY <1>2, <2>3, <3>1 DEF Worlds
    <3> QED
      BY <3>2, <3>3
  <2>5. f[i - 1].room = b
    BY <1>4, <2>1
  <2>6. q[i].is = "ADDBOT" /\ q[i].at = b /\ q[i].who = list[i]
    BY <1>3
  <2> QED
    BY <2>4, <2>5, <2>6 DEF Heard, HeardMember
<1>8. \A i \in 0 .. n : Possible(f[i])
  <2>1. ASSUME NEW i \in 0 .. n
        PROVE  Possible(f[i])
    <3>1. /\ f[i].users = w.users /\ f[i].founder = w.founder /\ f[i].place = w.place
          /\ f[i].room = w.room /\ f[i].chan = w.chan /\ f[i].joined = w.joined
      BY <1>2, <1>4 DEF Worlds
    <3>2. Open(f[i]) = Open(w) /\ f[i] \in Worlds
      BY <1>4, <3>1 DEF Open
    <3> HIDE DEF f
    <3> QED
      BY <3>1, <3>2 DEF Possible
  <2> QED
    BY <2>1
<1>9. f \in [0 .. n -> Worlds]
  BY <1>4
<1> HIDE DEF f
<1>10. \A i \in 1 .. Len(q) : Step(f[i - 1], q[i], f[i])
  <2>1. \A i \in 1 .. n : i - 1 \in 0 .. n /\ i \in 0 .. n
    BY <1>1
  <2> QED
    BY <1>3, <1>7, <1>8, <2>1 DEF Step
<1>11. Possible(x)
  <2>1. n \in 0 .. n
    BY <1>1
  <2> QED
    BY <1>6, <1>8, <2>1
<1>12. Leads(w, q, x)
  BY <1>3, <1>5, <1>6, <1>9, <1>10, <1>11 DEF Leads
<1> QED
  BY <1>12 DEF q

(* and so do the users of a channel that is joined.                        *)
LEMMA ClientsLead ==
  ASSUME NEW w, Possible(w), w.joined, NEW list \in Seq(w.users),
         NEW x, x = [w EXCEPT !.chan = @ \cup {list[k] : k \in 1 .. Len(list)}]
  PROVE  Leads(w, ClientNews(list), x)
<1> DEFINE n == Len(list)
           q == ClientNews(list)
           f == [i \in 0 .. n |-> [w EXCEPT !.chan = @ \cup {list[k] : k \in 1 .. i}]]
<1>1. n \in Nat /\ (\A k \in 1 .. n : list[k] \in w.users) /\ DOMAIN list = 1 .. n
  OBVIOUS
<1>2. w \in Worlds /\ w.users \subseteq Users
  BY DEF Possible, Worlds
<1>3. q \in Seq(Message) /\ Len(q) = n
      /\ \A i \in 1 .. n : q[i] = [is |-> "CLIENTS", who |-> list[i]]
  <2>1. \A i \in 1 .. n : [is |-> "CLIENTS", who |-> list[i]] \in Message
    BY <1>1, <1>2 DEF Message
  <2> QED
    BY <1>1, <2>1 DEF ClientNews
<1> HIDE DEF n, q
<1>4. \A i \in 0 .. n : f[i] \in Worlds
        /\ f[i] = [w EXCEPT !.chan = @ \cup {list[k] : k \in 1 .. i}]
  BY <1>1, <1>2 DEF Worlds
<1>5. f[0] = w
  <2>1. 0 \in 0 .. n /\ {list[k] : k \in 1 .. 0} = {}
    BY <1>1
  <2>2. f[0] = [w EXCEPT !.chan = @ \cup {}]
    BY <1>4, <2>1
  <2> QED
    BY <1>2, <2>2 DEF Worlds
<1>6. f[n] = x
  <2>1. n \in 0 .. n
    BY <1>1
  <2> QED
    BY <1>4, <2>1 DEF n
<1>7. ASSUME NEW i \in 1 .. n
      PROVE  Heard(f[i - 1], q[i], f[i])
  <2>1. i - 1 \in 0 .. n /\ i \in 0 .. n /\ 1 .. i = (1 .. i - 1) \cup {i}
    BY <1>1
  <2>2. {list[k] : k \in 1 .. i} = {list[k] : k \in 1 .. i - 1} \cup {list[i]}
    BY <2>1
  <2> DEFINE p == {list[k] : k \in 1 .. i - 1}
  <2>3. /\ f[i - 1] = [w EXCEPT !.chan = @ \cup p]
        /\ f[i] = [w EXCEPT !.chan = @ \cup (p \cup {list[i]})]
    BY <1>4, <2>1, <2>2
  <2> HIDE DEF p, f
  <2>4. f[i] = [f[i - 1] EXCEPT !.chan = @ \cup {list[i]}]
    <3>1. w.chan \cup (p \cup {list[i]}) = (w.chan \cup p) \cup {list[i]}
      OBVIOUS
    <3>2. f[i - 1].chan = w.chan \cup p
      BY <1>2, <2>3 DEF Worlds
    <3>3. f[i] = [f[i - 1] EXCEPT !.chan = (w.chan \cup p) \cup {list[i]}]
      BY <1>2, <2>3, <3>1 DEF Worlds
    <3> QED
      BY <3>2, <3>3
  <2>5. f[i - 1].joined /\ list[i] \in f[i - 1].users
    BY <1>1, <1>2, <2>3 DEF Worlds
  <2>6. q[i].is = "CLIENTS" /\ q[i].who = list[i]
    BY <1>3
  <2> QED
    BY <2>4, <2>5, <2>6 DEF Heard, HeardChannel
<1>8. \A i \in 0 .. n : Possible(f[i])
  <2>1. ASSUME NEW i \in 0 .. n
        PROVE  Possible(f[i])
    <3> DEFINE p == {list[k] : k \in 1 .. i}
    <3>1. p \subseteq w.users
      BY <1>1
    <3>2. f[i] = [w EXCEPT !.chan = @ \cup p]
      BY <1>4
    <3> HIDE DEF p, f
    <3>3. /\ f[i].users = w.users /\ f[i].founder = w.founder /\ f[i].place = w.place
          /\ f[i].room = w.room /\ f[i].chan = w.chan \cup p /\ f[i].joined = w.joined
      BY <1>2, <3>2 DEF Worlds
    <3>4. Open(f[i]) = Open(w) /\ f[i] \in Worlds
      BY <1>4, <3>3 DEF Open
    <3> QED
      BY <3>1, <3>3, <3>4 DEF Possible
  <2> QED
    BY <2>1
<1>9. f \in [0 .. n -> Worlds]
  BY <1>4
<1> HIDE DEF f
<1>10. \A i \in 1 .. Len(q) : Step(f[i - 1], q[i], f[i])
  <2>1. \A i \in 1 .. n : i - 1 \in 0 .. n /\ i \in 0 .. n
    BY <1>1
  <2> QED
    BY <1>3, <1>7, <1>8, <2>1 DEF Step
<1>11. Possible(x)
  <2>1. n \in 0 .. n
    BY <1>1
  <2> QED
    BY <1>6, <1>8, <2>1
<1>12. Leads(w, q, x)
  BY <1>3, <1>5, <1>6, <1>9, <1>10, <1>11 DEF Leads
<1> QED
  BY <1>12 DEF q

(* A list of some names is a sequence of them all.                         *)
LEMMA ListedAll ==
  ASSUME NEW names, names \subseteq Names, NEW list \in Listed(names)
  PROVE  list \in Seq(names) /\ {list[k] : k \in 1 .. Len(list)} = names
<1>1. Cardinality(names) \in Nat
  <2>1. IsFiniteSet(names)
    BY RegistryAssumption, FS_Subset
  <2> QED
    BY <2>1, FS_CardinalityType
<1>2. list \in [1 .. Cardinality(names) -> names] /\ {list[i] : i \in DOMAIN list} = names
  BY DEF Listed
<1> HIDE DEF Listed
<1>3. list \in Seq(names) /\ DOMAIN list = 1 .. Len(list)
  BY <1>1, <1>2
<1> QED
  BY <1>2, <1>3

(* A user that is nowhere joins a battle.  To the client that joins it the *)
(* battle is named first, then its bots, then its own arrival.             *)
LEMMA EntersParts ==
  ASSUME NEW s, Sound(s), NEW u \in Users, NEW b \in Battles
  PROVE  /\ Sound(EntersBattle(s, u, b))
         /\ EntersBattle(s, u, b).users = s.users /\ EntersBattle(s, u, b).chan = s.chan
         /\ EntersBattle(s, u, b).bots = s.bots
         /\ EntersBattle(s, u, b).founder = s.founder
         /\ EntersBattle(s, u, b).place = [s.place EXCEPT ![u] = b]
<1> DEFINE t == EntersBattle(s, u, b)
<1>1. /\ t \in Truths /\ t.users = s.users /\ t.chan = s.chan /\ t.bots = s.bots
      /\ t.founder = s.founder /\ t.place = [s.place EXCEPT ![u] = b]
  BY DEF EntersBattle, Sound, Truths
<1> HIDE DEF t
<1>2. Sound(t)
  BY <1>1 DEF Sound
<1> QED
  BY <1>1, <1>2 DEF t

(* The arrival itself,                                                     *)
LEMMA ArrivalLeads ==
  ASSUME NEW v, Possible(v), NEW u \in Users, NEW b \in Open(v),
         u \in v.users, v.place[u] = None,
         NEW x, x = [v EXCEPT !.place[u] = b]
  PROVE  Leads(v, Tells("JOINEDBATTLE", b, u), x)
<1> DEFINE m == [is |-> "JOINEDBATTLE", at |-> b, who |-> u]
<1>1. b \in Battles
  BY DEF Open
<1>2. m \in Message /\ m.is = "JOINEDBATTLE" /\ m.at = b /\ m.who = u
  BY <1>1 DEF Message
<1>3. Tells("JOINEDBATTLE", b, u) = <<m>>
  BY DEF Tells
<1> HIDE DEF m
<1>4. Heard(v, m, x)
  BY <1>2 DEF Heard, HeardMember
<1> QED
  BY <1>2, <1>3, <1>4, HeardPossible, LeadsOne DEF Step

(* and the news of it, with JOINBATTLE and the bots if it is the client's. *)
LEMMA EnterBrings ==
  ASSUME NEW s, Sound(s), NEW u \in Users, NEW b \in Battles,
         u \in s.users, s.place[u] = None, b \in Open(s), NEW news \in EnterNews(s, u, b)
  PROVE  Brings(s, news, EntersBattle(s, u, b))
<1> DEFINE t == EntersBattle(s, u, b)
<1>1. /\ Sound(t) /\ t.users = s.users /\ t.chan = s.chan /\ t.bots = s.bots
      /\ t.founder = s.founder /\ t.place = [s.place EXCEPT ![u] = b]
  BY EntersParts
<1> HIDE DEF t
<1>2. s.place \in [Users -> Battles \cup {None}] /\ s.bots \in [Battles -> SUBSET Bots]
  BY DEF Sound, Truths
<1>3. /\ Tells("JOINEDBATTLE", b, u) \in Seq(Message)
      /\ About("JOINBATTLE", b) \in Seq(Message)
  <2>1. /\ [is |-> "JOINEDBATTLE", at |-> b, who |-> u] \in Message
        /\ [is |-> "JOINBATTLE", at |-> b] \in Message
    BY DEF Message
  <2> QED
    BY <2>1 DEF Tells, About
<1>4. CASE u # Me
  <2>1. news = Tells("JOINEDBATTLE", b, u)
    BY <1>4 DEF EnterNews
  <2>2. ASSUME NEW v \in Worlds, Possible(v), Agrees(v, s)
        PROVE  \E x \in Worlds : Leads(v, news, x) /\ Agrees(x, t)
    <3> DEFINE x == [v EXCEPT !.place[u] = b]
    <3>1. b \in Open(v) /\ u \in v.users /\ v.place[u] = None
      BY <2>2 DEF Agrees, Open
    <3>2. Leads(v, news, x)
      BY <2>1, <2>2, <3>1, ArrivalLeads
    <3>3. /\ x.users = v.users /\ x.founder = v.founder /\ x.room = v.room
          /\ x.crew = v.crew /\ x.chan = v.chan /\ x.place = [v.place EXCEPT ![u] = b]
      BY DEF Worlds
    <3>4. t.place[Me] = s.place[Me]
      BY <1>1, <1>2, <1>4, NoneApart
    <3> HIDE DEF x
    <3>5. Agrees(x, t)
      BY <1>1, <2>2, <3>3, <3>4 DEF Agrees
    <3> QED
      BY <3>2, <3>5 DEF Leads, Possible
  <2> QED
    BY <1>1, <1>3, <2>1, <2>2 DEF Brings, t
<1>5. CASE u = Me
  <2>1. PICK list \in Listed(s.bots[b]) :
          news = About("JOINBATTLE", b) \o BotNews(b, list) \o Tells("JOINEDBATTLE", b, u)
    BY <1>5 DEF EnterNews
  <2>2. list \in Seq(Bots) /\ {list[k] : k \in 1 .. Len(list)} = s.bots[b]
    <3>1. s.bots[b] \subseteq Bots /\ s.bots[b] \subseteq Names
      BY <1>2 DEF Names
    <3>2. list \in Seq(s.bots[b]) /\ {list[k] : k \in 1 .. Len(list)} = s.bots[b]
      BY <3>1, ListedAll
    <3> QED
      BY <3>1, <3>2
  <2>3. ASSUME NEW v \in Worlds, Possible(v), Agrees(v, s)
        PROVE  \E x \in Worlds : Leads(v, news, x) /\ Agrees(x, t)
    <3> DEFINE m == [is |-> "JOINBATTLE", at |-> b]
               y == [v EXCEPT !.room = b, !.crew = {}]
               z == [y EXCEPT !.crew = @ \cup s.bots[b]]
               x == [z EXCEPT !.place[u] = b]
    <3>1. /\ y.users = v.users /\ y.founder = v.founder /\ y.room = b
          /\ y.chan = v.chan /\ y.place = v.place
      BY DEF Worlds
    <3>2. m \in Message /\ m.is = "JOINBATTLE" /\ m.at = b /\ About("JOINBATTLE", b) = <<m>>
      BY DEF Message, About
    <3>3. b \in Open(v) /\ u \in v.users /\ v.place[u] = None
      BY <2>3 DEF Agrees, Open
    <3> HIDE DEF m
    <3>4. Heard(v, m, y)
      BY <3>2, <3>3 DEF Heard, HeardBattle
    <3>5. Possible(y)
      BY <2>3, <3>2, <3>4, HeardPossible
    <3>6. Leads(v, About("JOINBATTLE", b), y)
      BY <2>3, <3>2, <3>4, <3>5, LeadsOne DEF Step
    <3> HIDE DEF y
    <3>7. Leads(y, BotNews(b, list), z)
      BY <2>2, <3>1, <3>5, CrewLeads
    <3>8. /\ Possible(z) /\ z.users = y.users /\ z.founder = y.founder /\ z.room = y.room
          /\ z.chan = y.chan /\ z.place = y.place /\ s.bots[b] \subseteq z.crew
      BY <3>5, <3>7 DEF Leads, Worlds, Possible
    <3> HIDE DEF z
    <3>9. b \in Open(z) /\ u \in z.users /\ z.place[u] = None
      BY <3>1, <3>3, <3>8 DEF Open
    <3>10. Leads(z, Tells("JOINEDBATTLE", b, u), x)
      BY <3>8, <3>9, ArrivalLeads
    <3>11. /\ x.users = z.users /\ x.founder = z.founder /\ x.room = z.room
           /\ x.crew = z.crew /\ x.chan = z.chan /\ x.place = [z.place EXCEPT ![u] = b]
      BY <3>8 DEF Possible, Worlds
    <3> HIDE DEF x
    <3>12. t.place[Me] = b
      BY <1>1, <1>2, <1>5
    <3>13. Agrees(x, t)
      BY <1>1, <2>3, <3>1, <3>8, <3>11, <3>12 DEF Agrees
    <3>14. Leads(v, About("JOINBATTLE", b) \o BotNews(b, list), z)
      BY <3>6, <3>7, LeadsOn
    <3>15. Leads(v, news, x)
      BY <2>1, <3>10, <3>14, LeadsOn
    <3> QED
      BY <3>13, <3>15 DEF Leads, Possible
  <2>4. news \in Seq(Message)
    <3>1. BotNews(b, list) \in Seq(Message)
      <4>1. \A i \in DOMAIN list : [is |-> "ADDBOT", at |-> b, who |-> list[i]] \in Message
        BY <2>2 DEF Message
      <4> QED
        BY <2>2, <4>1 DEF BotNews
    <3> QED
      BY <1>3, <2>1, <3>1
  <2> QED
    BY <1>1, <2>3, <2>4 DEF Brings, t
<1> QED
  BY <1>4, <1>5

(* Bots come and go, of which the client hears in its own battle.          *)
LEMMA BotBrings ==
  ASSUME NEW s, Sound(s), NEW b \in Battles, NEW n \in Bots
  PROVE  /\ b \in Open(s) =>
              Brings(s, IF s.place[Me] = b THEN Tells("ADDBOT", b, n) ELSE <<>>,
                     [s EXCEPT !.bots[b] = @ \cup {n}])
         /\ Brings(s, IF s.place[Me] = b THEN Tells("REMOVEBOT", b, n) ELSE <<>>,
                   [s EXCEPT !.bots[b] = @ \ {n}])
<1> DEFINE more == [s EXCEPT !.bots[b] = @ \cup {n}]
           less == [s EXCEPT !.bots[b] = @ \ {n}]
           add == [is |-> "ADDBOT", at |-> b, who |-> n]
           rem == [is |-> "REMOVEBOT", at |-> b, who |-> n]
<1>1. /\ more \in Truths /\ more.users = s.users /\ more.chan = s.chan
      /\ more.founder = s.founder /\ more.place = s.place
      /\ more.bots = [s.bots EXCEPT ![b] = @ \cup {n}]
      /\ less \in Truths /\ less.users = s.users /\ less.chan = s.chan
      /\ less.founder = s.founder /\ less.place = s.place
      /\ less.bots = [s.bots EXCEPT ![b] = @ \ {n}]
  BY DEF Sound, Truths
<1>2. /\ add \in Message /\ add.is = "ADDBOT" /\ add.at = b /\ add.who = n
      /\ rem \in Message /\ rem.is = "REMOVEBOT" /\ rem.at = b /\ rem.who = n
      /\ Tells("ADDBOT", b, n) = <<add>> /\ Tells("REMOVEBOT", b, n) = <<rem>>
  BY DEF Message, Tells
<1> HIDE DEF more, less, add, rem
<1>3. s.bots \in [Battles -> SUBSET Bots] /\ s.place \in [Users -> Battles \cup {None}]
  BY DEF Sound, Truths
<1>4. Sound(less) /\ (b \in Open(s) => Sound(more))
  <2>1. \A c \in Battles : less.founder[c] = None => less.bots[c] = {}
    BY <1>1, <1>3 DEF Sound
  <2>2. b \in Open(s) => \A c \in Battles : more.founder[c] = None => more.bots[c] = {}
    BY <1>1, <1>3 DEF Sound, Open
  <2> QED
    BY <1>1, <2>1, <2>2 DEF Sound
<1>5. CASE s.place[Me] = b
  <2>1. ASSUME NEW v \in Worlds, Possible(v), Agrees(v, s)
        PROVE  /\ \E x : Heard(v, add, x) /\ Agrees(x, more)
               /\ \E x : Heard(v, rem, x) /\ Agrees(x, less)
    <3> DEFINE x == [v EXCEPT !.crew = @ \cup {n}]
               y == [v EXCEPT !.crew = @ \ {n}]
    <3>1. /\ x.users = v.users /\ x.founder = v.founder /\ x.place = v.place
          /\ x.room = v.room /\ x.chan = v.chan /\ x.crew = v.crew \cup {n}
          /\ y.users = v.users /\ y.founder = v.founder /\ y.place = v.place
          /\ y.room = v.room /\ y.chan = v.chan /\ y.crew = v.crew \ {n}
      BY DEF Worlds
    <3>2. v.room = b
      BY <1>5, <2>1 DEF Agrees
    <3>3. Heard(v, add, x) /\ Heard(v, rem, y)
      BY <1>2, <3>2 DEF Heard, HeardMember
    <3> HIDE DEF x, y
    <3>4. b # None /\ s.bots[b] \subseteq v.crew
      BY <2>1, <3>2, NoneApart DEF Agrees
    <3>5. more.bots[b] \subseteq x.crew /\ less.bots[b] \subseteq y.crew
      BY <1>1, <1>3, <3>1, <3>4
    <3>6. Agrees(x, more) /\ Agrees(y, less)
      BY <1>1, <2>1, <3>1, <3>2, <3>5 DEF Agrees
    <3> QED
      BY <3>3, <3>6
  <2>2. b \in Open(s) => Brings(s, <<add>>, more)
    BY <1>2, <1>4, <2>1, BringsOne
  <2>3. Brings(s, <<rem>>, less)
    BY <1>2, <1>4, <2>1, BringsOne
  <2> QED
    BY <1>2, <1>5, <2>2, <2>3 DEF more, less
<1>6. CASE s.place[Me] # b
  <2>1. ASSUME NEW v \in Worlds, Agrees(v, s)
        PROVE  Agrees(v, more) /\ Agrees(v, less)
    <3>1. \A c \in Battles : c # b => more.bots[c] = s.bots[c] /\ less.bots[c] = s.bots[c]
      BY <1>1, <1>3
    <3>2. v.room # b /\ v.room \in Battles \cup {None}
      BY <1>6, <2>1 DEF Agrees, Worlds
    <3>3. v.room # None => more.bots[v.room] = s.bots[v.room] /\ less.bots[v.room] = s.bots[v.room]
      BY <3>1, <3>2
    <3> QED
      BY <1>1, <2>1, <3>3 DEF Agrees
  <2>2. b \in Open(s) => Brings(s, <<>>, more)
    BY <1>4, <2>1, BringsNothing
  <2>3. Brings(s, <<>>, less)
    BY <1>4, <2>1, BringsNothing
  <2> QED
    BY <1>6, <2>2, <2>3 DEF more, less
<1> QED
  BY <1>5, <1>6

(* Others join the channel, which matters to a client that is in it; and   *)
(* the client does, after which it is told of everybody there.             *)
LEMMA ChannelBrings ==
  ASSUME NEW s, Sound(s), NEW u \in s.users, u # Me
  PROVE  Brings(s, ChannelNews(s, u, "JOINED"), [s EXCEPT !.chan = @ \cup {u}])
<1> DEFINE t == [s EXCEPT !.chan = @ \cup {u}]
           m == [is |-> "JOINED", who |-> u]
<1>1. u \in Users
  BY DEF Sound, Truths
<1>2. /\ t \in Truths /\ t.users = s.users /\ t.founder = s.founder
      /\ t.place = s.place /\ t.bots = s.bots /\ t.chan = s.chan \cup {u}
  BY <1>1 DEF Sound, Truths
<1>3. m \in Message /\ m.is = "JOINED" /\ m.who = u
  BY <1>1 DEF Message
<1> HIDE DEF t
<1>4. Sound(t)
  BY <1>2 DEF Sound
<1>5. CASE Me \in s.chan
  <2>1. ChannelNews(s, u, "JOINED") = <<m>>
    BY <1>5 DEF ChannelNews, Of
  <2> HIDE DEF m
  <2>2. ASSUME NEW v \in Worlds, Possible(v), Agrees(v, s)
        PROVE  \E x : Heard(v, m, x) /\ Agrees(x, t)
    <3> DEFINE x == [v EXCEPT !.chan = @ \cup {u}]
    <3>1. /\ x.users = v.users /\ x.founder = v.founder /\ x.place = v.place
          /\ x.room = v.room /\ x.crew = v.crew /\ x.chan = v.chan \cup {u}
      BY DEF Worlds
    <3>2. v.joined /\ u \in v.users
      BY <1>5, <2>2 DEF Agrees, Possible
    <3>3. Heard(v, m, x)
      BY <1>3, <3>2 DEF Heard, HeardChannel
    <3> HIDE DEF x
    <3>4. Agrees(x, t)
      BY <1>2, <1>5, <2>2, <3>1 DEF Agrees
    <3> QED
      BY <3>3, <3>4
  <2>3. Brings(s, <<m>>, t)
    BY <1>3, <1>4, <2>2, BringsOne
  <2> QED
    BY <2>1, <2>3 DEF t
<1>6. CASE Me \notin s.chan
  <2>1. ChannelNews(s, u, "JOINED") = <<>>
    BY <1>6 DEF ChannelNews
  <2>2. \A v \in Worlds : Agrees(v, s) => Agrees(v, t)
    BY <1>2, <1>6 DEF Agrees
  <2> QED
    BY <1>4, <2>1, <2>2, BringsNothing DEF t
<1> QED
  BY <1>5, <1>6

(* JOIN, and CLIENTS for everybody, the client itself among them.          *)
LEMMA JoinChannelBrings ==
  ASSUME NEW s, Sound(s), Me \in s.users, NEW t, t = [s EXCEPT !.chan = @ \cup {Me}],
         NEW list \in Listed(t.chan)
  PROVE  Brings(s, <<[is |-> "JOIN"]>> \o ClientNews(list), t)
<1> DEFINE m == [is |-> "JOIN"]
<1>1. /\ t \in Truths /\ t.users = s.users /\ t.founder = s.founder
      /\ t.place = s.place /\ t.bots = s.bots /\ t.chan = s.chan \cup {Me}
  BY NoneApart DEF Sound, Truths
<1>2. Sound(t)
  BY <1>1 DEF Sound
<1>3. m \in Message /\ m.is = "JOIN"
  BY DEF Message
<1> HIDE DEF m
<1>4. list \in Seq(t.chan) /\ {list[k] : k \in 1 .. Len(list)} = t.chan /\ t.chan \subseteq t.users
  <2>1. t.chan \subseteq Names
    BY <1>1 DEF Truths, Names
  <2> QED
    BY <1>2, <2>1, ListedAll DEF Sound
<1>5. <<m>> \o ClientNews(list) \in Seq(Message)
  <2>1. \A i \in DOMAIN list : [is |-> "CLIENTS", who |-> list[i]] \in Message
    BY <1>1, <1>4 DEF Message, Truths
  <2>2. ClientNews(list) \in Seq(Message)
    BY <1>4, <2>1 DEF ClientNews
  <2> QED
    BY <1>3, <2>2
<1>6. ASSUME NEW v \in Worlds, Possible(v), Agrees(v, s)
      PROVE  \E x \in Worlds : Leads(v, <<m>> \o ClientNews(list), x) /\ Agrees(x, t)
  <2> DEFINE y == [v EXCEPT !.joined = TRUE]
             x == [y EXCEPT !.chan = @ \cup t.chan]
  <2>1. /\ y.users = v.users /\ y.founder = v.founder /\ y.place = v.place
        /\ y.room = v.room /\ y.crew = v.crew /\ y.chan = v.chan /\ y.joined = TRUE
    BY DEF Worlds
  <2>2. Heard(v, m, y)
    BY <1>3 DEF Heard, HeardChannel
  <2> HIDE DEF y
  <2>3. Possible(y) /\ Leads(v, <<m>>, y)
    BY <1>3, <1>6, <2>2, HeardPossible, LeadsOne DEF Step
  <2>4. list \in Seq(y.users)
    BY <1>1, <1>4, <1>6, <2>1 DEF Agrees
  <2>5. Leads(y, ClientNews(list), x)
    BY <1>4, <2>1, <2>3, <2>4, ClientsLead
  <2>6. /\ x.users = y.users /\ x.founder = y.founder /\ x.place = y.place
        /\ x.room = y.room /\ x.crew = y.crew /\ x.chan = y.chan \cup t.chan
    BY <2>3 DEF Possible, Worlds
  <2> HIDE DEF x
  <2>7. Agrees(x, t)
    BY <1>1, <1>6, <2>1, <2>6 DEF Agrees
  <2>8. x \in Worlds
    BY <2>5 DEF Leads, Possible
  <2>9. Leads(v, <<m>> \o ClientNews(list), x)
    BY <2>3, <2>5, LeadsOn
  <2> QED
    BY <2>7, <2>8, <2>9
<1> QED
  BY <1>2, <1>5, <1>6 DEF Brings, m

(* A REMOVEUSER about the client itself changes nothing.                   *)
LEMMA RemovesMeBrings ==
  ASSUME NEW s, Sound(s)
  PROVE  Brings(s, Of("REMOVEUSER", Me), s)
<1> DEFINE m == [is |-> "REMOVEUSER", who |-> Me]
<1>1. m \in Message /\ m.is = "REMOVEUSER" /\ m.who = Me /\ Of("REMOVEUSER", Me) = <<m>>
  BY NoneApart DEF Message, Of
<1> HIDE DEF m
<1>2. \A v \in Worlds : Heard(v, m, v)
  BY <1>1 DEF Heard, HeardUser
<1>3. Brings(s, <<m>>, s)
  BY <1>1, <1>2, BringsOne
<1> QED
  BY <1>1, <1>3
-----------------------------------------------------------------------------
(* What the user does.  A world in which the client has just removed the   *)
(* bots of its battle and perhaps left the room: of the bots none counts   *)
(* any more, and the room is that of a message that is still on its way.   *)
Faded(w, seen) ==
  [w EXCEPT !.crew = {}, !.room = IF seen THEN @ ELSE None]

(* Such a world is possible.                                               *)
LEMMA FadedParts ==
  ASSUME NEW w, Possible(w), NEW seen \in BOOLEAN
  PROVE  /\ Possible(Faded(w, seen))
         /\ Faded(w, seen).users = w.users /\ Faded(w, seen).chan = w.chan
         /\ Faded(w, seen).joined = w.joined /\ Faded(w, seen).crew = {}
         /\ Faded(w, seen).founder = w.founder /\ Faded(w, seen).place = w.place
         /\ Faded(w, seen).room = (IF seen THEN w.room ELSE None)
         /\ Open(Faded(w, seen)) = Open(w)
<1> DEFINE x == Faded(w, seen)
<1>1. /\ x \in Worlds /\ x.users = w.users /\ x.chan = w.chan /\ x.joined = w.joined
      /\ x.crew = {} /\ x.founder = w.founder /\ x.place = w.place
      /\ x.room = IF seen THEN w.room ELSE None
  BY DEF Faded, Possible, Worlds
<1> HIDE DEF x
<1>2. Open(x) = Open(w)
  BY <1>1 DEF Open
<1>3. Possible(x)
  BY <1>1, <1>2 DEF Possible
<1> QED
  BY <1>1, <1>2, <1>3 DEF x

(* A departure and a fading may change places,                             *)
LEMMA DepartedFaded ==
  ASSUME NEW w, Possible(w), NEW seen \in BOOLEAN, NEW b \in Battles
  PROVE  /\ Faded(Closed(w, b), seen) = Closed(Faded(w, seen), b)
         /\ \A u \in Users : Faded(Vacated(w, u, b), seen) = Vacated(Faded(w, seen), u, b)
<1>1. w \in Worlds /\ b # None
  BY NoneApart DEF Possible
<1>2. Faded(Closed(w, b), seen) = Closed(Faded(w, seen), b)
  BY <1>1 DEF Faded, Closed, Worlds
<1>3. \A u \in Users : Faded(Vacated(w, u, b), seen) = Vacated(Faded(w, seen), u, b)
  BY <1>1 DEF Faded, Vacated, Worlds
<1> QED
  BY <1>2, <1>3

(* so that a faded world goes the way of the world itself, until a message *)
(* names the battle of the room.                                           *)
Naming == {"OPENBATTLE", "JOINBATTLE"}

(* One message does to the faded world what it does to the world,          *)
LEMMA FadedStep ==
  ASSUME NEW w, NEW m \in Message, NEW x, Step(w, m, x),
         NEW was \in BOOLEAN, NEW seen \in BOOLEAN, seen <=> was \/ m.is \in Naming
  PROVE  Step(Faded(w, was), m, Faded(x, seen))
<1> DEFINE y == Faded(w, was)
<1>1. Possible(w) /\ Possible(x) /\ Heard(w, m, x) /\ w \in Worlds /\ x \in Worlds
  BY DEF Step, Possible
<1>2. /\ Possible(y) /\ y \in Worlds /\ y.users = w.users /\ y.chan = w.chan
      /\ y.joined = w.joined /\ y.crew = {} /\ y.founder = w.founder /\ y.place = w.place
      /\ y.room = (IF was THEN w.room ELSE None) /\ Open(y) = Open(w)
  BY <1>1, FadedParts DEF Possible
<1>3. Possible(Faded(x, seen))
  BY <1>1, FadedParts
<1>4. m.is \notin Naming => seen = was
  OBVIOUS
<1>5. CASE HeardUser(w, m, x)
  <2>1. seen = was /\ m.who \in Users
    BY <1>4, <1>5, MessageParts DEF HeardUser, Naming
  <2>2. CASE m.is = "ADDUSER"
    <3>1. x = [w EXCEPT !.users = @ \cup {m.who}]
      BY <1>5, <2>2 DEF HeardUser
    <3>2. Faded(x, was) = [y EXCEPT !.users = @ \cup {m.who}]
      BY <1>1, <3>1 DEF Faded, Worlds
    <3> QED
      BY <1>2, <1>3, <2>1, <2>2, <3>2 DEF Step, Heard, HeardUser
  <2>3. CASE m.is = "REMOVEUSER" /\ m.who = Me /\ x = w
    <3> HIDE DEF y
    <3>1. Heard(y, m, y)
      BY <2>3 DEF Heard, HeardUser
    <3> QED
      BY <1>2, <2>1, <2>3, <3>1 DEF Step, y
  <2>4. CASE m.is = "REMOVEUSER" /\ m.who # Me /\ m.who \in w.users
             /\ x = Without(Departed(w, m.who), m.who)
    <3> DEFINE u == m.who
               d == Departed(w, u)
    <3> HIDE DEF u
    <3>1. u \in Users
      BY <2>1 DEF u
    <3>2. Possible(d)
      BY <1>1, <3>1, DepartedPossible
    <3>3. Faded(d, was) = Departed(y, u)
      <4>1. CASE w.place[u] = None
        BY <1>2, <4>1 DEF Departed
      <4>2. CASE w.place[u] # None
        <5>1. PICK b \in Battles : b = w.place[u]
          BY <1>1, <3>1, <4>2 DEF Worlds
        <5>2. CASE w.founder[b] = u
          <6>1. d = Closed(w, b) /\ Departed(y, u) = Closed(y, b)
            BY <1>2, <4>2, <5>1, <5>2 DEF Departed
          <6> QED
            BY <1>1, <6>1, DepartedFaded
        <5>3. CASE w.founder[b] # u
          <6>1. d = Vacated(w, u, b) /\ Departed(y, u) = Vacated(y, u, b)
            BY <1>2, <4>2, <5>1, <5>3 DEF Departed
          <6> QED
            BY <1>1, <3>1, <6>1, DepartedFaded
        <5> QED
          BY <5>2, <5>3
      <4> QED
        BY <4>1, <4>2
    <3>4. Faded(x, was) = Without(Departed(y, u), u)
      <4>1. x = Without(d, u)
        BY <2>4 DEF u
      <4>2. d \in Worlds
        BY <3>2 DEF Possible
      <4> HIDE DEF d
      <4>3. Faded(Without(d, u), was) = Without(Faded(d, was), u)
        BY <4>2 DEF Faded, Without, Worlds
      <4> QED
        BY <3>3, <4>1, <4>3
    <3>5. HeardUser(y, m, Faded(x, was))
      BY <1>2, <2>4, <3>4 DEF HeardUser, u
    <3> QED
      BY <1>2, <1>3, <2>1, <3>5 DEF Step, Heard
  <2> QED
    BY <1>5, <2>2, <2>3, <2>4 DEF HeardUser
<1>6. CASE HeardBattle(w, m, x)
  <2>1. m.at \in Battles
    BY <1>6, MessageParts DEF HeardBattle
  <2>2. CASE m.is = "BATTLEOPENED"
    <3>1. /\ m.at \notin Open(w) /\ m.who \in w.users /\ w.place[m.who] = None
          /\ x = [w EXCEPT !.founder[m.at] = m.who, !.place[m.who] = m.at]
      BY <1>6, <2>2 DEF HeardBattle
    <3>2. Faded(x, was) = [y EXCEPT !.founder[m.at] = m.who, !.place[m.who] = m.at]
      BY <1>1, <3>1 DEF Faded, Worlds
    <3>3. seen = was
      BY <1>4, <2>2 DEF Naming
    <3> HIDE DEF y
    <3>4. HeardBattle(y, m, Faded(x, was))
      BY <1>2, <2>2, <3>1, <3>2 DEF HeardBattle
    <3> QED
      BY <1>2, <1>3, <3>3, <3>4 DEF Step, Heard, y
  <2>3. CASE m.is = "BATTLECLOSED"
    <3>1. m.at \in Open(w) /\ x = Closed(w, m.at)
      BY <1>6, <2>3 DEF HeardBattle
    <3>2. Faded(x, was) = Closed(y, m.at)
      BY <1>1, <2>1, <3>1, DepartedFaded
    <3>3. seen = was
      BY <1>4, <2>3 DEF Naming
    <3> HIDE DEF y
    <3>4. HeardBattle(y, m, Faded(x, was))
      BY <1>2, <2>3, <3>1, <3>2 DEF HeardBattle
    <3> QED
      BY <1>2, <1>3, <3>3, <3>4 DEF Step, Heard, y
  <2>4. CASE m.is \in Naming
    <3>1. m.at \in Open(w) /\ x = [w EXCEPT !.room = m.at, !.crew = {}]
      BY <1>6, <2>4 DEF HeardBattle, Naming
    <3>2. seen
      BY <2>4
    <3>3. Faded(x, seen) = [y EXCEPT !.room = m.at, !.crew = {}]
      BY <1>1, <3>1, <3>2 DEF Faded, Worlds
    <3> HIDE DEF y
    <3>4. HeardBattle(y, m, Faded(x, seen))
      BY <1>2, <2>4, <3>1, <3>3 DEF HeardBattle, Naming
    <3> QED
      BY <1>2, <1>3, <3>4 DEF Step, Heard, y
  <2> QED
    BY <1>6, <2>2, <2>3, <2>4 DEF HeardBattle, Naming
<1>7. CASE HeardMember(w, m, x)
  <2>1. m.at \in Battles
    BY <1>7, MessageParts DEF HeardMember
  <2>2. seen = was
    BY <1>4, <1>7 DEF HeardMember, Naming
  <2>3. CASE m.is = "JOINEDBATTLE"
    <3>1. /\ m.at \in Open(w) /\ m.who \in w.users /\ w.place[m.who] = None
          /\ x = [w EXCEPT !.place[m.who] = m.at]
      BY <1>7, <2>3 DEF HeardMember
    <3>2. Faded(x, was) = [y EXCEPT !.place[m.who] = m.at]
      BY <1>1, <3>1 DEF Faded, Worlds
    <3> HIDE DEF y
    <3>3. HeardMember(y, m, Faded(x, was))
      BY <1>2, <2>3, <3>1, <3>2 DEF HeardMember
    <3> QED
      BY <1>2, <1>3, <2>2, <3>3 DEF Step, Heard, y
  <2>4. CASE m.is = "LEFTBATTLE"
    <3>1. /\ w.place[m.who] = m.at /\ w.founder[m.at] # m.who
          /\ x = Vacated(w, m.who, m.at) /\ m.who \in Users
      BY <1>7, <2>4, MessageParts DEF HeardMember
    <3>2. Faded(x, was) = Vacated(y, m.who, m.at)
      BY <1>1, <2>1, <3>1, DepartedFaded
    <3> HIDE DEF y
    <3>3. HeardMember(y, m, Faded(x, was))
      BY <1>2, <2>4, <3>1, <3>2 DEF HeardMember
    <3> QED
      BY <1>2, <1>3, <2>2, <3>3 DEF Step, Heard, y
  <2>5. CASE m.is = "ADDBOT"
    <3>1. x = w \/ x = [w EXCEPT !.crew = @ \cup {m.who}]
      BY <1>7, <2>5 DEF HeardMember
    <3>2. Faded(x, was) = y
      BY <1>1, <3>1 DEF Faded, Worlds
    <3> HIDE DEF y
    <3>3. HeardMember(y, m, y)
      BY <2>5 DEF HeardMember
    <3> QED
      BY <1>2, <2>2, <3>2, <3>3 DEF Step, Heard, y
  <2>6. CASE m.is = "REMOVEBOT"
    <3>1. x = [w EXCEPT !.crew = @ \ {m.who}]
      BY <1>7, <2>6 DEF HeardMember
    <3>2. Faded(x, was) = y
      BY <1>1, <3>1 DEF Faded, Worlds
    <3> HIDE DEF y
    <3>3. y = [y EXCEPT !.crew = @ \ {m.who}]
      <4>1. {} \ {m.who} = {}
        OBVIOUS
      <4> QED
        BY <1>2, <4>1 DEF Worlds
    <3>4. HeardMember(y, m, y)
      BY <2>6, <3>3 DEF HeardMember
    <3> QED
      BY <1>2, <2>2, <3>2, <3>4 DEF Step, Heard, y
  <2> QED
    BY <1>7, <2>3, <2>4, <2>5, <2>6 DEF HeardMember
<1>8. CASE HeardChannel(w, m, x)
  <2>1. seen = was
    BY <1>4, <1>8 DEF HeardChannel, Naming
  <2>2. \/ m.is = "JOIN" /\ Faded(x, was) = [y EXCEPT !.joined = TRUE]
        \/ /\ m.is \in {"JOINED", "CLIENTS"} /\ w.joined /\ m.who \in w.users
           /\ Faded(x, was) = [y EXCEPT !.chan = @ \cup {m.who}]
        \/ m.is = "LEFT" /\ Faded(x, was) = [y EXCEPT !.chan = @ \ {m.who}]
    BY <1>1, <1>8 DEF HeardChannel, Faded, Worlds
  <2> HIDE DEF y
  <2>3. HeardChannel(y, m, Faded(x, was))
    BY <1>2, <2>2 DEF HeardChannel
  <2> QED
    BY <1>2, <1>3, <2>1, <2>3 DEF Step, Heard, y
<1> QED
  BY <1>1, <1>5, <1>6, <1>7, <1>8 DEF Heard

(* and so do all that are on their way.                                    *)
LEMMA FadedLeads ==
  ASSUME NEW w, NEW q, NEW v, Leads(w, q, v), NEW was \in BOOLEAN
  PROVE  \E seen \in BOOLEAN : Leads(Faded(w, was), q, Faded(v, seen))
<1>1. q \in Seq(Message) /\ Possible(w) /\ Possible(v) /\ Len(q) \in Nat
  BY DEF Leads
<1>2. PICK f \in [0 .. Len(q) -> Worlds] :
        /\ f[0] = w /\ f[Len(q)] = v
        /\ \A i \in 1 .. Len(q) : Step(f[i - 1], q[i], f[i])
  BY DEF Leads
<1> DEFINE seen == [i \in 0 .. Len(q) |-> was \/ \E k \in 1 .. i : q[k].is \in Naming]
           g == [i \in 0 .. Len(q) |-> Faded(f[i], seen[i])]
<1>3. seen \in [0 .. Len(q) -> BOOLEAN]
  <2>1. \A i \in 0 .. Len(q) : (was \/ \E k \in 1 .. i : q[k].is \in Naming) \in BOOLEAN
    OBVIOUS
  <2> QED
    BY <2>1
<1>4. seen[0] = was
  <2>1. 0 \in 0 .. Len(q) /\ ~ \E k \in 1 .. 0 : q[k].is \in Naming
    BY <1>1
  <2>2. seen[0] = (was \/ \E k \in 1 .. 0 : q[k].is \in Naming)
    BY <2>1
  <2> QED
    BY <2>1, <2>2
<1>5. \A i \in 1 .. Len(q) : seen[i] <=> seen[i - 1] \/ q[i].is \in Naming
  <2>1. ASSUME NEW i \in 1 .. Len(q)
        PROVE  seen[i] <=> seen[i - 1] \/ q[i].is \in Naming
    <3>1. i - 1 \in 0 .. Len(q) /\ i \in 0 .. Len(q) /\ 1 .. i = (1 .. i - 1) \cup {i}
      BY <1>1
    <3>2. /\ seen[i] <=> was \/ \E k \in 1 .. i : q[k].is \in Naming
          /\ seen[i - 1] <=> was \/ \E k \in 1 .. i - 1 : q[k].is \in Naming
      BY <3>1
    <3> HIDE DEF seen
    <3>3. (\E k \in 1 .. i : q[k].is \in Naming)
            <=> (\E k \in 1 .. i - 1 : q[k].is \in Naming) \/ q[i].is \in Naming
      BY <3>1
    <3> QED
      BY <3>2, <3>3
  <2> QED
    BY <2>1
<1> HIDE DEF seen
<1>6. \A i \in 0 .. Len(q) : Possible(f[i])
  <2>1. ASSUME NEW i \in 0 .. Len(q)
        PROVE  Possible(f[i])
    <3>1. CASE i = 0
      BY <1>1, <1>2, <3>1
    <3>2. CASE i # 0
      <4>1. i \in 1 .. Len(q)
        BY <1>1, <3>2
      <4> QED
        BY <1>2, <4>1 DEF Step
    <3> QED
      BY <3>1, <3>2
  <2> QED
    BY <2>1
<1>7. \A i \in 0 .. Len(q) : g[i] = Faded(f[i], seen[i])
  OBVIOUS
<1>8. \A i \in 0 .. Len(q) : Faded(f[i], seen[i]) \in Worlds
  BY <1>3, <1>6, FadedParts DEF Possible
<1>9. g \in [0 .. Len(q) -> Worlds]
  BY <1>8
<1> HIDE DEF g
<1>10. g[0] = Faded(w, was) /\ g[Len(q)] = Faded(v, seen[Len(q)])
  <2>1. 0 \in 0 .. Len(q) /\ Len(q) \in 0 .. Len(q)
    BY <1>1
  <2> QED
    BY <1>2, <1>4, <1>7, <2>1
<1>11. ASSUME NEW i \in 1 .. Len(q)
       PROVE  Step(g[i - 1], q[i], g[i])
  <2>1. i - 1 \in 0 .. Len(q) /\ i \in 0 .. Len(q)
    BY <1>1
  <2>2. q[i] \in Message
    BY <1>1
  <2>3. seen[i - 1] \in BOOLEAN /\ seen[i] \in BOOLEAN
    BY <1>3, <2>1
  <2>4. Step(Faded(f[i - 1], seen[i - 1]), q[i], Faded(f[i], seen[i]))
    BY <1>2, <1>5, <2>2, <2>3, FadedStep
  <2> QED
    BY <1>7, <2>1, <2>4
<1>12. seen[Len(q)] \in BOOLEAN
  BY <1>1, <1>3
<1>13. Possible(Faded(w, was)) /\ Possible(Faded(v, seen[Len(q)]))
  BY <1>1, <1>12, FadedParts
<1> QED
  BY <1>1, <1>9, <1>10, <1>11, <1>12, <1>13 DEF Leads

(* When the bots are removed, and perhaps the room left, the registry      *)
(* shows the faded world.                                                  *)
LEMMA LeaveShown ==
  ASSUME NEW r, NEW w, Possible(w), Shows(r, w), r.room # None
  PROVE  /\ Shows(Leave(r), Faded(w, TRUE))
         /\ Shows(LeaveCurrentBattle(Leave(r)), Faded(w, FALSE))
<1>1. r \in Registries
  BY DEF Shows
<1>2. PICK b \in Battles : b = r.room
  BY <1>1 DEF Registries
<1>3. PICK gone : gone = Met(r.members[b])
  OBVIOUS
<1>4. \A n \in gone : n \notin Users
  <2>1. gone \subseteq Bots
    BY <1>3 DEF Met
  <2> QED
    BY <2>1, NoneApart
<1> DEFINE t == Leave(r)
           h == LeaveCurrentBattle(t)
<1>5. t = [r EXCEPT !.members[b] = @ \ gone,
                    !.battle = [u \in Users |-> IF u \in gone THEN None ELSE @[u]]]
  BY <1>2, <1>3 DEF Leave, OnUsersRemoved
<1> HIDE DEF t
<1>6. /\ t \in Registries /\ t.users = r.users /\ t.battles = r.battles
      /\ t.founder = r.founder /\ t.members = [r.members EXCEPT ![b] = @ \ gone]
      /\ t.room = r.room /\ t.chan = r.chan /\ t.hasChan = r.hasChan
      /\ t.battle = [u \in Users |-> IF u \in gone THEN None ELSE r.battle[u]]
  BY <1>1, <1>5 DEF Registries
<1>7. /\ h \in Registries /\ h.users = t.users /\ h.battles = t.battles
      /\ h.founder = t.founder /\ h.members = t.members
      /\ h.room = None /\ h.chan = t.chan /\ h.hasChan = t.hasChan /\ h.battle = t.battle
  BY <1>6 DEF LeaveCurrentBattle, Registries
<1> HIDE DEF h
<1>8. r.members \in [Battles -> SUBSET Names] /\ r.battle \in [Users -> Battles \cup {None}]
  BY <1>1 DEF Registries
<1>9. t.battle = w.place
  <2>1. t.battle = r.battle
    BY <1>4, <1>6, <1>8
  <2> QED
    BY <2>1 DEF Shows
<1>10. \A c \in Battles : t.members[c] \cap Users = {u \in Users : w.place[u] = c}
  <2>1. \A c \in Battles : t.members[c] \cap Users = r.members[c] \cap Users
    BY <1>4, <1>6, <1>8
  <2> QED
    BY <2>1 DEF Shows
<1> DEFINE x == Faded(w, TRUE)
           y == Faded(w, FALSE)
<1>11. /\ x.users = w.users /\ x.chan = w.chan /\ x.joined = w.joined /\ x.crew = {}
       /\ x.founder = w.founder /\ x.place = w.place /\ x.room = w.room /\ Open(x) = Open(w)
  BY FadedParts
<1>12. /\ y.users = w.users /\ y.chan = w.chan /\ y.joined = w.joined /\ y.crew = {}
       /\ y.founder = w.founder /\ y.place = w.place /\ y.room = None /\ Open(y) = Open(w)
  BY FadedParts
<1> HIDE DEF x, y
<1>13. Shows(t, x)
  BY <1>6, <1>9, <1>10, <1>11 DEF Shows
<1>14. Shows(h, y)
  BY <1>6, <1>7, <1>9, <1>10, <1>12 DEF Shows
<1> QED
  BY <1>13, <1>14 DEF t, h, x, y
-----------------------------------------------------------------------------
(* The invariant holds at first,                                           *)
LEMMA InvInit == Init => IInv
<1> SUFFICES ASSUME Init
             PROVE  IInv
  OBVIOUS
<1> DEFINE place == srv.place[Me]
           w == [users |-> srv.users, founder |-> srv.founder, place |-> srv.place,
                 room |-> place, crew |-> IF place = None THEN {} ELSE srv.bots[place],
                 chan |-> srv.chan, joined |-> srv.chan # {}]
<1>1. srv \in Truths /\ Me \in srv.users
  BY DEF Init, Truths
<1>2. Me \in Users /\ None \notin Battles /\ \A n \in Bots : n \notin Users
  BY NoneApart
<1>3. place \in Battles \cup {None} /\ (place # None => place \in Open(srv))
  BY <1>1, <1>2 DEF Init, Truths
<1>4. srv.bots \in [Battles -> SUBSET Bots] /\ srv.place \in [Users -> Battles \cup {None}]
  BY <1>1 DEF Truths
<1>5. srv.chan \subseteq srv.users
  BY DEF Init
<1>6. Sound(srv)
  BY <1>1, <1>5 DEF Init, Sound, Open
<1>7. /\ w \in Worlds /\ w.users = srv.users /\ w.founder = srv.founder
      /\ w.place = srv.place /\ w.room = place /\ w.chan = srv.chan
      /\ w.joined = (srv.chan # {})
      /\ w.crew = IF place = None THEN {} ELSE srv.bots[place]
  BY <1>1, <1>3, <1>4 DEF Truths, Worlds
<1> HIDE DEF w
<1>8. Open(w) = Open(srv)
  BY <1>7 DEF Open
<1>9. Possible(w)
  <2>1. \A u \in Users : w.place[u] # None => u \in w.users /\ w.place[u] \in Open(w)
    BY <1>7, <1>8 DEF Init
  <2>2. \A b \in Open(w) : w.place[w.founder[b]] = b
    BY <1>7, <1>8 DEF Init
  <2> QED
    BY <1>1, <1>3, <1>5, <1>7, <1>8, <2>1, <2>2 DEF Possible
<1>10. Agrees(w, srv)
  BY <1>7 DEF Agrees
<1>11. Shows(reg, w)
  <2>1. /\ reg.users = srv.users /\ reg.battles = Open(srv) /\ reg.founder = srv.founder
        /\ reg.battle = srv.place /\ reg.room = place /\ reg.chan = srv.chan
        /\ reg.hasChan = (srv.chan # {})
        /\ reg.members = [b \in Battles |->
                           {u \in Users : srv.place[u] = b}
                             \cup IF srv.place[Me] = b THEN srv.bots[b] ELSE {}]
        /\ reg = [users |-> reg.users, battles |-> reg.battles, founder |-> reg.founder,
                  members |-> reg.members, battle |-> reg.battle, room |-> reg.room,
                  chan |-> reg.chan, hasChan |-> reg.hasChan]
    BY DEF Init
  <2>2. ASSUME NEW b \in Battles
        PROVE  /\ reg.members[b] \subseteq Names
               /\ reg.members[b] \cap Users = {u \in Users : srv.place[u] = b}
               /\ place = b => srv.bots[b] \subseteq reg.members[b]
    <3>1. reg.members[b] = {u \in Users : srv.place[u] = b}
                             \cup IF place = b THEN srv.bots[b] ELSE {}
      BY <2>1
    <3>2. srv.bots[b] \subseteq Bots
      BY <1>4
    <3> QED
      BY <1>2, <3>1, <3>2 DEF Names
  <2>3. reg.members \in [Battles -> SUBSET Names]
    BY <2>1, <2>2
  <2>4. Open(srv) \subseteq Battles
    BY DEF Open
  <2>5. reg \in Registries
    <3>1. /\ reg.users \in SUBSET Users /\ reg.battles \in SUBSET Battles
          /\ reg.founder \in [Battles -> Users \cup {None}]
          /\ reg.battle \in [Users -> Battles \cup {None}]
          /\ reg.room \in Battles \cup {None} /\ reg.chan \in SUBSET Users
          /\ reg.hasChan \in BOOLEAN
      BY <1>1, <1>3, <2>1, <2>4 DEF Truths
    <3> QED
      BY <2>1, <2>3, <3>1 DEF Registries
  <2>6. w.room # None => w.crew \subseteq reg.members[w.room]
    BY <1>3, <1>7, <2>2
  <2> QED
    BY <1>5, <1>7, <1>8, <2>1, <2>2, <2>5, <2>6 DEF Shows
<1>12. Leads(w, in, w)
  BY <1>9, LeadsEmpty DEF Init
<1>13. events \in 0 .. MaxEvents
  BY RegistryAssumption DEF Init
<1> QED
  BY <1>6, <1>7, <1>10, <1>11, <1>12, <1>13 DEF IInv

(* it is kept when the server does something,                              *)
LEMMA Later ==
  ASSUME events' \in 0 .. MaxEvents, Sound(srv'), NEW w, Shows(reg', w),
         NEW v, Leads(w, in', v), Agrees(v, srv')
  PROVE  IInv'
BY DEF IInv, Leads, Possible

(* Events are counted up to the bound.                                     *)
LEMMA EventCounted ==
  ASSUME IInv, Event
  PROVE  events' \in 0 .. MaxEvents
BY RegistryAssumption DEF IInv, Event

(* News that the client only hears of later keep the invariant.            *)
LEMMA Told ==
  ASSUME IInv, Event, NEW news, Brings(srv, news, srv'), Sends(news), reg' = reg
  PROVE  IInv'
<1>1. PICK w \in Worlds, v \in Worlds : Shows(reg, w) /\ Leads(w, in, v) /\ Agrees(v, srv)
  BY DEF IInv
<1>2. PICK x \in Worlds : Leads(v, news, x) /\ Agrees(x, srv')
  BY <1>1 DEF Brings, Leads
<1>3. Leads(w, in \o news, x)
  BY <1>1, <1>2, LeadsOn
<1>4. Shows(reg', w) /\ Leads(w, in', x)
  BY <1>1, <1>3 DEF Sends
<1>5. Sound(srv') /\ events' \in 0 .. MaxEvents
  BY EventCounted DEF Brings
<1> QED
  BY <1>2, <1>4, <1>5, Later

(* The server knows the client as long as the session lasts.               *)
LEMMA MeThere ==
  ASSUME IInv
  PROVE  Sound(srv) /\ Me \in srv.users
BY DEF IInv, Agrees, Leads, Possible

(* Whatever others do keeps it.                                            *)
LEMMA OthersKeep ==
  ASSUME IInv, OtherActs
  PROVE  IInv'
<1>1. Sound(srv) /\ Me \in srv.users /\ srv \in Truths
  BY MeThere DEF Sound
<1>2. \A u \in Others : u \in Users /\ u # Me
  BY RegistryAssumption DEF Users
<1>3. ASSUME NEW u \in Others, LogIn(u)
      PROVE  IInv'
  BY <1>1, <1>2, <1>3, LogInBrings, Told DEF LogIn
<1>4. ASSUME NEW u \in Others, LogOut(u)
      PROVE  IInv'
  <2>1. PICK news \in Farewells(srv, u) : Sends(news)
    BY <1>4 DEF LogOut
  <2>2. Brings(srv, news, srv')
    BY <1>1, <1>4, QuitBrings DEF LogOut
  <2> QED
    BY <1>4, <2>1, <2>2, Told DEF LogOut
<1>5. ASSUME NEW u \in Others, EntersChannel(u)
      PROVE  IInv'
  <2>1. Brings(srv, ChannelNews(srv, u, "JOINED"), srv')
    BY <1>1, <1>2, <1>5, ChannelBrings DEF EntersChannel
  <2> QED
    BY <1>5, <2>1, Told DEF EntersChannel
<1>6. ASSUME NEW u \in Others, PartsChannel(u)
      PROVE  IInv'
  <2>1. Brings(srv, ChannelNews(srv, u, "LEFT"), srv')
    BY <1>1, <1>2, <1>6, PartBrings DEF PartsChannel
  <2> QED
    BY <1>6, <2>1, Told DEF PartsChannel
<1>7. ASSUME NEW u \in Others, NEW b \in Battles, OtherOpens(u, b)
      PROVE  IInv'
  <2>1. Brings(srv, OpenNews(u, b), srv')
    BY <1>1, <1>2, <1>7, OpenBrings DEF OtherOpens, BattleOf
  <2> QED
    BY <1>7, <2>1, Told DEF OtherOpens
<1>8. ASSUME NEW u \in Others, NEW b \in Battles, OtherJoins(u, b)
      PROVE  IInv'
  <2>1. PICK news \in EnterNews(srv, u, b) : Sends(news)
    BY <1>8 DEF OtherJoins
  <2>2. Brings(srv, news, srv')
    BY <1>1, <1>2, <1>8, EnterBrings DEF OtherJoins, BattleOf
  <2> QED
    BY <1>8, <2>1, <2>2, Told DEF OtherJoins
<1>9. ASSUME NEW u \in Users, LeavesOrIsKicked(u)
      PROVE  IInv'
  <2>1. Brings(srv, LeaveNews(srv, u), srv')
    BY <1>1, <1>9, LeaveBrings DEF LeavesOrIsKicked
  <2> QED
    BY <1>9, <2>1, Told DEF LeavesOrIsKicked
<1>10. ASSUME NEW b \in Battles, NEW n \in Bots, AddsBot(b, n)
       PROVE  IInv'
  <2> DEFINE news == IF srv.place[Me] = b THEN Tells("ADDBOT", b, n) ELSE <<>>
  <2>1. Brings(srv, news, srv')
    BY <1>1, <1>10, BotBrings DEF AddsBot
  <2>2. Sends(news)
    BY <1>10 DEF AddsBot, BattleOf
  <2> HIDE DEF news
  <2> QED
    BY <1>10, <2>1, <2>2, Told DEF AddsBot
<1>11. ASSUME NEW b \in Battles, NEW n \in Bots, RemovesBot(b, n)
       PROVE  IInv'
  <2> DEFINE news == IF srv.place[Me] = b THEN Tells("REMOVEBOT", b, n) ELSE <<>>
  <2>1. Brings(srv, news, srv')
    BY <1>1, <1>11, BotBrings DEF RemovesBot
  <2>2. Sends(news)
    BY <1>11 DEF RemovesBot, BattleOf
  <2> HIDE DEF news
  <2> QED
    BY <1>11, <2>1, <2>2, Told DEF RemovesBot
<1>12. ASSUME RemovesMe
       PROVE  IInv'
  <2>1. Brings(srv, Of("REMOVEUSER", Me), srv')
    BY <1>1, <1>12, RemovesMeBrings DEF RemovesMe
  <2> QED
    BY <1>12, <2>1, Told DEF RemovesMe
<1> QED
  BY <1>3, <1>4, <1>5, <1>6, <1>7, <1>8, <1>9, <1>10, <1>11, <1>12 DEF OtherActs

(* when the user does,                                                     *)
LEMMA LeftLeads ==
  ASSUME IInv
  PROVE  /\ Sound(Left(srv)) /\ Me \in Left(srv).users /\ LeftNews \in Seq(Message)
         /\ \E w, v, z \in Worlds :
              /\ Shows(LeftRoom, w) /\ Leads(w, in, v)
              /\ Leads(v, LeftNews, z) /\ Agrees(z, Left(srv))
<1>1. PICK w \in Worlds, v \in Worlds : Shows(reg, w) /\ Leads(w, in, v) /\ Agrees(v, srv)
  BY DEF IInv
<1>2. Possible(w) /\ Possible(v) /\ Sound(srv) /\ Me \in srv.users /\ Me \in Users
  BY <1>1, MeThere, NoneApart DEF Leads
<1>3. CASE reg.room = None
  <2>1. Left(srv) = srv /\ LeftNews = <<>> /\ LeftRoom = reg
    BY <1>3 DEF Left, LeftNews, LeftRoom
  <2>2. Leads(v, <<>>, v) /\ <<>> \in Seq(Message)
    BY <1>2, LeadsEmpty
  <2> QED
    BY <1>1, <1>2, <2>1, <2>2
<1>4. CASE reg.room # None
  <2>1. /\ Left(srv) = LeavesBattle(srv, Me) /\ LeftNews = LeaveNews(srv, Me)
        /\ LeftRoom = LeaveCurrentBattle(Leave(reg))
    BY <1>4 DEF Left, LeftNews, LeftRoom
  <2>2. Shows(LeftRoom, Faded(w, FALSE))
    BY <1>1, <1>2, <1>4, <2>1, LeaveShown
  <2>3. PICK seen \in BOOLEAN : Leads(Faded(w, FALSE), in, Faded(v, seen))
    BY <1>1, FadedLeads
  <2> DEFINE y == Faded(v, seen)
  <2>4. AgreesBut(y, srv) /\ Possible(y)
    <3>1. /\ Possible(y) /\ y.users = v.users /\ y.chan = v.chan /\ y.founder = v.founder
          /\ y.place = v.place /\ y.room = (IF seen THEN v.room ELSE None)
      BY <1>2, FadedParts
    <3> HIDE DEF y
    <3> QED
      BY <1>1, <3>1 DEF Agrees, AgreesBut
  <2> HIDE DEF y
  <2>5. /\ Leads(y, LeftNews, Departed(y, Me))
        /\ Agrees(Departed(y, Me), Left(srv))
    BY <1>2, <2>1, <2>4, LeaveLeads, DepartedAgrees
  <2>6. Sound(Left(srv)) /\ Me \in Left(srv).users
    <3>1. Sound(LeavesBattle(srv, Me)) /\ LeavesBattle(srv, Me).users = srv.users
      BY <1>2, LeavesParts
    <3> QED
      BY <1>2, <2>1, <3>1
  <2>7. LeftNews \in Seq(Message) /\ Departed(y, Me) \in Worlds /\ y \in Worlds
    BY <2>4, <2>5 DEF Leads, Possible
  <2>8. Faded(w, FALSE) \in Worlds
    BY <2>3 DEF Leads, Possible
  <2> QED
    BY <2>2, <2>3, <2>5, <2>6, <2>7, <2>8 DEF y
<1> QED
  BY <1>3, <1>4

(* The room was left and the server knows; then it has news of its own.    *)
LEMMA LeftThen ==
  ASSUME IInv, Event, reg' = LeftRoom, NEW news, Brings(Left(srv), news, srv'),
         Sends(LeftNews \o news)
  PROVE  IInv'
<1>1. PICK w \in Worlds, v \in Worlds, z \in Worlds :
        /\ Shows(LeftRoom, w) /\ Leads(w, in, v)
        /\ Leads(v, LeftNews, z) /\ Agrees(z, Left(srv))
  BY LeftLeads
<1>2. PICK x \in Worlds : Leads(z, news, x) /\ Agrees(x, srv')
  BY <1>1 DEF Brings, Leads
<1>3. Leads(w, in \o (LeftNews \o news), x)
  BY <1>1, <1>2, LeadsOn
<1>4. Shows(reg', w) /\ Leads(w, in', x)
  BY <1>1, <1>3 DEF Sends
<1>5. Sound(srv') /\ events' \in 0 .. MaxEvents
  BY EventCounted DEF Brings
<1> QED
  BY <1>2, <1>4, <1>5, Later

(* Or it has no more news than that.                                       *)
LEMMA LeftOnly ==
  ASSUME IInv, Event, reg' = LeftRoom, srv' = Left(srv), Sends(LeftNews)
  PROVE  IInv'
<1>1. Sound(Left(srv))
  BY LeftLeads
<1>2. PICK w \in Worlds, v \in Worlds, z \in Worlds :
        /\ Shows(LeftRoom, w) /\ Leads(w, in, v)
        /\ Leads(v, LeftNews, z) /\ Agrees(z, Left(srv))
  BY LeftLeads
<1>3. Leads(w, in \o LeftNews, z)
  BY <1>2, LeadsOn
<1>4. Shows(reg', w) /\ Leads(w, in', z)
  BY <1>2, <1>3 DEF Sends
<1>5. Sound(srv') /\ events' \in 0 .. MaxEvents /\ Agrees(z, srv')
  BY <1>1, <1>2, EventCounted
<1> QED
  BY <1>4, <1>5, Later

(* In the room itself the room stays until the server answers.             *)
LEMMA OnLeaveKeeps ==
  ASSUME IInv, OnLeave
  PROVE  IInv'
<1>1. PICK w \in Worlds, v \in Worlds : Shows(reg, w) /\ Leads(w, in, v) /\ Agrees(v, srv)
  BY DEF IInv
<1>2. Possible(w) /\ Possible(v) /\ Sound(srv) /\ Me \in Users /\ reg.room # None
  BY <1>1, MeThere, NoneApart DEF Leads, OnLeave
<1>3. Shows(reg', Faded(w, TRUE))
  BY <1>1, <1>2, LeaveShown DEF OnLeave
<1>4. PICK seen \in BOOLEAN : Leads(Faded(w, TRUE), in, Faded(v, seen))
  BY <1>1, FadedLeads
<1> DEFINE y == Faded(v, seen)
<1>5. AgreesBut(y, srv) /\ Possible(y)
  <2>1. /\ Possible(y) /\ y.users = v.users /\ y.chan = v.chan /\ y.founder = v.founder
        /\ y.place = v.place /\ y.room = (IF seen THEN v.room ELSE None)
    BY <1>2, FadedParts
  <2> HIDE DEF y
  <2> QED
    BY <1>1, <2>1 DEF Agrees, AgreesBut
<1> HIDE DEF y
<1>6. /\ Leads(y, LeaveNews(srv, Me), Departed(y, Me))
      /\ Agrees(Departed(y, Me), LeavesBattle(srv, Me))
  BY <1>2, <1>5, LeaveLeads, DepartedAgrees
<1>7. Leads(Faded(w, TRUE), in \o LeaveNews(srv, Me), Departed(y, Me))
  BY <1>4, <1>6, LeadsOn DEF y
<1>8. Leads(Faded(w, TRUE), in', Departed(y, Me)) /\ Agrees(Departed(y, Me), srv')
  BY <1>6, <1>7 DEF OnLeave, Sends
<1>9. Sound(srv') /\ events' \in 0 .. MaxEvents
  BY <1>2, LeavesParts, EventCounted DEF OnLeave
<1> QED
  BY <1>3, <1>8, <1>9, Later

(* Whatever the user does keeps it.                                        *)
LEMMA UserKeeps ==
  ASSUME IInv, UserActs
  PROVE  IInv'
<1>1. Sound(srv) /\ Me \in srv.users /\ Me \in Users
  BY MeThere, NoneApart
<1>2. Sound(Left(srv)) /\ Me \in Left(srv).users
  BY LeftLeads
<1>3. CASE OnLeave
  BY <1>3, OnLeaveKeeps
<1>4. CASE DoJoinAgain
  BY <1>4, LeftOnly DEF DoJoinAgain
<1>5. CASE JoinChannel
  <2>1. srv' = [srv EXCEPT !.chan = @ \cup {Me}] /\ Event /\ reg' = reg
    BY <1>5 DEF JoinChannel
  <2>2. PICK list \in Listed(srv'.chan) : Sends(<<[is |-> "JOIN"]>> \o ClientNews(list))
    BY <1>5 DEF JoinChannel
  <2>3. Brings(srv, <<[is |-> "JOIN"]>> \o ClientNews(list), srv')
    BY <1>1, <2>1, JoinChannelBrings
  <2> QED
    BY <2>1, <2>2, <2>3, Told
<1>6. CASE PartChannel
  <2>1. srv' = [srv EXCEPT !.chan = @ \ {Me}] /\ Event /\ reg' = reg /\ in' = in
    BY <1>6 DEF PartChannel
  <2>2. /\ srv' \in Truths /\ srv'.users = srv.users /\ srv'.founder = srv.founder
        /\ srv'.place = srv.place /\ srv'.bots = srv.bots /\ srv'.chan = srv.chan \ {Me}
    BY <1>1, <2>1 DEF Sound, Truths
  <2>3. Sound(srv')
    BY <1>1, <2>2 DEF Sound
  <2>4. PICK w \in Worlds, v \in Worlds : Shows(reg, w) /\ Leads(w, in, v) /\ Agrees(v, srv)
    BY DEF IInv
  <2>5. Agrees(v, srv')
    BY <2>2, <2>4 DEF Agrees
  <2>6. events' \in 0 .. MaxEvents
    BY <2>1, EventCounted
  <2> QED
    BY <2>1, <2>3, <2>4, <2>5, <2>6, Later
<1>7. ASSUME NEW b \in Battles, DoJoin(b)
      PROVE  IInv'
  <2>1. CASE b \in Open(Left(srv)) /\ BattleOf(Left(srv), Me) = None
    <3>1. /\ Event /\ reg' = LeftRoom /\ srv' = EntersBattle(Left(srv), Me, b)
          /\ \E news \in EnterNews(Left(srv), Me, b) : Sends(LeftNews \o news)
      BY <1>7, <2>1 DEF DoJoin
    <3>2. PICK news \in EnterNews(Left(srv), Me, b) : Sends(LeftNews \o news)
      BY <3>1
    <3>3. Brings(Left(srv), news, srv')
      BY <1>1, <1>2, <2>1, <3>1, EnterBrings DEF BattleOf
    <3> QED
      BY <3>1, <3>2, <3>3, LeftThen
  <2>2. CASE ~ (b \in Open(Left(srv)) /\ BattleOf(Left(srv), Me) = None)
    BY <1>7, <2>2, LeftOnly DEF DoJoin
  <2> QED
    BY <2>1, <2>2
<1>8. ASSUME NEW b \in Battles, OnHost(b)
      PROVE  IInv'
  <2>1. Brings(Left(srv), OpenNews(Me, b), srv')
    BY <1>1, <1>2, <1>8, OpenBrings DEF OnHost, BattleOf
  <2> QED
    BY <1>8, <2>1, LeftThen DEF OnHost
<1> QED
  BY <1>3, <1>4, <1>5, <1>6, <1>7, <1>8 DEF UserActs

(* and when a message is received.                                         *)
LEMMA ReceivedKeeps ==
  ASSUME IInv, RecvUser \/ RecvBattle \/ RecvRoom \/ RecvMember \/ RecvBot \/ RecvChannel
  PROVE  IInv'
<1>1. in # <<>> /\ in' = Tail(in) /\ srv' = srv /\ events' = events
  BY DEF RecvUser, RecvBattle, RecvRoom, RecvMember, RecvBot, RecvChannel, Receive
<1>2. PICK w \in Worlds, v \in Worlds : Shows(reg, w) /\ Leads(w, in, v) /\ Agrees(v, srv)
  BY DEF IInv
<1>3. PICK x \in Worlds : Step(w, Message1, x) /\ Leads(x, Tail(in), v)
  BY <1>1, <1>2, LeadsTail DEF Message1
<1>4. Message1 \in Message
  BY <1>1, <1>2 DEF Message1, Leads
<1>5. Shows(reg', x)
  BY <1>2, <1>3, <1>4, Received
<1>6. Leads(x, in', v) /\ Agrees(v, srv') /\ Sound(srv') /\ events' \in 0 .. MaxEvents
  BY <1>1, <1>2, <1>3 DEF IInv
<1> QED
  BY <1>5, <1>6, Later

(* So every step keeps it.                                                 *)
LEMMA InvNext == IInv /\ [Next]_vars => IInv'
<1> SUFFICES ASSUME IInv, [Next]_vars
             PROVE  IInv'
  OBVIOUS
<1>1. CASE UNCHANGED vars
  BY <1>1 DEF IInv, vars
<1>2. CASE Next
  BY <1>2, OthersKeep, UserKeeps, ReceivedKeeps DEF Next
<1> QED
  BY <1>1, <1>2

(* At any time the messages on their way lead from the world that the      *)
(* client shows to the one that the server knows.                          *)
THEOREM Invariance == Spec => []IInv
  BY InvInit, InvNext, PTL DEF Spec
-----------------------------------------------------------------------------
(* However late the messages are: no pointer of the client is to an object *)
(* that was deleted, and lists and pointers say the same                   *)
(* (server.cpp:93-107, serverevents.cpp:190).                              *)
THEOREM ObjectsCorrect == Spec => []ObjectsSound
<1>1. IInv => ObjectsSound
  <2> SUFFICES ASSUME IInv
               PROVE  ObjectsSound
    OBVIOUS
  <2>1. PICK w \in Worlds, v \in Worlds : Shows(reg, w) /\ Leads(w, in, v) /\ Agrees(v, srv)
    BY DEF IInv
  <2>2. Possible(w) /\ in \in Seq(Message)
    BY <2>1 DEF Leads
  <2>3. TypeOK
    BY <2>1, <2>2 DEF TypeOK, IInv, Sound, Shows
  <2>4. PointersValid
    <3>1. reg.battles \subseteq Battles /\ reg.users \subseteq Users
      BY <2>3 DEF TypeOK, Registries
    <3>2. ASSUME NEW b \in reg.battles
          PROVE  reg.members[b] \cap Users \subseteq reg.users
      <4>1. \A u \in Users : u \in reg.members[b] => w.place[u] = b
        BY <2>1, <3>1 DEF Shows
      <4>2. b # None
        BY <3>1, NoneApart
      <4> QED
        BY <2>1, <2>2, <4>1, <4>2 DEF Possible, Shows
    <3>3. \A u \in reg.users : reg.battle[u] \in reg.battles \cup {None}
      BY <2>1, <2>2, <3>1 DEF Possible, Shows
    <3>4. reg.room \in reg.battles \cup {None} /\ reg.chan \subseteq reg.users
      BY <2>1, <2>2 DEF Possible, Shows
    <3> QED
      BY <3>2, <3>3, <3>4 DEF PointersValid
  <2>5. BothWays
    <3>1. reg.battles \subseteq Battles /\ reg.users \subseteq Users
      BY <2>3 DEF TypeOK, Registries
    <3>2. \A u \in Users, b \in Battles : reg.battle[u] = b <=> u \in reg.members[b]
      BY <2>1 DEF Shows
    <3> QED
      BY <3>1, <3>2 DEF BothWays
  <2> QED
    BY <2>3, <2>4, <2>5 DEF ObjectsSound
<1> QED
  BY <1>1, Invariance, PTL

(* When nothing is on its way, the client knows who there is, and who is   *)
(* where and in the channel (serverevents.cpp:205-210).                    *)
THEOREM WorldCorrect == Spec => []KnowsTheWorld
<1>1. IInv => KnowsTheWorld
  <2> SUFFICES ASSUME IInv, in = <<>>
               PROVE  KnowsTheWorld
    BY DEF KnowsTheWorld, Mirrors, ChannelShown, Settled
  <2>1. PICK w \in Worlds, v \in Worlds : Shows(reg, w) /\ Leads(w, in, v) /\ Agrees(v, srv)
    BY DEF IInv
  <2>2. Agrees(w, srv)
    BY <2>1, LeadsNowhere
  <2>3. Open(w) = Open(srv)
    BY <2>2 DEF Agrees, Open
  <2>4. Open(srv) \subseteq Battles
    BY DEF Open
  <2>5. Mirrors
    BY <2>1, <2>2, <2>3, <2>4 DEF Mirrors, Shows, Agrees
  <2>6. ChannelShown
    BY <2>1, <2>2 DEF ChannelShown, Shows, Agrees
  <2> QED
    BY <2>5, <2>6 DEF KnowsTheWorld
<1> QED
  BY <1>1, Invariance, PTL

(* Then the battle room shows the battle that the client is in, with all   *)
(* of its bots, whatever was joined, left and closed while the answers     *)
(* were on their way (ui.cpp:921-1045, battlelisttab.cpp:495-565).         *)
THEOREM RoomCorrect == Spec => []RoomIsMine
<1>1. IInv => RoomIsMine
  <2> SUFFICES ASSUME IInv, in = <<>>
               PROVE  RoomIsMine
    BY DEF RoomIsMine, Settled
  <2>1. PICK w \in Worlds, v \in Worlds : Shows(reg, w) /\ Leads(w, in, v) /\ Agrees(v, srv)
    BY DEF IInv
  <2>2. Agrees(w, srv)
    BY <2>1, LeadsNowhere
  <2> QED
    BY <2>1, <2>2 DEF RoomIsMine, Shows, Agrees
<1> QED
  BY <1>1, Invariance, PTL
==============================================================================

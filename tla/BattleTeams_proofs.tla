-------------------------- MODULE BattleTeams_proofs --------------------------
(***************************************************************************)
(* Proofs about Balance and BattleTeams, for any users, clans, ranks and   *)
(* start boxes: host and server agree when nothing is under way, the host  *)
(* has its way while the balance is locked, a balancing keeps teams and    *)
(* strong clans together, and the start of a game is fair.                 *)
(*                                                                         *)
(* The loops of the code are recursive functions, over the list of users,  *)
(* that of clans and the number of players still to deal.  Of each there   *)
(* is a lemma that such a function exists and, by NumbersUpTo, one about   *)
(* what holds after i steps.                                               *)
(***************************************************************************)
EXTENDS BattleTeams, FiniteSetTheorems, WellFoundedInduction, TLAPS

-----------------------------------------------------------------------------
(* Induction.  A set of natural numbers that is not empty has a least one. *)
LEMMA Smallest ==
  ASSUME NEW T, T \subseteq Nat, T # {}
  PROVE  \E x \in T : \A y \in T : x <= y
<1>1. PICK x \in T : \A y \in T : ~(<<y, x>> \in OpToRel(<, Nat))
  BY NatLessThanWellFounded, WFMin
<1>2. \A a, b \in Nat : a < b => <<a, b>> \in OpToRel(<, Nat)
  BY DEF OpToRel
<1>3. \A y \in T : ~(y < x)
  BY <1>1, <1>2
<1> QED
  BY <1>3

(* A set with 0 and with the successor of each of its numbers has all      *)
(* numbers.                                                                *)
LEMMA AllNumbers ==
  ASSUME NEW S, 0 \in S, \A n \in Nat : n \in S => n + 1 \in S
  PROVE  Nat \subseteq S
<1>1. SUFFICES ASSUME Nat \ S # {} PROVE FALSE
  OBVIOUS
<1>2. PICK x \in Nat \ S : \A y \in Nat \ S : x <= y
  BY <1>1, Smallest
<1>3. x # 0 /\ x - 1 \in Nat /\ x - 1 \notin S
  BY <1>2
<1> QED
  BY <1>2, <1>3

(* A set with 0 and, up to a bound, with the successor of each of its      *)
(* numbers has all numbers up to the bound.                                *)
LEMMA NumbersUpTo ==
  ASSUME NEW k \in Nat, NEW S, 0 \in S, \A n \in 1 .. k : n - 1 \in S => n \in S
  PROVE  0 .. k \subseteq S
<1> DEFINE T == S \cup {n \in Nat : n > k}
<1>1. 0 \in T
  OBVIOUS
<1>2. \A n \in Nat : n \in T => n + 1 \in T
  <2>1. ASSUME NEW n \in Nat, n \in S, n + 1 <= k PROVE n + 1 \in S
    <3>1. n + 1 \in 1 .. k /\ (n + 1) - 1 = n
      BY <2>1
    <3> QED
      BY <2>1, <3>1
  <2> QED
    BY <2>1
<1>3. Nat \subseteq T
  BY <1>1, <1>2, AllNumbers
<1> QED
  BY <1>3

-----------------------------------------------------------------------------
(* The function of the steps done in ForceAll.                             *)
Forcing(w, field, value, us, done) ==
  done = [i \in 0 .. Len(Order) |->
            IF i = 0 THEN w
            ELSE IF Order[i] \in us THEN ForceUser(done[i - 1], Order[i], field, value[Order[i]])
            ELSE done[i - 1]]

(* The list of users has each user once.                                   *)
LEMMA OrderIs ==
  /\ Len(Order) \in Nat /\ DOMAIN Order = 1 .. Len(Order)
  /\ \A i \in 1 .. Len(Order) : Order[i] \in Users
  /\ \A u \in Users : \E i \in 1 .. Len(Order) : Order[i] = u
  /\ \A i, j \in 1 .. Len(Order) : Order[i] = Order[j] => i = j
<1>1. Order \in Seq(Users) /\ Users = {Order[i] : i \in DOMAIN Order}
  BY BalanceAssumption DEF Users, ToSet
<1>2. \A i, j \in 1 .. Len(Order) : Order[i] = Order[j] => i = j
  BY <1>1, BalanceAssumption DEF IsInjective
<1> HIDE DEF Users
<1> QED
  BY <1>1, <1>2

(* ForceAll returns the last value of such a function.                     *)
LEMMA ForceLoop ==
  ASSUME NEW w, NEW field, NEW value, NEW us
  PROVE  \E done : /\ Forcing(w, field, value, us, done)
                   /\ ForceAll(w, field, value, us) = done[Len(Order)]
<1> DEFINE Body(f, i) ==
      IF i = 0 THEN w
      ELSE IF Order[i] \in us THEN ForceUser(f[i - 1], Order[i], field, value[Order[i]])
      ELSE f[i - 1]
<1> DEFINE S == {n \in Nat : \E f : f = [i \in 0 .. n |-> Body(f, i)]}
<1>1. 0 \in S
  <2> DEFINE one == [i \in 0 .. 0 |-> w]
  <2>1. one = [i \in 0 .. 0 |-> Body(one, i)]
    OBVIOUS
  <2> QED
    BY <2>1
<1>2. ASSUME NEW n \in Nat, n \in S PROVE n + 1 \in S
  <2>1. PICK f : f = [i \in 0 .. n |-> Body(f, i)]
    BY <1>2
  <2> DEFINE g == [i \in 0 .. n + 1 |-> IF i = n + 1 THEN Body(f, i) ELSE f[i]]
  <2>2. \A i \in 0 .. n : g[i] = f[i] /\ f[i] = Body(f, i)
    <3> HIDE DEF Body
    <3> QED
      BY <2>1
  <2>3. g[n + 1] = Body(f, n + 1)
    OBVIOUS
  <2>4. \A i \in 0 .. n + 1 : Body(g, i) = Body(f, i)
    <3>1. \A i \in 0 .. n + 1 : i # 0 => g[i - 1] = f[i - 1]
      BY <2>2
    <3> HIDE DEF g
    <3> QED
      BY <3>1
  <2>5. \A i \in 0 .. n + 1 : g[i] = Body(g, i)
    <3> HIDE DEF g, Body
    <3> QED
      BY <2>2, <2>3, <2>4
  <2>6. g = [i \in 0 .. n + 1 |-> g[i]]
    OBVIOUS
  <2>7. g = [i \in 0 .. n + 1 |-> Body(g, i)]
    <3> HIDE DEF g, Body
    <3> QED
      BY <2>5, <2>6
  <2>8. \E f1 : f1 = [i \in 0 .. n + 1 |-> Body(f1, i)]
    <3> HIDE DEF g, Body
    <3> QED
      BY <2>7, Zenon
  <2> HIDE DEF Body, g
  <2> QED
    BY <2>8
<1>3. Len(Order) \in S
  <2> HIDE DEF S
  <2> QED
    BY <1>1, <1>2, AllNumbers, OrderIs
<1>4. \E f : Forcing(w, field, value, us, f)
  BY <1>3 DEF Forcing
<1> DEFINE done == CHOOSE f : Forcing(w, field, value, us, f)
<1>5. Forcing(w, field, value, us, done)
  BY <1>4, Zenon
<1>6. ForceAll(w, field, value, us) = done[Len(Order)]
  BY Zenon DEF ForceAll, Forcing
<1> QED
  BY <1>5, <1>6

-----------------------------------------------------------------------------
(* The world of the host: what it has, what the server has, and what the   *)
(* news between them tell.                                                 *)
Wishes == [Users -> [team : Nat, ally : Nat]]
Worlds == [local : [Users -> Status], server : [Users -> Status],
           news : Seq(Users \X Status), wanted : Wishes]

(* The last news of a user are what the server has; without any the host   *)
(* has that.                                                               *)
Quiet(w, u) ==
  w.local[u] = w.server[u] /\ \A i \in 1 .. Len(w.news) : w.news[i][1] # u

Pending(w, u) ==
  \E i \in 1 .. Len(w.news) :
    /\ w.news[i] = <<u, w.server[u]>>
    /\ \A j \in 1 .. Len(w.news) : j > i => w.news[j][1] # u

Informed(w, u) == Quiet(w, u) \/ Pending(w, u)
Told(w) == \A u \in Users : Informed(w, u)

(* What the host has is what it chose.                                     *)
Chosen(w) == \A u \in Users : w.wanted[u] = [team |-> w.local[u].team, ally |-> w.local[u].ally]

(* The bit fields keep a status a status.                                  *)
LEMMA WireStatus ==
  ASSUME NEW s \in Status
  PROVE  Wire(s) \in Status
<1>1. \A n \in Nat : n % Slots \in Nat
  BY TeamsAssumption
<1>2. s.team % Slots \in Nat /\ s.ally % Slots \in Nat
  BY <1>1 DEF Status
<1> QED
  BY <1>2 DEF Wire, Status

(* What one command changes: the user's entry on both sides, and the news. *)
Changed(s, field, v) == [s EXCEPT ![field] = v]

Commanded(w, u, mine, status, want) ==
  [local |-> [w.local EXCEPT ![u] = mine],
   server |-> [w.server EXCEPT ![u] = status],
   news |-> Append(w.news, <<u, status>>),
   wanted |-> [w.wanted EXCEPT ![u] = want]]

(* After a command the user has news and they are right; what was known of *)
(* the others still is.                                                    *)
LEMMA CommandTells ==
  ASSUME NEW w \in Worlds, NEW u \in Users, NEW mine \in Status, NEW status \in Status,
         NEW want \in [team : Nat, ally : Nat]
  PROVE  LET x == Commanded(w, u, mine, status, want)
         IN  /\ x \in Worlds /\ Pending(x, u)
             /\ \A p \in Users \ {u} : Informed(w, p) => Informed(x, p)
<1> DEFINE x == Commanded(w, u, mine, status, want)
<1>2. /\ w.local \in [Users -> Status] /\ w.server \in [Users -> Status]
      /\ w.news \in Seq(Users \X Status) /\ w.wanted \in Wishes
  BY DEF Worlds
<1>3. /\ x.local = [w.local EXCEPT ![u] = mine] /\ x.server = [w.server EXCEPT ![u] = status]
      /\ x.news = Append(w.news, <<u, status>>) /\ x.wanted = [w.wanted EXCEPT ![u] = want]
  BY DEF Commanded
<1>4. x \in Worlds
  <2>1. /\ [w.local EXCEPT ![u] = mine] \in [Users -> Status]
        /\ [w.server EXCEPT ![u] = status] \in [Users -> Status]
        /\ Append(w.news, <<u, status>>) \in Seq(Users \X Status)
        /\ [w.wanted EXCEPT ![u] = want] \in Wishes
    BY <1>2 DEF Wishes
  <2> QED
    BY <2>1 DEF Worlds, Commanded
<1> HIDE DEF x
<1>5. /\ Len(x.news) = Len(w.news) + 1 /\ Len(w.news) \in Nat
      /\ x.news[Len(w.news) + 1] = <<u, status>>
      /\ \A i \in 1 .. Len(w.news) : x.news[i] = w.news[i]
  BY <1>2, <1>3
<1>6. \A j \in 1 .. Len(x.news) : j \in 1 .. Len(w.news) \/ j = Len(w.news) + 1
  BY <1>5
<1>7. Pending(x, u)
  <2>1. x.server[u] = status
    BY <1>2, <1>3
  <2> DEFINE n == Len(w.news) + 1
  <2>2. n \in 1 .. Len(x.news) /\ \A j \in 1 .. Len(x.news) : ~(j > n)
    BY <1>5
  <2>3. x.news[n] = <<u, x.server[u]>>
    BY <1>5, <2>1
  <2> HIDE DEF n
  <2> QED
    BY <2>2, <2>3 DEF Pending
<1>8. ASSUME NEW p \in Users \ {u}, Informed(w, p) PROVE Informed(x, p)
  <2>1. x.server[p] = w.server[p] /\ x.local[p] = w.local[p]
    BY <1>2, <1>3
  <2>2. x.news[Len(w.news) + 1][1] # p
    BY <1>5
  <2>3. CASE Quiet(w, p)
    <3>1. \A i \in 1 .. Len(x.news) : x.news[i][1] # p
      BY <1>5, <1>6, <2>2, <2>3 DEF Quiet
    <3> QED
      BY <2>1, <2>3, <3>1 DEF Quiet, Informed
  <2>4. CASE Pending(w, p)
    <3>1. PICK i \in 1 .. Len(w.news) :
            /\ w.news[i] = <<p, w.server[p]>>
            /\ \A j \in 1 .. Len(w.news) : j > i => w.news[j][1] # p
      BY <2>4 DEF Pending
    <3>2. \A j \in 1 .. Len(x.news) : j > i => x.news[j][1] # p
      BY <1>5, <1>6, <2>2, <3>1
    <3>3. i \in 1 .. Len(x.news) /\ x.news[i] = <<p, x.server[p]>>
      BY <1>5, <2>1, <3>1
    <3> QED
      BY <3>2, <3>3 DEF Pending, Informed
  <2> QED
    BY <1>8, <2>3, <2>4 DEF Informed
<1> QED
  BY <1>4, <1>7, <1>8 DEF x

Sent(w, u, field, v) ==
  IF u \in Guests THEN Changed(w.server[u], field, v) ELSE Wire(Changed(w.local[u], field, v))

(* Forcing one number is one command, with statuses of the right type.     *)
LEMMA ForceFields ==
  ASSUME NEW w \in Worlds, NEW u \in Users, NEW field \in {"team", "ally"}, NEW v \in Nat
  PROVE  /\ Changed(w.local[u], field, v) \in Status
         /\ Sent(w, u, field, v) \in Status
         /\ Changed(w.wanted[u], field, v) \in [team : Nat, ally : Nat]
         /\ ForceNumber(w, u, field, v) =
              Commanded(w, u, Changed(w.local[u], field, v), Sent(w, u, field, v),
                        Changed(w.wanted[u], field, v))
<1>1. w.local[u] \in Status /\ w.server[u] \in Status /\ w.wanted[u] \in [team : Nat, ally : Nat]
      /\ w.local \in [Users -> Status]
  BY DEF Worlds, Wishes
<1>2. \A s \in Status : Changed(s, field, v) \in Status
  BY DEF Status, Changed
<1>3. Changed(w.local[u], field, v) \in Status
  BY <1>1, <1>2
<1>4. Changed(w.wanted[u], field, v) \in [team : Nat, ally : Nat]
  BY <1>1 DEF Changed
<1>5. Sent(w, u, field, v) \in Status
  BY <1>1, <1>2, <1>3, WireStatus DEF Sent
<1>6. [w.local EXCEPT ![u][field] = v] = [w.local EXCEPT ![u] = Changed(w.local[u], field, v)]
  BY DEF Changed
<1>7. [w.wanted EXCEPT ![u][field] = v] = [w.wanted EXCEPT ![u] = Changed(w.wanted[u], field, v)]
  BY DEF Changed
<1>8. [w.local EXCEPT ![u][field] = v][u] = Changed(w.local[u], field, v)
  BY <1>1 DEF Changed
<1>9. ForceNumber(w, u, field, v) =
         [local |-> [w.local EXCEPT ![u] = Changed(w.local[u], field, v)],
          server |-> [w.server EXCEPT ![u] = Sent(w, u, field, v)],
          news |-> Append(w.news, <<u, Sent(w, u, field, v)>>),
          wanted |-> [w.wanted EXCEPT ![u] = Changed(w.wanted[u], field, v)]]
  <2> DEFINE A == [w.local EXCEPT ![u][field] = v]
             B == [w.wanted EXCEPT ![u][field] = v]
  <2>1. ForceNumber(w, u, field, v) =
         LET st == IF u \in Guests THEN Changed(w.server[u], field, v) ELSE Wire(A[u])
         IN  [local |-> A, server |-> [w.server EXCEPT ![u] = st],
              news |-> Append(w.news, <<u, st>>), wanted |-> B]
    BY DEF ForceNumber, Changed
  <2> HIDE DEF A, B
  <2>2. A[u] = Changed(w.local[u], field, v)
    BY <1>8 DEF A
  <2>3. ForceNumber(w, u, field, v) =
          [local |-> A, server |-> [w.server EXCEPT ![u] = Sent(w, u, field, v)],
           news |-> Append(w.news, <<u, Sent(w, u, field, v)>>), wanted |-> B]
    BY <2>1, <2>2 DEF Sent
  <2> QED
    BY <1>6, <1>7, <2>3 DEF A, B
<1>10. ForceNumber(w, u, field, v) =
         Commanded(w, u, Changed(w.local[u], field, v), Sent(w, u, field, v),
                             Changed(w.wanted[u], field, v))
  BY <1>9 DEF Commanded
<1> QED
  BY <1>3, <1>4, <1>5, <1>10

(* Forcing one number leaves the user with news, what was known of the     *)
(* others known, and the host with what it chose.                          *)
LEMMA ForceTells ==
  ASSUME NEW w \in Worlds,
         NEW u \in Users, NEW field \in {"team", "ally"}, NEW v \in Nat
  PROVE  LET x == ForceNumber(w, u, field, v)
         IN  /\ x \in Worlds /\ Pending(x, u) /\ (Chosen(w) => Chosen(x))
             /\ \A p \in Users \ {u} : Informed(w, p) => Informed(x, p)
             /\ \A p \in Users \ {u} : x.local[p] = w.local[p]
<1> DEFINE mine == Changed(w.local[u], field, v)
           status == Sent(w, u, field, v)
           want == Changed(w.wanted[u], field, v)
           x == ForceNumber(w, u, field, v)
<1>1. /\ mine \in Status /\ status \in Status /\ want \in [team : Nat, ally : Nat]
      /\ x = Commanded(w, u, mine, status, want)
  BY ForceFields
<1>7. mine = [w.local[u] EXCEPT ![field] = v] /\ want = [w.wanted[u] EXCEPT ![field] = v]
  BY DEF Changed
<1> HIDE DEF mine, status, want, x
<1>2. /\ w.local \in [Users -> Status] /\ w.wanted \in Wishes
  BY DEF Worlds
<1>3. x.local = [w.local EXCEPT ![u] = mine] /\ x.wanted = [w.wanted EXCEPT ![u] = want]
  BY <1>1 DEF Commanded
<1>4. /\ x \in Worlds /\ Pending(x, u)
      /\ \A p \in Users \ {u} : Informed(w, p) => Informed(x, p)
  BY <1>1, CommandTells
<1>5. \A p \in Users \ {u} : x.local[p] = w.local[p]
  BY <1>2, <1>3
<1>6. ASSUME Chosen(w) PROVE Chosen(x)
  <2>1. want = [team |-> mine.team, ally |-> mine.ally]
    <3>1. w.wanted[u] = [team |-> w.local[u].team, ally |-> w.local[u].ally]
      BY <1>6 DEF Chosen
    <3>2. w.local[u] \in Status
      BY <1>2
    <3>5. /\ w.wanted[u] \in [team : Nat, ally : Nat]
          /\ w.wanted[u].team = w.local[u].team /\ w.wanted[u].ally = w.local[u].ally
      BY <1>2, <3>1 DEF Wishes
    <3>3. CASE field = "team"
      <4>1. mine.team = v /\ mine.ally = w.local[u].ally
        BY <1>7, <3>2, <3>3 DEF Status
      <4>2. want = [team |-> v, ally |-> w.local[u].ally]
        BY <1>7, <3>3, <3>5
      <4> QED
        BY <4>1, <4>2
    <3>4. CASE field = "ally"
      <4>1. mine.ally = v /\ mine.team = w.local[u].team
        BY <1>7, <3>2, <3>4 DEF Status
      <4>2. want = [team |-> w.local[u].team, ally |-> v]
        BY <1>7, <3>4, <3>5
      <4> QED
        BY <4>1, <4>2
    <3> QED
      BY <3>3, <3>4
  <2>2. ASSUME NEW p \in Users
        PROVE  x.wanted[p] = [team |-> x.local[p].team, ally |-> x.local[p].ally]
    <3>1. CASE p = u
      BY <1>2, <1>3, <2>1, <3>1 DEF Wishes
    <3>2. CASE p # u
      BY <1>2, <1>3, <1>6, <3>2 DEF Wishes, Chosen
    <3> QED
      BY <3>1, <3>2
  <2> QED
    BY <2>2 DEF Chosen
<1> QED
  BY <1>4, <1>5, <1>6 DEF x

(* Forcing one number keeps every user informed.                           *)
LEMMA ForceKeeps ==
  ASSUME NEW w \in Worlds, Told(w),
         NEW u \in Users, NEW field \in {"team", "ally"}, NEW v \in Nat
  PROVE  LET x == ForceNumber(w, u, field, v)
         IN  x \in Worlds /\ Told(x) /\ (Chosen(w) => Chosen(x))
<1> DEFINE x == ForceNumber(w, u, field, v)
<1>1. /\ x \in Worlds /\ Pending(x, u) /\ (Chosen(w) => Chosen(x))
      /\ \A p \in Users \ {u} : Informed(w, p) => Informed(x, p)
  BY ForceTells
<1> HIDE DEF x
<1>2. Told(x)
  BY <1>1 DEF Told, Informed
<1> QED
  BY <1>1, <1>2 DEF x

-----------------------------------------------------------------------------
(* What a command may make of a world.                                     *)
InOrder(w, x) == x \in Worlds /\ Told(x) /\ (Chosen(w) => Chosen(x))

(* So does forcing both numbers of a user.                                 *)
LEMMA ForceUserKeeps ==
  ASSUME NEW w \in Worlds, Told(w),
         NEW u \in Users, NEW field \in {"team", "ally", "both"}, NEW v \in Nat
  PROVE  InOrder(w, ForceUser(w, u, field, v))
<1>1. \A f \in {"team", "ally"}, x \in Worlds : Told(x) => InOrder(x, ForceNumber(x, u, f, v))
  BY ForceKeeps DEF InOrder
<1>2. CASE field = "both"
  <2>1. InOrder(w, ForceNumber(w, u, "team", v))
    BY <1>1
  <2>2. InOrder(ForceNumber(w, u, "team", v),
                ForceNumber(ForceNumber(w, u, "team", v), u, "ally", v))
    BY <1>1, <2>1 DEF InOrder
  <2> QED
    BY <1>2, <2>1, <2>2 DEF InOrder, ForceUser
<1>3. CASE field \in {"team", "ally"}
  BY <1>1, <1>3 DEF ForceUser
<1> QED
  BY <1>2, <1>3

(* So does the loop over the users.                                        *)
LEMMA ForceAllKeeps ==
  ASSUME NEW w \in Worlds, Told(w),
         NEW field \in {"team", "ally", "both"}, NEW value, NEW us,
         \A u \in Users \cap us : value[u] \in Nat
  PROVE  InOrder(w, ForceAll(w, field, value, us))
<1>1. PICK done : /\ Forcing(w, field, value, us, done)
                  /\ ForceAll(w, field, value, us) = done[Len(Order)]
  BY ForceLoop
<1> DEFINE S == {i \in 0 .. Len(Order) : InOrder(w, done[i])}
<1>2. \A i \in 0 .. Len(Order) :
        done[i] = IF i = 0 THEN w
                  ELSE IF Order[i] \in us
                  THEN ForceUser(done[i - 1], Order[i], field, value[Order[i]])
                  ELSE done[i - 1]
  BY <1>1 DEF Forcing
<1>3. 0 \in S
  BY <1>2, OrderIs DEF InOrder
<1>4. ASSUME NEW i \in 1 .. Len(Order), i - 1 \in S PROVE i \in S
  <2>1. InOrder(w, done[i - 1]) /\ i \in 0 .. Len(Order) /\ Order[i] \in Users
    BY <1>4, OrderIs
  <2>2. CASE Order[i] \in us
    <3>1. done[i] = ForceUser(done[i - 1], Order[i], field, value[Order[i]])
      BY <1>2, <2>1, <2>2
    <3>2. InOrder(done[i - 1], done[i])
      <4>1. PICK d \in Worlds, u \in Users, v \in Nat :
              d = done[i - 1] /\ u = Order[i] /\ v = value[Order[i]]
        BY <2>1, <2>2 DEF InOrder
      <4>2. Told(d)
        BY <2>1, <4>1 DEF InOrder
      <4> QED
        BY <3>1, <4>1, <4>2, ForceUserKeeps
    <3> QED
      BY <2>1, <3>2 DEF InOrder
  <2>3. CASE Order[i] \notin us
    BY <1>2, <2>1, <2>3
  <2> QED
    BY <2>2, <2>3
<1>5. Len(Order) \in S
  <2> HIDE DEF S
  <2>1. \A i \in 1 .. Len(Order) : i - 1 \in S => i \in S
    BY <1>4
  <2>2. 0 .. Len(Order) \subseteq S
    BY <1>3, <2>1, NumbersUpTo, OrderIs
  <2> QED
    BY <2>2, OrderIs
<1> QED
  BY <1>1, <1>5

(* The loop leaves each of its users with its own value, the others as     *)
(* they were.                                                              *)
LEMMA ForceAllLocal ==
  ASSUME NEW w \in Worlds, Told(w),
         NEW field \in {"team", "ally"}, NEW value, NEW us,
         \A u \in Users \cap us : value[u] \in Nat,
         NEW u \in Users
  PROVE  ForceAll(w, field, value, us).local[u] =
           IF u \in us THEN Changed(w.local[u], field, value[u]) ELSE w.local[u]
<1>1. PICK done : /\ Forcing(w, field, value, us, done)
                  /\ ForceAll(w, field, value, us) = done[Len(Order)]
  BY ForceLoop
<1>6. PICK k \in 1 .. Len(Order) : Order[k] = u
  BY OrderIs
<1> DEFINE S == {i \in 0 .. Len(Order) :
                   /\ InOrder(w, done[i])
                   /\ done[i].local[u] = IF i >= k /\ u \in us
                                         THEN Changed(w.local[u], field, value[u])
                                         ELSE w.local[u]}
<1>2. \A i \in 0 .. Len(Order) :
        done[i] = IF i = 0 THEN w
                  ELSE IF Order[i] \in us
                  THEN ForceUser(done[i - 1], Order[i], field, value[Order[i]])
                  ELSE done[i - 1]
  BY <1>1 DEF Forcing
<1>3. 0 \in S
  BY <1>2, OrderIs DEF InOrder
<1>4. ASSUME NEW i \in 1 .. Len(Order), i - 1 \in S PROVE i \in S
  <2>1. InOrder(w, done[i - 1]) /\ i \in 0 .. Len(Order) /\ Order[i] \in Users
    BY <1>4, OrderIs
  <2>4. done[i - 1].local[u] = IF i - 1 >= k /\ u \in us
                               THEN Changed(w.local[u], field, value[u]) ELSE w.local[u]
    BY <1>4
  <2>5. i = k <=> Order[i] = u
    BY <1>6, OrderIs
  <2>2. CASE Order[i] \in us
    <3>1. done[i] = ForceUser(done[i - 1], Order[i], field, value[Order[i]])
      BY <1>2, <2>1, <2>2
    <3>2. InOrder(done[i - 1], done[i])
      <4>1. PICK d \in Worlds, p \in Users, v \in Nat :
              d = done[i - 1] /\ p = Order[i] /\ v = value[Order[i]]
        BY <2>1, <2>2 DEF InOrder
      <4>2. Told(d)
        BY <2>1, <4>1 DEF InOrder
      <4> QED
        BY <3>1, <4>1, <4>2, ForceUserKeeps
    <3>3. value[Order[i]] \in Nat /\ done[i - 1] \in Worlds
      BY <2>1, <2>2 DEF InOrder
    <3>4. done[i].local =
            [done[i - 1].local EXCEPT
               ![Order[i]] = Changed(done[i - 1].local[Order[i]], field, value[Order[i]])]
      <4>1. PICK d \in Worlds, p \in Users, v \in Nat :
              d = done[i - 1] /\ p = Order[i] /\ v = value[Order[i]]
        BY <2>1, <3>3
      <4>2. ForceNumber(d, p, field, v) =
              Commanded(d, p, Changed(d.local[p], field, v), Sent(d, p, field, v),
                        Changed(d.wanted[p], field, v))
        BY ForceFields
      <4>3. ForceNumber(d, p, field, v).local =
              [d.local EXCEPT ![p] = Changed(d.local[p], field, v)]
        BY <4>2 DEF Commanded
      <4> QED
        BY <3>1, <4>1, <4>3 DEF ForceUser
    <3>5. done[i].local[u] = IF Order[i] = u THEN Changed(done[i - 1].local[u], field, value[u])
                             ELSE done[i - 1].local[u]
      BY <3>3, <3>4 DEF Worlds
    <3>6. done[i].local[u] = IF i >= k /\ u \in us THEN Changed(w.local[u], field, value[u])
                             ELSE w.local[u]
      <4>1. CASE i = k
        BY <2>2, <2>4, <2>5, <3>5, <4>1
      <4>2. CASE i # k
        BY <2>4, <2>5, <3>5, <4>2
      <4> QED
        BY <4>1, <4>2
    <3> QED
      BY <2>1, <3>2, <3>6 DEF InOrder
  <2>3. CASE Order[i] \notin us
    <3>1. done[i] = done[i - 1]
      BY <1>2, <2>1, <2>3
    <3>2. done[i].local[u] = IF i >= k /\ u \in us THEN Changed(w.local[u], field, value[u])
                             ELSE w.local[u]
      BY <2>3, <2>4, <2>5, <3>1
    <3> QED
      BY <2>1, <3>1, <3>2
  <2> QED
    BY <2>2, <2>3
<1>5. Len(Order) \in S
  <2> HIDE DEF S
  <2>1. \A i \in 1 .. Len(Order) : i - 1 \in S => i \in S
    BY <1>4
  <2>2. 0 .. Len(Order) \subseteq S
    BY <1>3, <2>1, NumbersUpTo, OrderIs
  <2> QED
    BY <2>2, OrderIs
<1> QED
  BY <1>1, <1>5, <1>6

-----------------------------------------------------------------------------
(* The function of the steps done in DealClans.                            *)
ClanDeals(players, sides, req, deals) ==
  deals = [i \in 0 .. Len(ClanOrder) |->
             IF i = 0 THEN {<<>>}
             ELSE IF IsDealt(players, sides, req, ClanOrder[i])
             THEN Gives(deals[i - 1], Members(players, ClanOrder[i]), sides)
             ELSE deals[i - 1]]

(* The list of clans has each clan that a user is in.                      *)
LEMMA ClanOrderIs ==
  /\ Len(ClanOrder) \in Nat
  /\ \A p \in Users : Clan[p] # NoClan => \E i \in 1 .. Len(ClanOrder) : ClanOrder[i] = Clan[p]
  /\ \A i \in 1 .. Len(ClanOrder) : ClanOrder[i] # NoClan
<1>1. /\ ClanOrder \in Seq(ToSet(ClanOrder)) /\ NoClan \notin ToSet(ClanOrder)
      /\ ToSet(ClanOrder) = {ClanOrder[i] : i \in DOMAIN ClanOrder}
      /\ \A p \in Users : Clan[p] \in ToSet(ClanOrder) \cup {NoClan}
  BY BalanceAssumption DEF ToSet
<1> HIDE DEF NoClan
<1> QED
  BY <1>1

(* DealClans returns the last value of such a function.                    *)
LEMMA ClanLoop ==
  ASSUME NEW players, NEW sides, NEW req
  PROVE  \E deals : /\ ClanDeals(players, sides, req, deals)
                    /\ DealClans(players, sides, req) = deals[Len(ClanOrder)]
<1> DEFINE Body(f, i) ==
      IF i = 0 THEN {<<>>}
      ELSE IF IsDealt(players, sides, req, ClanOrder[i])
      THEN Gives(f[i - 1], Members(players, ClanOrder[i]), sides)
      ELSE f[i - 1]
<1> DEFINE S == {n \in Nat : \E f : f = [i \in 0 .. n |-> Body(f, i)]}
<1>1. 0 \in S
  <2> DEFINE one == [i \in 0 .. 0 |-> {<<>>}]
  <2>1. one = [i \in 0 .. 0 |-> Body(one, i)]
    OBVIOUS
  <2> QED
    BY <2>1
<1>2. ASSUME NEW n \in Nat, n \in S PROVE n + 1 \in S
  <2>1. PICK f : f = [i \in 0 .. n |-> Body(f, i)]
    BY <1>2
  <2> DEFINE g == [i \in 0 .. n + 1 |-> IF i = n + 1 THEN Body(f, i) ELSE f[i]]
  <2>2. \A i \in 0 .. n : g[i] = f[i] /\ f[i] = Body(f, i)
    <3> HIDE DEF Body
    <3> QED
      BY <2>1
  <2>3. g[n + 1] = Body(f, n + 1)
    OBVIOUS
  <2>4. \A i \in 0 .. n + 1 : Body(g, i) = Body(f, i)
    <3>1. \A i \in 0 .. n + 1 : i # 0 => g[i - 1] = f[i - 1]
      BY <2>2
    <3> HIDE DEF g
    <3> QED
      BY <3>1
  <2>5. \A i \in 0 .. n + 1 : g[i] = Body(g, i)
    <3> HIDE DEF g, Body
    <3> QED
      BY <2>2, <2>3, <2>4
  <2>6. g = [i \in 0 .. n + 1 |-> g[i]]
    OBVIOUS
  <2>7. g = [i \in 0 .. n + 1 |-> Body(g, i)]
    <3> HIDE DEF g, Body
    <3> QED
      BY <2>5, <2>6
  <2>8. \E f1 : f1 = [i \in 0 .. n + 1 |-> Body(f1, i)]
    <3> HIDE DEF g, Body
    <3> QED
      BY <2>7, Zenon
  <2> HIDE DEF Body, g
  <2> QED
    BY <2>8
<1>3. Len(ClanOrder) \in S
  <2> HIDE DEF S
  <2> QED
    BY <1>1, <1>2, AllNumbers, ClanOrderIs
<1>4. \E f : ClanDeals(players, sides, req, f)
  BY <1>3 DEF ClanDeals
<1> DEFINE deals == CHOOSE f : ClanDeals(players, sides, req, f)
<1>5. ClanDeals(players, sides, req, deals)
  BY <1>4, Zenon
<1>6. DealClans(players, sides, req) = deals[Len(ClanOrder)]
  BY Zenon DEF DealClans, ClanDeals
<1> QED
  BY <1>5, <1>6

(* The function of the steps done in DealPlayers.                          *)
PlayerDeals(dealt, players, sides, byRank, deals) ==
  deals = [i \in 0 .. Cardinality(players) |->
             IF i = 0 THEN dealt
             ELSE UNION {GiveNext(d, players, sides, byRank) : d \in deals[i - 1]}]

(* DealPlayers returns the last value of such a function.                  *)
LEMMA PlayerLoop ==
  ASSUME NEW dealt, NEW players, NEW sides, NEW byRank, Cardinality(players) \in Nat
  PROVE  \E deals : /\ PlayerDeals(dealt, players, sides, byRank, deals)
                    /\ DealPlayers(dealt, players, sides, byRank) = deals[Cardinality(players)]
<1> DEFINE Body(f, i) ==
      IF i = 0 THEN dealt
      ELSE UNION {GiveNext(d, players, sides, byRank) : d \in f[i - 1]}
<1> DEFINE S == {n \in Nat : \E f : f = [i \in 0 .. n |-> Body(f, i)]}
<1>1. 0 \in S
  <2> DEFINE one == [i \in 0 .. 0 |-> dealt]
  <2>1. one = [i \in 0 .. 0 |-> Body(one, i)]
    OBVIOUS
  <2> QED
    BY <2>1
<1>2. ASSUME NEW n \in Nat, n \in S PROVE n + 1 \in S
  <2>1. PICK f : f = [i \in 0 .. n |-> Body(f, i)]
    BY <1>2
  <2> DEFINE g == [i \in 0 .. n + 1 |-> IF i = n + 1 THEN Body(f, i) ELSE f[i]]
  <2>2. \A i \in 0 .. n : g[i] = f[i] /\ f[i] = Body(f, i)
    <3> HIDE DEF Body
    <3> QED
      BY <2>1
  <2>3. g[n + 1] = Body(f, n + 1)
    OBVIOUS
  <2>4. \A i \in 0 .. n + 1 : Body(g, i) = Body(f, i)
    <3>1. \A i \in 0 .. n + 1 : i # 0 => g[i - 1] = f[i - 1]
      BY <2>2
    <3> HIDE DEF g
    <3> QED
      BY <3>1
  <2>5. \A i \in 0 .. n + 1 : g[i] = Body(g, i)
    <3> HIDE DEF g, Body
    <3> QED
      BY <2>2, <2>3, <2>4
  <2>6. g = [i \in 0 .. n + 1 |-> g[i]]
    OBVIOUS
  <2>7. g = [i \in 0 .. n + 1 |-> Body(g, i)]
    <3> HIDE DEF g, Body
    <3> QED
      BY <2>5, <2>6
  <2>8. \E f1 : f1 = [i \in 0 .. n + 1 |-> Body(f1, i)]
    <3> HIDE DEF g, Body
    <3> QED
      BY <2>7, Zenon
  <2> HIDE DEF Body, g
  <2> QED
    BY <2>8
<1>3. Cardinality(players) \in S
  <2> HIDE DEF S
  <2> QED
    BY <1>1, <1>2, AllNumbers
<1>4. \E f : PlayerDeals(dealt, players, sides, byRank, f)
  BY <1>3 DEF PlayerDeals
<1> DEFINE deals == CHOOSE f : PlayerDeals(dealt, players, sides, byRank, f)
<1>5. PlayerDeals(dealt, players, sides, byRank, deals)
  BY <1>4, Zenon
<1>6. DealPlayers(dealt, players, sides, byRank) = deals[Cardinality(players)]
  BY Zenon DEF DealPlayers, PlayerDeals
<1> QED
  BY <1>5, <1>6

(* What a step of dealing gives.                                           *)
LEMMA GivesAre ==
  ASSUME NEW deals, NEW ps, NEW sides, NEW x \in Gives(deals, ps, sides)
  PROVE  \E d \in deals, a \in sides : a \in Lowest(d, sides) /\ x = Give(d, ps, a)
  BY DEF Gives, Lowest

(* After i clans their members, and no others, have a side, that of the    *)
(* clan.                                                                   *)
InClan(players, sides, req, i, p) ==
  \E j \in 1 .. i : IsDealt(players, sides, req, ClanOrder[j]) /\ Clan[p] = ClanOrder[j]

ClanDealt(players, sides, req, i, d) ==
  /\ DOMAIN d = {p \in players : InClan(players, sides, req, i, p)}
  /\ \A p \in DOMAIN d : d[p] \in sides
  /\ \A p, q \in DOMAIN d : Clan[p] = Clan[q] => d[p] = d[q]

(* DealClans deals the members of the dealt clans and nobody else, and the *)
(* members of one clan to one side.                                        *)
LEMMA DealClansAre ==
  ASSUME NEW players, NEW sides, NEW req,
         NEW x \in DealClans(players, sides, req)
  PROVE  ClanDealt(players, sides, req, Len(ClanOrder), x)
<1>1. PICK deals : /\ ClanDeals(players, sides, req, deals)
                   /\ DealClans(players, sides, req) = deals[Len(ClanOrder)]
  BY ClanLoop
<1>2. \A i \in 0 .. Len(ClanOrder) :
        deals[i] = IF i = 0 THEN {<<>>}
                   ELSE IF IsDealt(players, sides, req, ClanOrder[i])
                   THEN Gives(deals[i - 1], Members(players, ClanOrder[i]), sides)
                   ELSE deals[i - 1]
  BY <1>1 DEF ClanDeals
<1> DEFINE S == {i \in 0 .. Len(ClanOrder) :
                   \A d \in deals[i] : ClanDealt(players, sides, req, i, d)}
<1>3. 0 \in S
  <2>1. 0 \in 0 .. Len(ClanOrder) /\ deals[0] = {<<>>}
    BY <1>2, ClanOrderIs
  <2>2. DOMAIN <<>> = {} /\ \A p : ~InClan(players, sides, req, 0, p)
    BY DEF InClan
  <2>3. ClanDealt(players, sides, req, 0, <<>>)
    BY <2>2 DEF ClanDealt
  <2> QED
    BY <2>1, <2>3
<1>4. ASSUME NEW i \in 1 .. Len(ClanOrder), i - 1 \in S PROVE i \in S
  <2> DEFINE c == ClanOrder[i]
  <2>1. i \in 0 .. Len(ClanOrder) /\ i # 0 /\ i \in Nat
        /\ \A d \in deals[i - 1] : ClanDealt(players, sides, req, i - 1, d)
    BY <1>4, ClanOrderIs
  <2>2. \A p : InClan(players, sides, req, i, p) <=>
                 \/ InClan(players, sides, req, i - 1, p)
                 \/ IsDealt(players, sides, req, c) /\ Clan[p] = c
    <3>1. \A j : j \in 1 .. i <=> j \in 1 .. i - 1 \/ j = i
      BY <2>1
    <3> QED
      BY <3>1 DEF InClan
  <2> HIDE DEF c
  <2>3. CASE ~IsDealt(players, sides, req, c)
    <3>1. deals[i] = deals[i - 1]
      BY <1>2, <2>1, <2>3 DEF c
    <3>2. \A d : ClanDealt(players, sides, req, i - 1, d) => ClanDealt(players, sides, req, i, d)
      BY <2>2, <2>3 DEF ClanDealt
    <3> QED
      BY <2>1, <3>1, <3>2
  <2>4. CASE IsDealt(players, sides, req, c)
    <3>1. deals[i] = Gives(deals[i - 1], Members(players, c), sides)
      BY <1>2, <2>1, <2>4 DEF c
    <3>2. ASSUME NEW y \in deals[i] PROVE ClanDealt(players, sides, req, i, y)
      <4>1. PICK d \in deals[i - 1], a \in sides : y = Give(d, Members(players, c), a)
        BY <3>1, GivesAre
      <4>2. ClanDealt(players, sides, req, i - 1, d)
        BY <2>1
      <4>3. /\ DOMAIN y = DOMAIN d \cup Members(players, c)
            /\ \A p \in Members(players, c) : y[p] = a
            /\ \A p \in DOMAIN d \ Members(players, c) : y[p] = d[p]
        <5>1. PICK ps : ps = Members(players, c)
          OBVIOUS
        <5>2. /\ DOMAIN Give(d, ps, a) = DOMAIN d \cup ps
              /\ \A p \in ps : Give(d, ps, a)[p] = a
              /\ \A p \in DOMAIN d \ ps : Give(d, ps, a)[p] = d[p]
          BY DEF Give
        <5>3. y = Give(d, ps, a)
          BY <4>1, <5>1
        <5> QED
          BY <5>1, <5>2, <5>3
      <4>4. DOMAIN y = {p \in players : InClan(players, sides, req, i, p)}
        BY <2>2, <2>4, <4>2, <4>3 DEF ClanDealt, Members
      <4>5. \A p \in DOMAIN y : y[p] \in sides
        BY <4>2, <4>3 DEF ClanDealt
      <4>6. \A p \in DOMAIN y : p \in players
        BY <4>4
      <4>7. ASSUME NEW p \in DOMAIN y, NEW q \in DOMAIN y, Clan[p] = Clan[q] PROVE y[p] = y[q]
        <5>1. p \in Members(players, c) <=> q \in Members(players, c)
          BY <4>6, <4>7 DEF Members
        <5> QED
          BY <4>2, <4>3, <4>7, <5>1 DEF ClanDealt
      <4> QED
        BY <4>4, <4>5, <4>7 DEF ClanDealt
    <3> QED
      BY <2>1, <3>2
  <2> QED
    BY <2>3, <2>4
<1>5. Len(ClanOrder) \in S
  <2> HIDE DEF S
  <2>1. \A i \in 1 .. Len(ClanOrder) : i - 1 \in S => i \in S
    BY <1>4
  <2>2. 0 .. Len(ClanOrder) \subseteq S
    BY <1>3, <2>1, NumbersUpTo, ClanOrderIs
  <2> QED
    BY <2>2, ClanOrderIs
<1> QED
  BY <1>1, <1>5

(* Who is dealt keeps its side, who was left gets one.                     *)
Extends(rest, sides, e, d) ==
  /\ DOMAIN e \subseteq DOMAIN d /\ DOMAIN d \subseteq DOMAIN e \cup rest
  /\ \A p \in DOMAIN e : d[p] = e[p]
  /\ \A p \in DOMAIN d \ DOMAIN e : d[p] \in sides

HasOneMore(rest, d, x) == \E p \in rest \ DOMAIN d : DOMAIN x = DOMAIN d \cup {p}

(* A step deals one more player to one of the sides.                       *)
LEMMA OneMore ==
  ASSUME NEW rest, NEW sides, NEW byRank, NEW e, NEW d, Extends(rest, sides, e, d),
         NEW x \in GiveNext(d, rest, sides, byRank)
  PROVE  Extends(rest, sides, e, x) /\ HasOneMore(rest, d, x)
<1>1. PICK p \in rest \ DOMAIN d, a \in sides : x = Give(d, {p}, a)
  <2>1. PICK p \in NextOf(rest \ DOMAIN d, byRank) : x \in Gives({d}, {p}, sides)
    BY DEF GiveNext
  <2>2. p \in rest \ DOMAIN d
    BY DEF NextOf
  <2>3. \E a \in sides : x = Give(d, {p}, a)
    BY <2>1 DEF Gives, Lowest
  <2> QED
    BY <2>2, <2>3
<1>2. DOMAIN x = DOMAIN d \cup {p} /\ x[p] = a /\ \A q \in DOMAIN d : x[q] = d[q]
  BY <1>1 DEF Give
<1> QED
  BY <1>1, <1>2 DEF Extends, HasOneMore

(* DealPlayers deals everybody who was left and moves nobody who was       *)
(* dealt.                                                                  *)
LEMMA DealPlayersAre ==
  ASSUME NEW rest, IsFiniteSet(rest), NEW sides, NEW byRank,
         NEW dealt, \A e \in dealt : DOMAIN e \cap rest = {},
         NEW x \in DealPlayers(dealt, rest, sides, byRank)
  PROVE  \E e \in dealt : Extends(rest, sides, e, x) /\ DOMAIN x = DOMAIN e \cup rest
<1> DEFINE n == Cardinality(rest)
<1>0. n \in Nat
  BY FS_CardinalityType
<1>1. PICK deals : /\ PlayerDeals(dealt, rest, sides, byRank, deals)
                   /\ DealPlayers(dealt, rest, sides, byRank) = deals[n]
  BY <1>0, PlayerLoop
<1> DEFINE After(ds) == UNION {GiveNext(d, rest, sides, byRank) : d \in ds}
<1>2. \A i \in 0 .. n : deals[i] = IF i = 0 THEN dealt ELSE After(deals[i - 1])
  BY <1>1 DEF PlayerDeals
<1>11. \A ds : \A y \in After(ds) : \E d \in ds : y \in GiveNext(d, rest, sides, byRank)
  OBVIOUS
<1> HIDE DEF After
<1> DEFINE S == {i \in 0 .. n :
                   \A d \in deals[i] : /\ \E e \in dealt : Extends(rest, sides, e, d)
                                       /\ Cardinality(rest \ DOMAIN d) = n - i}
<1> HIDE DEF n
<1>3. 0 \in S
  <2>1. 0 \in 0 .. n /\ deals[0] = dealt
    BY <1>0, <1>2
  <2>2. \A e : Extends(rest, sides, e, e)
    BY DEF Extends
  <2>3. \A e \in dealt : rest \ DOMAIN e = rest
    OBVIOUS
  <2> QED
    BY <1>0, <2>1, <2>2, <2>3 DEF n
<1>4. ASSUME NEW i \in 1 .. n, i - 1 \in S PROVE i \in S
  <2>1. i \in 0 .. n /\ i # 0
        /\ \A d \in deals[i - 1] : /\ \E e \in dealt : Extends(rest, sides, e, d)
                                   /\ Cardinality(rest \ DOMAIN d) = n - (i - 1)
    BY <1>0, <1>4
  <2>2. ASSUME NEW y \in deals[i]
        PROVE  /\ \E e \in dealt : Extends(rest, sides, e, y)
               /\ Cardinality(rest \ DOMAIN y) = n - i
    <3>1. PICK d \in deals[i - 1] : y \in GiveNext(d, rest, sides, byRank)
      <4>1. y \in After(deals[i - 1])
        BY <1>2, <2>1
      <4> QED
        BY <1>11, <4>1
    <3>2. PICK e \in dealt : Extends(rest, sides, e, d)
      BY <2>1
    <3>3. Extends(rest, sides, e, y) /\ HasOneMore(rest, d, y)
      BY <3>1, <3>2, OneMore
    <3>4. PICK p \in rest \ DOMAIN d : DOMAIN y = DOMAIN d \cup {p}
      BY <3>3 DEF HasOneMore
    <3>5. rest \ DOMAIN y = (rest \ DOMAIN d) \ {p}
      BY <3>4
    <3>6. PICK left : left = rest \ DOMAIN d /\ Cardinality(left) = n - (i - 1)
      BY <2>1
    <3>7. IsFiniteSet(left) /\ p \in left
      BY <3>4, <3>6, FS_Difference
    <3>8. Cardinality(left \ {p}) = Cardinality(left) - 1
      BY <3>7, FS_RemoveElement
    <3>9. Cardinality(rest \ DOMAIN y) = n - i
      <4>1. Cardinality(rest \ DOMAIN y) = n - (i - 1) - 1
        BY <3>5, <3>6, <3>8
      <4> QED
        BY <1>0, <2>1, <4>1
    <3> QED
      BY <3>2, <3>3, <3>9
  <2> QED
    BY <2>1, <2>2
<1>5. n \in S
  <2> HIDE DEF S
  <2>1. \A i \in 1 .. n : i - 1 \in S => i \in S
    BY <1>4
  <2>2. 0 .. n \subseteq S
    BY <1>0, <1>3, <2>1, NumbersUpTo
  <2> QED
    BY <1>0, <2>2
<1>6. PICK e \in dealt : Extends(rest, sides, e, x)
  BY <1>1, <1>5
<1>7. Cardinality(rest \ DOMAIN x) = 0
  BY <1>0, <1>1, <1>5
<1>8. rest \ DOMAIN x = {}
  BY <1>7, FS_Difference, FS_EmptySet
<1>9. DOMAIN x = DOMAIN e \cup rest
  BY <1>6, <1>8 DEF Extends
<1> QED
  BY <1>6, <1>9

(* Each player gets a side, and those of a clan that is kept the same.     *)
LEMMA DivideDeals ==
  ASSUME NEW players, players \subseteq Users, IsFiniteSet(players), NEW sides, NEW req,
         NEW x \in Divide(players, sides, req)
  PROVE  /\ DOMAIN x = players /\ \A p \in players : x[p] \in sides
         /\ \A p, q \in players :
              /\ Clan[p] = Clan[q] /\ Clan[p] # NoClan
              /\ IsDealt(players, sides, req, Clan[p])
              => x[p] = x[q]
<1> DEFINE rest == {p \in players : Clan[p] = NoClan \/ ~IsDealt(players, sides, req, Clan[p])}
           dealt == DealClans(players, sides, req)
<1>1. x \in DealPlayers(dealt, rest, sides, req.byRank)
  BY DEF Divide
<1>2. \A p \in players \ rest : InClan(players, sides, req, Len(ClanOrder), p)
  BY ClanOrderIs DEF InClan
<1>3. \A p \in rest : ~InClan(players, sides, req, Len(ClanOrder), p)
  BY ClanOrderIs DEF InClan
<1>4. IsFiniteSet(rest)
  BY FS_Subset
<1>5. \A e \in dealt : ClanDealt(players, sides, req, Len(ClanOrder), e)
  BY DealClansAre
<1>6. \A p \in players : p \in rest <=> ~InClan(players, sides, req, Len(ClanOrder), p)
  BY <1>2, <1>3
<1>7. rest \subseteq players
  OBVIOUS
<1>8. \A p \in players :
        Clan[p] # NoClan /\ IsDealt(players, sides, req, Clan[p]) => p \notin rest
  OBVIOUS
<1> HIDE DEF rest, dealt
<1>9. \A e \in dealt : DOMAIN e = players \ rest
  BY <1>5, <1>6, <1>7 DEF ClanDealt
<1>10. PICK e \in dealt : Extends(rest, sides, e, x) /\ DOMAIN x = DOMAIN e \cup rest
  BY <1>1, <1>4, <1>9, DealPlayersAre
<1>11. DOMAIN x = players
  BY <1>7, <1>9, <1>10
<1>12. \A p \in players : x[p] \in sides
  BY <1>5, <1>9, <1>10, <1>11 DEF Extends, ClanDealt
<1>13. \A p, q \in players \ rest : Clan[p] = Clan[q] => x[p] = x[q]
  BY <1>5, <1>9, <1>10 DEF Extends, ClanDealt
<1> QED
  BY <1>8, <1>11, <1>12, <1>13

-----------------------------------------------------------------------------
(* The users, and those of them that play, are finitely many.              *)
LEMMA UsersFinite == IsFiniteSet(Users) /\ \A st : IsFiniteSet(Players(st))
<1>1. Order \in Surjection(1 .. Len(Order), Users)
  <2>1. /\ Order \in [1 .. Len(Order) -> Users]
        /\ \A u \in Users : \E i \in 1 .. Len(Order) : Order[i] = u
    BY OrderIs, BalanceAssumption
  <2> QED
    BY <2>1 DEF Surjection
<1>2. IsFiniteSet(1 .. Len(Order))
  BY OrderIs, FS_Interval
<1>3. IsFiniteSet(Users)
  BY <1>1, <1>2, FS_Surjection
<1>4. \A st : Players(st) \subseteq Users
  BY DEF Players
<1> QED
  BY <1>3, <1>4, FS_Subset

(* The teams of the players are finitely many numbers.                     *)
LEMMA TeamsFinite ==
  ASSUME NEW st \in [Users -> Status]
  PROVE  IsFiniteSet(TeamsOf(st)) /\ TeamsOf(st) \subseteq Nat
<1> DEFINE f == [u \in Players(st) |-> st[u].team]
<1>1. f \in Surjection(Players(st), TeamsOf(st))
  <2>1. f \in [Players(st) -> TeamsOf(st)]
    BY DEF TeamsOf
  <2>2. \A t \in TeamsOf(st) : \E u \in Players(st) : f[u] = t
    BY DEF TeamsOf
  <2> HIDE DEF f
  <2> QED
    BY <2>1, <2>2 DEF Surjection
<1>2. IsFiniteSet(TeamsOf(st))
  <2> HIDE DEF f
  <2> QED
    BY <1>1, UsersFinite, FS_Surjection
<1>3. TeamsOf(st) \subseteq Nat
  BY DEF TeamsOf, Players, Status
<1> QED
  BY <1>2, <1>3

(* A set of numbers from -1 up to a bound has a greatest one.              *)
LEMMA Greatest ==
  ASSUME NEW k \in Nat, NEW T \in SUBSET (-1 .. k), T # {}
  PROVE  Max(T) \in T /\ \A y \in T : y <= Max(T)
<1> DEFINE U == {u \in Nat : \A y \in T : y <= u - 1}
<1>1. U \subseteq Nat /\ k + 1 \in U
  OBVIOUS
<1>2. PICK u \in U : \A v \in U : u <= v
  <2> HIDE DEF U
  <2> QED
    BY <1>1, Smallest
<1>3. u - 1 \in T
  <2>1. SUFFICES ASSUME u - 1 \notin T PROVE FALSE
    OBVIOUS
  <2>2. u \in Nat /\ \A y \in T : y \in Int /\ y <= u - 1 /\ y # u - 1 /\ y >= -1
    BY <2>1
  <2>3. \A y \in T : y <= u - 2
    BY <2>2
  <2>4. u # 0
    <3>1. PICK y \in T : TRUE
      OBVIOUS
    <3> QED
      BY <2>2, <3>1
  <2>5. u - 1 \in U
    BY <2>2, <2>3, <2>4
  <2> QED
    BY <1>2, <2>2, <2>5
<1>4. \E x \in T : \A y \in T : x >= y
  <2>1. \A y \in T : u - 1 >= y
    OBVIOUS
  <2> QED
    BY <1>3, <2>1
<1>5. Max(T) \in T /\ \A y \in T : Max(T) >= y
  <2> DEFINE m == CHOOSE x \in T : \A y \in T : x >= y
  <2>1. m \in T /\ \A y \in T : m >= y
    BY <1>4
  <2> QED
    BY <2>1 DEF Max
<1> QED
  <2>1. \A y \in T : y \in Int
    OBVIOUS
  <2> QED
    BY <1>5, <2>1

(* Alliances are numbers.                                                  *)
LEMMA AlliancesAre ==
  ASSUME NEW num \in Nat
  PROVE  Alliances(num) \subseteq Nat
<1> DEFINE n == Cardinality(Boxes)
           met == {a \in Boxes : a < n}
           top == Max(met \cup {-1})
<1>1. Boxes \subseteq Nat /\ n \in Nat
  BY BalanceAssumption, FS_CardinalityType
<1> HIDE DEF n
<1>2. met \cup {-1} \subseteq -1 .. n /\ met \cup {-1} # {} /\ met \subseteq Nat
  <2>1. \A a \in met : a \in Nat /\ a < n
    BY <1>1
  <2>2. \A a \in met : a \in -1 .. n
    BY <1>1, <2>1
  <2>3. -1 \in -1 .. n
    BY <1>1
  <2> HIDE DEF met
  <2> QED
    BY <2>1, <2>2, <2>3
<1>3. Alliances(num) = IF num # 0 THEN 0 .. num - 1
                       ELSE met \cup {top + i : i \in 1 .. (2 - Cardinality(met))}
  BY DEF Alliances, n
<1> HIDE DEF met
<1>4. top \in -1 .. n
  <2>1. PICK T \in SUBSET (-1 .. n) : T = met \cup {-1} /\ T # {}
    BY <1>2
  <2>2. Max(T) \in T
    BY <1>1, <2>1, Greatest
  <2> QED
    BY <2>1, <2>2
<1> HIDE DEF top
<1>5. \A i \in 1 .. (2 - Cardinality(met)) : top + i \in Nat
  BY <1>1, <1>4
<1>6. \A a \in Alliances(num) :
        \/ a \in 0 .. num - 1
        \/ a \in met
        \/ \E i \in 1 .. (2 - Cardinality(met)) : a = top + i
  BY <1>3
<1>7. \A a \in 0 .. num - 1 : a \in Nat
  OBVIOUS
<1> QED
  BY <1>2, <1>5, <1>6, <1>7

(* The number of control teams is a number.                                *)
LEMMA ControlTeamsIs ==
  ASSUME NEW st, NEW num \in Nat, NEW positions \in Nat
  PROVE  ControlTeams(st, num, positions) \in Nat
<1>1. PICK n \in Nat : n = IF num = 0 THEN Cardinality(Players(st)) ELSE num
  BY UsersFinite, FS_CardinalityType
<1>2. \E x \in {n, positions} : \A y \in {n, positions} : x <= y
  OBVIOUS
<1>3. Min({n, positions}) \in {n, positions}
  <2> DEFINE m == CHOOSE x \in {n, positions} : \A y \in {n, positions} : x <= y
  <2>1. m \in {n, positions}
    BY <1>2
  <2> QED
    BY <2>1 DEF Min
<1>4. ControlTeams(st, num, positions) = Min({n, positions})
  BY <1>1 DEF ControlTeams
<1> QED
  BY <1>3, <1>4

(* There is always a free number.                                          *)
LEMMA FreeNumberIs ==
  ASSUME NEW used, IsFiniteSet(used)
  PROVE  FreeNumber(used) \in Nat \ used
<1>1. Cardinality(used) \in Nat
  BY FS_CardinalityType
<1> DEFINE n == Cardinality(used)
           free == 0 .. n \ used
<1> HIDE DEF n
<1>2. free # {}
  <2>1. SUFFICES ASSUME 0 .. n \subseteq used PROVE FALSE
    OBVIOUS
  <2>2. Cardinality(0 .. n) <= n
    BY <2>1, FS_Subset DEF n
  <2>3. Cardinality(0 .. n) = n + 1
    BY <1>1, FS_Interval DEF n
  <2> QED
    BY <1>1, <2>2, <2>3 DEF n
<1>3. free \subseteq Nat \ used
  BY <1>1 DEF n
<1> HIDE DEF free
<1>4. \E x \in free : \A y \in free : x <= y
  BY <1>2, <1>3, Smallest
<1>5. Min(free) \in free
  <2> DEFINE m == CHOOSE x \in free : \A y \in free : x <= y
  <2>1. m \in free
    BY <1>4
  <2> QED
    BY <2>1 DEF Min
<1> QED
  BY <1>3, <1>5 DEF FreeNumber, free, n

-----------------------------------------------------------------------------
(* Each user has its place in the list.                                    *)
LEMMA PlaceIs ==
  ASSUME NEW u \in Users
  PROVE  Place(u) \in 1 .. Len(Order) /\ Order[Place(u)] = u
<1>1. \E i \in DOMAIN Order : Order[i] = u
  BY OrderIs
<1>2. Place(u) \in DOMAIN Order /\ Order[Place(u)] = u
  BY <1>1 DEF Place
<1> QED
  BY <1>2, OrderIs

(* Each team of players has exactly one representative.                    *)
LEMMA OneRepresentative ==
  ASSUME NEW st, NEW u \in Players(st)
  PROVE  \E r \in Representatives(st) :
           /\ st[r].team = st[u].team
           /\ \A q \in Representatives(st) : st[q].team = st[u].team => q = r
<1> DEFINE T == {i \in 1 .. Len(Order) :
                   Order[i] \in Players(st) /\ st[Order[i]].team = st[u].team}
<1>1. Players(st) \subseteq Users
  BY DEF Players
<1>2. \A v \in Players(st) : st[v].team = st[u].team => Place(v) \in T
  BY <1>1, PlaceIs
<1>3. T # {} /\ T \in SUBSET (-1 .. Len(Order)) /\ Len(Order) \in Nat
  BY <1>2, OrderIs
<1>4. PICK m \in T : \A i \in T : i <= m
  <2> HIDE DEF T
  <2> QED
    BY <1>3, Greatest
<1> DEFINE r == Order[m]
<1>5. r \in Players(st) /\ st[r].team = st[u].team /\ Place(r) = m
  BY <1>1, <1>4, PlaceIs, OrderIs
<1>6. r \in Representatives(st)
  BY <1>2, <1>4, <1>5 DEF Representatives
<1>7. ASSUME NEW q \in Representatives(st), st[q].team = st[u].team PROVE q = r
  <2>1. q \in Players(st) /\ Place(r) <= Place(q)
    BY <1>5, <1>7 DEF Representatives
  <2>2. Place(q) <= Place(r) /\ Place(q) \in Nat /\ Place(r) \in Nat
    BY <1>2, <1>4, <1>5, <1>7, <2>1
  <2>3. Place(q) = Place(r)
    BY <2>1, <2>2
  <2> QED
    BY <1>1, <1>5, <2>1, <2>3, PlaceIs
<1> QED
  BY <1>5, <1>6, <1>7

(* The allies of all users follow the deal and the teams.                  *)
BalancedBy(st, deal, x) ==
  /\ x \in [Users -> Nat]
  /\ \A r \in Representatives(st) : x[r] = deal[r]
  /\ \A p, q \in Players(st) : st[p].team = st[q].team => x[p] = x[q]

(* Autobalance gives each representative what it was dealt, and the        *)
(* players of a team the same.                                             *)
LEMMA AutobalancedAre ==
  ASSUME NEW st \in [Users -> Status], NEW req \in Request, NEW x \in Autobalanced(st, req)
  PROVE  \E deal \in Divide(Representatives(st), Alliances(req.num), req) :
           BalancedBy(st, deal, x)
<1> DEFINE reps == Representatives(st)
           Same(u) == {r \in reps : st[r].team = st[u].team}
           Ally(deal, u) == IF Same(u) = {} THEN st[u].ally
                            ELSE deal[CHOOSE r \in Same(u) : TRUE]
<1>1. PICK deal \in Divide(reps, Alliances(req.num), req) :
        x = [u \in Users |-> Ally(deal, u)]
  BY DEF Autobalanced
<1>2. reps \subseteq Players(st) /\ Players(st) \subseteq Users /\ IsFiniteSet(reps)
  <2>1. reps \subseteq Players(st) /\ Players(st) \subseteq Users
    BY DEF Representatives, Players
  <2> QED
    BY <2>1, UsersFinite, FS_Subset
<1>3. \A r \in reps : deal[r] \in Nat
  <2>1. \A r \in reps : deal[r] \in Alliances(req.num)
    BY <1>2, DivideDeals
  <2> QED
    BY <2>1, AlliancesAre DEF Request
<1>4. \A u \in Users : Same(u) # {} => (CHOOSE r \in Same(u) : TRUE) \in Same(u)
  OBVIOUS
<1>5. \A u \in Users : Ally(deal, u) \in Nat
  <2>1. \A u \in Users : st[u].ally \in Nat
    BY DEF Status
  <2> QED
    BY <1>3, <1>4, <2>1
<1>6. \A u \in Players(st) : \E r \in reps : Same(u) = {r} /\ st[r].team = st[u].team
  BY OneRepresentative
<1>7. \A u \in Players(st), r \in reps : st[r].team = st[u].team => Ally(deal, u) = deal[r]
  <2>1. ASSUME NEW u \in Players(st), NEW r \in reps, st[r].team = st[u].team
        PROVE  Ally(deal, u) = deal[r]
    <3>1. Same(u) = {r}
      BY <1>6, <2>1
    <3> HIDE DEF Same
    <3> QED
      BY <3>1
  <2> QED
    BY <2>1
<1> HIDE DEF Ally, Same, reps
<1>8. x \in [Users -> Nat] /\ \A u \in Users : x[u] = Ally(deal, u)
  BY <1>1, <1>5
<1>9. \A r \in reps : x[r] = deal[r]
  BY <1>2, <1>7, <1>8
<1>10. ASSUME NEW p \in Players(st), NEW q \in Players(st), st[p].team = st[q].team
       PROVE  x[p] = x[q]
  <2>1. PICK r \in reps : st[r].team = st[p].team
    BY <1>6
  <2> QED
    BY <1>2, <1>7, <1>8, <1>10, <2>1
<1> QED
  BY <1>1, <1>8, <1>9, <1>10 DEF BalancedBy, reps

-----------------------------------------------------------------------------
(* The function of the steps done in DistinctIds.                          *)
Taking(st, ids) ==
  ids = [i \in 0 .. Len(Order) |->
           IF i = 0 THEN [team |-> [u \in Users |-> st[u].team], used |-> {}]
           ELSE IF st[Order[i]].spectator THEN ids[i - 1]
           ELSE TakeId(ids[i - 1], Order[i], TeamsOf(st))]

(* DistinctIds returns the team field of the last value of such a          *)
(* function.                                                               *)
LEMMA TakeLoop ==
  ASSUME NEW st
  PROVE  \E ids : Taking(st, ids) /\ DistinctIds(st) = ids[Len(Order)].team
<1> DEFINE First == [team |-> [u \in Users |-> st[u].team], used |-> {}]
           Body(f, i) ==
             IF i = 0 THEN First
             ELSE IF st[Order[i]].spectator THEN f[i - 1]
             ELSE TakeId(f[i - 1], Order[i], TeamsOf(st))
<1> DEFINE S == {n \in Nat : \E f : f = [i \in 0 .. n |-> Body(f, i)]}
<1>1. 0 \in S
  <2> DEFINE one == [i \in 0 .. 0 |-> First]
  <2>1. one = [i \in 0 .. 0 |-> Body(one, i)]
    OBVIOUS
  <2> QED
    BY <2>1
<1>2. ASSUME NEW n \in Nat, n \in S PROVE n + 1 \in S
  <2>1. PICK f : f = [i \in 0 .. n |-> Body(f, i)]
    BY <1>2
  <2> DEFINE g == [i \in 0 .. n + 1 |-> IF i = n + 1 THEN Body(f, i) ELSE f[i]]
  <2>2. \A i \in 0 .. n : g[i] = f[i] /\ f[i] = Body(f, i)
    <3> HIDE DEF Body
    <3> QED
      BY <2>1
  <2>3. g[n + 1] = Body(f, n + 1)
    OBVIOUS
  <2>4. \A i \in 0 .. n + 1 : Body(g, i) = Body(f, i)
    <3>1. \A i \in 0 .. n + 1 : i # 0 => g[i - 1] = f[i - 1]
      BY <2>2
    <3> HIDE DEF g, First
    <3> QED
      BY <3>1
  <2>5. \A i \in 0 .. n + 1 : g[i] = Body(g, i)
    <3> HIDE DEF g, Body
    <3> QED
      BY <2>2, <2>3, <2>4
  <2>6. g = [i \in 0 .. n + 1 |-> g[i]]
    OBVIOUS
  <2>7. g = [i \in 0 .. n + 1 |-> Body(g, i)]
    <3> HIDE DEF g, Body
    <3> QED
      BY <2>5, <2>6
  <2>8. \E f1 : f1 = [i \in 0 .. n + 1 |-> Body(f1, i)]
    <3> HIDE DEF g, Body
    <3> QED
      BY <2>7, Zenon
  <2> HIDE DEF Body, g
  <2> QED
    BY <2>8
<1>3. Len(Order) \in S
  <2> HIDE DEF S
  <2> QED
    BY <1>1, <1>2, AllNumbers, OrderIs
<1>4. \E f : Taking(st, f)
  BY <1>3 DEF Taking
<1> DEFINE ids == CHOOSE f : Taking(st, f)
<1>5. Taking(st, ids)
  BY <1>4, Zenon
<1>6. DistinctIds(st) = ids[Len(Order)].team
  BY Zenon DEF DistinctIds, Taking
<1> QED
  BY <1>5, <1>6

(* After i users their teams are in use and differ.                        *)
Taken(st, ids, i) ==
  /\ ids.team \in [Users -> Nat] /\ ids.used \subseteq Nat /\ IsFiniteSet(ids.used)
  /\ \A j \in 1 .. i : ~st[Order[j]].spectator => ids.team[Order[j]] \in ids.used
  /\ \A j, k \in 1 .. i :
       ~st[Order[j]].spectator /\ ~st[Order[k]].spectator /\ j # k
         => ids.team[Order[j]] # ids.team[Order[k]]

(* TakeId gives the next user a team that is not taken.                    *)
LEMMA TakeIdKeeps ==
  ASSUME NEW st \in [Users -> Status], NEW i \in 1 .. Len(Order), NEW ids, Taken(st, ids, i - 1)
  PROVE  Taken(st, TakeId(ids, Order[i], TeamsOf(st)), i)
<1> DEFINE u == Order[i]
           own == ids.team[u]
           t == IF own \notin ids.used THEN own ELSE FreeNumber(ids.used \cup TeamsOf(st))
           x == TakeId(ids, u, TeamsOf(st))
<1>0. i \in Nat /\ i # 0 /\ i <= Len(Order) /\ Len(Order) \in Nat
  BY OrderIs
<1>1. u \in Users /\ \A j \in 1 .. i - 1 : Order[j] \in Users /\ Order[j] # u
  BY <1>0, OrderIs
<1>2. t \in Nat /\ t \notin ids.used
  <2>1. CASE own \notin ids.used
    BY <1>1, <2>1 DEF Taken
  <2>2. CASE own \in ids.used
    <3>1. IsFiniteSet(ids.used \cup TeamsOf(st))
      BY TeamsFinite, FS_Union DEF Taken
    <3>2. FreeNumber(ids.used \cup TeamsOf(st)) \in Nat \ (ids.used \cup TeamsOf(st))
      BY <3>1, FreeNumberIs
    <3> QED
      BY <2>2, <3>2
  <2> QED
    BY <2>1, <2>2
<1>3. x = [team |-> [ids.team EXCEPT ![u] = t], used |-> ids.used \cup {t}]
  BY DEF TakeId
<1>4. x.team = [ids.team EXCEPT ![u] = t] /\ x.used = ids.used \cup {t}
  BY <1>3
<1> HIDE DEF x, t, own
<1>5. x.team \in [Users -> Nat] /\ x.team[u] = t /\ x.used \subseteq Nat
  BY <1>1, <1>2, <1>4 DEF Taken
<1>6. IsFiniteSet(x.used)
  <2>1. PICK used : used = ids.used /\ IsFiniteSet(used)
    BY DEF Taken
  <2> QED
    BY <1>4, <2>1, FS_AddElement
<1>7. \A j \in 1 .. i - 1 : x.team[Order[j]] = ids.team[Order[j]]
  BY <1>1, <1>4 DEF Taken
<1>8. \A j \in 1 .. i : j \in 1 .. i - 1 \/ (Order[j] = u /\ j = i)
  BY <1>0
<1> HIDE DEF u
<1>9. \A j \in 1 .. i : ~st[Order[j]].spectator => x.team[Order[j]] \in x.used
  BY <1>4, <1>5, <1>7, <1>8 DEF Taken
<1>10. ASSUME NEW j \in 1 .. i, NEW k \in 1 .. i,
              ~st[Order[j]].spectator, ~st[Order[k]].spectator, j # k
       PROVE  x.team[Order[j]] # x.team[Order[k]]
  <2>1. CASE j \in 1 .. i - 1 /\ k \in 1 .. i - 1
    BY <1>7, <1>10, <2>1 DEF Taken
  <2>2. CASE j \in 1 .. i - 1 /\ Order[k] = u
    BY <1>2, <1>5, <1>7, <1>10, <2>2 DEF Taken
  <2>3. CASE k \in 1 .. i - 1 /\ Order[j] = u
    BY <1>2, <1>5, <1>7, <1>10, <2>3 DEF Taken
  <2> QED
    BY <1>8, <1>10, <2>1, <2>2, <2>3
<1> QED
  BY <1>5, <1>6, <1>9, <1>10 DEF Taken, x, u

(* DistinctIds gives every player a team of its own.                       *)
LEMMA DistinctIdsAre ==
  ASSUME NEW st \in [Users -> Status]
  PROVE  /\ DistinctIds(st) \in [Users -> Nat]
         /\ \A p, q \in Players(st) : DistinctIds(st)[p] = DistinctIds(st)[q] => p = q
<1>1. PICK ids : Taking(st, ids) /\ DistinctIds(st) = ids[Len(Order)].team
  BY TakeLoop
<1> DEFINE First == [team |-> [u \in Users |-> st[u].team], used |-> {}]
<1>2. \A i \in 0 .. Len(Order) :
        ids[i] = IF i = 0 THEN First
                 ELSE IF st[Order[i]].spectator THEN ids[i - 1]
                 ELSE TakeId(ids[i - 1], Order[i], TeamsOf(st))
  BY <1>1 DEF Taking
<1> DEFINE S == {i \in 0 .. Len(Order) : Taken(st, ids[i], i)}
<1>3. 0 \in S
  <2>1. Taken(st, First, 0)
    <3>1. [u \in Users |-> st[u].team] \in [Users -> Nat]
      BY DEF Status
    <3>2. First.team \in [Users -> Nat] /\ First.used = {}
      BY <3>1
    <3> HIDE DEF First
    <3> QED
      BY <3>2, FS_EmptySet DEF Taken
  <2> HIDE DEF First
  <2>2. ids[0] = First /\ 0 \in 0 .. Len(Order)
    BY <1>2, OrderIs
  <2> QED
    BY <2>1, <2>2
<1> HIDE DEF First
<1>4. ASSUME NEW i \in 1 .. Len(Order), i - 1 \in S PROVE i \in S
  <2>1. Taken(st, ids[i - 1], i - 1) /\ i \in 0 .. Len(Order) /\ i # 0 /\ i \in Nat
    BY <1>4, OrderIs
  <2>2. CASE st[Order[i]].spectator
    <3>1. ids[i] = ids[i - 1]
      BY <1>2, <2>1, <2>2
    <3>2. \A j \in 1 .. i : ~st[Order[j]].spectator => j \in 1 .. i - 1
      BY <2>1, <2>2
    <3>3. Taken(st, ids[i - 1], i)
      BY <2>1, <3>2 DEF Taken
    <3> QED
      BY <2>1, <3>1, <3>3
  <2>3. CASE ~st[Order[i]].spectator
    <3>1. ids[i] = TakeId(ids[i - 1], Order[i], TeamsOf(st))
      BY <1>2, <2>1, <2>3
    <3>2. PICK before : before = ids[i - 1] /\ Taken(st, before, i - 1)
      BY <2>1
    <3>3. Taken(st, TakeId(before, Order[i], TeamsOf(st)), i)
      BY <3>2, TakeIdKeeps
    <3> QED
      BY <2>1, <3>1, <3>2, <3>3
  <2> QED
    BY <2>2, <2>3
<1>5. Len(Order) \in S
  <2> HIDE DEF S
  <2>1. \A i \in 1 .. Len(Order) : i - 1 \in S => i \in S
    BY <1>4
  <2>2. 0 .. Len(Order) \subseteq S
    BY <1>3, <2>1, NumbersUpTo, OrderIs
  <2> QED
    BY <2>2, OrderIs
<1>6. PICK last : last = ids[Len(Order)] /\ Taken(st, last, Len(Order))
  BY <1>5
<1>7. DistinctIds(st) = last.team
  BY <1>1, <1>6
<1>8. ASSUME NEW p \in Players(st), NEW q \in Players(st), last.team[p] = last.team[q]
      PROVE  p = q
  <2>1. PICK j \in 1 .. Len(Order), k \in 1 .. Len(Order) : Order[j] = p /\ Order[k] = q
    BY OrderIs DEF Players
  <2>2. ~st[Order[j]].spectator /\ ~st[Order[k]].spectator
    BY <2>1 DEF Players
  <2>3. j = k
    BY <1>6, <1>8, <2>1, <2>2 DEF Taken
  <2> QED
    BY <2>1, <2>3
<1> QED
  BY <1>6, <1>7, <1>8 DEF Taken

-----------------------------------------------------------------------------
(* Statuses that differ in allies alone.                                   *)
AlliesOnly(st, allies, x) ==
  \A u \in Users :
    /\ x[u].team = st[u].team /\ x[u].spectator = st[u].spectator
    /\ u \in Players(st) => x[u].ally = allies[u]

(* Autobalance keeps every user informed and changes nothing but allies,   *)
(* to those that were found.                                               *)
LEMMA AutobalanceIs ==
  ASSUME NEW w \in Worlds, Told(w), NEW req \in Request, NEW x \in Autobalance(w, req)
  PROVE  /\ InOrder(w, x)
         /\ \E deal \in Divide(Representatives(w.local), Alliances(req.num), req),
               allies \in [Users -> Nat] :
              BalancedBy(w.local, deal, allies) /\ AlliesOnly(w.local, allies, x.local)
<1> DEFINE us == {u \in Users : w.local[u].team \in TeamsOf(w.local)}
<1>1. PICK allies \in Autobalanced(w.local, req) : x = ForceAll(w, "ally", allies, us)
  BY DEF Autobalance
<1>2. PICK st \in [Users -> Status] : st = w.local
  BY DEF Worlds
<1>3. PICK deal \in Divide(Representatives(st), Alliances(req.num), req) :
        BalancedBy(st, deal, allies)
  BY <1>1, <1>2, AutobalancedAre
<1>4. allies \in [Users -> Nat]
  BY <1>3 DEF BalancedBy
<1>5. Players(st) \subseteq us
  BY <1>2 DEF TeamsOf, Players
<1> HIDE DEF us
<1>6. \A u \in Users \cap us : allies[u] \in Nat
  BY <1>4
<1>7. InOrder(w, x)
  BY <1>1, <1>6, ForceAllKeeps
<1>8. ASSUME NEW u \in Users
      PROVE  x.local[u] = IF u \in us THEN Changed(w.local[u], "ally", allies[u])
                          ELSE w.local[u]
  BY <1>1, <1>6, ForceAllLocal
<1>9. \A s \in Status, v \in Nat :
        LET c == Changed(s, "ally", v)
        IN  c.team = s.team /\ c.spectator = s.spectator /\ c.ally = v
  BY DEF Status, Changed
<1>10. ASSUME NEW u \in Users
       PROVE  /\ x.local[u].team = st[u].team /\ x.local[u].spectator = st[u].spectator
              /\ u \in Players(st) => x.local[u].ally = allies[u]
  <2>1. PICK s \in Status, v \in Nat : s = st[u] /\ v = allies[u]
    BY <1>4
  <2>2. x.local[u] = IF u \in us THEN Changed(s, "ally", v) ELSE s
    BY <1>2, <1>8, <2>1
  <2>3. LET c == Changed(s, "ally", v)
        IN  c.team = s.team /\ c.spectator = s.spectator /\ c.ally = v
    BY <1>9
  <2> QED
    BY <1>5, <2>1, <2>2, <2>3
<1> QED
  BY <1>2, <1>3, <1>4, <1>7, <1>10 DEF AlliesOnly

(* FixTeamIDs keeps every user informed, whether teams are shared or not.  *)
LEMMA FixKeeps ==
  ASSUME NEW w \in Worlds, Told(w), NEW req \in Request, NEW positions \in Nat,
         NEW x \in FixTeamIDs(w, req, positions)
  PROVE  InOrder(w, x)
<1>1. PICK st \in [Users -> Status] : st = w.local
  BY DEF Worlds
<1>2. CASE OneEach(st, req.num, positions)
  <2> DEFINE us == {u \in Users : DistinctIds(st)[u] # st[u].team}
  <2>1. x = ForceAll(w, "team", DistinctIds(st), us)
    BY <1>1, <1>2 DEF FixTeamIDs
  <2>2. \A u \in Users \cap us : DistinctIds(st)[u] \in Nat
    BY DistinctIdsAre
  <2> HIDE DEF us
  <2> QED
    BY <2>1, <2>2, ForceAllKeeps
<1>3. CASE ~OneEach(st, req.num, positions)
  <2>1. PICK ids \in SharedIds(st, req, positions) : x = ForceAll(w, "both", ids, Players(st))
    BY <1>1, <1>3 DEF FixTeamIDs
  <2> DEFINE sides == 0 .. ControlTeams(st, req.num, positions) - 1
  <2>2. ids \in Divide(Players(st), sides, req)
    BY DEF SharedIds
  <2>3. sides \subseteq Nat
    BY ControlTeamsIs DEF Request
  <2> HIDE DEF sides
  <2>4. \A u \in Users \cap Players(st) : ids[u] \in Nat
    <3>1. Players(st) \subseteq Users /\ IsFiniteSet(Players(st))
      BY UsersFinite DEF Players
    <3>2. \A u \in Players(st) : ids[u] \in sides
      BY <2>2, <3>1, DivideDeals
    <3> QED
      BY <2>3, <3>2
  <2> QED
    BY <2>1, <2>4, ForceAllKeeps
<1> QED
  BY <1>2, <1>3

(* If there is a team for each player, FixTeamIDs leaves each with its     *)
(* own.                                                                    *)
LEMMA FixIsDistinct ==
  ASSUME NEW w \in Worlds, Told(w), NEW req \in Request, NEW positions \in Nat,
         OneEach(w.local, req.num, positions),
         NEW x \in FixTeamIDs(w, req, positions)
  PROVE  /\ Players(x.local) = Players(w.local)
         /\ \A p, q \in Players(x.local) : x.local[p].team = x.local[q].team => p = q
<1>1. PICK st \in [Users -> Status] : st = w.local
  BY DEF Worlds
<1>2. PICK ids \in [Users -> Nat] :
        /\ ids = DistinctIds(st)
        /\ \A p, q \in Players(st) : ids[p] = ids[q] => p = q
  BY DistinctIdsAre
<1> DEFINE us == {u \in Users : ids[u] # st[u].team}
<1>3. x = ForceAll(w, "team", ids, us)
  BY <1>1, <1>2 DEF FixTeamIDs
<1>4. \A u \in Users \cap us : ids[u] \in Nat
  OBVIOUS
<1>5. \A u \in Users : u \notin us => ids[u] = st[u].team
  OBVIOUS
<1> HIDE DEF us
<1>6. ASSUME NEW u \in Users
      PROVE  x.local[u] = IF u \in us THEN Changed(w.local[u], "team", ids[u])
                          ELSE w.local[u]
  BY <1>3, <1>4, ForceAllLocal
<1>7. \A s \in Status, v \in Nat :
        LET c == Changed(s, "team", v) IN  c.team = v /\ c.spectator = s.spectator
  BY DEF Status, Changed
<1>8. ASSUME NEW u \in Users
      PROVE  x.local[u].team = ids[u] /\ x.local[u].spectator = st[u].spectator
  <2>1. PICK s \in Status, v \in Nat : s = st[u] /\ v = ids[u]
    OBVIOUS
  <2>2. x.local[u] = IF u \in us THEN Changed(s, "team", v) ELSE s
    BY <1>1, <1>6, <2>1
  <2>3. LET c == Changed(s, "team", v) IN  c.team = v /\ c.spectator = s.spectator
    BY <1>7
  <2> QED
    BY <1>5, <2>1, <2>2, <2>3
<1>9. Players(x.local) = Players(st)
  BY <1>8 DEF Players
<1> QED
  BY <1>1, <1>2, <1>8, <1>9 DEF Players

-----------------------------------------------------------------------------
(* The invariant: every user's status is known to the host or on its way,  *)
(* and while the balance is locked the host has what it chose.             *)
TeamsInv ==
  /\ World \in Worlds /\ Told(World) /\ (locked => Chosen(World))
  /\ locked \in BOOLEAN /\ changes \in 0 .. MaxChanges
  /\ asked \in Seq(Requests \cup IdRequests)

(* The part of it that is about the world.                                 *)
WorldInv == World \in Worlds /\ Told(World) /\ (locked => Chosen(World))

(* The world has the values of the variables.                              *)
LEMMA WorldIs ==
  ASSUME World \in Worlds
  PROVE  /\ local \in [Users -> Status] /\ server \in [Users -> Status]
         /\ news \in Seq(Users \X Status) /\ wanted \in Wishes
         /\ World.local = local /\ World.server = server
         /\ World.news = news /\ World.wanted = wanted
  BY DEF World, Worlds

(* A command that keeps every user informed keeps the invariant about the  *)
(* world.                                                                  *)
LEMMA BecomesKeeps ==
  ASSUME WorldInv, NEW w, InOrder(World, w), Becomes(w)
  PROVE  WorldInv'
<1>1. w \in Worlds /\ Told(w) /\ (Chosen(World) => Chosen(w))
  BY DEF InOrder
<1>2. /\ w.local \in [Users -> Status] /\ w.server \in [Users -> Status]
      /\ w.news \in Seq(Users \X Status) /\ w.wanted \in Wishes
  BY <1>1 DEF Worlds
<1>3. /\ local' = w.local /\ server' = w.server /\ news' = w.news
      /\ wanted' = (IF locked THEN w.wanted ELSE wanted) /\ locked' = locked
  BY DEF Becomes
<1>4. World' \in Worlds
  <2>1. wanted' \in Wishes
    BY <1>2, <1>3, WorldIs DEF WorldInv
  <2> QED
    BY <1>2, <1>3, <2>1 DEF World, Worlds
<1>5. World'.local = w.local /\ World'.server = w.server /\ World'.news = w.news
      /\ World'.wanted = wanted'
  BY <1>3 DEF World
<1>6. Told(World')
  <2>1. PICK x : /\ x = World' /\ x.local = w.local /\ x.server = w.server /\ x.news = w.news
    BY <1>5
  <2>2. \A u \in Users : Informed(w, u) => Informed(x, u)
    BY <2>1 DEF Informed, Quiet, Pending
  <2>3. Told(x)
    BY <1>1, <2>2 DEF Told
  <2> QED
    BY <2>1, <2>3
<1>7. locked' => Chosen(World')
  BY <1>1, <1>3, <1>5 DEF Chosen, WorldInv
<1> QED
  BY <1>4, <1>6, <1>7 DEF WorldInv

(* So does a status that is sent with nothing changed here.                *)
LEMMA SendKeeps ==
  ASSUME WorldInv, NEW u \in Users, NEW status \in Status,
         server' = [server EXCEPT ![u] = status], news' = Append(news, <<u, status>>),
         UNCHANGED <<local, locked, wanted>>
  PROVE  WorldInv'
<1>1. /\ local \in [Users -> Status] /\ server \in [Users -> Status]
      /\ news \in Seq(Users \X Status) /\ wanted \in Wishes
      /\ World.local = local /\ World.server = server
      /\ World.news = news /\ World.wanted = wanted
  BY WorldIs DEF WorldInv
<1>2. local[u] \in Status /\ wanted[u] \in [team : Nat, ally : Nat]
  BY <1>1 DEF Wishes
<1> DEFINE x == Commanded(World, u, local[u], status, wanted[u])
<1>3. /\ x \in Worlds /\ Pending(x, u)
      /\ \A p \in Users \ {u} : Informed(World, p) => Informed(x, p)
  BY <1>2, CommandTells DEF WorldInv
<1>4. x = World'
  <2>1. [local EXCEPT ![u] = local[u]] = local /\ [wanted EXCEPT ![u] = wanted[u]] = wanted
    BY <1>1 DEF Wishes
  <2>2. x = [local |-> [World.local EXCEPT ![u] = local[u]],
             server |-> [World.server EXCEPT ![u] = status],
             news |-> Append(World.news, <<u, status>>),
             wanted |-> [World.wanted EXCEPT ![u] = wanted[u]]]
    BY DEF Commanded
  <2> HIDE DEF x
  <2>3. x = [local |-> local', server |-> server', news |-> news', wanted |-> wanted']
    BY <1>1, <2>1, <2>2
  <2> QED
    BY <2>3 DEF World
<1> HIDE DEF x
<1>5. World' \in Worlds /\ Told(World')
  BY <1>3, <1>4 DEF WorldInv, Told, Informed
<1>6. locked' => Chosen(World')
  BY DEF Chosen, WorldInv, World
<1> QED
  BY <1>5, <1>6 DEF WorldInv

(* At the start nothing is under way and nothing was chosen.               *)
LEMMA InitWorld ==
  ASSUME Init PROVE TeamsInv
<1>1. local \in [Users -> Status] /\ server = local /\ news = <<>>
  BY TeamsAssumption DEF Init
<1>2. /\ wanted \in Wishes
      /\ \A u \in Users : wanted[u] = [team |-> local[u].team, ally |-> local[u].ally]
  <2>1. \A u \in Users : local[u].team \in Nat /\ local[u].ally \in Nat
    BY <1>1 DEF Status
  <2> QED
    BY <2>1 DEF Init, Choice, Wishes
<1>3. news \in Seq(Users \X Status)
  BY <1>1
<1>4. World \in Worlds
  BY <1>1, <1>2, <1>3 DEF World, Worlds
<1>5. Told(World)
  BY <1>1 DEF Told, Informed, Quiet, World
<1>6. Chosen(World)
  BY <1>2 DEF Chosen, World
<1> QED
  BY <1>4, <1>5, <1>6, TeamsAssumption DEF TeamsInv, Init

(* The first of the news: what is left tells of the others, and of the     *)
(* user unless it was the last of it.                                      *)
LEMMA OneLess ==
  ASSUME WorldInv, news # <<>>,
         NEW u, NEW status, u = Head(news)[1], status = Head(news)[2],
         NEW rest, rest = [World EXCEPT !.news = Tail(news)]
  PROVE  /\ u \in Users /\ status \in Status /\ rest \in Worlds
         /\ rest.local = local /\ rest.server = server
         /\ rest.news = Tail(news) /\ rest.wanted = wanted
         /\ \A p \in Users \ {u} : Informed(rest, p)
         /\ \/ Pending(rest, u)
            \/ status = server[u] /\ \A i \in 1 .. Len(rest.news) : rest.news[i][1] # u
<1>1. /\ local \in [Users -> Status] /\ server \in [Users -> Status]
      /\ news \in Seq(Users \X Status) /\ wanted \in Wishes
      /\ World.local = local /\ World.server = server
      /\ World.news = news /\ World.wanted = wanted
      /\ \A p \in Users : Informed(World, p)
  BY WorldIs DEF WorldInv, Told
<1>2. rest = [local |-> local, server |-> server, news |-> Tail(news), wanted |-> wanted]
  BY DEF World
<1>3. /\ rest.local = local /\ rest.server = server
      /\ rest.news = Tail(news) /\ rest.wanted = wanted
  BY <1>2
<1>4. /\ Len(news) \in Nat /\ Len(Tail(news)) = Len(news) - 1 /\ Len(news) >= 1
      /\ \A i \in 1 .. Len(Tail(news)) : Tail(news)[i] = news[i + 1]
      /\ Tail(news) \in Seq(Users \X Status) /\ news[1] = Head(news)
      /\ news[1] \in Users \X Status
  BY <1>1
<1>5. u \in Users /\ status \in Status /\ news[1] = <<u, status>>
  BY <1>4
<1>6. rest \in Worlds
  BY <1>1, <1>2, <1>4 DEF Worlds
<1>7. ASSUME NEW p \in Users, NEW i \in 1 .. Len(news), i # 1,
             news[i] = <<p, server[p]>>,
             \A j \in 1 .. Len(news) : j > i => news[j][1] # p
      PROVE  Pending(rest, p)
  <2> DEFINE k == i - 1
  <2>1. k \in 1 .. Len(rest.news) /\ k + 1 = i /\ k \in Nat
    BY <1>3, <1>4, <1>7
  <2> HIDE DEF k
  <2>2. rest.news[k] = <<p, rest.server[p]>>
    BY <1>3, <1>4, <1>7, <2>1
  <2>3. ASSUME NEW j \in 1 .. Len(rest.news), j > k PROVE rest.news[j][1] # p
    <3>1. j + 1 \in 1 .. Len(news) /\ j + 1 > i
      BY <1>3, <1>4, <2>1, <2>3
    <3>2. rest.news[j] = news[j + 1]
      BY <1>3, <1>4
    <3> QED
      BY <1>7, <3>1, <3>2
  <2> QED
    BY <2>1, <2>2, <2>3 DEF Pending
<1>8. ASSUME NEW p \in Users, \A j \in 1 .. Len(news) : j > 1 => news[j][1] # p
      PROVE  \A j \in 1 .. Len(rest.news) : rest.news[j][1] # p
  <2>1. ASSUME NEW j \in 1 .. Len(rest.news) PROVE rest.news[j][1] # p
    <3>1. j + 1 \in 1 .. Len(news) /\ j + 1 > 1
      BY <1>3, <1>4
    <3>2. rest.news[j] = news[j + 1]
      BY <1>3, <1>4
    <3> QED
      BY <1>8, <3>1, <3>2
  <2> QED
    BY <2>1
<1>9. ASSUME NEW p \in Users \ {u} PROVE Informed(rest, p)
  <2>1. CASE Quiet(World, p)
    <3>1. \A j \in 1 .. Len(news) : j > 1 => news[j][1] # p
      BY <1>1, <2>1 DEF Quiet
    <3>2. \A j \in 1 .. Len(rest.news) : rest.news[j][1] # p
      BY <1>8, <3>1
    <3> QED
      BY <1>1, <1>3, <2>1, <3>2 DEF Quiet, Informed
  <2>2. CASE Pending(World, p)
    <3>1. PICK i \in 1 .. Len(news) :
            /\ news[i] = <<p, server[p]>>
            /\ \A j \in 1 .. Len(news) : j > i => news[j][1] # p
      BY <1>1, <2>2 DEF Pending
    <3>2. i # 1
      BY <1>5, <3>1
    <3> QED
      BY <1>7, <3>1, <3>2 DEF Informed
  <2> QED
    BY <1>1, <2>1, <2>2 DEF Informed
<1>10. \/ Pending(rest, u)
       \/ status = server[u] /\ \A i \in 1 .. Len(rest.news) : rest.news[i][1] # u
  <2>1. ~Quiet(World, u)
    BY <1>1, <1>4, <1>5 DEF Quiet
  <2>2. PICK i \in 1 .. Len(news) :
          /\ news[i] = <<u, server[u]>>
          /\ \A j \in 1 .. Len(news) : j > i => news[j][1] # u
    BY <1>1, <1>5, <2>1 DEF Pending, Informed
  <2>3. CASE i = 1
    <3>1. status = server[u]
      BY <1>5, <2>2, <2>3
    <3>2. \A j \in 1 .. Len(rest.news) : rest.news[j][1] # u
      BY <1>5, <1>8, <2>2, <2>3
    <3> QED
      BY <3>1, <3>2
  <2>4. CASE i # 1
    BY <1>5, <1>7, <2>2, <2>4
  <2> QED
    BY <2>3, <2>4
<1> QED
  BY <1>3, <1>5, <1>6, <1>9, <1>10

(* The others are as before.                                               *)
Others(u, x) == \A p \in Users \ {u} : Informed(x, p) /\ x.local[p] = local[p]

(* Handling the first of the news keeps the invariant: what is forced back *)
(* is under way again, what is not is what the host has.                   *)
LEMMA UpdateKeeps ==
  ASSUME WorldInv, OnUserBattleStatusUpdated, locked \in BOOLEAN
  PROVE  WorldInv'
<1>1. PICK u, status, previous, rest :
        /\ u = Head(news)[1] /\ status = Head(news)[2]
        /\ previous = local[u] /\ rest = [World EXCEPT !.news = Tail(news)]
  OBVIOUS
<1> DEFINE A == locked /\ previous.team # status.team
           B == locked /\ previous.ally # status.ally
           new == IF locked
                  THEN [status EXCEPT !.team = previous.team, !.ally = previous.ally]
                  ELSE status
<1>2. PICK teamed, allied :
        /\ teamed = IF A THEN ForceNumber(rest, u, "team", previous.team) ELSE rest
        /\ allied = IF B THEN ForceNumber(teamed, u, "ally", previous.ally) ELSE teamed
        /\ local' = [local EXCEPT ![u] = new]
        /\ server' = allied.server /\ news' = allied.news
        /\ wanted' = wanted /\ locked' = locked
  BY <1>1 DEF OnUserBattleStatusUpdated
<1>3. /\ u \in Users /\ status \in Status /\ rest \in Worlds
      /\ rest.local = local /\ rest.server = server
      /\ \A p \in Users \ {u} : Informed(rest, p)
      /\ \/ Pending(rest, u)
         \/ status = server[u] /\ \A i \in 1 .. Len(rest.news) : rest.news[i][1] # u
  <2>1. news # <<>>
    BY DEF OnUserBattleStatusUpdated
  <2> QED
    BY <1>1, <2>1, OneLess
<1>4. /\ local \in [Users -> Status] /\ wanted \in Wishes /\ previous \in Status
      /\ World.local = local /\ World.wanted = wanted
  BY <1>1, <1>3, WorldIs DEF WorldInv
<1>5. previous.team \in Nat /\ previous.ally \in Nat
  BY <1>4 DEF Status
<1>6. new \in Status /\ (~A /\ ~B => new = status)
  <2>1. new \in Status
    BY <1>3, <1>5 DEF Status
  <2>2. ASSUME locked, previous.team = status.team, previous.ally = status.ally
        PROVE  [status EXCEPT !.team = previous.team, !.ally = previous.ally] = status
    BY <1>3, <2>2 DEF Status
  <2> QED
    BY <2>1, <2>2
<1>7. locked => new.team = previous.team /\ new.ally = previous.ally
  BY <1>3 DEF Status
<1> HIDE DEF A, B, new
<1>8. rest \in Worlds /\ Others(u, rest)
  BY <1>3 DEF Others
<1>9. ASSUME NEW x \in Worlds, Others(u, x), NEW field \in {"team", "ally"}, NEW v \in Nat
      PROVE  LET y == ForceNumber(x, u, field, v)
             IN  y \in Worlds /\ Pending(y, u) /\ Others(u, y)
  <2>1. PICK y : y = ForceNumber(x, u, field, v)
    OBVIOUS
  <2>2. /\ y \in Worlds /\ Pending(y, u)
        /\ \A p \in Users \ {u} : Informed(x, p) => Informed(y, p)
        /\ \A p \in Users \ {u} : y.local[p] = x.local[p]
    <3>1. u \in Users
      BY <1>3
    <3>2. /\ ForceNumber(x, u, field, v) \in Worlds
          /\ Pending(ForceNumber(x, u, field, v), u)
          /\ \A p \in Users \ {u} :
                Informed(x, p) => Informed(ForceNumber(x, u, field, v), p)
          /\ \A p \in Users \ {u} :
                ForceNumber(x, u, field, v).local[p] = x.local[p]
      BY <1>9, <3>1, ForceTells
    <3> QED
      BY <2>1, <3>2
  <2> QED
    BY <1>9, <2>1, <2>2 DEF Others
<1>10. teamed \in Worlds /\ Others(u, teamed) /\ (A => Pending(teamed, u))
  BY <1>2, <1>5, <1>8, <1>9
<1>11. allied \in Worlds /\ Others(u, allied) /\ (A \/ B => Pending(allied, u))
  <2>1. CASE B
    BY <1>2, <1>5, <1>9, <1>10, <2>1
  <2>2. CASE ~B
    BY <1>2, <1>10, <2>2
  <2> QED
    BY <2>1, <2>2
<1>12. World' = [local |-> [local EXCEPT ![u] = new], server |-> allied.server,
                 news |-> allied.news, wanted |-> wanted]
  BY <1>2 DEF World
<1>13. PICK z : /\ z = World' /\ z.local = [local EXCEPT ![u] = new]
                /\ z.server = allied.server /\ z.news = allied.news /\ z.wanted = wanted
  <2>1. PICK z : z = World'
    OBVIOUS
  <2>2. /\ z.local = [local EXCEPT ![u] = new] /\ z.server = allied.server
        /\ z.news = allied.news /\ z.wanted = wanted
    BY <1>12, <2>1
  <2> QED
    BY <2>1, <2>2
<1>14. z \in Worlds
  <2>1. /\ [local EXCEPT ![u] = new] \in [Users -> Status]
        /\ allied.server \in [Users -> Status] /\ allied.news \in Seq(Users \X Status)
    BY <1>4, <1>6, <1>11 DEF Worlds
  <2> QED
    BY <1>4, <1>12, <1>13, <2>1 DEF Worlds
<1>15. Informed(z, u)
  <2>1. CASE A \/ B
    <3>1. Pending(allied, u)
      BY <1>11, <2>1
    <3> QED
      BY <1>13, <3>1 DEF Informed, Pending
  <2>2. CASE ~A /\ ~B
    <3>1. allied = rest /\ new = status
      BY <1>2, <1>6, <2>2
    <3>2. CASE Pending(rest, u)
      BY <1>13, <3>1, <3>2 DEF Informed, Pending
    <3>3. CASE status = server[u] /\ \A i \in 1 .. Len(rest.news) : rest.news[i][1] # u
      <4>1. z.local[u] = z.server[u]
        BY <1>3, <1>4, <1>13, <3>1, <3>3
      <4> QED
        BY <1>13, <3>1, <3>3, <4>1 DEF Informed, Quiet
    <3> QED
      BY <1>3, <3>2, <3>3
  <2> QED
    BY <2>1, <2>2
<1>16. ASSUME NEW p \in Users \ {u} PROVE Informed(z, p)
  <2>1. z.local[p] = allied.local[p] /\ Informed(allied, p)
    BY <1>4, <1>11, <1>13 DEF Others
  <2> QED
    BY <1>13, <2>1 DEF Informed, Quiet, Pending
<1>17. ASSUME locked PROVE Chosen(z)
  <2>1. Chosen(World)
    BY <1>17 DEF WorldInv
  <2>2. ASSUME NEW p \in Users
        PROVE  z.wanted[p] = [team |-> z.local[p].team, ally |-> z.local[p].ally]
    <3>1. wanted[p] = [team |-> local[p].team, ally |-> local[p].ally]
      BY <1>4, <2>1 DEF Chosen
    <3>2. z.local[p].team = local[p].team /\ z.local[p].ally = local[p].ally
      BY <1>1, <1>4, <1>7, <1>13, <1>17
    <3> QED
      BY <1>13, <3>1, <3>2
  <2> QED
    BY <2>2 DEF Chosen
<1>18. Told(z)
  BY <1>15, <1>16 DEF Told
<1> QED
  BY <1>2, <1>13, <1>14, <1>17, <1>18 DEF WorldInv

(* Every step keeps the invariant.                                         *)
LEMMA InvStep ==
  ASSUME TeamsInv, [Next]_vars
  PROVE  TeamsInv'
<1>1. /\ WorldInv /\ locked \in BOOLEAN /\ changes \in 0 .. MaxChanges
      /\ asked \in Seq(Requests \cup IdRequests)
  BY DEF TeamsInv, WorldInv
<1>2. World \in Worlds /\ Told(World)
  BY <1>1 DEF WorldInv
<1>3. /\ local \in [Users -> Status] /\ server \in [Users -> Status]
      /\ news \in Seq(Users \X Status) /\ wanted \in Wishes
      /\ World.local = local /\ World.server = server
      /\ World.news = news /\ World.wanted = wanted
  BY <1>2, WorldIs
<1>4. Changes => changes' \in 0 .. MaxChanges
  BY <1>1, TeamsAssumption DEF Changes
<1>5. <<>> \in Seq(Requests \cup IdRequests)
  OBVIOUS
<1>6. \A s \in [Users -> Status], u \in Users : s[u] \in Status /\ Wire(s[u]) \in Status
  BY WireStatus
<1>7. SUFFICES WorldInv' /\ locked' \in BOOLEAN /\ changes' \in 0 .. MaxChanges
               /\ asked' \in Seq(Requests \cup IdRequests)
  BY DEF TeamsInv, WorldInv
<1>8. CASE OnUserBattleStatusUpdated
  <2>1. WorldInv'
    BY <1>1, <1>8, UpdateKeeps
  <2> QED
    BY <1>1, <1>5, <1>8, <2>1 DEF OnUserBattleStatusUpdated
<1>9. CASE SendMyBattleStatus
  <2>1. Me \in Users /\ Wire(local[Me]) \in Status
    BY <1>3, <1>6, TeamsAssumption
  <2>2. WorldInv'
    BY <1>1, <1>9, <2>1, SendKeeps DEF SendMyBattleStatus
  <2> QED
    BY <1>1, <1>4, <1>5, <1>9, <2>2 DEF SendMyBattleStatus
<1>10. ASSUME NEW value \in BOOLEAN, SetLockExternalBalanceChanges(value) PROVE TeamsInv'
  <2>1. /\ Changes /\ locked' = value /\ wanted' = Choice(local)
        /\ asked' = <<>> /\ local' = local /\ server' = server /\ news' = news
    BY <1>10 DEF SetLockExternalBalanceChanges
  <2>2. /\ wanted' \in Wishes
        /\ \A u \in Users : wanted'[u] = [team |-> local[u].team, ally |-> local[u].ally]
    <3>1. \A u \in Users : local[u].team \in Nat /\ local[u].ally \in Nat
      BY <1>3 DEF Status
    <3> QED
      BY <2>1, <3>1 DEF Choice, Wishes
  <2>3. World' = [local |-> local, server |-> server, news |-> news, wanted |-> wanted']
    BY <2>1 DEF World
  <2>4. PICK z : z = World' /\ z.local = local /\ z.server = server /\ z.news = news
                 /\ z.wanted = wanted'
    <3>1. PICK z : z = World'
      OBVIOUS
    <3>2. z.local = local /\ z.server = server /\ z.news = news /\ z.wanted = wanted'
      BY <2>3, <3>1
    <3> QED
      BY <3>1, <3>2
  <2>5. z \in Worlds
    BY <1>3, <2>2, <2>3, <2>4 DEF Worlds
  <2>6. Told(z)
    <3>1. PICK w : w = World /\ w.local = local /\ w.server = server /\ w.news = news
      BY <1>3
    <3>2. \A u \in Users : Informed(w, u) => Informed(z, u)
      BY <2>4, <3>1 DEF Informed, Quiet, Pending
    <3> QED
      BY <1>2, <3>1, <3>2 DEF Told
  <2>7. Chosen(z)
    BY <2>2, <2>4 DEF Chosen
  <2>8. WorldInv'
    BY <2>4, <2>5, <2>6, <2>7 DEF WorldInv
  <2> QED
    BY <1>4, <1>5, <1>10, <2>1, <2>8 DEF TeamsInv, WorldInv
<1>11. ASSUME NEW u \in Users \ {Me}, NEW status \in Reports, GuestChanges(u, status)
       PROVE  TeamsInv'
  <2>1. status \in Status
    BY TeamsAssumption
  <2>2. WorldInv'
    BY <1>1, <1>11, <2>1, SendKeeps DEF GuestChanges
  <2> QED
    BY <1>1, <1>4, <1>5, <1>11, <2>2 DEF GuestChanges, TeamsInv, WorldInv
<1>12. ASSUME NEW u \in Users, NEW spec \in BOOLEAN, ForceSpectator(u, spec)
       PROVE  TeamsInv'
  <2>1. PICK status :
          /\ status = IF u \in Guests THEN [server[u] EXCEPT !.spectator = TRUE]
                      ELSE Wire([local[u] EXCEPT !.spectator = spec])
          /\ server' = [server EXCEPT ![u] = status]
          /\ news' = Append(news, <<u, status>>)
          /\ Changes /\ asked' = <<>> /\ UNCHANGED <<local, locked, wanted>>
    BY <1>12 DEF ForceSpectator
  <2>2. \A s \in Status, b \in BOOLEAN : [s EXCEPT !.spectator = b] \in Status
    BY DEF Status
  <2>3. [server[u] EXCEPT !.spectator = TRUE] \in Status
    BY <1>3, <1>6, <2>2
  <2>4. PICK mine \in Status : mine = [local[u] EXCEPT !.spectator = spec]
    BY <1>3, <1>6, <2>2
  <2>5. Wire(mine) \in Status
    BY WireStatus
  <2>6. status \in Status
    BY <2>1, <2>3, <2>4, <2>5
  <2>7. WorldInv'
    BY <1>1, <2>1, <2>6, SendKeeps
  <2> QED
    BY <1>1, <1>4, <1>5, <2>1, <2>7 DEF TeamsInv, WorldInv
<1>13. ASSUME NEW w, InOrder(World, w), Becomes(w), Changes,
              asked' \in Seq(Requests \cup IdRequests)
       PROVE  TeamsInv'
  <2>1. WorldInv'
    BY <1>1, <1>13, BecomesKeeps
  <2>2. locked' = locked
    BY <1>13 DEF Becomes
  <2> QED
    BY <1>1, <1>4, <1>13, <2>1, <2>2 DEF TeamsInv, WorldInv
<1>14. ASSUME NEW u \in Users, NEW field \in {"team", "ally"}, NEW v \in Picks,
              OnSelect(u, field, v)
       PROVE  TeamsInv'
  <2>1. v \in Nat
    BY TeamsAssumption
  <2>2. PICK w : w = ForceNumber(World, u, field, v) /\ InOrder(World, w)
    BY <1>2, <2>1, ForceKeeps DEF InOrder
  <2> QED
    BY <1>5, <1>13, <1>14, <2>2 DEF OnSelect
<1>15. \A req \in Requests \cup IdRequests : req \in Request
  BY TeamsAssumption
<1>16. \A positions \in Positions : positions \in Nat
  BY TeamsAssumption
<1>17. ASSUME NEW req \in Requests, OnBalance(req) PROVE TeamsInv'
  <2>1. PICK w \in Autobalance(World, req) : Becomes(w)
    BY <1>17 DEF OnBalance
  <2>2. InOrder(World, w)
    BY <1>2, <1>15, AutobalanceIs
  <2>3. asked' \in Seq(Requests \cup IdRequests) /\ Changes
    BY <1>17 DEF OnBalance
  <2> QED
    BY <1>13, <2>1, <2>2, <2>3
<1>18. ASSUME NEW ids \in IdRequests, NEW positions \in Positions, OnFixTeams(ids, positions)
       PROVE  TeamsInv'
  <2>1. PICK w \in FixTeamIDs(World, ids, positions) : Becomes(w)
    BY <1>18 DEF OnFixTeams
  <2>2. InOrder(World, w)
    BY <1>2, <1>15, <1>16, FixKeeps
  <2> QED
    BY <1>5, <1>13, <1>18, <2>1, <2>2 DEF OnFixTeams
<1>19. ASSUME NEW ids \in IdRequests, NEW positions \in Positions, NEW req \in Requests,
              StartHostedBattle(ids, positions, req)
       PROVE  TeamsInv'
  <2>6. PICK w \in FixTeamIDs(World, ids, positions) : \E x \in Autobalance(w, req) : Becomes(x)
    BY <1>19 DEF StartHostedBattle
  <2>1. PICK x \in Autobalance(w, req) : Becomes(x)
    BY <2>6
  <2>2. InOrder(World, w)
    BY <1>2, <1>15, <1>16, FixKeeps
  <2>3. InOrder(w, x)
    BY <1>15, <2>2, AutobalanceIs DEF InOrder
  <2>4. InOrder(World, x)
    BY <2>2, <2>3 DEF InOrder
  <2>5. asked' \in Seq(Requests \cup IdRequests) /\ Changes
    <3>1. <<ids, req>> \in Seq(Requests \cup IdRequests)
      OBVIOUS
    <3>2. asked' \in {<<ids, req>>, <<>>} /\ Changes
      BY <1>19 DEF StartHostedBattle
    <3> QED
      BY <1>5, <3>1, <3>2
  <2> QED
    BY <1>13, <2>1, <2>4, <2>5
<1>20. CASE UNCHANGED vars
  BY <1>1, <1>20 DEF vars, WorldInv, World
<1>21. CASE Next
  BY <1>7, <1>8, <1>9, <1>10, <1>11, <1>12, <1>14, <1>17, <1>18, <1>19, <1>21
     DEF Next, TeamsInv, WorldInv
<1> QED
  BY <1>20, <1>21

(* The invariant implies what the run checks.                              *)
LEMMA InvRules ==
  ASSUME TeamsInv
  PROVE  HostRules
<1>1. /\ local \in [Users -> Status] /\ server \in [Users -> Status]
      /\ news \in Seq(Users \X Status) /\ wanted \in Wishes
      /\ World.local = local /\ World.server = server
      /\ World.news = news /\ World.wanted = wanted
  BY WorldIs DEF TeamsInv
<1>2. TypeOK
  BY <1>1 DEF TeamsInv, TypeOK, Wishes
<1>3. ASSUME news = <<>> PROVE server = local
  <2>1. \A u \in Users : ~Pending(World, u)
    BY <1>1, <1>3 DEF Pending
  <2>2. \A u \in Users : local[u] = server[u]
    BY <1>1, <2>1 DEF TeamsInv, Told, Informed, Quiet
  <2> QED
    BY <1>1, <2>2
<1>4. ASSUME locked, news = <<>> PROVE Choice(server) = wanted
  <2>1. \A u \in Users : wanted[u] = [team |-> server[u].team, ally |-> server[u].ally]
    BY <1>1, <1>3, <1>4 DEF TeamsInv, Chosen
  <2>2. wanted = [u \in Users |-> wanted[u]]
    BY <1>1 DEF Wishes
  <2> QED
    BY <2>1, <2>2 DEF Choice
<1> QED
  BY <1>2, <1>3, <1>4 DEF HostRules, Agrees, HostDecides

(* Whatever the host and the guests do, with the balance locked or not:    *)
(* when nothing is under way the host and the server have the same         *)
(* statuses, and while the balance is locked those that the host chose     *)
(* (battle.cpp:245-260, tasserver.cpp:1847-1922).                          *)
THEOREM HostRulesCorrect == Spec => []HostRules
<1>1. Init => TeamsInv
  BY InitWorld
<1>2. TeamsInv /\ [Next]_vars => TeamsInv'
  BY InvStep
<1>3. TeamsInv => HostRules
  BY InvRules
<1> QED
  BY <1>1, <1>2, <1>3, PTL DEF Spec

-----------------------------------------------------------------------------
(* A balancing that asks for strong clans deals every clan of two or more. *)
LEMMA StrongClansAreDealt ==
  ASSUME NEW players, IsFiniteSet(players), NEW sides, NEW req, req.clans, req.strong,
         NEW p \in players, NEW q \in players, p # q, Clan[p] = Clan[q]
  PROVE  IsDealt(players, sides, req, Clan[p])
<1> DEFINE members == Members(players, Clan[p])
<1>1. {p, q} \subseteq members /\ members \subseteq players
  BY DEF Members
<1> HIDE DEF members
<1>2. IsFiniteSet(members)
  BY <1>1, FS_Subset
<1>3. PICK one : one = {p} /\ IsFiniteSet(one) /\ Cardinality(one) = 1
  BY FS_Singleton
<1>4. one \cup {q} = {p, q} /\ q \notin one
  BY <1>3
<1>5. Cardinality({p, q}) = 2
  <2>1. Cardinality(one \cup {q}) = Cardinality(one) + 1
    BY <1>3, <1>4, FS_AddElement
  <2> QED
    BY <1>3, <1>4, <2>1
<1>6. Cardinality(members) >= 2
  <2>1. Cardinality({p, q}) <= Cardinality(members)
    BY <1>1, <1>2, FS_Subset
  <2> QED
    BY <1>2, <1>5, <2>1, FS_CardinalityType
<1> QED
  BY <1>6 DEF IsDealt, IsKept, members

(* OnBalance keeps strong clans and teams together.                        *)
LEMMA BalanceIs ==
  ASSUME TeamsInv, NEW req \in Requests, OnBalance(req)
  PROVE  asked' = <<req>> /\ ClansTogether /\ TeamsTogether
<1>1. World \in Worlds /\ Told(World) /\ req \in Request
  BY TeamsAssumption DEF TeamsInv
<1>2. PICK st \in [Users -> Status] : st = local /\ World.local = st
  BY <1>1, WorldIs
<1>3. PICK w \in Autobalance(World, req) : local' = w.local
  BY DEF OnBalance, Becomes
<1>4. PICK deal \in Divide(Representatives(st), Alliances(req.num), req),
           allies \in [Users -> Nat] :
        BalancedBy(st, deal, allies) /\ AlliesOnly(st, allies, w.local)
  BY <1>1, <1>2, AutobalanceIs
<1>5. /\ Representatives(st) \subseteq Players(st) /\ Players(st) \subseteq Users
      /\ Representatives(st) \subseteq Users /\ IsFiniteSet(Representatives(st))
  <2>1. Representatives(st) \subseteq Players(st) /\ Players(st) \subseteq Users
    BY DEF Representatives, Players
  <2> QED
    BY <2>1, UsersFinite, FS_Subset
<1>6. \A p \in Players(st) : local'[p].ally = allies[p]
  BY <1>3, <1>4, <1>5 DEF AlliesOnly
<1>7. TeamsTogether
  BY <1>2, <1>4, <1>6 DEF TeamsTogether, BalancedBy
<1>8. asked' = <<req>>
  BY DEF OnBalance
<1>9. ASSUME req.clans, req.strong,
             NEW p \in Representatives(st), NEW q \in Representatives(st),
             Clan[p] = Clan[q], Clan[p] # NoClan
      PROVE  local'[p].ally = local'[q].ally
  <2>1. p # q => IsDealt(Representatives(st), Alliances(req.num), req, Clan[p])
    BY <1>5, <1>9, StrongClansAreDealt
  <2>2. p # q => deal[p] = deal[q]
    BY <1>5, <1>9, <2>1, DivideDeals
  <2>3. local'[p].ally = deal[p] /\ local'[q].ally = deal[q]
    BY <1>4, <1>5, <1>6 DEF BalancedBy
  <2> QED
    BY <2>2, <2>3
<1>10. ClansTogether
  <2>1. asked'[1] = req
    BY <1>8
  <2> QED
    BY <1>2, <1>9, <2>1 DEF ClansTogether
<1> QED
  BY <1>7, <1>8, <1>10

(* No other step runs Autobalance alone.                                   *)
LEMMA BalanceStep ==
  ASSUME TeamsInv, [Next]_vars
  PROVE  [Len(asked') = 1 => ClansTogether /\ TeamsTogether]_vars
<1>1. SUFFICES ASSUME Next, Len(asked') = 1 PROVE ClansTogether /\ TeamsTogether
  OBVIOUS
<1>2. asked' # <<>>
  BY <1>1
<1>3. \A ids, req : asked' # <<ids, req>>
  BY <1>1
<1>4. CASE \E req \in Requests : OnBalance(req)
  BY <1>4, BalanceIs
<1>5. ~OnUserBattleStatusUpdated /\ ~SendMyBattleStatus
  BY <1>2 DEF OnUserBattleStatusUpdated, SendMyBattleStatus
<1>6. \A value : ~SetLockExternalBalanceChanges(value)
  BY <1>2 DEF SetLockExternalBalanceChanges
<1>7. \A u, status : ~GuestChanges(u, status)
  BY <1>2 DEF GuestChanges
<1>8. \A u, spec : ~ForceSpectator(u, spec)
  BY <1>2 DEF ForceSpectator
<1>9. \A u, field, v : ~OnSelect(u, field, v)
  BY <1>2 DEF OnSelect
<1>10. \A ids, positions : ~OnFixTeams(ids, positions)
  BY <1>2 DEF OnFixTeams
<1>11. \A ids, positions, req : ~StartHostedBattle(ids, positions, req)
  BY <1>2, <1>3 DEF StartHostedBattle
<1> QED
  BY <1>1, <1>4, <1>5, <1>6, <1>7, <1>8, <1>9, <1>10, <1>11 DEF Next

(* A balancing keeps strong clans, and players who share a team, in one    *)
(* alliance, whatever was set by hand before (battle.cpp:860-967).         *)
THEOREM BalanceKeepsTogetherCorrect == Spec => BalanceKeepsTogether
<1>1. Init => TeamsInv
  BY InitWorld
<1>2. TeamsInv /\ [Next]_vars => TeamsInv'
  BY InvStep
<1>3. TeamsInv /\ [Next]_vars => [Len(asked') = 1 => ClansTogether /\ TeamsTogether]_vars
  BY BalanceStep
<1> QED
  BY <1>1, <1>2, <1>3, PTL DEF Spec, BalanceKeepsTogether

-----------------------------------------------------------------------------
(* Fairness.  The ranks of a side add at most a tenth to its number, so    *)
(* among twenty players a side with fewer ones always has the smaller sum. *)
Side(d, a) == {p \in DOMAIN d : d[p] = a}
Count(d, a) == Cardinality(Side(d, a))

(* The sum of a side is between 60 and 66 for each of its players.         *)
LEMMA RankSumIs ==
  ASSUME NEW d, IsFiniteSet(DOMAIN d), NEW a
  PROVE  /\ Count(d, a) \in Nat /\ RankSum(d, a) \in Nat
         /\ 60 * Count(d, a) <= RankSum(d, a) /\ RankSum(d, a) <= 66 * Count(d, a)
<1>1. PICK ps : ps = Side(d, a)
  OBVIOUS
<1>2. ps \subseteq DOMAIN d
  BY <1>1 DEF Side
<1>3. IsFiniteSet(ps) /\ Cardinality(ps) \in Nat
  BY <1>2, FS_Subset, FS_CardinalityType
<1>4. PICK steps : steps = 1 .. 6 /\ IsFiniteSet(steps) /\ Cardinality(steps) = 6
  <2>1. IsFiniteSet(1 .. 6) /\ Cardinality(1 .. 6) = 6
    <3>1. PICK m \in Int, n \in Int : m = 1 /\ n = 6
      OBVIOUS
    <3>2. IsFiniteSet(m .. n) /\ Cardinality(m .. n) = IF m > n THEN 0 ELSE n - m + 1
      BY FS_Interval
    <3>3. ~(m > n) /\ n - m + 1 = 6
      BY <3>1
    <3> QED
      BY <3>1, <3>2, <3>3
  <2> QED
    BY <2>1
<1>5. PICK pairs : /\ pairs = ps \X steps /\ IsFiniteSet(pairs)
                   /\ Cardinality(pairs) = Cardinality(ps) * 6
  <2>1. IsFiniteSet(ps \X steps) /\ Cardinality(ps \X steps) = Cardinality(ps) * Cardinality(steps)
    BY <1>3, <1>4, FS_Product
  <2> QED
    BY <1>4, <2>1
<1> DEFINE up == {x \in pairs : x[2] <= Rank[x[1]]}
<1>6. RankSum(d, a) = 60 * Cardinality(ps) + Cardinality(up)
  BY <1>1, <1>4, <1>5 DEF RankSum, Side
<1>7. up \subseteq pairs
  OBVIOUS
<1> HIDE DEF up
<1>8. IsFiniteSet(up) /\ Cardinality(up) <= Cardinality(pairs)
  BY <1>5, <1>7, FS_Subset
<1>9. Cardinality(up) \in Nat
  BY <1>8, FS_CardinalityType
<1>10. PICK c \in Nat, n \in Nat :
         c = Count(d, a) /\ RankSum(d, a) = 60 * c + n /\ n <= c * 6
  BY <1>1, <1>3, <1>5, <1>6, <1>8, <1>9 DEF Count
<1>11. 60 * c + n \in Nat /\ 60 * c <= 60 * c + n /\ 60 * c + n <= 66 * c
  BY <1>10
<1> QED
  BY <1>10, <1>11

(* A deal in which no side is more than one ahead.                         *)
Fair(players, sides, d) ==
  DOMAIN d \subseteq players /\ \A a, b \in sides : Count(d, a) <= Count(d, b) + 1

(* The side with the lowest sum has the fewest players.                    *)
LEMMA LowestHasFewest ==
  ASSUME NEW players, IsFiniteSet(players), Cardinality(players) <= 20,
         NEW sides, NEW d, Fair(players, sides, d), NEW a \in Lowest(d, sides), NEW b \in sides
  PROVE  Count(d, a) <= Count(d, b)
<1>1. IsFiniteSet(DOMAIN d) /\ Cardinality(DOMAIN d) <= 20 /\ Cardinality(DOMAIN d) \in Nat
  <2>1. /\ IsFiniteSet(DOMAIN d) /\ Cardinality(DOMAIN d) <= Cardinality(players)
    BY FS_Subset DEF Fair
  <2>2. Cardinality(DOMAIN d) \in Nat /\ Cardinality(players) \in Nat
    BY <2>1, FS_CardinalityType
  <2> QED
    BY <2>1, <2>2
<1>2. a \in sides /\ RankSum(d, a) <= RankSum(d, b)
  BY DEF Lowest
<1>3. /\ Count(d, a) \in Nat /\ RankSum(d, a) \in Nat /\ 60 * Count(d, a) <= RankSum(d, a)
      /\ Count(d, b) \in Nat /\ RankSum(d, b) \in Nat /\ RankSum(d, b) <= 66 * Count(d, b)
  BY <1>1, RankSumIs
<1>4. Count(d, a) <= Count(d, b) + 1
  BY <1>2 DEF Fair
<1>5. a # b => Count(d, a) + Count(d, b) <= 20
  <2>1. SUFFICES ASSUME a # b PROVE Count(d, a) + Count(d, b) <= 20
    OBVIOUS
  <2>2. PICK A, B : A = Side(d, a) /\ B = Side(d, b)
    OBVIOUS
  <2>3. A \subseteq DOMAIN d /\ B \subseteq DOMAIN d /\ A \cap B = {}
    BY <2>1, <2>2 DEF Side
  <2>4. IsFiniteSet(A) /\ IsFiniteSet(B)
    BY <1>1, <2>3, FS_Subset
  <2>5. Cardinality(A \cup B) = Cardinality(A) + Cardinality(B) - Cardinality(A \cap B)
    BY <2>4, FS_Union
  <2>6. Cardinality(A \cap B) = 0
    BY <2>3, FS_EmptySet
  <2>7. Cardinality(A \cup B) <= Cardinality(DOMAIN d)
    <3>1. PICK U : U = A \cup B /\ U \subseteq DOMAIN d
      BY <2>3
    <3>2. Cardinality(U) <= Cardinality(DOMAIN d)
      BY <1>1, <3>1, FS_Subset
    <3> QED
      BY <3>1, <3>2
  <2>8. Cardinality(A) = Count(d, a) /\ Cardinality(B) = Count(d, b)
    BY <2>2 DEF Count
  <2> QED
    BY <1>1, <1>3, <2>5, <2>6, <2>7, <2>8
<1>6. \A m, n, r, s \in Nat :
        60 * m <= r /\ s <= 66 * n /\ r <= s /\ m <= n + 1 /\ m + n <= 20 => m <= n
  OBVIOUS
<1> QED
  BY <1>2, <1>3, <1>4, <1>5, <1>6

(* Dealing one more player leaves no side more than one ahead.             *)
LEMMA FairStep ==
  ASSUME NEW players, IsFiniteSet(players), Cardinality(players) <= 20,
         NEW sides, NEW byRank, NEW d, Fair(players, sides, d),
         NEW x \in GiveNext(d, players, sides, byRank)
  PROVE  Fair(players, sides, x)
<1>1. PICK p \in players \ DOMAIN d, a \in Lowest(d, sides) : x = Give(d, {p}, a)
  <2>1. PICK p \in NextOf(players \ DOMAIN d, byRank) : x \in Gives({d}, {p}, sides)
    BY DEF GiveNext
  <2>2. p \in players \ DOMAIN d
    BY DEF NextOf
  <2>3. \E a \in Lowest(d, sides) : x = Give(d, {p}, a)
    BY <2>1 DEF Gives
  <2> QED
    BY <2>2, <2>3
<1>2. DOMAIN x = DOMAIN d \cup {p} /\ x[p] = a /\ \A q \in DOMAIN d : x[q] = d[q]
  BY <1>1 DEF Give
<1>3. Side(x, a) = Side(d, a) \cup {p} /\ p \notin Side(d, a)
  BY <1>1, <1>2 DEF Side
<1>4. \A b : b # a => Side(x, b) = Side(d, b)
  BY <1>1, <1>2 DEF Side
<1>5. DOMAIN d \subseteq players /\ \A b, c \in sides : Count(d, b) <= Count(d, c) + 1
  BY DEF Fair
<1>6. IsFiniteSet(DOMAIN d)
  BY <1>5, FS_Subset
<1>7. \A b : Count(d, b) \in Nat /\ IsFiniteSet(Side(d, b))
  <2>1. \A b : Side(d, b) \subseteq DOMAIN d
    BY DEF Side
  <2> QED
    BY <1>6, <2>1, RankSumIs, FS_Subset
<1>8. Count(x, a) = Count(d, a) + 1
  <2>1. PICK A : A = Side(d, a) /\ IsFiniteSet(A) /\ p \notin A /\ Side(x, a) = A \cup {p}
    BY <1>3, <1>7
  <2>2. Cardinality(A \cup {p}) = Cardinality(A) + 1
    BY <2>1, FS_AddElement
  <2> QED
    BY <2>1, <2>2 DEF Count
<1>9. \A b : b # a => Count(x, b) = Count(d, b)
  BY <1>4 DEF Count
<1>10. \A b \in sides : Count(d, a) <= Count(d, b)
  BY LowestHasFewest
<1>11. a \in sides
  BY DEF Lowest
<1>12. ASSUME NEW b \in sides, NEW c \in sides PROVE Count(x, b) <= Count(x, c) + 1
  <2>1. CASE b = a /\ c = a
    BY <1>7, <1>8, <2>1
  <2>2. CASE b = a /\ c # a
    BY <1>7, <1>8, <1>9, <1>10, <2>2
  <2>3. CASE b # a /\ c = a
    BY <1>5, <1>7, <1>8, <1>9, <2>3
  <2>4. CASE b # a /\ c # a
    BY <1>5, <1>9, <2>4
  <2> QED
    BY <2>1, <2>2, <2>3, <2>4
<1>13. DOMAIN x \subseteq players
  BY <1>1, <1>2, <1>5
<1> QED
  BY <1>12, <1>13 DEF Fair

(* Without clans no side ends up more than one ahead.                      *)
LEMMA DivideIsFair ==
  ASSUME NEW players, IsFiniteSet(players), Cardinality(players) <= 20,
         NEW sides, NEW req, ~req.clans, NEW x \in Divide(players, sides, req)
  PROVE  Fair(players, sides, x)
<1> DEFINE n == Cardinality(players)
           dealt == DealClans(players, sides, req)
<1>0. n \in Nat
  BY FS_CardinalityType
<1>1. {p \in players : Clan[p] = NoClan \/ ~IsDealt(players, sides, req, Clan[p])} = players
  BY DEF IsDealt
<1>2. x \in DealPlayers(dealt, players, sides, req.byRank)
  BY <1>1 DEF Divide
<1>3. \A e \in dealt : Fair(players, sides, e)
  <2>1. ASSUME NEW e \in dealt PROVE Fair(players, sides, e)
    <3>1. ClanDealt(players, sides, req, Len(ClanOrder), e)
      BY DealClansAre
    <3>2. DOMAIN e = {}
      BY <3>1 DEF ClanDealt, InClan, IsDealt
    <3>3. \A a : Count(e, a) = 0
      BY <3>2, FS_EmptySet DEF Count, Side
    <3> QED
      BY <3>2, <3>3 DEF Fair
  <2> QED
    BY <2>1
<1> HIDE DEF n, dealt
<1>4. PICK deals : /\ PlayerDeals(dealt, players, sides, req.byRank, deals)
                   /\ DealPlayers(dealt, players, sides, req.byRank) = deals[n]
  BY <1>0, PlayerLoop DEF n
<1> DEFINE After(ds) == UNION {GiveNext(d, players, sides, req.byRank) : d \in ds}
<1>5. \A i \in 0 .. n : deals[i] = IF i = 0 THEN dealt ELSE After(deals[i - 1])
  BY <1>4 DEF PlayerDeals, n
<1>6. \A ds : \A y \in After(ds) : \E d \in ds : y \in GiveNext(d, players, sides, req.byRank)
  OBVIOUS
<1> HIDE DEF After
<1> DEFINE S == {i \in 0 .. n : \A d \in deals[i] : Fair(players, sides, d)}
<1>7. 0 \in S
  BY <1>0, <1>3, <1>5
<1>8. ASSUME NEW i \in 1 .. n, i - 1 \in S PROVE i \in S
  <2>1. i \in 0 .. n /\ i # 0 /\ \A d \in deals[i - 1] : Fair(players, sides, d)
    BY <1>0, <1>8
  <2>2. ASSUME NEW y \in deals[i] PROVE Fair(players, sides, y)
    <3>1. y \in After(deals[i - 1])
      BY <1>5, <2>1
    <3>2. PICK d \in deals[i - 1] : y \in GiveNext(d, players, sides, req.byRank)
      BY <1>6, <3>1
    <3>3. Fair(players, sides, d)
      BY <2>1
    <3> QED
      BY <3>2, <3>3, FairStep
  <2> QED
    BY <2>1, <2>2
<1>9. n \in S
  <2> HIDE DEF S
  <2>1. \A i \in 1 .. n : i - 1 \in S => i \in S
    BY <1>8
  <2>2. 0 .. n \subseteq S
    BY <1>0, <1>7, <2>1, NumbersUpTo
  <2> QED
    BY <1>0, <2>2
<1> QED
  BY <1>2, <1>4, <1>9

(* A player with a team of its own represents it.                          *)
LEMMA AllRepresent ==
  ASSUME NEW st, \A p, q \in Players(st) : st[p].team = st[q].team => p = q
  PROVE  Representatives(st) = Players(st)
<1>1. ASSUME NEW u \in Players(st) PROVE u \in Representatives(st)
  <2>1. PICK r \in Representatives(st) : st[r].team = st[u].team
    BY OneRepresentative
  <2>2. r \in Players(st)
    BY DEF Representatives
  <2> QED
    BY <2>1, <2>2
<1> QED
  BY <1>1 DEF Representatives

(* If each player has a team of its own there are as many teams as         *)
(* players.                                                                *)
LEMMA TeamsCounted ==
  ASSUME NEW st, \A p, q \in Players(st) : st[p].team = st[q].team => p = q
  PROVE  Cardinality(TeamsOf(st)) = Cardinality(Players(st))
<1> DEFINE f == [u \in Players(st) |-> st[u].team]
<1>1. f \in [Players(st) -> TeamsOf(st)] /\ \A p \in Players(st) : f[p] = st[p].team
  BY DEF TeamsOf
<1>2. \A t \in TeamsOf(st) : \E p \in Players(st) : f[p] = t
  BY DEF TeamsOf
<1> HIDE DEF f
<1>3. f \in Surjection(Players(st), TeamsOf(st))
  BY <1>1, <1>2 DEF Surjection
<1>4. f \in Injection(Players(st), TeamsOf(st))
  BY <1>1 DEF Injection, IsInjective
<1> QED
  BY <1>3, <1>4, UsersFinite, FS_Surjection

(* StartHostedBattle balances the teams that FixTeamIDs made.              *)
LEMMA StartIs ==
  ASSUME TeamsInv,
         NEW ids \in IdRequests, NEW positions \in Positions, NEW req \in Requests,
         StartHostedBattle(ids, positions, req),
         Len(asked') = 2, Cardinality(Players(local')) <= 20
  PROVE  StartIsFair'
<1>1. /\ World \in Worlds /\ Told(World) /\ ids \in Request /\ req \in Request
      /\ positions \in Nat
  BY TeamsAssumption DEF TeamsInv
<1>2. World.local = local
  BY <1>1, WorldIs
<1>3. OneEach(World.local, ids.num, positions) /\ asked' = <<ids, req>>
  BY <1>2 DEF StartHostedBattle
<1>4. PICK w \in FixTeamIDs(World, ids, positions) : \E x \in Autobalance(w, req) : Becomes(x)
  BY DEF StartHostedBattle
<1>5. PICK x \in Autobalance(w, req) : local' = x.local
  BY <1>4 DEF Becomes
<1>6. w \in Worlds /\ Told(w)
  BY <1>1, FixKeeps DEF InOrder
<1>7. PICK st \in [Users -> Status] : st = w.local
  BY <1>6 DEF Worlds
<1>8. \A p, q \in Players(st) : st[p].team = st[q].team => p = q
  BY <1>1, <1>3, <1>7, FixIsDistinct
<1>9. PICK deal \in Divide(Representatives(st), Alliances(req.num), req),
           allies \in [Users -> Nat] :
        BalancedBy(st, deal, allies) /\ AlliesOnly(st, allies, x.local)
  BY <1>1, <1>6, <1>7, AutobalanceIs
<1>10. PICK ps : ps = Players(st) /\ IsFiniteSet(ps) /\ ps \subseteq Users
  BY UsersFinite DEF Players
<1>11. PICK now : now = local' /\ now = x.local
  BY <1>5
<1>12. Players(now) = ps
  BY <1>9, <1>10, <1>11 DEF AlliesOnly, Players
<1>13. \A p, q \in Players(now) : now[p].team = now[q].team => p = q
  BY <1>8, <1>9, <1>10, <1>11, <1>12 DEF AlliesOnly
<1>14. Representatives(st) = ps
  BY <1>8, <1>10, AllRepresent
<1>15. DOMAIN deal = ps
  BY <1>9, <1>10, <1>14, DivideDeals
<1>16. \A p \in ps : now[p].ally = deal[p]
  BY <1>9, <1>10, <1>11, <1>14 DEF AlliesOnly, BalancedBy
<1>17. \A a : {p \in ps : now[p].ally = a} = Side(deal, a)
  BY <1>15, <1>16 DEF Side
<1> DEFINE sides == Alliances(req.num)
           counts == [a \in sides |-> Cardinality({p \in ps : now[p].ally = a})]
<1>18. ASSUME ~req.clans PROVE Apart(counts, sides)
  <2>1. Fair(ps, sides, deal)
    BY <1>9, <1>10, <1>11, <1>12, <1>14, <1>18, DivideIsFair
  <2>2. \A a \in sides : counts[a] = Count(deal, a)
    BY <1>17 DEF Count
  <2>3. \A a \in sides : Count(deal, a) \in Nat
    BY <1>10, <1>15, RankSumIs
  <2> HIDE DEF sides, counts
  <2>4. \A a, b \in sides : counts[a] - counts[b] \in -1 .. 1
    BY <2>1, <2>2, <2>3 DEF Fair
  <2> QED
    BY <2>4 DEF Apart
<1>19. Cardinality(TeamsOf(now)) = Cardinality(ps)
  BY <1>12, <1>13, TeamsCounted
<1>20. ~asked'[2].clans =>
         /\ Cardinality(TeamsOf(now)) = Cardinality(Players(now))
         /\ Apart([a \in Alliances(asked'[2].num) |->
                     Cardinality({p \in Players(now) : now[p].ally = a})],
                  Alliances(asked'[2].num))
  <2>1. asked'[2] = req
    BY <1>3
  <2> QED
    BY <1>12, <1>18, <1>19, <2>1
<1> QED
  BY <1>11, <1>20 DEF StartIsFair

(* The state property that the theorem is about.                           *)
StartFew == Cardinality(Players(local)) <= 20 => StartIsFair

(* No other step runs both.                                                *)
LEMMA StartStep ==
  ASSUME TeamsInv, StartFew, [Next]_vars
  PROVE  StartFew'
<1>1. SUFFICES ASSUME Len(asked') = 2, Cardinality(Players(local')) <= 20 PROVE StartIsFair'
  BY DEF StartFew, StartIsFair
<1>2. asked' # <<>>
  BY <1>1
<1>3. \A req : asked' # <<req>>
  BY <1>1
<1>4. CASE \E ids \in IdRequests, positions \in Positions, req \in Requests :
             StartHostedBattle(ids, positions, req)
  BY <1>1, <1>4, StartIs
<1>5. ~OnUserBattleStatusUpdated /\ ~SendMyBattleStatus
  BY <1>2 DEF OnUserBattleStatusUpdated, SendMyBattleStatus
<1>6. \A value : ~SetLockExternalBalanceChanges(value)
  BY <1>2 DEF SetLockExternalBalanceChanges
<1>7. \A u, status : ~GuestChanges(u, status)
  BY <1>2 DEF GuestChanges
<1>8. \A u, spec : ~ForceSpectator(u, spec)
  BY <1>2 DEF ForceSpectator
<1>9. \A u, field, v : ~OnSelect(u, field, v)
  BY <1>2 DEF OnSelect
<1>10. \A ids, positions : ~OnFixTeams(ids, positions)
  BY <1>2 DEF OnFixTeams
<1>11. \A req : ~OnBalance(req)
  BY <1>3 DEF OnBalance
<1>12. CASE UNCHANGED vars
  BY <1>1, <1>12 DEF vars, StartFew, StartIsFair
<1>13. CASE Next
  BY <1>4, <1>5, <1>6, <1>7, <1>8, <1>9, <1>10, <1>11, <1>13 DEF Next
<1> QED
  BY <1>12, <1>13

(* At the start of a game each player has a team and the alliances differ  *)
(* by one player at most, as long as there are no more than twenty: beyond *)
(* them a rank can outweigh a player (battle.cpp:593-598, 789-812).        *)
THEOREM StartIsFairCorrect ==
  Spec => [](Cardinality(Players(local)) <= 20 => StartIsFair)
<1>1. Init => TeamsInv
  BY InitWorld
<1>2. Init => StartFew
  BY DEF Init, StartFew, StartIsFair
<1>3. TeamsInv /\ [Next]_vars => TeamsInv'
  BY InvStep
<1>4. TeamsInv /\ StartFew /\ [Next]_vars => StartFew'
  BY StartStep
<1>5. StartFew => (Cardinality(Players(local)) <= 20 => StartIsFair)
  BY DEF StartFew
<1> QED
  BY <1>1, <1>2, <1>3, <1>4, <1>5, PTL DEF Spec
=============================================================================

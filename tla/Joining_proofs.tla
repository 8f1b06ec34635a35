--------------------------- MODULE Joining_proofs ---------------------------
(***************************************************************************)
(* The safety properties of Joining for any battles, relay bots, time-outs *)
(* and numbers of calls and connections.                                   *)
(***************************************************************************)
EXTENDS Joining, TLAPS

(* A wish and a delayed command are of calls that were made and have not   *)
(* been served, and of two different ones; a call that was not made has    *)
(* not been served.                                                        *)
CallsInv ==
  /\ \A c \in Calls : served[c] <= 1
  /\ \A c \in Calls : c > calls => served[c] = 0
  /\ wishCall <= calls /\ delayed <= calls /\ spawns <= calls
  /\ wish => wishCall # 0 /\ served[wishCall] = 0
  /\ delayed # 0 => served[delayed] = 0
  /\ wish /\ delayed # 0 => wishCall # delayed

(* The stamp that the timer reads is not older than the wish: the pings    *)
(* that keep the hole open only make it younger.                           *)
WishInv ==
  wish => wishId \in Battles /\ (age <= waited \/ waited > udp_reply_timeout)

(* Between two connections nobody is told anything.                        *)
LinkInv == ~connected => told = {} /\ session < MaxSessions

IInv == TypeOK /\ CallsInv /\ WishInv /\ LinkInv
-----------------------------------------------------------------------------
(* The types by the part of the state that they are about.                 *)
PlaceOK ==
  /\ connected \in BOOLEAN /\ session \in 1 .. MaxSessions
  /\ founder \in [Battles -> RelayBots \cup {Me, "other", None}]
  /\ battleId \in Battles \cup {None} /\ inRoom \in BOOLEAN
  /\ asked \subseteq {"open", "join"} \X Battles

RelayOK ==
  /\ waiting \in BOOLEAN /\ bot \in RelayBots \cup {None}
  /\ answers \subseteq started /\ online \subseteq started
  /\ started \subseteq RelayBots /\ told \subseteq online

NatOK ==
  /\ wish \in BOOLEAN /\ wishId \in Battles \cup {None}
  /\ age \in 0 .. AgeCap /\ pinged \in BOOLEAN
  /\ waited \in 0 .. udp_reply_timeout + 1

CountsOK ==
  /\ delayed \in 0 .. MaxCalls /\ spawns \in 0 .. MaxCalls
  /\ calls \in 0 .. MaxCalls /\ wishCall \in 0 .. MaxCalls
  /\ served \in [Calls -> 0 .. 2]

(* The type invariant is the conjunction of its parts.                     *)
LEMMA TypeParts == TypeOK <=> PlaceOK /\ RelayOK /\ NatOK /\ CountsOK
  BY DEF TypeOK, PlaceOK, RelayOK, NatOK, CountsOK

(* The calls and what they led to, which only four operators change.       *)
CallsPart == CountsOK /\ CallsInv

callVars == <<wish, wishCall, calls, delayed, spawns, served>>

(* Nothing about the calls changes.                                        *)
LEMMA CallsKept ==
  ASSUME CallsPart, UNCHANGED callVars
  PROVE  CallsPart'
  BY DEF CallsPart, CountsOK, CallsInv, callVars

(* JoinBattle makes a call and serves it, or leaves a wish.                *)
LEMMA JoinCalls ==
  ASSUME CallsPart, NEW b \in Battles, JoinBattle(b), UNCHANGED <<delayed, spawns>>
  PROVE  CallsPart'
<1>1. calls < MaxCalls /\ calls' = calls + 1 /\ wishCall' = calls + 1
  BY DEF JoinBattle
<1>2. calls + 1 \in Calls /\ served[calls + 1] = 0
  BY <1>1, JoiningAssumption DEF CallsPart, CountsOK, CallsInv, Calls
<1>3. CASE wish' = TRUE /\ served' = served
  BY <1>1, <1>2, <1>3, JoiningAssumption DEF CallsPart, CountsOK, CallsInv, Calls
<1>4. CASE wish' = FALSE /\ served' = [served EXCEPT ![calls'] = Once(@)]
  <2>1. served' = [served EXCEPT ![calls + 1] = 1]
    <3>1. Once(served[calls + 1]) = 1
      BY <1>2 DEF Once
    <3>2. served' = [served EXCEPT ![calls + 1] = Once(served[calls + 1])]
      BY <1>1, <1>4
    <3> QED
      BY <3>1, <3>2
  <2> QED
    BY <1>1, <1>2, <1>4, <2>1, JoiningAssumption
    DEF CallsPart, CountsOK, CallsInv, Calls
<1> QED
  BY <1>3, <1>4 DEF JoinBattle

(* What is served once is served for good.                                 *)
LEMMA ServesOne ==
  ASSUME CallsPart, NEW c \in 1 .. calls, served[c] = 0
  PROVE  Serves(c) = [served EXCEPT ![c] = 1] /\ c \in Calls
<1>1. c \in Calls /\ c # 0
  BY JoiningAssumption DEF CallsPart, CountsOK, Calls
<1>2. Once(served[c]) = 1
  BY DEF Once
<1>3. Serves(c) = [served EXCEPT ![c] = Once(served[c])]
  BY <1>1 DEF Serves
<1> QED
  BY <1>1, <1>2, <1>3

(* The wish is granted.                                                    *)
LEMMA FinalizeCalls ==
  ASSUME CallsPart, wish \in BOOLEAN, FinalizeJoinBattle,
         UNCHANGED <<wishCall, calls, delayed, spawns>>
  PROVE  CallsPart'
<1>1. CASE wish
  <2>1. wishCall \in 1 .. calls /\ served[wishCall] = 0
    BY <1>1 DEF CallsPart, CountsOK, CallsInv
  <2>2. served' = [served EXCEPT ![wishCall] = 1] /\ wishCall \in Calls
    BY <1>1, <2>1, ServesOne DEF FinalizeJoinBattle
  <2>3. wish' = FALSE
    BY <1>1 DEF FinalizeJoinBattle
  <2> QED
    BY <1>1, <2>1, <2>2, <2>3 DEF CallsPart, CountsOK, CallsInv, Calls
<1>2. CASE ~wish
  BY <1>2, CallsKept DEF FinalizeJoinBattle, callVars
<1> QED
  BY <1>1, <1>2

(* The bot gets the delayed command.                                       *)
LEMMA DelayedCalls ==
  ASSUME CallsPart, served' = Serves(delayed), delayed' = 0,
         UNCHANGED <<wish, wishCall, calls, spawns>>
  PROVE  CallsPart'
<1>1. CASE delayed = 0
  BY <1>1, CallsKept DEF Serves, callVars
<1>2. CASE delayed # 0
  <2>1. delayed \in 1 .. calls /\ served[delayed] = 0
    BY <1>2 DEF CallsPart, CountsOK, CallsInv
  <2>2. served' = [served EXCEPT ![delayed] = 1] /\ delayed \in Calls
    BY <2>1, ServesOne
  <2> QED
    BY <1>2, <2>1, <2>2, JoiningAssumption DEF CallsPart, CountsOK, CallsInv, Calls
<1> QED
  BY <1>1, <1>2

(* A call of HostBattle for a relayed battle, or a request that is over.   *)
LEMMA HostCalls ==
  ASSUME CallsPart, UNCHANGED <<wish, wishCall, served>>,
         \/ /\ calls < MaxCalls /\ calls' = calls + 1
            /\ delayed' = calls + 1 /\ spawns' = spawns + 1
         \/ /\ calls' = calls /\ delayed' \in {0, delayed}
            /\ spawns' \in 0 .. spawns
  PROVE  CallsPart'
  BY JoiningAssumption DEF CallsPart, CountsOK, CallsInv, Calls
-----------------------------------------------------------------------------
(* The wish with its clock.                                                *)
NatPart == NatOK /\ WishInv

(* Nothing about the wish and its clock changes.                           *)
LEMMA NatKept ==
  ASSUME NatPart, UNCHANGED nat
  PROVE  NatPart'
  BY DEF NatPart, NatOK, WishInv, nat

(* A call of JoinBattle starts the clock of its wish.                      *)
LEMMA JoinNat ==
  ASSUME NatPart, NEW b \in Battles, JoinBattle(b)
  PROVE  NatPart'
<1>1. waited' = 0 /\ wishId' = b
  BY DEF JoinBattle
<1>2. waited' \in 0 .. udp_reply_timeout + 1 /\ 0 \in 0 .. AgeCap
  BY <1>1, JoiningAssumption DEF AgeCap
<1>3. CASE b \in NatBattles
  <2>1. wish' = TRUE /\ pinged' = TRUE /\ age' = 0
    BY <1>3 DEF JoinBattle
  <2>2. age' <= waited'
    BY <1>1, <2>1
  <2> QED
    BY <1>1, <1>2, <2>1, <2>2, Zenon DEF NatPart, NatOK, WishInv
<1>4. CASE b \notin NatBattles
  <2>1. wish' = FALSE /\ pinged' = pinged /\ age' = age
    BY <1>4 DEF JoinBattle
  <2> QED
    BY <1>1, <1>2, <2>1, Zenon DEF NatPart, NatOK, WishInv
<1> QED
  BY <1>3, <1>4

(* The wish is granted or kept, and the stamp is not made older.           *)
LEMMA YoungerNat ==
  ASSUME NatPart, wish' \in {wish, FALSE}, age' \in {age, 0},
         pinged' \in BOOLEAN, UNCHANGED <<wishId, waited>>
  PROVE  NatPart'
<1>1. wish' \in BOOLEAN /\ pinged' \in BOOLEAN /\ wishId' \in Battles \cup {None}
  BY DEF NatPart, NatOK
<1>2. age' \in 0 .. AgeCap /\ waited' \in 0 .. udp_reply_timeout + 1 /\ age' <= age
  BY JoiningAssumption DEF NatPart, NatOK, AgeCap
<1>3. wish' => wish
  OBVIOUS
<1>4. WishInv'
  BY <1>2, <1>3, JoiningAssumption DEF NatPart, NatOK, WishInv, AgeCap
<1> QED
  BY <1>1, <1>2, <1>4, Zenon DEF NatPart, NatOK

(* The timer makes the stamp and the wait older alike.                     *)
LEMMA TickNat ==
  ASSUME NatPart, Tick
  PROVE  NatPart'
<1>1. UNCHANGED <<wish, wishId, pinged>>
  BY DEF Tick
<1>2. /\ age' = IF age = AgeCap THEN age ELSE age + 1
      /\ waited' = IF waited > udp_reply_timeout THEN waited ELSE waited + 1
  BY DEF Tick
<1>3. age' \in 0 .. AgeCap /\ waited' \in 0 .. udp_reply_timeout + 1
  BY <1>2, JoiningAssumption DEF NatPart, NatOK, AgeCap
<1>4. age <= waited \/ waited > udp_reply_timeout =>
        age' <= waited' \/ waited' > udp_reply_timeout
  BY <1>2, JoiningAssumption DEF NatPart, NatOK, AgeCap
<1> QED
  BY <1>1, <1>3, <1>4, Zenon DEF NatPart, NatOK, WishInv

-----------------------------------------------------------------------------
(* Battles, connection and relay bots.                                     *)
PlacePart == PlaceOK /\ RelayOK /\ LinkInv

placeVars == <<connected, session, place, asked>>
relayVars == <<waiting, bot, answers, started, online, told>>

(* Nothing about the client's place changes.                               *)
LEMMA PlaceKept ==
  ASSUME PlacePart, UNCHANGED <<placeVars, relayVars>>
  PROVE  PlacePart'
  BY DEF PlacePart, PlaceOK, RelayOK, LinkInv, placeVars, relayVars, place

(* Questions are asked and answered.                                       *)
LEMMA AskedPlace ==
  ASSUME PlacePart, asked' \subseteq {"open", "join"} \X Battles,
         UNCHANGED <<connected, session, place, relayVars>>
  PROVE  PlacePart'
  BY DEF PlacePart, PlaceOK, RelayOK, LinkInv, relayVars, place

(* What JoinBattle asks of the server is of its own battle.                *)
LEMMA JoinAsks ==
  ASSUME PlaceOK, NEW b \in Battles, JoinBattle(b)
  PROVE  asked' \subseteq {"open", "join"} \X Battles
  BY DEF PlaceOK, JoinBattle

(* What a granted wish asks is of a battle of the list.                    *)
LEMMA FinalizeAsks ==
  ASSUME PlaceOK, NatOK, wish => wishId \in Battles, FinalizeJoinBattle
  PROVE  asked' \subseteq {"open", "join"} \X Battles
  BY DEF PlaceOK, NatOK, FinalizeJoinBattle
-----------------------------------------------------------------------------
Parts == PlacePart /\ NatPart /\ CallsPart

(* The invariant, by parts.                                                *)
LEMMA IInvParts == IInv <=> Parts
  BY TypeParts DEF IInv, Parts, PlacePart, NatPart, CallsPart

(* The initial state.                                                      *)
LEMMA PartsInit == Init => Parts
<1> SUFFICES ASSUME Init PROVE Parts
  OBVIOUS
<1>1. PlacePart
  <2>1. session \in 1 .. MaxSessions
    BY JoiningAssumption DEF Init
  <2>2. founder \in [Battles -> RelayBots \cup {Me, "other", None}]
    BY DEF Init
  <2> QED
    BY <2>1, <2>2, Zenon DEF Init, PlacePart, PlaceOK, RelayOK, LinkInv
<1>2. NatPart
  <2>1. age \in 0 .. AgeCap /\ waited \in 0 .. udp_reply_timeout + 1
    BY JoiningAssumption DEF Init, AgeCap
  <2> QED
    BY <2>1, Zenon DEF Init, NatPart, NatOK, WishInv
<1>3. CallsPart
  BY JoiningAssumption DEF Init, CallsPart, CountsOK, CallsInv, Calls
<1> QED
  BY <1>1, <1>2, <1>3 DEF Parts

(* Joining.                                                                *)
LEMMA JoiningSteps ==
  ASSUME Parts,
         \/ \E b \in Battles : Join(b)
         \/ UdpSourcePort \/ UdpLost \/ Update \/ Tick
  PROVE  Parts'
<1>1. PlacePart /\ NatPart /\ CallsPart
  BY DEF Parts
<1>2. ASSUME FinalizeJoinBattle, UNCHANGED <<connected, session, place, relay>>,
             UNCHANGED <<wishId, wishCall, waited, calls>>,
             age' \in {age, 0}, pinged' \in BOOLEAN
      PROVE  Parts'
  <2>1. asked' \subseteq {"open", "join"} \X Battles
    BY <1>1, <1>2, FinalizeAsks DEF PlacePart, NatPart, WishInv
  <2>2. PlacePart'
    BY <1>1, <1>2, <2>1, AskedPlace DEF relay, relayVars
  <2>3. wish' \in {wish, FALSE}
    BY <1>2 DEF FinalizeJoinBattle
  <2>4. NatPart'
    BY <1>1, <1>2, <2>3, YoungerNat
  <2>5. CallsPart'
    BY <1>1, <1>2, FinalizeCalls DEF NatPart, NatOK, relay
  <2> QED
    BY <2>2, <2>4, <2>5 DEF Parts
<1>3. ASSUME NEW b \in Battles, Join(b)
      PROVE  Parts'
  <2>1. JoinBattle(b) /\ UNCHANGED <<connected, session, place, relay>>
    BY <1>3 DEF Join
  <2>2. PlacePart'
    BY <1>1, <2>1, JoinAsks, AskedPlace DEF PlacePart, relay, relayVars
  <2>3. NatPart' /\ CallsPart'
    BY <1>1, <2>1, JoinNat, JoinCalls DEF relay
  <2> QED
    BY <2>2, <2>3 DEF Parts
<1>4. CASE UdpSourcePort
  BY <1>2, <1>4 DEF UdpSourcePort
<1>5. CASE UdpLost
  <2>1. PlacePart' /\ CallsPart'
    BY <1>1, <1>5, PlaceKept, CallsKept
    DEF UdpLost, placeVars, relayVars, relay, callVars
  <2>2. NatPart'
    BY <1>1, <1>5, YoungerNat DEF UdpLost
  <2> QED
    BY <2>1, <2>2 DEF Parts
<1>6. CASE Update
  <2>1. pinged' \in BOOLEAN /\ age' \in {age, 0}
    BY <1>1, <1>6 DEF Update, NatPart, NatOK
  <2>2. CASE age > udp_reply_timeout
    BY <1>2, <1>6, <2>1, <2>2 DEF Update
  <2>3. CASE ~(age > udp_reply_timeout)
    <3>1. PlacePart' /\ CallsPart'
      BY <1>1, <1>6, <2>3, PlaceKept, CallsKept
      DEF Update, placeVars, relayVars, relay, callVars
    <3>2. NatPart'
      BY <1>1, <1>6, <2>1, <2>3, YoungerNat DEF Update
    <3> QED
      BY <3>1, <3>2 DEF Parts
  <2> QED
    BY <2>2, <2>3
<1>7. CASE Tick
  <2>1. PlacePart' /\ CallsPart'
    BY <1>1, <1>7, PlaceKept, CallsKept
    DEF Tick, placeVars, relayVars, relay, callVars
  <2> QED
    BY <1>1, <1>7, <2>1, TickNat DEF Parts
<1> QED
  BY <1>3, <1>4, <1>5, <1>6, <1>7

(* What the server says of battles, and what the user asks it.             *)
LEMMA BattleSteps ==
  ASSUME Parts,
         \/ \E b \in Battles :
              \/ HostBattle(b) \/ OnJoinedBattle(b) \/ OnHostedBattle(b)
              \/ OtherOpens(b) \/ OnBattleClosed(b)
         \/ \E question \in asked : Refused(question)
         \/ LeaveBattle \/ OnKicked
  PROVE  Parts'
<1>1. PlacePart /\ NatPart /\ CallsPart
  BY DEF Parts
<1>2. ASSUME NEW b \in Battles, HostBattle(b)
      PROVE  Parts'
  <2>1. PlacePart'
    BY <1>1, <1>2 DEF HostBattle, PlacePart, PlaceOK, RelayOK, LinkInv, place
  <2>2. pinged' \in BOOLEAN
    BY <1>1, <1>2 DEF HostBattle, NatPart, NatOK
  <2>3. NatPart'
    BY <1>1, <1>2, <2>2, YoungerNat DEF HostBattle
  <2>4. spawns \in 0 .. spawns
    BY <1>1 DEF CallsPart, CountsOK
  <2>5. CallsPart'
    BY <1>1, <1>2, <2>4, HostCalls DEF HostBattle
  <2> QED
    BY <2>1, <2>3, <2>5 DEF Parts
<1>3. ASSUME \/ \E b \in Battles :
                  \/ OnJoinedBattle(b) \/ OnHostedBattle(b)
                  \/ OtherOpens(b) \/ OnBattleClosed(b)
             \/ \E question \in asked : Refused(question)
             \/ LeaveBattle \/ OnKicked
      PROVE  Parts'
  <2>1. UNCHANGED nat /\ UNCHANGED callVars
    BY <1>3 DEF OnJoinedBattle, OnHostedBattle, OtherOpens, OnBattleClosed, Refused,
                LeaveBattle, OnKicked, nat, relay, callVars
  <2>2. NatPart' /\ CallsPart'
    BY <1>1, <2>1, NatKept, CallsKept
  <2>3. ASSUME NEW b \in Battles, OnJoinedBattle(b)
        PROVE  Parts'
    BY <1>1, <2>2, <2>3
    DEF OnJoinedBattle, Parts, PlacePart, PlaceOK, RelayOK, LinkInv, relay
  <2>4. ASSUME NEW b \in Battles, OnHostedBattle(b)
        PROVE  Parts'
    BY <1>1, <2>2, <2>4
    DEF OnHostedBattle, Parts, PlacePart, PlaceOK, RelayOK, LinkInv, relay
  <2>5. ASSUME NEW b \in Battles, OtherOpens(b)
        PROVE  Parts'
    BY <1>1, <2>2, <2>5
    DEF OtherOpens, Parts, PlacePart, PlaceOK, RelayOK, LinkInv, relay
  <2>6. ASSUME NEW b \in Battles, OnBattleClosed(b)
        PROVE  Parts'
    BY <1>1, <2>2, <2>6
    DEF OnBattleClosed, Parts, PlacePart, PlaceOK, RelayOK, LinkInv
  <2>7. CASE \E question \in asked : Refused(question)
    BY <1>1, <2>2, <2>7
    DEF Refused, Parts, PlacePart, PlaceOK, RelayOK, LinkInv, relay, place
  <2>8. CASE LeaveBattle
    BY <1>1, <2>2, <2>8
    DEF LeaveBattle, Parts, PlacePart, PlaceOK, RelayOK, LinkInv
  <2>9. CASE OnKicked
    BY <1>1, <2>2, <2>9
    DEF OnKicked, Parts, PlacePart, PlaceOK, RelayOK, LinkInv
  <2> QED
    BY <1>3, <2>3, <2>4, <2>5, <2>6, <2>7, <2>8, <2>9
<1> QED
  BY <1>2, <1>3
(* The manager, the bots and the battles they open.                        *)
LEMMA RelaySteps ==
  ASSUME Parts,
         \/ HostBattleRelayed \/ ManagerRefuses
         \/ \E x \in RelayBots :
              \/ ManagerSpawns(x) \/ ManagerAnswers(x) \/ OnAddUser(x)
              \/ \E b \in Battles : OnBattleOpened(x, b)
  PROVE  Parts'
<1>1. PlacePart /\ NatPart /\ CallsPart
  BY DEF Parts
<1>2. spawns \in Nat /\ calls \in Nat
  BY <1>1 DEF CallsPart, CountsOK
<1>3. CASE HostBattleRelayed
  <2>1. PlacePart'
    BY <1>1, <1>3
    DEF HostBattleRelayed, PlacePart, PlaceOK, RelayOK, LinkInv, place
  <2>2. pinged' \in BOOLEAN
    BY <1>1, <1>3 DEF HostBattleRelayed, NatPart, NatOK
  <2>3. NatPart'
    BY <1>1, <1>3, <2>2, YoungerNat DEF HostBattleRelayed
  <2>4. \/ /\ calls < MaxCalls /\ calls' = calls + 1
           /\ delayed' = calls + 1 /\ spawns' = spawns + 1
        \/ /\ calls' = calls /\ delayed' \in {0, delayed}
           /\ spawns' \in 0 .. spawns
    BY <1>2, <1>3 DEF HostBattleRelayed
  <2>5. CallsPart'
    BY <1>1, <1>3, <2>4, HostCalls DEF HostBattleRelayed
  <2> QED
    BY <2>1, <2>3, <2>5 DEF Parts
<1>4. ASSUME ManagerRefuses \/ \E x \in RelayBots : ManagerSpawns(x)
      PROVE  Parts'
  <2>1. PlacePart'
    BY <1>1, <1>4
    DEF ManagerRefuses, ManagerSpawns, PlacePart, PlaceOK, RelayOK, LinkInv, place
  <2>2. NatPart'
    BY <1>1, <1>4, NatKept DEF ManagerRefuses, ManagerSpawns
  <2>3. spawns' \in 0 .. spawns
    BY <1>2, <1>4 DEF ManagerRefuses, ManagerSpawns
  <2>4. CallsPart'
    BY <1>1, <1>4, <2>3, HostCalls DEF ManagerRefuses, ManagerSpawns, nat
  <2> QED
    BY <2>1, <2>2, <2>4 DEF Parts
<1>5. ASSUME NEW x \in RelayBots, ManagerAnswers(x)
      PROVE  Parts'
  <2>1. PlacePart'
    BY <1>1, <1>5 DEF ManagerAnswers, PlacePart, PlaceOK, RelayOK, LinkInv, place
  <2>2. NatPart' /\ CallsPart'
    BY <1>1, <1>5, NatKept, CallsKept DEF ManagerAnswers, nat, callVars
  <2> QED
    BY <2>1, <2>2 DEF Parts
<1>6. ASSUME NEW x \in RelayBots, OnAddUser(x)
      PROVE  Parts'
  <2>1. PlacePart'
    <3>1. told' = told \/ told' = told \cup {x}
      BY <1>6 DEF OnAddUser
    <3> QED
      BY <1>1, <1>6, <3>1
      DEF OnAddUser, PlacePart, PlaceOK, RelayOK, LinkInv, place
  <2>2. NatPart'
    BY <1>1, <1>6, NatKept DEF OnAddUser
  <2>3. CallsPart'
    BY <1>1, <1>6, DelayedCalls, CallsKept DEF OnAddUser, nat, callVars
  <2> QED
    BY <2>1, <2>2, <2>3 DEF Parts
<1>7. ASSUME NEW x \in RelayBots, NEW b \in Battles, OnBattleOpened(x, b)
      PROVE  Parts'
  <2>1. asked' \subseteq {"open", "join"} \X Battles
    <3>1. PlaceOK
      BY <1>1 DEF PlacePart
    <3>2. CASE JoinBattle(b)
      BY <3>1, <3>2, JoinAsks
    <3>3. CASE asked' = asked
      BY <3>1, <3>3 DEF PlaceOK
    <3> QED
      BY <1>7, <3>2, <3>3 DEF OnBattleOpened
  <2>2. PlacePart'
    BY <1>1, <1>7, <2>1
    DEF OnBattleOpened, PlacePart, PlaceOK, RelayOK, LinkInv
  <2>3. UNCHANGED <<delayed, spawns>>
    BY <1>7 DEF OnBattleOpened
  <2>4. CASE JoinBattle(b)
    BY <1>1, <2>2, <2>3, <2>4, JoinNat, JoinCalls DEF Parts
  <2>5. CASE UNCHANGED <<nat, asked, calls, served>>
    BY <1>1, <2>2, <2>3, <2>5, NatKept, CallsKept DEF Parts, nat, callVars
  <2> QED
    BY <1>7, <2>4, <2>5 DEF OnBattleOpened
<1> QED
  BY <1>3, <1>4, <1>5, <1>6, <1>7

(* A connection ends, the next is made.                                    *)
LEMMA LinkSteps ==
  ASSUME Parts, OnDisconnected \/ OnConnected
  PROVE  Parts'
<1>1. PlacePart /\ NatPart /\ CallsPart
  BY DEF Parts
<1>2. CASE OnDisconnected
  <2>1. PlacePart'
    BY <1>1, <1>2, JoiningAssumption
    DEF OnDisconnected, PlacePart, PlaceOK, RelayOK, LinkInv
  <2>2. NatPart'
    BY <1>1, <1>2, NatKept DEF OnDisconnected
  <2>3. spawns' \in 0 .. spawns
    BY <1>1, <1>2 DEF OnDisconnected, CallsPart, CountsOK
  <2>4. CallsPart'
    BY <1>1, <1>2, <2>3, HostCalls DEF OnDisconnected, nat
  <2> QED
    BY <2>1, <2>2, <2>4 DEF Parts
<1>3. CASE OnConnected
  <2>1. session' \in 1 .. MaxSessions
    BY <1>1, <1>3, JoiningAssumption DEF OnConnected, PlacePart, PlaceOK, LinkInv
  <2>2. PlacePart'
    BY <1>1, <1>3, <2>1, Zenon
    DEF OnConnected, PlacePart, PlaceOK, RelayOK, LinkInv, place
  <2>3. pinged' \in BOOLEAN
    BY <1>1, <1>3 DEF OnConnected, NatPart, NatOK
  <2>4. NatPart'
    BY <1>1, <1>3, <2>3, YoungerNat DEF OnConnected
  <2>5. CallsPart'
    BY <1>1, <1>3, CallsKept DEF OnConnected, callVars
  <2> QED
    BY <2>2, <2>4, <2>5 DEF Parts
<1> QED
  BY <1>2, <1>3

-----------------------------------------------------------------------------
(* Every step keeps the invariant.                                         *)
LEMMA PartsStep ==
  ASSUME Parts, [Next]_vars
  PROVE  Parts'
<1>1. CASE UNCHANGED vars
  BY <1>1, PlaceKept, NatKept, CallsKept
  DEF Parts, vars, place, nat, relay, placeVars, relayVars, callVars
<1>2. CASE Next
  BY <1>2, JoiningSteps, BattleSteps, RelaySteps, LinkSteps DEF Next
<1> QED
  BY <1>1, <1>2

(* The invariant of every behaviour.                                       *)
THEOREM Invariance == Spec => []IInv
  BY PartsInit, PartsStep, IInvParts, PTL DEF Spec

(* No call of JoinBattle or HostBattle leads to its command twice, through *)
(* any answers, time-outs, bots and connections (tasserver.cpp:506,        *)
(* 651-655, 1039, 1507).                                                   *)
THEOREM CallsCorrect == Spec => []CallsSound
<1>1. IInv => CallsSound
  BY DEF IInv, CallsInv, CallsSound, ServedOnce
<1> QED
  BY <1>1, Invariance, PTL

(* The timer joins a battle only when the whole time has passed since it   *)
(* was chosen (tasserver.cpp:501-517, 1473-1477).                          *)
THEOREM TimeoutCorrect == Spec => NoEarlyTimeout
<1>1. ASSUME IInv, Update, served' # served
      PROVE  waited > udp_reply_timeout
  <2>1. wish /\ age > udp_reply_timeout
    BY <1>1 DEF Update, FinalizeJoinBattle
  <2>2. age <= waited \/ waited > udp_reply_timeout
    BY <1>1, <2>1 DEF IInv, WishInv
  <2> QED
    BY <1>1, <2>1, <2>2, JoiningAssumption DEF IInv, TypeOK, AgeCap
<1>2. IInv => [Update /\ served' # served => waited > udp_reply_timeout]_vars
  BY <1>1
<1> QED
  BY <1>2, Invariance, PTL DEF NoEarlyTimeout
=============================================================================

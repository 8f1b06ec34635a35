------------------------- MODULE BattleHost_proofs -------------------------
(***************************************************************************)
(* Proofs about BattleHost: the types, the counts, the ready-up times, the *)
(* automatic start and the automatic spectating, for any number of players *)
(* and bots.                                                               *)
(***************************************************************************)
EXTENDS BattleHost, FiniteSetTheorems, TLAPS

-----------------------------------------------------------------------------
(* Finite sets of players and unsigned counters *)

\* Sets of players are finite and small enough for the counters.
LEMMA NamesFinite ==
  ASSUME NEW S \in SUBSET Names
  PROVE  /\ IsFiniteSet(S)
         /\ Cardinality(S) \in 0 .. UINT - 1
         /\ \A T \in SUBSET S : Cardinality(T) <= Cardinality(S)
<1>1. IsFiniteSet({Me})
  BY FS_Singleton
<1>2. IsFiniteSet({Me} \cup Guests)
  BY <1>1, NamesAssumption, FS_Union
<1>3. IsFiniteSet(Names)
  BY <1>2, NamesAssumption, FS_Union DEF Names, Humans
<1>4. IsFiniteSet(S) /\ Cardinality(S) <= Cardinality(Names)
  BY <1>3, FS_Subset
<1>5. Cardinality(S) \in Nat /\ Cardinality(Names) \in Nat
  BY <1>3, <1>4, FS_CardinalityType
<1>6. \A T \in SUBSET S : Cardinality(T) <= Cardinality(S)
  BY <1>4, FS_Subset
<1> QED BY <1>4, <1>5, <1>6, CounterAssumption

\* There is at least one unsigned value.
LEMMA UINTPos == UINT \in Nat /\ UINT > 0 /\ 0 \in 0 .. UINT - 1
<1>1. Cardinality({}) \in 0 .. UINT - 1
  BY NamesFinite
<1> QED BY <1>1, CounterAssumption

\* Unsigned subtraction stays in range, and is exact unless it wraps.
LEMMA MinusType ==
  ASSUME NEW n \in Int, NEW k \in Int
  PROVE  Minus(n, k) \in 0 .. UINT - 1
BY UINTPos DEF Minus

\* It takes away exactly what is there to be taken.
LEMMA MinusExact ==
  ASSUME NEW n \in Nat, NEW k \in Nat, k <= n, n < UINT
  PROVE  Minus(n, k) = n - k
BY UINTPos DEF Minus

-----------------------------------------------------------------------------
(* What the handlers share *)

\* Only the own status changes, to some status.
OnlyMine(st) ==
  /\ status' \in [Names -> UserBattleStatus]
  /\ \A u \in Names \ {Me} : status'[u] = st[u]

\* The client, the guests and the bots are players.
LEMMA NamesMembers ==
  Me \in Names /\ Guests \subseteq Names /\ Bots \subseteq Names /\ Founder \in Names
BY NamesAssumption DEF Names, Humans

\* Setting the own status by the fields the handlers set.
LEMMA SetMine ==
  ASSUME NEW st \in [Names -> UserBattleStatus], NEW ready \in BOOLEAN, NEW sync \in MySyncs,
         status' = [st EXCEPT ![Me].ready = ready, ![Me].sync = sync]
  PROVE  OnlyMine(st)
<1>1. sync \in {SYNC_UNKNOWN, SYNC_SYNCED, SYNC_UNSYNCED}
  BY InputAssumption
<1>2. [st[Me] EXCEPT !.ready = ready, !.sync = sync] \in UserBattleStatus
  BY <1>1, NamesMembers DEF UserBattleStatus
<1>3. status' = [st EXCEPT ![Me] = [st[Me] EXCEPT !.ready = ready, !.sync = sync]]
  BY NamesMembers
<1> QED BY <1>2, <1>3, NamesMembers DEF OnlyMine

\* Starting the game changes the own status at most, and keeps the process's types.
LEMMA StartSpringType ==
  ASSUME TypeOK, NEW us \in SUBSET Names, NEW st \in [Names -> UserBattleStatus],
         NEW inGame \in BOOLEAN, StartSpring(us, st, inGame)
  PROVE  OnlyMine(st) /\ spring' \in BOOLEAN /\ meInGame' \in BOOLEAN
<1>1. CASE Me \in us /\ ~inGame
  <2>1. PICK sync \in MySyncs, run \in BOOLEAN :
          /\ status' = [st EXCEPT ![Me].ready = FALSE, ![Me].sync = sync]
          /\ spring' = (spring \/ run)
          /\ meInGame' = run
    BY <1>1 DEF StartSpring
  <2>2. OnlyMine(st)
    BY <2>1, SetMine
  <2> QED BY <2>1, <2>2 DEF TypeOK
<1>2. CASE ~(Me \in us /\ ~inGame)
  BY <1>2 DEF StartSpring, OnlyMine, TypeOK
<1> QED BY <1>1, <1>2

\* So does starting it as host, which never ends a game.
LEMMA StartHostedBattleType ==
  ASSUME TypeOK, NEW us \in SUBSET Names, NEW st \in [Names -> UserBattleStatus],
         StartHostedBattle(us, st)
  PROVE  /\ OnlyMine(st)
         /\ spring' \in BOOLEAN /\ meInGame' \in BOOLEAN /\ locked' \in BOOLEAN
         /\ ingame' \in BOOLEAN /\ (ingame => ingame')
<1>1. CASE Me \in us /\ IsFounderMe
  <2>1. locked' = (locked \/ AutoLock) /\ ingame' = TRUE /\ StartSpring(us, st, meInGame)
    BY <1>1 DEF StartHostedBattle
  <2>2. OnlyMine(st) /\ spring' \in BOOLEAN /\ meInGame' \in BOOLEAN
    BY <2>1, StartSpringType DEF TypeOK
  <2> QED BY <2>1, <2>2, OptionsAssumption DEF TypeOK
<1>2. CASE ~(Me \in us /\ IsFounderMe)
  BY <1>2 DEF StartHostedBattle, OnlyMine, TypeOK
<1> QED BY <1>1, <1>2

\* One case per handler, with the arguments of every call they may come from.
Handlers ==
  \/ \E u \in Humans : OnUserAdded(u)
  \/ \E b \in Bots : OnBotAdded(b)
  \/ \E u \in Names, s \in UserBattleStatus, d \in SUBSET sent :
       OnUserBattleStatusUpdated(u, s, d)
  \/ \E u \in Names, d \in SUBSET sent : OnUserRemoved(u, d)
  \/ \E n \in 0 .. UINT - 1, lock \in BOOLEAN, s \in {SYNC_UNKNOWN, SYNC_SYNCED, SYNC_UNSYNCED} :
       OnBattleInfoUpdated(n, lock, s)
  \/ \E u \in Humans, inGame \in BOOLEAN : OnUserStatus(u, inGame)
  \/ \E inGame \in BOOLEAN : OnBattleOpened(inGame)
  \/ \E kept \in SUBSET Bots : Leave(kept)
  \/ \E ready \in BOOLEAN, sync \in MySyncs : SetImReady(ready, sync)
  \/ \E ask \in BOOLEAN : OnStart(ask)
  \/ \E yes \in BOOLEAN : OnForceStart(yes)
  \/ OnStartMember
  \/ \E lock \in BOOLEAN : OnLock(lock)
  \/ \E g \in Guests : OnSpecSelect(g)
  \/ OnTimer
  \/ OnSpringTerminated
  \/ \E c \in sent : ServerIgnores(c)

\* A step is a handler observed without a tick, or a tick.
LEMMA NextHandlers ==
  ASSUME TypeOK, Next
  PROVE  (Handlers /\ Observe(FALSE)) \/ (Tick /\ Observe(TRUE))
<1>1. ASSUME PlayerMessage PROVE Handlers
  <2>1. status[Me].sync \in {SYNC_UNKNOWN, SYNC_SYNCED, SYNC_UNSYNCED}
    BY NamesMembers DEF UserBattleStatus, TypeOK
  <2>2. ASSUME NEW n \in EchoCounts, NEW lock \in BOOLEAN, NEW s \in {status[Me].sync} \cup MySyncs,
               OnBattleInfoUpdated(n, lock, s)
        PROVE  Handlers
    BY <2>1, <2>2, InputAssumption, CounterAssumption DEF Handlers
  <2>3. ASSUME NEW u \in Humans, NEW s \in Reports, OnUserBattleStatusUpdated(u, s, {})
        PROVE  Handlers
    BY <2>3, InputAssumption DEF Handlers, Names
  <2>4. ASSUME NEW u \in Humans, OnUserRemoved(u, {})
        PROVE  Handlers
    BY <2>4 DEF Handlers, Names
  <2> QED BY <1>1, <2>2, <2>3, <2>4 DEF PlayerMessage, Handlers
<1>2. ASSUME BotMessage PROVE Handlers
  <2>1. ASSUME NEW b \in Bots, OnUserRemoved(b, {}) \/ OnUserBattleStatusUpdated(b, status[b], {})
        PROVE  Handlers
    <3>1. b \in Names /\ status[b] \in UserBattleStatus /\ {} \in SUBSET sent
      BY NamesMembers DEF TypeOK
    <3> QED BY <2>1, <3>1 DEF Handlers
  <2> QED BY <1>2, <2>1 DEF BotMessage, Handlers
<1>3. ASSUME UserCommand PROVE Handlers
  BY <1>3 DEF UserCommand, Handlers
<1>4. ASSUME ServerReaction PROVE Handlers
  <2>1. PICK c \in sent : ServerSpectates(c) \/ ServerKicks(c) \/ ServerIgnores(c)
    BY <1>4 DEF ServerReaction
  <2>2. c[2] \in Names /\ {c} \in SUBSET sent
    BY DEF TypeOK
  <2>3. [status[c[2]] EXCEPT !.spectator = TRUE] \in UserBattleStatus
    <3>1. status[c[2]] \in UserBattleStatus
      BY <2>2 DEF TypeOK
    <3> QED BY <3>1 DEF UserBattleStatus
  <2>4. CASE ServerSpectates(c)
    BY <2>2, <2>3, <2>4 DEF ServerSpectates, Handlers
  <2>5. CASE ServerKicks(c)
    BY <2>2, <2>5 DEF ServerKicks, Handlers
  <2> QED BY <2>1, <2>4, <2>5 DEF Handlers
<1>5. ASSUME OnTimer \/ OnSpringTerminated PROVE Handlers
  BY <1>5 DEF Handlers
<1> QED BY <1>1, <1>2, <1>3, <1>4, <1>5 DEF Next

-----------------------------------------------------------------------------
(* Types *)

\* Counting a set of players gives a value of the counters.
LEMMA CountType ==
  ASSUME NEW us \in SUBSET Names, NEW st
  PROVE  /\ Cardinality(OkUsers(us, st)) \in 0 .. UINT - 1
         /\ Cardinality(Spectating(us, st)) \in 0 .. UINT - 1
<1>1. OkUsers(us, st) \in SUBSET Names /\ Spectating(us, st) \in SUBSET Names
  BY DEF OkUsers, Active, Spectating
<1> QED BY <1>1, NamesFinite

\* A player comes with a status.
LEMMA JoiningType == Joining \in UserBattleStatus
BY DEF Joining, UserBattleStatus

\* A time that grows older stays within the bound.
LEMMA AgesType ==
  0 \in Ages /\ \A age \in Ages \cup {None} : Older(age) \in Ages \cup {None}
BY OptionsAssumption DEF Ages, Older, None

\* Without the history variable idle.
CodeTypeOK ==
  /\ users \subseteq Names
  /\ status \in [Names -> UserBattleStatus]
  /\ spectators \in 0 .. UINT - 1 /\ playersOk \in 0 .. UINT - 1
  /\ readyUp \in [Guests -> Ages \cup {None}]
  /\ ingame \in BOOLEAN /\ locked \in BOOLEAN /\ spring \in BOOLEAN
  /\ meInGame \in BOOLEAN /\ asking \in BOOLEAN
  /\ sent \subseteq Why \X Names
  /\ blame \subseteq {"unready", "specbot"}

\* A status update recomputes both counts, and keeps the types.
LEMMA StatusUpdateType ==
  ASSUME TypeOK, NEW u \in Names, NEW s \in UserBattleStatus, NEW d \in SUBSET sent,
         OnUserBattleStatusUpdated(u, s, d)
  PROVE  CodeTypeOK'
<1> DEFINE st == [status EXCEPT ![u] = s]
<1> USE DEF TypeOK
<1>1. st \in [Names -> UserBattleStatus]
  OBVIOUS
<1>2. spectators' \in 0 .. UINT - 1 /\ playersOk' \in 0 .. UINT - 1
  <2>1. playersOk' = Cardinality(OkUsers(users, st)) /\ spectators' = Cardinality(Spectating(users, st))
    BY DEF OnUserBattleStatusUpdated
  <2> QED BY <2>1, CountType
<1>3. readyUp' \in [Guests -> Ages \cup {None}]
  BY AgesType DEF OnUserBattleStatusUpdated, ReadyUp
<1>4. sent' \subseteq Why \X Names
  <2>1. <<"rank", u>> \in Why \X Names
    BY DEF Why
  <2>2. sent' \subseteq sent \cup {<<"rank", u>>}
    BY DEF OnUserBattleStatusUpdated
  <2> QED BY <2>1, <2>2
<1>5. users' = users /\ asking' = asking
  BY DEF OnUserBattleStatusUpdated
<1>6. CASE StartHostedBattle(users, st) /\ blame' = Blame(users, st)
  <2>1. OnlyMine(st) /\ spring' \in BOOLEAN /\ meInGame' \in BOOLEAN
        /\ locked' \in BOOLEAN /\ ingame' \in BOOLEAN
    BY <1>1, <1>6, StartHostedBattleType
  <2>2. blame' \subseteq {"unready", "specbot"}
    BY <1>6 DEF Blame
  <2> QED BY <1>2, <1>3, <1>4, <1>5, <2>1, <2>2 DEF CodeTypeOK, OnlyMine
<1>7. CASE status' = st /\ UNCHANGED <<ingame, locked, spring, meInGame, blame>>
  BY <1>1, <1>2, <1>3, <1>4, <1>5, <1>7 DEF CodeTypeOK
<1> QED BY <1>6, <1>7 DEF OnUserBattleStatusUpdated

\* A removal keeps the types, even where it subtracts from zero.
LEMMA RemovalType ==
  ASSUME TypeOK, NEW u \in Names, NEW d \in SUBSET sent, OnUserRemoved(u, d)
  PROVE  CodeTypeOK'
<1>1. OkWithout(u) \in 0 .. UINT - 1
  <2>1. Minus(playersOk, 1) \in 0 .. UINT - 1
    BY MinusType DEF TypeOK
  <2> QED BY <2>1, UINTPos DEF OkWithout, TypeOK
<1>2. Minus(spectators, 1) \in 0 .. UINT - 1
  BY MinusType DEF TypeOK
<1> QED BY <1>1, <1>2 DEF OnUserRemoved, TypeOK, CodeTypeOK

\* So does every handler and the tick.
LEMMA CodeTypeStep ==
  ASSUME TypeOK, Handlers \/ Tick
  PROVE  CodeTypeOK'
<1> USE DEF TypeOK
<1>1. ASSUME NEW u \in Humans, OnUserAdded(u) PROVE CodeTypeOK'
  <2>1. u \in Names /\ {u} \cap LowRank \subseteq Names
    BY DEF Names
  <2>2. status' \in [Names -> UserBattleStatus] /\ users' \subseteq Names
    BY <1>1, <2>1, JoiningType DEF OnUserAdded
  <2>3. readyUp' \in [Guests -> Ages \cup {None}]
    BY <1>1, AgesType DEF OnUserAdded
  <2>4. sent' \subseteq Why \X Names
    BY <1>1, <2>1 DEF OnUserAdded, ForceSpectator, Why
  <2> QED BY <1>1, <2>2, <2>3, <2>4 DEF OnUserAdded, CodeTypeOK
<1>2. ASSUME NEW b \in Bots, OnBotAdded(b) PROVE CodeTypeOK'
  BY <1>2, NamesMembers, JoiningType DEF OnBotAdded, CodeTypeOK
<1>3. ASSUME NEW n \in 0 .. UINT - 1, NEW lock \in BOOLEAN,
             NEW s \in {SYNC_UNKNOWN, SYNC_SYNCED, SYNC_UNSYNCED}, OnBattleInfoUpdated(n, lock, s)
      PROVE  CodeTypeOK'
  <2>1. [status[Me] EXCEPT !.sync = s] \in UserBattleStatus
    BY NamesMembers DEF UserBattleStatus
  <2>2. status' \in [Names -> UserBattleStatus]
    BY <1>3, <2>1, NamesMembers DEF OnBattleInfoUpdated
  <2> QED BY <1>3, <2>2 DEF OnBattleInfoUpdated, CodeTypeOK
<1>4. ASSUME NEW u \in Humans, NEW inGame \in BOOLEAN, OnUserStatus(u, inGame) PROVE CodeTypeOK'
  <2>1. readyUp' \in [Guests -> Ages \cup {None}]
    BY <1>4, AgesType DEF OnUserStatus
  <2>2. status' \in [Names -> UserBattleStatus] /\ spring' \in BOOLEAN /\ meInGame' \in BOOLEAN
    <3> DEFINE mine == IF u = Me THEN inGame ELSE meInGame
    <3>1. CASE StartSpring(users, status, mine)
      BY <3>1, StartSpringType DEF OnlyMine
    <3>2. CASE meInGame' = mine /\ UNCHANGED <<status, spring>>
      BY <3>2
    <3> QED BY <1>4, <3>1, <3>2 DEF OnUserStatus
  <2>3. ingame' \in BOOLEAN /\ blame' \subseteq {"unready", "specbot"}
    BY <1>4 DEF OnUserStatus
  <2> QED BY <1>4, <2>1, <2>2, <2>3 DEF OnUserStatus, CodeTypeOK
<1>5. ASSUME NEW inGame \in BOOLEAN, OnBattleOpened(inGame) PROVE CodeTypeOK'
  <2>1. status' \in [Names -> UserBattleStatus]
    BY <1>5, JoiningType DEF OnBattleOpened
  <2>2. readyUp' \in [Guests -> Ages \cup {None}]
    BY <1>5, AgesType DEF OnBattleOpened
  <2>3. ingame' \in BOOLEAN
    BY <1>5 DEF OnBattleOpened
  <2> QED BY <1>5, <2>1, <2>2, <2>3, NamesMembers, UINTPos DEF OnBattleOpened, CodeTypeOK
<1>6. ASSUME NEW kept \in SUBSET Bots, Leave(kept) PROVE CodeTypeOK'
  <2> DEFINE gone == Spectating(users, status) \cap (Bots \ kept)
  <2>1. Cardinality(gone) \in Nat
    <3>1. gone \subseteq Bots
      OBVIOUS
    <3> HIDE DEF gone
    <3> QED BY <3>1, NamesAssumption, FS_Subset, FS_CardinalityType
  <2> HIDE DEF gone
  <2>2. Minus(spectators, Cardinality(gone)) \in 0 .. UINT - 1
    BY <2>1, MinusType DEF TypeOK
  <2>3. spectators' \in 0 .. UINT - 1
    BY <1>6, <2>2 DEF Leave, gone, TypeOK
  <2> QED BY <1>6, <2>3 DEF Leave, CodeTypeOK
<1>7. ASSUME NEW ready \in BOOLEAN, NEW sync \in MySyncs, SetImReady(ready, sync) PROVE CodeTypeOK'
  BY <1>7, SetMine DEF SetImReady, OnlyMine, CodeTypeOK
<1>8. ASSUME NEW ask \in BOOLEAN, OnStart(ask) PROVE CodeTypeOK'
  <2> DEFINE st == [status EXCEPT ![Me].ready = TRUE]
  <2>1. [status[Me] EXCEPT !.ready = TRUE] \in UserBattleStatus
    BY NamesMembers DEF UserBattleStatus
  <2>2. st \in [Names -> UserBattleStatus]
    BY <2>1, NamesMembers
  <2>3. CASE StartHostedBattle(users, st) /\ UNCHANGED asking
    BY <1>8, <2>2, <2>3, StartHostedBattleType DEF OnStart, OnlyMine, CodeTypeOK
  <2>4. CASE status' = st /\ asking' = ask /\ UNCHANGED <<locked, ingame, spring, meInGame>>
    BY <1>8, <2>2, <2>4 DEF OnStart, CodeTypeOK
  <2> QED BY <1>8, <2>3, <2>4 DEF OnStart
<1>9. ASSUME NEW yes \in BOOLEAN, OnForceStart(yes) PROVE CodeTypeOK'
  <2>1. CASE StartHostedBattle(users, status)
    BY <1>9, <2>1, StartHostedBattleType DEF OnForceStart, OnlyMine, CodeTypeOK
  <2>2. CASE UNCHANGED <<status, locked, ingame, spring, meInGame>>
    BY <1>9, <2>2 DEF OnForceStart, CodeTypeOK
  <2> QED BY <1>9, <2>1, <2>2 DEF OnForceStart
<1>10. ASSUME NEW lock \in BOOLEAN, OnLock(lock) PROVE CodeTypeOK'
  BY <1>10 DEF OnLock, CodeTypeOK
<1>11. ASSUME NEW g \in Guests, OnSpecSelect(g) PROVE CodeTypeOK'
  BY <1>11, NamesMembers DEF OnSpecSelect, ForceSpectator, Why, CodeTypeOK
<1>12. ASSUME OnTimer PROVE CodeTypeOK'
  BY <1>12, NamesMembers DEF OnTimer, Late, ForceSpectator, Why, CodeTypeOK
<1>13. ASSUME OnSpringTerminated PROVE CodeTypeOK'
  BY <1>13 DEF OnSpringTerminated, CodeTypeOK
<1>14. ASSUME NEW c \in sent, ServerIgnores(c) PROVE CodeTypeOK'
  BY <1>14 DEF ServerIgnores, CodeTypeOK
<1>15. ASSUME Tick PROVE CodeTypeOK'
  BY <1>15, AgesType DEF Tick, CodeTypeOK
<1>16. ASSUME OnStartMember PROVE CodeTypeOK'
  BY <1>16, StartSpringType DEF OnStartMember, OnlyMine, CodeTypeOK
<1> QED BY <1>1, <1>2, StatusUpdateType, RemovalType, <1>3, <1>4, <1>5, <1>6, <1>7, <1>8, <1>9,
           <1>10, <1>11, <1>12, <1>13, <1>14, <1>15, <1>16 DEF Handlers

\* The history of unready times keeps its type.
LEMMA ObserveType ==
  ASSUME TypeOK, NEW ticked \in BOOLEAN, Observe(ticked)
  PROVE  idle' \in [Guests -> Ages \cup {None}]
BY AgesType DEF Observe, TypeOK

\* The variables stay within their types; in particular the unsigned counters
\* do whatever the code makes them hold.
THEOREM TypeCorrect == Spec => []TypeOK
<1>1. Init => TypeOK
  <2> SUFFICES ASSUME Init PROVE TypeOK
    OBVIOUS
  <2>1. status \in [Names -> UserBattleStatus]
    BY JoiningType DEF Init
  <2>2. readyUp \in [Guests -> Ages \cup {None}]
    BY AgesType DEF Init
  <2>3. idle \in [Guests -> Ages \cup {None}]
    BY <2>2 DEF Init
  <2> QED BY <2>1, <2>2, <2>3, NamesMembers, UINTPos DEF Init, TypeOK
<1>2. TypeOK /\ [Next]_vars => TypeOK'
  <2>1. ASSUME TypeOK, Next PROVE TypeOK'
    <3>1. CodeTypeOK'
      BY <2>1, NextHandlers, CodeTypeStep
    <3>2. idle' \in [Guests -> Ages \cup {None}]
      BY <2>1, NextHandlers, ObserveType
    <3> QED BY <3>1, <3>2 DEF CodeTypeOK, TypeOK
  <2>2. ASSUME TypeOK, UNCHANGED vars PROVE TypeOK'
    BY <2>2 DEF vars, TypeOK
  <2> QED BY <2>1, <2>2
<1> QED BY <1>1, <1>2, PTL DEF Spec

-----------------------------------------------------------------------------
(* Four handlers change who among the guests is active and ready; the others *)
(* leave the guests and the host's count of them alone.                      *)

SameGuests ==
  \A g \in Guests : (g \in users' <=> g \in users) /\ status'[g] = status[g]

Quiet ==
  /\ SameGuests
  /\ UNCHANGED playersOk
  /\ \/ UNCHANGED readyUp /\ (ingame => ingame')
     \/ \E u \in Humans, inGame \in BOOLEAN : OnUserStatus(u, inGame)

\* What changes the own status leaves the guests' alone.
LEMMA OnlyMineSameGuests ==
  ASSUME OnlyMine(status), UNCHANGED users
  PROVE  SameGuests
BY NamesMembers, NamesAssumption DEF OnlyMine, SameGuests

\* Every other handler than a join, a status update and a removal is quiet.
LEMMA StepKinds ==
  ASSUME TypeOK, Handlers
  PROVE  \/ \E u \in Humans : OnUserAdded(u)
         \/ \E u \in Names, s \in UserBattleStatus, d \in SUBSET sent :
              OnUserBattleStatusUpdated(u, s, d)
         \/ \E u \in Names, d \in SUBSET sent : OnUserRemoved(u, d)
         \/ \E inGame \in BOOLEAN : OnBattleOpened(inGame)
         \/ Quiet
<1>0. Guests \cap Bots = {} /\ Me \notin Guests
  BY NamesAssumption DEF Humans
<1>1. ASSUME NEW b \in Bots, OnBotAdded(b) PROVE Quiet
  BY <1>0, <1>1 DEF OnBotAdded, TypeOK, SameGuests, Quiet
<1>2. ASSUME NEW n, NEW lock, NEW s, OnBattleInfoUpdated(n, lock, s) PROVE Quiet
  BY <1>0, <1>2 DEF OnBattleInfoUpdated, TypeOK, SameGuests, Quiet
<1>3. ASSUME NEW u \in Humans, NEW inGame \in BOOLEAN, OnUserStatus(u, inGame) PROVE Quiet
  <2> DEFINE mine == IF u = Me THEN inGame ELSE meInGame
  <2>1. CASE StartSpring(users, status, mine)
    <3>1. OnlyMine(status)
      BY <2>1, StartSpringType DEF TypeOK
    <3> QED BY <1>3, <3>1, OnlyMineSameGuests DEF OnUserStatus, Quiet
  <2>2. CASE UNCHANGED status
    BY <1>3, <2>2 DEF OnUserStatus, SameGuests, Quiet
  <2> QED BY <1>3, <2>1, <2>2 DEF OnUserStatus
<1>4. ASSUME NEW kept \in SUBSET Bots, Leave(kept) PROVE Quiet
  BY <1>0, <1>4 DEF Leave, SameGuests, Quiet
<1>5. ASSUME NEW ready \in BOOLEAN, NEW sync \in MySyncs, SetImReady(ready, sync) PROVE Quiet
  BY <1>5, SetMine, OnlyMineSameGuests DEF SetImReady, TypeOK, Quiet
<1>6. ASSUME NEW ask \in BOOLEAN, OnStart(ask) PROVE Quiet
  <2> DEFINE st == [status EXCEPT ![Me].ready = TRUE]
  <2>1. st \in [Names -> UserBattleStatus]
    <3>1. [status[Me] EXCEPT !.ready = TRUE] \in UserBattleStatus
      BY NamesMembers DEF TypeOK, UserBattleStatus
    <3> QED BY <3>1, NamesMembers DEF TypeOK
  <2>2. \A u \in Names \ {Me} : st[u] = status[u]
    BY NamesMembers DEF TypeOK
  <2>3. CASE StartHostedBattle(users, st)
    <3>1. OnlyMine(st) /\ (ingame => ingame')
      BY <2>1, <2>3, StartHostedBattleType DEF TypeOK
    <3>2. OnlyMine(status)
      BY <2>2, <3>1 DEF OnlyMine
    <3> QED BY <1>6, <3>1, <3>2, OnlyMineSameGuests DEF OnStart, Quiet
  <2>4. CASE status' = st /\ UNCHANGED ingame
    <3>1. OnlyMine(status)
      BY <2>1, <2>2, <2>4 DEF OnlyMine
    <3> QED BY <1>6, <2>4, <3>1, OnlyMineSameGuests DEF OnStart, Quiet
  <2> QED BY <1>6, <2>3, <2>4 DEF OnStart
<1>7. ASSUME NEW yes \in BOOLEAN, OnForceStart(yes) PROVE Quiet
  <2>1. CASE StartHostedBattle(users, status)
    <3>1. OnlyMine(status) /\ (ingame => ingame')
      BY <2>1, StartHostedBattleType DEF TypeOK
    <3> QED BY <1>7, <3>1, OnlyMineSameGuests DEF OnForceStart, Quiet
  <2>2. CASE UNCHANGED <<status, ingame>>
    BY <1>7, <2>2 DEF OnForceStart, SameGuests, Quiet
  <2> QED BY <1>7, <2>1, <2>2 DEF OnForceStart
<1>8. ASSUME \/ \E lock \in BOOLEAN : OnLock(lock)
             \/ \E g \in Guests : OnSpecSelect(g)
             \/ OnTimer \/ OnSpringTerminated
             \/ \E c \in sent : ServerIgnores(c)
      PROVE  Quiet
  <2>1. UNCHANGED <<users, status, playersOk, readyUp, ingame>>
    BY <1>8 DEF OnLock, OnSpecSelect, OnTimer, OnSpringTerminated, ServerIgnores
  <2> QED BY <2>1 DEF SameGuests, Quiet
<1>9. ASSUME OnStartMember PROVE Quiet
  <2>1. OnlyMine(status)
    BY <1>9, StartSpringType DEF OnStartMember, TypeOK
  <2> QED BY <1>9, <2>1, OnlyMineSameGuests DEF OnStartMember, Quiet
<1> QED BY <1>1, <1>2, <1>3, <1>4, <1>5, <1>6, <1>7, <1>8, <1>9 DEF Handlers

-----------------------------------------------------------------------------
(* The host's count of ready players *)

\* The guests are the players that are neither bots nor this client.
LEMMA HumansMembers ==
  ASSUME NEW g
  PROVE  g \in Guests <=> g \in Names \ Bots /\ g # Me
BY NamesAssumption DEF Names, Humans

\* Where the guests' statuses stay, so do the ready ones.
LEMMA OkGuestsSame ==
  ASSUME TypeOK, CodeTypeOK', SameGuests
  PROVE  OkGuests' = OkGuests
<1>1. users \subseteq Names /\ users' \subseteq Names
  BY DEF TypeOK, CodeTypeOK
<1>2. OkGuests \subseteq Guests /\ OkGuests' \subseteq Guests
  BY <1>1, HumansMembers DEF OkGuests, OkUsers, Active
<1>3. ASSUME NEW g \in Guests
      PROVE  g \in OkGuests' <=> g \in OkGuests
  BY <1>3, HumansMembers DEF OkGuests, OkUsers, Active, SameGuests
<1> QED BY <1>2, <1>3

\* The host's count keeps to the ready guests, or one more.
LEMMA CountsStep ==
  ASSUME TypeOK, CodeTypeOK', HostCountsOk, Handlers, IsFounderMe
  PROVE  playersOk' \in {Cardinality(OkGuests'), Cardinality(OkGuests') + 1}
<1> DEFINE Good == playersOk' \in {Cardinality(OkGuests'), Cardinality(OkGuests') + 1}
<1>0. OkGuests \in SUBSET Names /\ OkGuests' \in SUBSET Names
  BY DEF OkGuests, OkUsers, Active, TypeOK, CodeTypeOK
<1>1. ASSUME NEW u \in Humans, OnUserAdded(u) PROVE Good
  <2>1. u \notin users /\ users' = users \cup {u} /\ status' = [status EXCEPT ![u] = Joining]
        /\ UNCHANGED playersOk
    BY <1>1 DEF OnUserAdded
  <2>2. status'[u] = Joining /\ \A v \in Names \ {u} : status'[v] = status[v]
    BY <2>1 DEF TypeOK, Names
  <2>3. ~Ok(status'[u])
    BY <2>2 DEF Ok, Joining
  <2>4. OkGuests' = OkGuests
    BY <2>1, <2>2, <2>3 DEF OkGuests, OkUsers, Active, TypeOK
  <2> QED BY <2>1, <2>4 DEF HostCountsOk
<1>2. ASSUME NEW u \in Names, NEW s \in UserBattleStatus, NEW d \in SUBSET sent,
             OnUserBattleStatusUpdated(u, s, d)
      PROVE  Good
  <2> DEFINE st == [status EXCEPT ![u] = s]
             S  == OkUsers(users, st)
  <2>1. st \in [Names -> UserBattleStatus]
    BY DEF TypeOK
  <2>2. users' = users /\ playersOk' = Cardinality(S)
    BY <1>2 DEF OnUserBattleStatusUpdated
  <2>3. \A v \in Names \ {Me} : status'[v] = st[v]
    BY <1>2, <2>1, StartHostedBattleType DEF OnUserBattleStatusUpdated, OnlyMine, TypeOK
  <2>4. OkGuests' = S \ {Me}
    BY <2>2, <2>3 DEF OkGuests, OkUsers, Active, TypeOK
  <2>5. S \in SUBSET Names
    BY DEF OkUsers, Active, TypeOK
  <2>6. IsFiniteSet(S) /\ Cardinality(S) \in Nat
    <3> HIDE DEF S
    <3> QED BY <2>5, NamesFinite, FS_CardinalityType
  <2>7. Cardinality(S \ {Me}) = IF Me \in S THEN Cardinality(S) - 1 ELSE Cardinality(S)
    BY <2>6, FS_RemoveElement
  <2> QED BY <2>2, <2>4, <2>6, <2>7
<1>3. ASSUME NEW u \in Names, NEW d \in SUBSET sent, OnUserRemoved(u, d) PROVE Good
  <2>1. u \in users /\ u # Me /\ users' = users \ {u} /\ UNCHANGED status
    BY <1>3 DEF OnUserRemoved, IsFounderMe
  <2>2. OkGuests' = OkGuests \ {u}
    BY <2>1 DEF OkGuests, OkUsers, Active
  <2>3. IsFiniteSet(OkGuests) /\ Cardinality(OkGuests) \in Nat
    BY <1>0, NamesFinite
  <2>4. Cardinality(OkGuests') = IF u \in OkGuests THEN Cardinality(OkGuests) - 1
                                 ELSE Cardinality(OkGuests)
    BY <2>2, <2>3, FS_RemoveElement
  <2>5. CASE u \in OkGuests
    <3>1. Cardinality(OkGuests) # 0
      BY <2>3, <2>5, FS_EmptySet
    <3>2. playersOk \in Nat /\ 1 <= playersOk /\ playersOk < UINT
      BY <2>3, <3>1, UINTPos DEF HostCountsOk, TypeOK
    <3>3. Minus(playersOk, 1) = playersOk - 1
      BY <3>2, MinusExact
    <3>4. playersOk' = playersOk - 1
      BY <1>3, <2>1, <2>5, <3>3 DEF OnUserRemoved, OkWithout, OkGuests
    <3> QED BY <2>3, <2>4, <2>5, <3>2, <3>4 DEF HostCountsOk
  <2>6. CASE u \notin OkGuests
    <3>1. playersOk' = playersOk
      BY <1>3, <2>1, <2>6 DEF OnUserRemoved, OkWithout, OkGuests
    <3> QED BY <2>4, <2>6, <3>1 DEF HostCountsOk
  <2> QED BY <2>5, <2>6
<1>4. ASSUME NEW inGame \in BOOLEAN, OnBattleOpened(inGame) PROVE Good
  <2>1. users' = {Me} /\ playersOk' = 0
    BY <1>4 DEF OnBattleOpened, IsFounderMe
  <2>2. OkGuests' = {}
    BY <2>1 DEF OkGuests, OkUsers, Active
  <2> QED BY <2>1, <2>2, FS_EmptySet
<1>5. ASSUME Quiet PROVE Good
  <2>1. OkGuests' = OkGuests /\ UNCHANGED playersOk
    BY <1>5, OkGuestsSame DEF Quiet
  <2> QED BY <2>1 DEF HostCountsOk
<1> QED BY <1>1, <1>2, <1>3, <1>4, <1>5, StepKinds

\* The host's m_players_ok, which decides the automatic start and whether the
\* start button asks, counts the ready guests; it can only be one too many.
THEOREM HostCountsCorrect == Spec => []HostCountsOk
<1>1. Init => HostCountsOk
  <2> SUFFICES ASSUME Init, IsFounderMe
               PROVE  playersOk \in {Cardinality(OkGuests), Cardinality(OkGuests) + 1}
    BY DEF HostCountsOk
  <2>1. OkGuests = {}
    BY DEF Init, IsFounderMe, OkGuests, OkUsers, Active
  <2> QED BY <2>1, FS_EmptySet DEF Init
<1>2. TypeOK /\ HostCountsOk /\ [Next]_vars => HostCountsOk'
  <2>1. ASSUME TypeOK, HostCountsOk, Next PROVE HostCountsOk'
    <3>1. CASE Handlers
      BY <2>1, <3>1, CodeTypeStep, CountsStep DEF HostCountsOk, IsFounderMe
    <3>2. CASE Tick
      BY <2>1, <3>2 DEF Tick, HostCountsOk, IsFounderMe, OkGuests, OkUsers, Active
    <3> QED BY <2>1, <3>1, <3>2, NextHandlers
  <2>2. ASSUME HostCountsOk, UNCHANGED vars PROVE HostCountsOk'
    BY <2>2 DEF vars, HostCountsOk, IsFounderMe, OkGuests, OkUsers, Active
  <2> QED BY <2>1, <2>2
<1> QED BY <1>1, <1>2, TypeCorrect, PTL DEF Spec

-----------------------------------------------------------------------------
(* The automatic start *)

\* Enough ready players for the number of active ones means that all are ready,
\* when no bot is counted among the spectators.
LEMMA EveryoneReady ==
  ASSUME NEW us \in SUBSET Names, NEW st, Spectating(us, st) \cap Bots = {},
         IsEveryoneReady(us, Cardinality(Spectating(us, st)), Cardinality(OkUsers(us, st)))
  PROVE  NotOk(us, st) = {}
<1> DEFINE H == us \ Bots
           A == Active(us, st)
           X == Spectating(us, st)
           R == OkUsers(us, st)
<1>1. A = H \ X /\ H \cap X = X /\ R \subseteq A
  BY DEF Active, Spectating, OkUsers
<1>2. H \in SUBSET us /\ A \in SUBSET Names /\ X \in SUBSET Names /\ R \in SUBSET A
  BY <1>1 DEF Spectating
<1> HIDE DEF H, A, X, R
<1>3. IsFiniteSet(us) /\ IsFiniteSet(H) /\ IsFiniteSet(A) /\ IsFiniteSet(X) /\ IsFiniteSet(R)
  BY <1>2, NamesFinite, FS_Subset
<1>4. Cardinality(H) = Cardinality(us) - Cardinality(us \cap Bots)
  BY <1>3, FS_Difference DEF H
<1>5. Cardinality(A) = Cardinality(H) - Cardinality(X)
  BY <1>1, <1>3, FS_Difference
<1>6. /\ Cardinality(H) \in Nat /\ Cardinality(H) < UINT
      /\ Cardinality(X) \in Nat /\ Cardinality(A) \in Nat /\ Cardinality(R) \in Nat
  BY <1>2, <1>3, NamesFinite, FS_CardinalityType, UINTPos
<1>7. GetNumActivePlayers(us, Cardinality(X)) = Cardinality(A)
  BY <1>4, <1>5, <1>6, MinusExact DEF GetNumActivePlayers
<1>8. Cardinality(R) >= Cardinality(A)
  BY <1>7 DEF IsEveryoneReady, X, R
<1>9. R = A
  BY <1>2, <1>3, <1>6, <1>8, FS_Subset
<1> QED BY <1>9 DEF R, A, OkUsers, NotOk

\* No automatic start goes over an unready player unless a bot spectates.
THEOREM AutoStartCorrect == Spec => []AutoStartReady
<1>1. Init => AutoStartReady
  BY DEF Init, AutoStartReady
<1>2. TypeOK /\ AutoStartReady /\ [Next]_vars => AutoStartReady'
  <2>1. ASSUME TypeOK, AutoStartReady, Handlers \/ Tick PROVE AutoStartReady'
    <3>1. ASSUME NEW u \in Names, NEW s \in UserBattleStatus, NEW d \in SUBSET sent,
                 OnUserBattleStatusUpdated(u, s, d)
          PROVE  AutoStartReady'
      <4> DEFINE st == [status EXCEPT ![u] = s]
      <4>1. CASE blame' = Blame(users, st) /\ ShouldAutoStart(users, Cardinality(Spectating(users, st)),
                                                            Cardinality(OkUsers(users, st)))
        <5>1. Spectating(users, st) \cap Bots = {} => NotOk(users, st) = {}
          <6> HIDE DEF st
          <6>1. IsEveryoneReady(users, Cardinality(Spectating(users, st)), Cardinality(OkUsers(users, st)))
            BY <4>1 DEF ShouldAutoStart
          <6>2. users \in SUBSET Names
            BY <2>1 DEF TypeOK
          <6> QED BY <6>1, <6>2, EveryoneReady
        <5> QED BY <4>1, <5>1 DEF Blame, AutoStartReady
      <4>2. CASE blame' = blame
        BY <2>1, <4>2 DEF AutoStartReady
      <4> QED BY <3>1, <4>1, <4>2 DEF OnUserBattleStatusUpdated
    <3>2. ASSUME NEW u, NEW inGame, OnUserStatus(u, inGame) PROVE blame' \in {blame, {}}
      BY <3>2 DEF OnUserStatus
    <3>3. ASSUME NEW inGame, OnBattleOpened(inGame) PROVE blame' = {}
      BY <3>3 DEF OnBattleOpened
    <3>4. ASSUME blame' \in {blame, {}} PROVE AutoStartReady'
      BY <2>1, <3>4 DEF AutoStartReady
    <3> QED BY <2>1, <3>1, <3>2, <3>3, <3>4 DEF Handlers, OnUserAdded, OnBotAdded, OnUserRemoved,
          OnBattleInfoUpdated, Leave, SetImReady, OnStart, OnForceStart, OnStartMember, OnLock, OnSpecSelect,
          OnTimer, OnSpringTerminated, ServerIgnores, Tick
  <2>2. ASSUME AutoStartReady, UNCHANGED vars PROVE AutoStartReady'
    BY <2>2 DEF vars, AutoStartReady
  <2> QED BY <2>1, <2>2, NextHandlers
<1> QED BY <1>1, <1>2, TypeCorrect, PTL DEF Spec

-----------------------------------------------------------------------------
(* The ready-up times and the automatic spectating *)

\* GraceTimes alone is not inductive: a guest that is ready or spectates must
\* have no time, or the next break of its readiness would inherit an old one.
IdleMeans == \A g \in Guests : idle[g] # None <=> g \in NotOk(users, status)
ReadyUpInv ==
  IsFounderMe => \A g \in Guests :
    /\ idle[g] # None => readyUp[g] = idle[g]
    /\ g \in users /\ idle[g] = None => readyUp[g] = None
GraceInv == IdleMeans /\ ReadyUpInv

\* A guest holds up the start if it plays and is not ready.
LEMMA NotOkGuest ==
  ASSUME NEW g \in Guests, NEW us, NEW st
  PROVE  g \in NotOk(us, st) <=> g \in us /\ ~st[g].spectator /\ ~Ok(st[g])
BY NamesAssumption DEF NotOk, Active, Humans

\* A time is there before it grows older exactly if it is after.
LEMMA OlderAges ==
  /\ \A age \in Ages : age # None
  /\ \A age \in Ages \cup {None} : Older(age) = None <=> age = None
BY OptionsAssumption DEF Ages, None, Older

\* The history follows the guests that hold up the start.
LEMMA IdleStep ==
  ASSUME TypeOK, NEW ticked \in BOOLEAN, Observe(ticked)
  PROVE  IdleMeans'
<1> SUFFICES ASSUME NEW g \in Guests
             PROVE  idle'[g] # None <=> g \in NotOk(users', status')
  BY DEF IdleMeans, NotOk, Active, None
<1>1. idle'[g] = IF g \notin NotOk(users', status') THEN None
                 ELSE IF idle[g] = None \/ (ingame /\ ~ingame') THEN 0
                 ELSE IF ticked THEN Older(idle[g]) ELSE idle[g]
  BY DEF Observe
<1>2. idle[g] \in Ages \cup {None}
  BY DEF TypeOK
<1> QED BY <1>1, <1>2, OlderAges, AgesType

\* The stored times follow the history through every handler,
LEMMA ReadyUpStep ==
  ASSUME TypeOK, IdleMeans, IdleMeans', ReadyUpInv, Handlers, Observe(FALSE)
  PROVE  ReadyUpInv'
<1> DEFINE Unready(g) == g \in NotOk(users', status')
           Good(g) == /\ idle'[g] # None => readyUp'[g] = idle'[g]
                      /\ g \in users' /\ idle'[g] = None => readyUp'[g] = None
<1> SUFFICES ASSUME IsFounderMe, NEW g \in Guests
             PROVE  Good(g)
  BY DEF ReadyUpInv, IsFounderMe, None
<1>1. idle'[g] = IF ~Unready(g) THEN None
                 ELSE IF idle[g] = None \/ (ingame /\ ~ingame') THEN 0 ELSE idle[g]
  BY DEF Observe
<1>2. idle[g] # None <=> g \in users /\ ~status[g].spectator /\ ~Ok(status[g])
  BY NotOkGuest DEF IdleMeans
<1>3. Unready(g) <=> g \in users' /\ ~status'[g].spectator /\ ~Ok(status'[g])
  BY NotOkGuest
<1>4. idle[g] # None => readyUp[g] = idle[g]
  BY DEF ReadyUpInv
<1>5. g \in users /\ idle[g] = None => readyUp[g] = None
  BY DEF ReadyUpInv
<1>6. 0 # None /\ g # Me /\ g \in Names
  BY NamesAssumption DEF None, Names, Humans
<1> HIDE DEF Unready
<1>7. ASSUME NEW u \in Humans, OnUserAdded(u) PROVE Good(g)
  <2>1. CASE u = g
    <3>1. g \notin users /\ readyUp'[g] = 0 /\ ingame' = ingame /\ status'[g] = Joining /\ g \in users'
      BY <1>6, <1>7, <2>1 DEF OnUserAdded, TypeOK
    <3> QED BY <1>1, <1>2, <1>3, <1>6, <3>1 DEF Joining, Ok
  <2>2. CASE u # g
    <3>1. /\ readyUp'[g] = readyUp[g] /\ ingame' = ingame /\ status'[g] = status[g]
          /\ g \in users' <=> g \in users
      BY <1>6, <1>7, <2>2 DEF OnUserAdded, TypeOK
    <3> QED BY <1>1, <1>2, <1>3, <1>4, <1>5, <3>1
  <2> QED BY <2>1, <2>2
<1>8. ASSUME NEW u \in Names, NEW s \in UserBattleStatus, NEW d \in SUBSET sent,
             OnUserBattleStatusUpdated(u, s, d)
      PROVE  Good(g)
  <2> DEFINE st == [status EXCEPT ![u] = s]
  <2>1. u \in users /\ users' = users /\ readyUp' = ReadyUp(u, s)
    BY <1>8 DEF OnUserBattleStatusUpdated
  <2>2. status'[g] = st[g] /\ (ingame => ingame')
    <3>1. st \in [Names -> UserBattleStatus]
      BY DEF TypeOK
    <3> QED BY <1>6, <1>8, <3>1, StartHostedBattleType DEF OnUserBattleStatusUpdated, OnlyMine, TypeOK
  <2>3. CASE u = g
    <3>1. status'[g] = s
      BY <1>6, <2>2, <2>3 DEF TypeOK
    <3>2. readyUp'[g] = IF s.spectator \/ Ok(s) THEN None ELSE IF readyUp[g] = None THEN 0 ELSE readyUp[g]
      BY <2>1, <2>3 DEF ReadyUp
    <3> QED BY <1>1, <1>2, <1>3, <1>4, <1>5, <1>6, <2>1, <2>2, <2>3, <3>1, <3>2
  <2>4. CASE u # g
    <3>1. status'[g] = status[g] /\ readyUp'[g] = readyUp[g]
      BY <1>6, <2>1, <2>2, <2>4 DEF ReadyUp, TypeOK
    <3> QED BY <1>1, <1>2, <1>3, <1>4, <1>5, <2>1, <2>2, <3>1
  <2> QED BY <2>3, <2>4
<1>9. ASSUME NEW u \in Names, NEW d \in SUBSET sent, OnUserRemoved(u, d) PROVE Good(g)
  BY <1>1, <1>2, <1>3, <1>4, <1>5, <1>9 DEF OnUserRemoved
<1>10. ASSUME NEW inGame \in BOOLEAN, OnBattleOpened(inGame) PROVE Good(g)
  <2>1. users' = {Me}
    BY <1>10 DEF OnBattleOpened, IsFounderMe
  <2> QED BY <1>1, <1>3, <1>6, <2>1
<1>11. ASSUME Quiet PROVE Good(g)
  <2>1. (g \in users' <=> g \in users) /\ status'[g] = status[g]
    BY <1>11 DEF Quiet, SameGuests
  <2>2. CASE readyUp' = readyUp /\ (ingame => ingame')
    BY <1>1, <1>2, <1>3, <1>4, <1>5, <2>1, <2>2
  <2>3. ASSUME NEW u \in Humans, NEW inGame \in BOOLEAN, OnUserStatus(u, inGame) PROVE Good(g)
    <3>1. CASE ingame /\ ~ingame'
      <4>1. readyUp'[g] = IF g \in NotOk(users, status) THEN 0 ELSE readyUp[g]
        BY <2>3, <3>1 DEF OnUserStatus
      <4>2. g \in NotOk(users, status) <=> idle[g] # None
        BY DEF IdleMeans
      <4> QED BY <1>1, <1>2, <1>3, <1>5, <2>1, <3>1, <4>1, <4>2
    <3>2. CASE ingame => ingame'
      <4>1. readyUp'[g] = readyUp[g]
        BY <2>3, <3>2 DEF OnUserStatus, TypeOK
      <4> QED BY <1>1, <1>2, <1>3, <1>4, <1>5, <2>1, <3>2, <4>1
    <3> QED BY <3>1, <3>2
  <2> QED BY <1>11, <2>2, <2>3 DEF Quiet
<1> QED BY <1>7, <1>8, <1>9, <1>10, <1>11, StepKinds

\* and through the tick.
LEMMA ReadyUpTick ==
  ASSUME TypeOK, ReadyUpInv, IdleMeans, Tick, Observe(TRUE)
  PROVE  ReadyUpInv'
<1> SUFFICES ASSUME IsFounderMe, NEW g \in Guests
             PROVE  /\ idle'[g] # None => readyUp'[g] = idle'[g]
                    /\ g \in users' /\ idle'[g] = None => readyUp'[g] = None
  BY DEF ReadyUpInv, IsFounderMe, None
<1>1. readyUp'[g] = Older(readyUp[g]) /\ UNCHANGED <<users, status, ingame>>
  BY DEF Tick
<1>2. idle'[g] = IF g \notin NotOk(users, status) THEN None
                 ELSE IF idle[g] = None THEN 0 ELSE Older(idle[g])
  BY <1>1 DEF Observe
<1>3. g \in NotOk(users, status) <=> idle[g] # None
  BY DEF IdleMeans
<1>4. Older(None) = None
  BY DEF Older
<1> QED BY <1>1, <1>2, <1>3, <1>4 DEF ReadyUpInv

\* Together they are inductive:
LEMMA GraceStep ==
  ASSUME TypeOK, GraceInv, Next
  PROVE  GraceInv'
<1>1. CASE Handlers /\ Observe(FALSE)
  BY <1>1, IdleStep, ReadyUpStep DEF GraceInv
<1>2. CASE Tick /\ Observe(TRUE)
  BY <1>2, IdleStep, ReadyUpTick DEF GraceInv
<1> QED BY <1>1, <1>2, NextHandlers

\* they hold in every reachable state.
LEMMA GraceInvariant == Spec => []GraceInv
<1>1. Init => GraceInv
  <2> SUFFICES ASSUME Init PROVE GraceInv
    OBVIOUS
  <2>1. ASSUME NEW g \in Guests
        PROVE  /\ idle[g] = readyUp[g] /\ readyUp[g] = IF g = Founder THEN 0 ELSE None
               /\ g \in NotOk(users, status) <=> g = Founder
    <3>1. g \in Names /\ status[g] = Joining
      BY NamesMembers DEF Init
    <3> QED BY <3>1, NotOkGuest DEF Init, Joining, Ok
  <2> QED BY <2>1 DEF GraceInv, IdleMeans, ReadyUpInv, None
<1>2. TypeOK /\ GraceInv /\ [Next]_vars => GraceInv'
  <2>1. ASSUME GraceInv, UNCHANGED vars PROVE GraceInv'
    BY <2>1 DEF vars, GraceInv, IdleMeans, ReadyUpInv, NotOk, Active, IsFounderMe, None
  <2> QED BY <2>1, GraceStep
<1> QED BY <1>1, <1>2, TypeCorrect, PTL DEF Spec

\* The host knows of every guest that is active but not ready since when it is,
\* whatever the order of joins, updates, removals and ends of games.
THEOREM GraceCorrect == Spec => []GraceTimes
<1>1. GraceInv => GraceTimes
  BY DEF GraceInv, ReadyUpInv, GraceTimes
<1> QED BY <1>1, GraceInvariant, PTL

\* A guest is made a spectator only outside a game and after the grace time.
LEMMA AutoSpecStep ==
  ASSUME TypeOK, GraceInv, Next, NEW g \in Guests, <<"autospec", g>> \in sent' \ sent
  PROVE  ~ingame /\ idle[g] > Trigger
<1> DEFINE New == <<"autospec", g>> \in sent' \ sent
<1>1. ASSUME NEW u, OnUserAdded(u) PROVE ~New
  BY <1>1 DEF OnUserAdded, ForceSpectator
<1>2. ASSUME NEW u, NEW s, NEW d, OnUserBattleStatusUpdated(u, s, d) PROVE ~New
  BY <1>2 DEF OnUserBattleStatusUpdated
<1>3. ASSUME NEW u, OnSpecSelect(u) PROVE ~New
  BY <1>3 DEF OnSpecSelect, ForceSpectator
<1>4. ASSUME OnTimer PROVE ~ingame /\ idle[g] > Trigger
  <2>1. g \in Late /\ IsFounderMe /\ ~ingame
    BY <1>4 DEF OnTimer, ForceSpectator
  <2>2. g \in NotOk(users, status) /\ readyUp[g] > Trigger
    BY <2>1 DEF Late
  <2>3. readyUp[g] = idle[g]
    BY <2>1, <2>2 DEF GraceInv, IdleMeans, ReadyUpInv
  <2> QED BY <2>1, <2>2, <2>3
<1>5. Handlers \/ Tick
  BY NextHandlers
<1>6. ASSUME sent' \subseteq sent PROVE ~New
  BY <1>6
<1> QED BY <1>1, <1>2, <1>3, <1>4, <1>5, <1>6 DEF Handlers, OnBotAdded, OnUserRemoved,
      OnBattleInfoUpdated, OnUserStatus, OnBattleOpened, Leave, SetImReady, OnStart, OnForceStart,
      OnStartMember, OnLock, OnSpringTerminated, ServerIgnores, Tick

\* Nobody is forced to spectate early: the timer acts on a guest only between
\* games and after it has been active without being ready for the whole time.
THEOREM AutoSpecCorrect == Spec => AutoSpecAfterGrace
<1>1. TypeOK /\ GraceInv /\ [Next]_vars =>
        [\A g \in Guests : <<"autospec", g>> \in sent' \ sent => ~ingame /\ idle[g] > Trigger]_vars
  BY AutoSpecStep
<1> QED BY <1>1, TypeCorrect, GraceInvariant, PTL DEF Spec, AutoSpecAfterGrace

-----------------------------------------------------------------------------
(* Starting the game process *)

\* The host that starts the process is in the battle and starts its game.
LEMMA StartHostedInGame ==
  ASSUME TypeOK, NEW us, NEW st, StartHostedBattle(us, st), ~spring, spring'
  PROVE  ingame' /\ Me \in us
BY DEF StartHostedBattle, StartSpring, TypeOK

\* No path starts the game process outside a game of the battle one is in.
THEOREM StartsCorrect == Spec => StartsWithBattle
<1>1. ASSUME TypeOK, Next, ~spring, spring' PROVE ingame' /\ Me \in users'
  <2> DEFINE Good == ingame' /\ Me \in users'
  <2> USE <1>1
  <2>1. ASSUME NEW u \in Names, NEW s \in UserBattleStatus, NEW d \in SUBSET sent,
               OnUserBattleStatusUpdated(u, s, d)
        PROVE  Good
    BY <2>1, StartHostedInGame DEF OnUserBattleStatusUpdated
  <2>2. ASSUME NEW u, NEW inGame \in BOOLEAN, OnUserStatus(u, inGame) PROVE Good
    <3> DEFINE room == u = Founder /\ u \in users /\ inGame # ingame
               mine == IF u = Me THEN inGame ELSE meInGame
    <3>1. room /\ inGame /\ StartSpring(users, status, mine)
      BY <2>2 DEF OnUserStatus
    <3> QED BY <2>2, <3>1 DEF OnUserStatus, StartSpring
  <2>3. ASSUME NEW ask \in BOOLEAN, OnStart(ask) PROVE Good
    BY <2>3, StartHostedInGame DEF OnStart
  <2>4. ASSUME NEW yes \in BOOLEAN, OnForceStart(yes) PROVE Good
    BY <2>4, StartHostedInGame DEF OnForceStart
  <2>5. ASSUME OnStartMember PROVE Good
    BY <2>5 DEF OnStartMember
  <2>6. Handlers \/ Tick
    BY NextHandlers
  <2> QED BY <2>1, <2>2, <2>3, <2>4, <2>5, <2>6 DEF Handlers, OnUserAdded, OnBotAdded, OnUserRemoved,
        OnBattleInfoUpdated, OnBattleOpened, Leave, SetImReady, OnLock, OnSpecSelect, OnTimer,
        OnSpringTerminated, ServerIgnores, Tick
<1>2. TypeOK /\ [Next]_vars => [~spring /\ spring' => ingame' /\ Me \in users']_vars
  BY <1>1
<1> QED BY <1>2, TypeCorrect, PTL DEF Spec, StartsWithBattle
=============================================================================

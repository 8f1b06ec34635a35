----------------------------- MODULE BattleHost -----------------------------
(***************************************************************************)
(* The bookkeeping SpringLobby keeps for one open battle (IBattle and its  *)
(* online form Battle), as seen by the GUI thread of one client, Me.  Each *)
(* handler of a server message, menu command or timer runs to completion   *)
(* on that thread, so a handler is one action.  With Founder = Me the      *)
(* client hosts the battle: it decides the automatic start and forces      *)
(* players that do not get ready to spectate.                              *)
(*                                                                         *)
(* Left to other modules: teams, allies and colours, the UPDATEBATTLEINFO  *)
(* traffic (here its echo may carry any count the host may have sent).     *)
(***************************************************************************)
EXTENDS Integers, FiniteSets

CONSTANTS
  Me,          \* this client's account
  Guests,      \* the other human players
  Bots,        \* AI players
  Founder,     \* m_opts.founder
  MaxPlayers,  \* m_opts.maxplayers
  Trigger,     \* the AutoSpect time of the settings, in timer ticks; 0 is off
  AutoStart,   \* the AutoStart setting
  AutoLock,    \* "lock the battle when the game starts"
  LowRank,     \* players whose rank is below m_opts.rankneeded
  Banned,      \* players CheckBan refuses
  EchoCounts,  \* spectator counts an UPDATEBATTLEINFO may carry
  Reports,     \* battle statuses the players report
  MySyncs,     \* what Battle::IsSynced may find out about this client
  UINT         \* number of values of an unsigned int

None == -1     \* "no entry" in m_ready_up_map and in the history idle

Humans == {Me} \cup Guests
Names  == Humans \cup Bots

(* Status of a player.  sync is an unsigned int with three values; the code *)
(* tests it for zero.                                                       *)

SYNC_UNKNOWN  == 0
SYNC_SYNCED   == 1
SYNC_UNSYNCED == 2

UserBattleStatus ==
  [spectator : BOOLEAN, ready : BOOLEAN, sync : {SYNC_UNKNOWN, SYNC_SYNCED, SYNC_UNSYNCED}]

Joining == [spectator |-> FALSE, ready |-> FALSE, sync |-> SYNC_UNKNOWN]

Ok(s) == s.ready /\ s.sync # SYNC_UNKNOWN

ASSUME NamesAssumption ==
  /\ IsFiniteSet(Guests) /\ IsFiniteSet(Bots)
  /\ Me \notin Guests /\ Humans \cap Bots = {}
  /\ Founder \in Humans
ASSUME OptionsAssumption ==
  /\ Trigger \in Nat /\ MaxPlayers \in Nat
  /\ AutoStart \in BOOLEAN /\ AutoLock \in BOOLEAN
  /\ LowRank \subseteq Names /\ Banned \subseteq Guests
ASSUME CounterAssumption ==
  /\ UINT \in Nat /\ Cardinality(Names) < UINT
  /\ EchoCounts \subseteq 0 .. UINT - 1
ASSUME InputAssumption ==
  /\ Reports \subseteq UserBattleStatus
  /\ MySyncs \subseteq {SYNC_SYNCED, SYNC_UNSYNCED}

VARIABLES
  users,       \* UserList::m_users of the battle
  status,      \* CommonUser::m_bstatus, the part this module is about
  spectators,  \* m_opts.spectators
  playersOk,   \* m_players_ok
  readyUp,     \* m_ready_up_map of the guests (OnTimer skips bots and Me):
               \* ticks since the stored time, capped, or None
  ingame,      \* m_ingame
  locked,      \* m_opts.islocked
  spring,      \* a game process is running (Spring::m_running)
  meInGame,    \* GetMe().Status().in_game
  asking,      \* the "force start?" dialog of BattleRoomTab::OnStart is open
  sent,        \* commands about players on their way to the server: <<why, nick>>
  idle,        \* history: ticks a guest has been active but not ready, or None
  blame        \* history: what the last automatic start went over

vars == <<users, status, spectators, playersOk, readyUp, ingame, locked,
          spring, meInGame, asking, sent, idle, blame>>

-----------------------------------------------------------------------------
IsFounderMe == Founder = Me

\* The active (not spectating) humans among us, and those that hold the start up.
Active(us, st)  == {u \in us \ Bots : ~st[u].spectator}
OkUsers(us, st) == {u \in Active(us, st) : Ok(st[u])}
NotOk(us, st)   == {u \in Active(us, st) : ~Ok(st[u])}
Spectating(us, st) == {u \in us : st[u].spectator}

Why == {"autospec", "rank", "kick", "host"}

Ages == 0 .. Trigger + 1       \* the cap is the first age OnTimer reacts to
Older(age) == IF age = None \/ age = Trigger + 1 THEN age ELSE age + 1

-----------------------------------------------------------------------------
(* Counting.  The counters are unsigned, so a subtraction wraps. *)

MinusSigned(n, k) == n - k                                  \* mutant of Minus
Minus(n, k) == (n - k) % UINT

GetNumActivePlayers(us, specs) ==
  Minus(Cardinality(us) - Cardinality(us \cap Bots), specs)

IsEveryoneButOneReady(us, specs, ok) ==                     \* mutant of IsEveryoneReady
  ok + 1 >= GetNumActivePlayers(us, specs)
IsEveryoneReady(us, specs, ok) == ok >= GetNumActivePlayers(us, specs)

ShouldAutoStart(us, specs, ok) ==
  /\ ~ingame
  /\ locked \/ GetNumActivePlayers(us, specs) >= MaxPlayers
  /\ IsEveryoneReady(us, specs, ok)

\* What a start goes over: the fact that somebody active is not ready, or that
\* nothing is known of its content yet, and whether a bot was spectating meanwhile.
Blame(us, st) ==
  {b \in {"unready", "specbot"} :
     \/ b = "unready"  /\ NotOk(us, st) # {}
     \/ b = "specbot"  /\ Spectating(us, st) \cap Bots # {}}

-----------------------------------------------------------------------------
(* Starting the game *)

\* Battle::StartSpring.  SendMyBattleStatus looks at the sync state again, and
\* Spring::Run fails when a game runs already, or for reasons of its own.
StartSpring(us, st, inGame) ==
  IF Me \in us /\ ~inGame
  THEN \E sync \in MySyncs, run \in BOOLEAN :
         /\ run => ~spring
         /\ status' = [st EXCEPT ![Me].ready = FALSE, ![Me].sync = sync]
         /\ spring' = (spring \/ run)
         /\ meInGame' = run
  ELSE /\ status' = st
       /\ meInGame' = inGame
       /\ UNCHANGED spring

\* Battle::StartHostedBattle and the handlers it runs through: the battle is
\* locked if so configured, marked as in game, and the game is started.
StartHostedBattle(us, st) ==
  IF Me \in us /\ IsFounderMe
  THEN /\ locked' = (locked \/ AutoLock)
       /\ ingame' = TRUE
       /\ StartSpring(us, st, meInGame)
  ELSE /\ status' = st
       /\ UNCHANGED <<locked, ingame, spring, meInGame>>

-----------------------------------------------------------------------------
(* Messages about the players of the battle *)

ForceSpectator(why, us) == sent' = sent \cup {<<why, u>> : u \in us}

\* JOINEDBATTLE: the new player starts as an active player that is not ready.
\* The founder checks its bans first and its rank limit after.
OnUserAdded(u) ==
  /\ u \in Humans \ users
  /\ users' = users \cup {u}
  /\ status' = [status EXCEPT ![u] = Joining]
  /\ readyUp' = [g \in Guests |-> IF g = u THEN 0 ELSE readyUp[g]]
  /\ IF ~IsFounderMe \/ u = Me THEN UNCHANGED sent
     ELSE IF u \in Banned THEN sent' = sent \cup {<<"kick", u>>}
     ELSE ForceSpectator("rank", {u} \cap LowRank)
  /\ UNCHANGED <<spectators, playersOk, ingame, locked, spring, meInGame, asking, blame>>

\* ADDBOT: IBattle::OnUserAdded without Battle's, whose checks a bot is spared; it
\* has no ready-up time.
OnBotAdded(b) ==
  /\ Me \in users /\ b \in Bots
  /\ IsFounderMe => b \notin users
  /\ users' = users \cup {b}
  /\ status' = [status EXCEPT ![b] = Joining]
  /\ UNCHANGED <<spectators, playersOk, readyUp, ingame, locked, spring, meInGame,
                 asking, sent, blame>>

\* Joining made the time start; a player that gets ready or spectates loses it, and
\* starts anew when it becomes an active player again.
ReadyUpKept(u, s) ==                                        \* mutant of ReadyUp
  [g \in Guests |-> IF g # u THEN readyUp[g]
                    ELSE IF s.spectator THEN None
                    ELSE IF Ok(s) \/ readyUp[g] # None THEN readyUp[g] ELSE 0]
ReadyUpOnce(u, s) ==                                        \* mutant of ReadyUp
  [g \in Guests |-> IF g = u /\ (s.spectator \/ Ok(s)) THEN None ELSE readyUp[g]]
ReadyUp(u, s) ==
  [g \in Guests |-> IF g # u THEN readyUp[g]
                    ELSE IF s.spectator \/ Ok(s) THEN None
                    ELSE IF readyUp[g] = None THEN 0 ELSE readyUp[g]]

\* CLIENTBATTLESTATUS and UPDATEBOT.  The status that arrives never says it is
\* a bot's, so rank limit and ready-up time treat bots as players.  Counters
\* are computed anew before the founder decides whether to start.
OnUserBattleStatusUpdated(u, s, delivered) ==
  LET st    == [status EXCEPT ![u] = s]
      specs == Cardinality(Spectating(users, st))
      ok    == Cardinality(OkUsers(users, st))
      force == IF IsFounderMe /\ u # Me /\ u \in LowRank THEN {<<"rank", u>>} ELSE {}
  IN
  /\ Me \in users /\ u \in users
  /\ sent' = (sent \ delivered) \cup force
  /\ spectators' = specs
  /\ playersOk' = ok
  /\ readyUp' = ReadyUp(u, s)
  /\ IF IsFounderMe /\ ShouldAutoStart(users, specs, ok) /\ AutoStart /\ ~spring
     THEN /\ StartHostedBattle(users, st)
          /\ blame' = Blame(users, st)
     ELSE /\ status' = st
          /\ UNCHANGED <<ingame, locked, spring, meInGame, blame>>
  /\ UNCHANGED <<users, asking>>

OkStays(u) == IF u = Me THEN 0 ELSE playersOk               \* mutant of OkWithout
OkWithout(u) ==
  IF u = Me THEN 0
  ELSE IF u \in OkUsers(users, status) THEN Minus(playersOk, 1) ELSE playersOk

\* LEFTBATTLE, REMOVEBOT.  The time of m_ready_up_map stays behind.  When it is
\* this client that left, OnSelfLeftBattle clears the counters.  The founder
\* does not leave: its battle is closed.
OnUserRemoved(u, delivered) ==
  /\ u \in users \ {Founder}
  /\ users' = users \ {u}
  /\ playersOk' = OkWithout(u)
  /\ spectators' = IF IsFounderMe /\ status[u].spectator THEN Minus(spectators, 1)
                   ELSE spectators
  /\ sent' = sent \ delivered
  /\ UNCHANGED <<status, readyUp, ingame, locked, spring, meInGame, asking, blame>>

\* UPDATEBATTLEINFO, which the server returns to its sender too.  A new map
\* makes the client look at its own sync state again.
OnBattleInfoUpdated(n, lock, sync) ==
  /\ spectators' = n
  /\ locked' = lock
  /\ status' = IF Me \in users THEN [status EXCEPT ![Me].sync = sync] ELSE status
  /\ UNCHANGED <<users, playersOk, readyUp, ingame, spring, meInGame, asking, sent, blame>>

\* CLIENTSTATUS of this client or of the founder.  The founder's decides
\* whether the battle is in game; leaving the game restarts the ready-up time
\* of everybody who is not ready.
OnUserStatus(u, inGame) ==
  LET mine == IF u = Me THEN inGame ELSE meInGame
      room == u = Founder /\ u \in users /\ inGame # ingame
      late == IF room /\ ~inGame THEN NotOk(users, status) ELSE {}
  IN
  /\ u \in {Me, Founder}
  /\ ingame' = IF room THEN inGame ELSE ingame
  /\ readyUp' = [g \in Guests |-> IF g \in late THEN 0 ELSE readyUp[g]]
  /\ blame' = IF room /\ ~inGame THEN {} ELSE blame
  /\ IF room /\ inGame THEN StartSpring(users, status, mine)
     ELSE meInGame' = mine /\ UNCHANGED <<status, spring>>
  /\ UNCHANGED <<users, spectators, playersOk, locked, asking, sent>>

\* BATTLECLOSED, and BATTLEOPENED for the founder's next battle: the object is
\* deleted, its successor holds the founder and follows its in-game state.
OnBattleOpened(inGame) ==
  /\ ~asking
  /\ users' = {Founder}
  /\ status' = [status EXCEPT ![Founder] = Joining]
  /\ spectators' = 0 /\ playersOk' = 0
  /\ readyUp' = [g \in Guests |-> IF g = Founder THEN 0 ELSE None]
  /\ ingame' = IF IsFounderMe THEN meInGame ELSE inGame
  /\ locked' = FALSE
  /\ sent' = {} /\ blame' = {}
  /\ UNCHANGED <<spring, meInGame, asking>>

\* Battle::Leave takes the bots out while it walks the list by index, so a bot
\* that follows one just taken out may be passed over.
Leave(kept) ==
  /\ Me \in users
  /\ kept \subseteq users \cap Bots
  /\ 2 * Cardinality(kept) <= Cardinality(users \cap Bots)
  /\ users' = users \ (Bots \ kept)
  /\ spectators' =
       IF IsFounderMe
       THEN Minus(spectators, Cardinality(Spectating(users, status) \cap (Bots \ kept)))
       ELSE spectators
  /\ UNCHANGED <<status, playersOk, readyUp, ingame, locked, spring,
                 meInGame, asking, sent, blame>>

-----------------------------------------------------------------------------
(* Commands of the user, the timer, the game process *)

\* The ready check box; MYBATTLESTATUS carries the sync state of the moment.
SetImReady(ready, sync) ==
  /\ Me \in users
  /\ status' = [status EXCEPT ![Me].ready = ready, ![Me].sync = sync]
  /\ UNCHANGED <<users, spectators, playersOk, readyUp, ingame, locked, spring,
                 meInGame, asking, sent, blame>>

\* The host's start button, and "!start" of the autohost when ask is FALSE.
\* The own status is set ready before the counters are consulted.
OnStart(ask) ==
  LET st == [status EXCEPT ![Me].ready = TRUE] IN
  /\ Me \in users /\ IsFounderMe /\ ~asking
  /\ IF IsEveryoneReady(users, spectators, playersOk)
     THEN StartHostedBattle(users, st) /\ UNCHANGED asking
     ELSE /\ status' = st
          /\ asking' = ask
          /\ UNCHANGED <<locked, ingame, spring, meInGame>>
  /\ UNCHANGED <<users, spectators, playersOk, readyUp, sent, blame>>

\* The answer to the dialog; other events were handled while it was open.
OnForceStart(yes) ==
  /\ asking /\ asking' = FALSE
  /\ IF yes THEN StartHostedBattle(users, status)
     ELSE UNCHANGED <<status, locked, ingame, spring, meInGame>>
  /\ UNCHANGED <<users, spectators, playersOk, readyUp, sent, blame>>

\* The start button of a member, for a host that plays already.
OnStartEarly ==                                             \* mutant of OnStartMember
  /\ Me \in users /\ ~IsFounderMe /\ ~spring
  /\ StartSpring(users, status, meInGame)
  /\ UNCHANGED <<users, spectators, playersOk, readyUp, ingame, locked, asking, sent, blame>>
OnStartMember ==
  /\ Me \in users /\ ~IsFounderMe /\ ingame /\ ~spring
  /\ StartSpring(users, status, meInGame)
  /\ UNCHANGED <<users, spectators, playersOk, readyUp, ingame, locked, asking, sent, blame>>

\* The lock check box, "!lock" and "!unlock".
OnLock(lock) ==
  /\ Me \in users /\ IsFounderMe
  /\ locked' = lock
  /\ UNCHANGED <<users, status, spectators, playersOk, readyUp, ingame, spring,
                 meInGame, asking, sent, blame>>

\* "Spectator" in the menu of a player's row, which a bot's does not offer.  A
\* member only suggests it to the others.
OnSpecSelect(u) ==
  /\ Me \in users /\ IsFounderMe /\ u \in users \cap Guests
  /\ ForceSpectator("host", {u})
  /\ UNCHANGED <<users, status, spectators, playersOk, readyUp, ingame, locked,
                 spring, meInGame, asking, blame>>

\* Battle::OnTimer, once a second while this client is in the battle.
LateOnTime ==                                               \* mutant of Late
  {u \in NotOk(users, status) \cap Guests : readyUp[u] # None /\ readyUp[u] >= Trigger}
Late == {u \in NotOk(users, status) \cap Guests : readyUp[u] # None /\ readyUp[u] > Trigger}

OnTimer ==
  /\ Me \in users /\ IsFounderMe /\ ~ingame /\ Trigger # 0
  /\ ForceSpectator("autospec", Late)
  /\ UNCHANGED <<users, status, spectators, playersOk, readyUp, ingame, locked,
                 spring, meInGame, asking, blame>>

\* The game process ended: Ui::OnSpringTerminated.
OnSpringTerminated ==
  /\ spring
  /\ spring' = FALSE
  /\ meInGame' = FALSE
  /\ locked' = (locked /\ ~(Me \in users /\ IsFounderMe /\ AutoLock))
  /\ UNCHANGED <<users, status, spectators, playersOk, readyUp, ingame, asking, sent, blame>>

-----------------------------------------------------------------------------
(* The server, as far as it reacts to the host's commands *)

\* FORCESPECTATORMODE of a player, UPDATEBOT of a bot: it announces the status.
ServerSpectates(c) ==
  /\ c \in sent /\ c[1] # "kick" /\ c[2] \in users
  /\ OnUserBattleStatusUpdated(c[2], [status[c[2]] EXCEPT !.spectator = TRUE], {c})

ServerKicks(c) ==
  /\ c \in sent /\ c[1] = "kick"
  /\ OnUserRemoved(c[2], {c})

\* A command about somebody who is gone is dropped.
ServerIgnores(c) ==
  /\ c \in sent /\ c[2] \notin users
  /\ sent' = sent \ {c}
  /\ UNCHANGED <<users, status, spectators, playersOk, readyUp, ingame, locked,
                 spring, meInGame, asking, blame>>

Tick ==
  /\ readyUp' = [g \in Guests |-> Older(readyUp[g])]
  /\ UNCHANGED <<users, status, spectators, playersOk, ingame, locked, spring,
                 meInGame, asking, sent, blame>>

-----------------------------------------------------------------------------
(* The history variable idle: a guest is idle while it is active and not    *)
(* ready; the time starts again with every join and with every game's end.  *)

Observe(ticked) ==
  idle' = [g \in Guests |->
    IF g \notin NotOk(users', status') THEN None
    ELSE IF idle[g] = None \/ (ingame /\ ~ingame') THEN 0
    ELSE IF ticked THEN Older(idle[g]) ELSE idle[g]]

Init ==
  /\ users = {Founder} /\ status = [u \in Names |-> Joining]
  /\ spectators = 0 /\ playersOk = 0
  /\ readyUp = [g \in Guests |-> IF g = Founder THEN 0 ELSE None]
  /\ ingame = FALSE /\ locked = FALSE /\ spring = FALSE
  /\ meInGame = FALSE /\ asking = FALSE
  /\ sent = {}
  /\ idle = readyUp
  /\ blame = {}

\* What the server says of a player: anything for a guest, a past state of the
\* own status, and for a bot the flag its last known update left.
PlayerMessage ==
  \/ \E u \in Humans : OnUserAdded(u)
  \/ \E u \in Humans : OnUserRemoved(u, {})
  \/ \E u \in Humans, s \in Reports : OnUserBattleStatusUpdated(u, s, {})
  \/ \E n \in EchoCounts, lock \in BOOLEAN :
       \E sync \in {status[Me].sync} \cup MySyncs :
         OnBattleInfoUpdated(n, lock, sync)
  \/ \E u \in Humans, inGame \in BOOLEAN : OnUserStatus(u, inGame)
  \/ \E inGame \in BOOLEAN : OnBattleOpened(inGame)

BotMessage ==
  \/ \E b \in Bots : OnBotAdded(b)
  \/ \E b \in Bots : Me \in users /\ OnUserRemoved(b, {})
  \/ \E b \in Bots : OnUserBattleStatusUpdated(b, status[b], {})

UserCommand ==
  \/ \E ready \in BOOLEAN, sync \in MySyncs : SetImReady(ready, sync)
  \/ \E ask \in BOOLEAN : OnStart(ask)
  \/ \E yes \in BOOLEAN : OnForceStart(yes)
  \/ OnStartMember
  \/ \E lock \in BOOLEAN : OnLock(lock)
  \/ \E g \in Guests : OnSpecSelect(g)
  \/ \E kept \in SUBSET Bots : Leave(kept)

ServerReaction ==
  \E c \in sent : ServerSpectates(c) \/ ServerKicks(c) \/ ServerIgnores(c)

Next ==
  \/ /\ PlayerMessage \/ BotMessage \/ UserCommand \/ ServerReaction
        \/ OnTimer \/ OnSpringTerminated
     /\ Observe(FALSE)
  \/ Tick /\ Observe(TRUE)

Spec == Init /\ [][Next]_vars

\* The wx timer keeps firing, time passes, and the server obeys: the fairness
\* under which the automatic spectating has to work.
FairSpec ==
  /\ Spec
  /\ WF_vars(Tick /\ Observe(TRUE))
  /\ WF_vars(OnTimer /\ Observe(FALSE))
  /\ \A g \in Guests : WF_vars(ServerSpectates(<<"autospec", g>>) /\ Observe(FALSE))

-----------------------------------------------------------------------------
(* Properties *)

TypeOK ==
  /\ users \subseteq Names
  /\ status \in [Names -> UserBattleStatus]
  /\ spectators \in 0 .. UINT - 1 /\ playersOk \in 0 .. UINT - 1
  /\ readyUp \in [Guests -> Ages \cup {None}]
  /\ ingame \in BOOLEAN /\ locked \in BOOLEAN /\ spring \in BOOLEAN
  /\ meInGame \in BOOLEAN /\ asking \in BOOLEAN
  /\ sent \subseteq Why \X Names
  /\ idle \in [Guests -> Ages \cup {None}]
  /\ blame \subseteq {"unready", "specbot"}

\* The host's m_players_ok is the number of guests that are active, ready and
\* known in sync, give or take the host's own row, which its own commands
\* change before the server has confirmed them.
OkGuests == OkUsers(users, status) \ {Me}
HostCountsOk ==
  IsFounderMe => playersOk \in {Cardinality(OkGuests), Cardinality(OkGuests) + 1}

\* On the host, the time in m_ready_up_map is that since the guest last became active without
\* being ready, by joining, by its status, or by the end of a game.  In
\* particular every such guest has one, so OnTimer overlooks nobody.
GraceTimes ==
  IsFounderMe => \A g \in Guests : idle[g] # None => readyUp[g] = idle[g]

\* The automatic start never goes over an unready player, except when the
\* count of active players was off by a spectating bot.
AutoStartReady == "unready" \in blame => "specbot" \in blame

\* A game process is started only while the battle is in game, by whatever the
\* game was started: the host's commands, the automatic start, the host's status.
StartsWithBattle == [][~spring /\ spring' => ingame' /\ Me \in users']_vars

\* A guest is told to spectate by the timer only outside games, after it has been
\* active and not ready for longer than the trigger time without a break.
AutoSpecAfterGrace ==
  [][\A g \in Guests : <<"autospec", g>> \in sent' \ sent => ~ingame /\ idle[g] > Trigger]_vars

\* The AutoSpect menu item: "Automatically spectate players that don't ready up
\* or become synced within x seconds".
AutoSpecWorks ==
  \A g \in Guests : (idle[g] # None /\ ~ingame) ~> (idle[g] = None \/ ingame)
=============================================================================

------------------------------- MODULE Joining -------------------------------
(***************************************************************************)
(* How TASServer gets into a battle.                                       *)
(*                                                                         *)
(* A battle behind NAT is joined in two steps: JoinBattle sends UDP pings  *)
(* and notes the wish; JOINBATTLE is sent when the server answers a ping,  *)
(* or by the timer when it did not for udp_reply_timeout seconds.  The     *)
(* same timer pings again every m_keepalive seconds, from the same stamp.  *)
(*                                                                         *)
(* A battle that a relay bot is to host takes four: the manager is asked   *)
(* for a bot, it answers with the bot's name, the bot logs in and gets the *)
(* command that was delayed until then, and when it has opened the battle  *)
(* the client joins it.                                                    *)
(*                                                                         *)
(* The server, the manager and the bots are not part of the program.       *)
(***************************************************************************)
EXTENDS Integers, FiniteSets

CONSTANTS
  Battles,           \* numbers of battles
  NatBattles,        \* those that are joined by NAT traversal
  RelayBots,         \* accounts of relay bots
  udp_reply_timeout, \* in ticks of the clock
  m_keepalive,       \* in ticks
  MaxCalls,          \* bound on the calls of JoinBattle and HostBattle
  MaxSessions        \* bound on the connections

None == "none"
Me == "me"

ASSUME JoiningAssumption ==
  /\ NatBattles \subseteq Battles
  /\ udp_reply_timeout \in Nat /\ m_keepalive \in Nat
  /\ udp_reply_timeout < m_keepalive
  /\ MaxCalls \in Nat /\ MaxSessions \in Nat \ {0}

VARIABLES
  connected,   \* m_connected
  session,     \* counter of the connections
  founder,     \* the battles that are listed, by their founders
  battleId,    \* m_battle_id
  inRoom,      \* the battle room shows that battle
  wish,        \* m_do_finalize_join_battle
  wishId,      \* m_finalize_join_battle_id
  age,         \* time since m_last_udp_ping
  pinged,      \* a UDP ping is under way, or its answer
  asked,       \* OPENBATTLE and JOINBATTLE without an answer
  waiting,     \* m_relay_host_manager is set
  bot,         \* m_relay_host_bot
  delayed,     \* m_delayed_open_command: the call it is of, or 0
  spawns,      \* requests to the manager without an answer
  answers,     \* bots whose names are on their way
  started,     \* bots that were spawned
  online,      \* those of them that are logged in
  told,        \* those that were told to open a battle
  calls,       \* counter of the calls
  wishCall,    \* history: the last call of JoinBattle
  waited,      \* history: the time since then, up to the time-out
  served       \* history: how often a call has led to its command

nat == <<wish, wishId, age, pinged, wishCall, waited>>
relay == <<waiting, bot, delayed, spawns, answers, started, online, told>>
place == <<founder, battleId, inRoom>>
vars == <<connected, session, place, nat, asked, relay, calls, served>>

Calls == 1 .. MaxCalls
AgeCap == m_keepalive + 1

TypeOK ==
  /\ connected \in BOOLEAN /\ session \in 1 .. MaxSessions
  /\ founder \in [Battles -> RelayBots \cup {Me, "other", None}]
  /\ battleId \in Battles \cup {None} /\ inRoom \in BOOLEAN
  /\ wish \in BOOLEAN /\ wishId \in Battles \cup {None}
  /\ age \in 0 .. AgeCap /\ pinged \in BOOLEAN
  /\ asked \subseteq {"open", "join"} \X Battles
  /\ waiting \in BOOLEAN /\ bot \in RelayBots \cup {None}
  /\ delayed \in 0 .. MaxCalls /\ spawns \in 0 .. MaxCalls
  /\ answers \subseteq started /\ online \subseteq started
  /\ started \subseteq RelayBots /\ told \subseteq online
  /\ calls \in 0 .. MaxCalls /\ wishCall \in 0 .. MaxCalls
  /\ waited \in 0 .. udp_reply_timeout + 1
  /\ served \in [Calls -> 0 .. 2]

Open == {b \in Battles : founder[b] # None}

Init ==
  /\ connected = TRUE /\ session = 1
  /\ founder \in [Battles -> {"other", None}]
  /\ battleId = None /\ inRoom = FALSE
  /\ wish = FALSE /\ wishId = None /\ age = 0 /\ pinged = FALSE
  /\ asked = {}
  /\ waiting = FALSE /\ bot = None /\ delayed = 0
  /\ spawns = 0 /\ answers = {} /\ started = {} /\ online = {} /\ told = {}
  /\ calls = 0 /\ wishCall = 0 /\ waited = 0
  /\ served = [c \in Calls |-> 0]

Once(n) == IF n = 2 THEN 2 ELSE n + 1
Serves(c) == IF c = 0 THEN served ELSE [served EXCEPT ![c] = Once(@)]

-----------------------------------------------------------------------------
(* Joining.                                                                *)

(* Mutant: the wish is still there when it was granted.                    *)
FinalizeJoinBattleKept ==
  IF wish
  THEN asked' = asked \cup {<<"join", wishId>>} /\ served' = Serves(wishCall)
       /\ UNCHANGED wish
  ELSE UNCHANGED <<asked, served, wish>>

FinalizeJoinBattle ==
  IF wish
  THEN /\ asked' = asked \cup {<<"join", wishId>>}
       /\ served' = Serves(wishCall)
       /\ wish' = FALSE
  ELSE UNCHANGED <<asked, served, wish>>

(* Mutant: the time of the ping is not taken.                              *)
JoinBattleNoStamp(b) ==
  /\ calls < MaxCalls
  /\ calls' = calls + 1 /\ wishCall' = calls' /\ waited' = 0
  /\ wishId' = b
  /\ IF b \in NatBattles
     THEN wish' = TRUE /\ pinged' = TRUE /\ UNCHANGED <<age, asked, served>>
     ELSE /\ asked' = asked \cup {<<"join", b>>}
          /\ served' = [served EXCEPT ![calls'] = Once(@)]
          /\ wish' = FALSE
          /\ UNCHANGED <<age, pinged>>

(* Of a battle that is listed.                                             *)
JoinBattle(b) ==
  /\ calls < MaxCalls
  /\ calls' = calls + 1 /\ wishCall' = calls' /\ waited' = 0
  /\ wishId' = b
  /\ IF b \in NatBattles
     THEN wish' = TRUE /\ pinged' = TRUE /\ age' = 0 /\ UNCHANGED <<asked, served>>
     ELSE /\ asked' = asked \cup {<<"join", b>>}
          /\ served' = [served EXCEPT ![calls'] = Once(@)]
          /\ wish' = FALSE
          /\ UNCHANGED <<age, pinged>>

(* The user joins a battle when the room is empty.                         *)
Join(b) ==
  /\ connected /\ ~inRoom /\ b \in Open
  /\ JoinBattle(b)
  /\ UNCHANGED <<connected, session, place, relay>>

UdpSourcePort ==
  /\ connected /\ pinged
  /\ pinged' \in BOOLEAN
  /\ FinalizeJoinBattle
  /\ UNCHANGED <<connected, session, place, wishId, age, wishCall, waited, relay, calls>>

UdpLost ==
  /\ pinged /\ pinged' = FALSE
  /\ UNCHANGED <<connected, session, place, wish, wishId, age, wishCall, waited,
                 asked, relay, calls, served>>

(* Mutant: the time for the next ping is looked at first.                  *)
UpdateKeepaliveFirst ==
  /\ connected
  /\ age' = IF age > m_keepalive THEN 0 ELSE age
  /\ pinged' = (pinged \/ (age > m_keepalive /\ battleId \in NatBattles \cap Open))
  /\ IF age' > udp_reply_timeout THEN FinalizeJoinBattle
     ELSE UNCHANGED <<asked, served, wish>>
  /\ UNCHANGED <<connected, session, place, wishId, wishCall, waited, relay, calls>>

(* TASServer::Update: the timeout, then the ping that keeps the hole open, *)
(* of whatever battle m_battle_id names.                                   *)
Update ==
  /\ connected
  /\ IF age > udp_reply_timeout THEN FinalizeJoinBattle
     ELSE UNCHANGED <<asked, served, wish>>
  /\ age' = IF age > m_keepalive THEN 0 ELSE age
  /\ pinged' = (pinged \/ (age > m_keepalive /\ battleId \in NatBattles \cap Open))
  /\ UNCHANGED <<connected, session, place, wishId, wishCall, waited, relay, calls>>

Tick ==
  /\ age' = IF age = AgeCap THEN age ELSE age + 1
  /\ waited' = IF waited > udp_reply_timeout THEN waited ELSE waited + 1
  /\ UNCHANGED <<connected, session, place, wish, wishId, pinged, wishCall,
                 asked, relay, calls, served>>

(* The answer to JOINBATTLE, or none.                                      *)
OnJoinedBattle(b) ==
  /\ connected /\ <<"join", b>> \in asked
  /\ asked' = asked \ {<<"join", b>>}
  /\ battleId' = b
  /\ inRoom' = (inRoom \/ b \in Open)
  /\ UNCHANGED <<connected, session, founder, nat, relay, calls, served>>

Refused(question) ==
  /\ connected
  /\ asked' = asked \ {question}
  /\ UNCHANGED <<connected, session, place, nat, relay, calls, served>>

-----------------------------------------------------------------------------
(* Hosting.                                                                *)
HostBattle(b) ==
  /\ connected /\ ~inRoom /\ b \notin Open
  /\ delayed' = 0
  /\ asked' = asked \cup {<<"open", b>>}
  /\ pinged' = (pinged \/ b \in NatBattles)
  /\ UNCHANGED <<connected, session, place, wish, wishId, age, wishCall, waited,
                 waiting, bot, spawns, answers, started, online, told, calls, served>>

(* A manager is asked for a bot, or none is there; with NAT or without.    *)
HostBattleRelayed ==
  /\ connected /\ ~inRoom /\ calls < MaxCalls
  /\ pinged' \in {pinged, TRUE}
  /\ \/ calls' = calls + 1 /\ delayed' = calls' /\ waiting' = TRUE /\ spawns' = spawns + 1
     \/ delayed' = 0 /\ UNCHANGED <<calls, waiting, spawns>>
  /\ UNCHANGED <<connected, session, place, wish, wishId, age, wishCall, waited,
                 asked, bot, answers, started, online, told, served>>

OnHostedBattle(b) ==
  /\ connected /\ <<"open", b>> \in asked /\ b \notin Open
  /\ asked' = asked \ {<<"open", b>>}
  /\ founder' = [founder EXCEPT ![b] = Me]
  /\ battleId' = b /\ inRoom' = TRUE
  /\ UNCHANGED <<connected, session, nat, relay, calls, served>>

(* LEAVEBATTLE.  The wish of a join that is not finalized remains.         *)
LeaveBattle ==
  /\ connected /\ inRoom
  /\ bot' = None /\ inRoom' = FALSE
  /\ founder' = IF founder[battleId] = Me
                THEN [founder EXCEPT ![battleId] = None] ELSE founder
  /\ UNCHANGED <<connected, session, battleId, nat, asked, waiting, delayed, spawns,
                 answers, started, online, told, calls, served>>

(* The manager takes a request and spawns a bot, or not.                   *)
ManagerSpawns(x) ==
  /\ spawns > 0 /\ x \notin started
  /\ spawns' = spawns - 1
  /\ answers' = answers \cup {x} /\ started' = started \cup {x}
  /\ UNCHANGED <<connected, session, place, nat, asked, waiting, bot, delayed,
                 online, told, calls, served>>

(* SAIDPRIVATE by the manager: an error, or the name of the bot.  Without  *)
(* a question it is a private message.                                     *)
ManagerRefuses ==
  /\ connected /\ spawns > 0
  /\ spawns' = spawns - 1 /\ waiting' = FALSE
  /\ UNCHANGED <<connected, session, place, nat, asked, bot, delayed, answers,
                 started, online, told, calls, served>>

ManagerAnswers(x) ==
  /\ connected /\ x \in answers
  /\ answers' = answers \ {x}
  /\ bot' = (IF waiting THEN x ELSE bot) /\ waiting' = FALSE
  /\ UNCHANGED <<connected, session, place, nat, asked, delayed, spawns, started,
                 online, told, calls, served>>

(* Mutant: the command waits for the next answer of the manager.           *)
OnAddUserSilent(x) ==
  /\ connected /\ x \in started \ online
  /\ online' = online \cup {x}
  /\ UNCHANGED <<connected, session, place, nat, asked, waiting, bot, delayed,
                 spawns, answers, started, told, calls, served>>

(* ADDUSER of a bot that was spawned, or comes back.  The bot whose name   *)
(* the manager told gets the delayed command, which may be empty by now.   *)
OnAddUser(x) ==
  /\ connected /\ x \in started \ online
  /\ online' = online \cup {x}
  /\ IF x = bot
     THEN /\ told' = IF delayed = 0 THEN told ELSE told \cup {x}
          /\ served' = Serves(delayed)
          /\ delayed' = 0
     ELSE UNCHANGED <<told, served, delayed>>
  /\ UNCHANGED <<connected, session, place, nat, asked, waiting, bot, spawns,
                 answers, started, calls>>

(* BATTLEOPENED by a bot that was told; the battle of the present bot is   *)
(* joined at once.                                                         *)
OnBattleOpened(x, b) ==
  /\ connected /\ x \in told /\ b \notin Open
  /\ told' = told \ {x}
  /\ founder' = [founder EXCEPT ![b] = x]
  /\ IF x = bot THEN JoinBattle(b)
     ELSE UNCHANGED <<nat, asked, calls, served>>
  /\ UNCHANGED <<connected, session, battleId, inRoom, waiting, bot, delayed,
                 spawns, answers, started, online>>

OtherOpens(b) ==
  /\ connected /\ b \notin Open
  /\ founder' = [founder EXCEPT ![b] = "other"]
  /\ UNCHANGED <<connected, session, battleId, inRoom, nat, asked, relay, calls, served>>

(* BATTLECLOSED, with the end of a bot or without.                         *)
OnBattleClosed(b) ==
  /\ connected /\ b \in Open /\ founder[b] # Me
  /\ founder' = [founder EXCEPT ![b] = None]
  /\ bot' = IF b = battleId THEN None ELSE bot
  /\ inRoom' = (inRoom /\ b # battleId)
  /\ \/ online' = online \ {founder[b]} /\ told' = told \ {founder[b]}
     \/ UNCHANGED <<online, told>>
  /\ UNCHANGED <<connected, session, battleId, nat, asked, waiting, delayed, spawns,
                 answers, started, calls, served>>

(* FORCEQUITBATTLE and LEFTBATTLE.                                         *)
OnKicked ==
  /\ connected /\ inRoom /\ founder[battleId] # Me
  /\ bot' = None /\ inRoom' = FALSE
  /\ UNCHANGED <<connected, session, founder, battleId, nat, asked, waiting, delayed,
                 spawns, answers, started, online, told, calls, served>>

(* The connection ends.  The registry goes; wish, bot and delayed command  *)
(* stay.                                                                   *)
OnDisconnected ==
  /\ connected /\ session < MaxSessions
  /\ connected' = FALSE
  /\ founder' = [b \in Battles |-> None] /\ inRoom' = FALSE
  /\ asked' = {} /\ spawns' = 0 /\ answers' = {} /\ told' = {}
  /\ UNCHANGED <<session, battleId, nat, waiting, bot, delayed, started, online,
                 calls, served>>

(* The next one: the bots that are there are announced again.              *)
OnConnected ==
  /\ ~connected
  /\ connected' = TRUE /\ session' = session + 1
  /\ age' = 0
  /\ online' = {}
  /\ UNCHANGED <<place, wish, wishId, pinged, wishCall, waited, asked, waiting, bot,
                 delayed, spawns, answers, started, told, calls, served>>

-----------------------------------------------------------------------------
Next ==
  \/ \E b \in Battles :
       \/ Join(b) \/ HostBattle(b) \/ OnJoinedBattle(b) \/ OnHostedBattle(b)
       \/ OtherOpens(b) \/ OnBattleClosed(b)
  \/ \E question \in asked : Refused(question)
  \/ HostBattleRelayed \/ ManagerRefuses
  \/ \E x \in RelayBots :
       \/ ManagerSpawns(x) \/ ManagerAnswers(x) \/ OnAddUser(x)
       \/ \E b \in Battles : OnBattleOpened(x, b)
  \/ UdpSourcePort \/ UdpLost \/ Update \/ Tick
  \/ LeaveBattle \/ OnKicked \/ OnDisconnected \/ OnConnected

Spec == Init /\ [][Next]_vars

(* The timer fires, time passes, and a bot that was spawned logs in.       *)
FairSpec ==
  /\ Spec
  /\ WF_vars(Update) /\ WF_vars(Tick)
  /\ \A x \in RelayBots : WF_vars(OnAddUser(x))

-----------------------------------------------------------------------------
(* A call of JoinBattle or of HostBattle leads to its command once at      *)
(* most, whatever answers, time-outs, repeated logins of a bot or new      *)
(* connections come after it (tasserver.cpp:506, 651-655, 1039, 1507).     *)
ServedOnce == \A c \in Calls : served[c] <= 1

(* "to prevent Update() from calling FinalizeJoinBattle() on timeout": the *)
(* timer joins only when the time has passed since the battle was chosen   *)
(* (tasserver.cpp:1473-1477).                                              *)
NoEarlyTimeout ==
  [][Update /\ served' # served => waited > udp_reply_timeout]_vars

(* A battle behind NAT is joined at last, answer or not, unless the        *)
(* connection ends: the ping that keeps the hole open never puts the       *)
(* time-out off for ever (tasserver.cpp:501-517).                          *)
JoinGoes == wish ~> ~wish \/ ~connected

(* If the manager's answer is there before the bot logs in, the bot gets   *)
(* the command, unless the battle is given up or another is hosted.        *)
RelayServed ==
  \A c \in Calls, x \in RelayBots :
    (delayed = c /\ bot = x /\ x \notin online)
      ~> (delayed # c \/ bot # x \/ ~connected)

(* Whatever happens to the wishes, the bots and the connections, no call   *)
(* is served twice.                                                        *)
CallsSound == TypeOK /\ ServedOnce
=============================================================================

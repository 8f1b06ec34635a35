------------------------------ MODULE Registry ------------------------------
(***************************************************************************)
(* The users, the battles and the one channel that the client knows of,    *)
(* and who points to whom: a battle and a channel to their users, a user   *)
(* to its battle, the battle room to its battle.  The objects belong to    *)
(* Server (server.cpp); the handlers of ServerEvents create them, connect  *)
(* them and delete them as the server tells, together with Ui.             *)
(*                                                                         *)
(* The server is not part of the program.  It is modelled by what it       *)
(* knows and by the messages it sends: it obeys a command at once, and the *)
(* time that the command takes is counted as time of the messages in `in`. *)
(* It may take leave of a user one by one, or by REMOVEUSER alone.         *)
(***************************************************************************)
EXTENDS Integers, Sequences, FiniteSets

CONSTANTS
  Me,         \* this client's account
  Others,     \* the other accounts
  Bots,       \* names of AI players
  Battles,    \* numbers of battles
  Rank,       \* the place of a name in the maps, which are in alphabetical order
  MaxEvents   \* bound on what the server and the user do

None == "none"
Users == {Me} \cup Others
Names == Users \cup Bots

ASSUME RegistryAssumption ==
  /\ Me \notin Others /\ Bots \cap Users = {} /\ IsFiniteSet(Names)
  /\ None \notin Names \cup Battles
  /\ Rank \in [Names -> Nat] /\ \A m, n \in Names : Rank[m] = Rank[n] => m = n
  /\ MaxEvents \in Nat

VARIABLES
  srv,     \* what the server knows
  in,      \* its messages on their way to the client
  reg,     \* what the client knows
  events   \* counter of the server's and the user's doings

vars == <<srv, in, reg, events>>

(* reg: m_users, m_battles with their m_opts.founder and m_users, m_battle *)
(* of a user, the battle of the battle room, the channel and its m_users.  *)
Registries ==
  [users : SUBSET Users, battles : SUBSET Battles,
   founder : [Battles -> Users \cup {None}], members : [Battles -> SUBSET Names],
   battle : [Users -> Battles \cup {None}], room : Battles \cup {None},
   chan : SUBSET Users, hasChan : BOOLEAN]

Truths ==
  [users : SUBSET Users, founder : [Battles -> Users \cup {None}],
   place : [Users -> Battles \cup {None}], bots : [Battles -> SUBSET Bots],
   chan : SUBSET Users]

Message ==
  [is : {"ADDUSER", "REMOVEUSER", "CLIENTS", "JOINED", "LEFT"}, who : Users]
    \cup [is : {"JOIN"}]
    \cup [is : {"BATTLEOPENED", "JOINEDBATTLE", "LEFTBATTLE"}, at : Battles, who : Users]
    \cup [is : {"BATTLECLOSED", "OPENBATTLE", "JOINBATTLE"}, at : Battles]
    \cup [is : {"ADDBOT", "REMOVEBOT"}, at : Battles, who : Bots]

TypeOK ==
  /\ srv \in Truths /\ reg \in Registries
  /\ in \in Seq(Message)
  /\ events \in 0 .. MaxEvents

Open(s) == {b \in Battles : s.founder[b] # None}

(* A message about a user, about a battle, about a user of a battle.       *)
Of(kind, who) == <<[is |-> kind, who |-> who]>>
About(kind, at) == <<[is |-> kind, at |-> at]>>
Tells(kind, at, who) == <<[is |-> kind, at |-> at, who |-> who]>>

-----------------------------------------------------------------------------
(* The handlers, from registry to registry.  A name that is not known      *)
(* makes them throw.                                                       *)

(* Battle::OnUserAdded, and IBattle::OnUserRemoved for each of some names. *)
(* A user whom CheckBan kicks stays in the list until the server lets it   *)
(* leave (LeavesOrIsKicked): the client only sends the command.            *)
OnUserAdded(r, b, n) ==
  [r EXCEPT !.members[b] = @ \cup {n},
            !.battle = [u \in Users |-> IF u = n THEN b ELSE @[u]]]

(* Mutant: the users' own pointers are forgotten.                          *)
OnUsersRemovedList(r, b, gone) == [r EXCEPT !.members[b] = @ \ gone]

OnUsersRemoved(r, b, gone) ==
  [r EXCEPT !.members[b] = @ \ gone,
            !.battle = [u \in Users |-> IF u \in gone THEN None ELSE @[u]]]

LeaveCurrentBattle(r) == [r EXCEPT !.room = None]

OnNewUser(r, u) == [r EXCEPT !.users = @ \cup {u}]

OnBattleOpened(r, b, u) ==
  IF b \in r.battles THEN r
  ELSE LET added == [r EXCEPT !.battles = @ \cup {b}]
       IN IF u \notin r.users THEN added
          ELSE OnUserAdded([added EXCEPT !.founder[b] = u], b, u)

OnUserJoinedBattle(r, b, u) ==
  IF b \in r.battles /\ u \in r.users THEN OnUserAdded(r, b, u) ELSE r

(* Mutant: the room is left with anybody.                                  *)
LeaveWithAny(r, b, gone) ==
  IF r.room = b THEN LeaveCurrentBattle(OnUsersRemoved(r, b, gone))
                ELSE OnUsersRemoved(r, b, gone)

(* The room is left when it is me who left its battle.                     *)
UsersLeave(r, b, gone) ==
  IF Me \in gone /\ r.room = b THEN LeaveCurrentBattle(OnUsersRemoved(r, b, gone))
                               ELSE OnUsersRemoved(r, b, gone)

OnUserLeftBattle(r, b, n) ==
  IF b \in r.battles /\ n \in r.members[b] THEN UsersLeave(r, b, {n}) ELSE r

OnBattleClosed(r, b) ==
  IF b \notin r.battles THEN r
  ELSE [r EXCEPT !.battles = @ \ {b}, !.founder[b] = None, !.members[b] = {},
                 !.room = IF @ = b THEN None ELSE @,
                 !.battle = [u \in Users |->
                               IF u \in r.members[b] THEN None ELSE @[u]]]

(* A loop over the users and bots of a battle that removes each by its     *)
(* index, while the list gets shorter: it meets the first, the third, the  *)
(* fifth...                                                                *)
EverySecond(members) ==
  {n \in members : Cardinality({m \in members : Rank[m] < Rank[n]}) % 2 = 0}

(* Server::_RemoveUser: also from the channel; then the user is deleted.   *)
RemoveUser(r, u) ==
  [r EXCEPT !.users = @ \ {u}, !.chan = @ \ {u}, !.battle[u] = None]

(* Mutant: the users leave a founder's battle, but it is not closed.       *)
LeaveBattleOpen(r, u) ==
  LET b == r.battle[u] IN
    IF b = None THEN r
    ELSE IF r.founder[b] # u THEN OnUserLeftBattle(r, b, u)
    ELSE UsersLeave(r, b, EverySecond(r.members[b]))

(* Nothing is done about the battle if its founder has left it.            *)
LeaveBattleOf(r, u) ==
  LET b == r.battle[u] IN
    IF b = None THEN r
    ELSE IF r.founder[b] \notin r.members[b] THEN r
    ELSE IF r.founder[b] # u THEN OnUserLeftBattle(r, b, u)
    ELSE OnBattleClosed(UsersLeave(r, b, EverySecond(r.members[b])), b)

OnUserQuit(r, u) ==
  IF u \notin r.users THEN r ELSE RemoveUser(LeaveBattleOf(r, u), u)

(* OnJoinedBattle and OnHostedBattle: the battle room shows the battle.    *)
EnterRoom(r, b) == IF b \in r.battles THEN [r EXCEPT !.room = b] ELSE r

OnBattleAddBot(r, b, n) == IF b \in r.battles THEN OnUserAdded(r, b, n) ELSE r

(* A channel that was joined before is still there with its users.         *)
OnJoinChannelResult(r) == [r EXCEPT !.hasChan = TRUE]

OnUserJoinChannel(r, u) ==
  IF r.hasChan /\ u \in r.users THEN [r EXCEPT !.chan = @ \cup {u}] ELSE r

OnChannelPart(r, u) ==
  IF r.hasChan /\ u \in r.users THEN [r EXCEPT !.chan = @ \ {u}] ELSE r

(* Battle::Leave removes the bots by their index, too: of bots that follow *)
(* each other it meets every second.                                       *)
Met(members) ==
  LET bots == members \cap Bots
      Between(m, n) == {u \in members : Rank[m] < Rank[u] /\ Rank[u] < Rank[n]}
      RunUpTo(n) == {m \in bots : Rank[m] < Rank[n] /\ Between(m, n) \subseteq Bots}
  IN {n \in bots : Cardinality(RunUpTo(n)) % 2 = 0}

Leave(r) == OnUsersRemoved(r, r.room, Met(r.members[r.room]))

-----------------------------------------------------------------------------
(* The server.                                                             *)
BattleOf(s, u) == s.place[u]
Founds(s, u) == BattleOf(s, u) # None /\ s.founder[BattleOf(s, u)] = u

LeavesBattle(s, u) ==
  IF Founds(s, u)
  THEN [s EXCEPT !.founder[BattleOf(s, u)] = None, !.bots[BattleOf(s, u)] = {},
                 !.place = [v \in Users |->
                              IF @[v] = BattleOf(s, u) THEN None ELSE @[v]]]
  ELSE [s EXCEPT !.place[u] = None]

LeaveNews(s, u) ==
  LET b == BattleOf(s, u) IN
    IF b = None THEN <<>>
    ELSE IF Founds(s, u) THEN About("BATTLECLOSED", b)
    ELSE Tells("LEFTBATTLE", b, u)

EntersBattle(s, u, b) == [s EXCEPT !.place[u] = b]

(* All names of a set in their order.                                      *)
Listed(names) ==
  {list \in [1 .. Cardinality(names) -> names] :
     /\ {list[i] : i \in DOMAIN list} = names
     /\ \A i, j \in DOMAIN list : i < j => Rank[list[i]] < Rank[list[j]]}

BotNews(b, list) ==
  [i \in DOMAIN list |-> [is |-> "ADDBOT", at |-> b, who |-> list[i]]]

EnterNews(s, u, b) ==
  IF u = Me
  THEN {About("JOINBATTLE", b) \o BotNews(b, list) \o Tells("JOINEDBATTLE", b, u) :
          list \in Listed(s.bots[b])}
  ELSE {Tells("JOINEDBATTLE", b, u)}

OpensBattle(s, u, b) == [s EXCEPT !.founder[b] = u, !.place[u] = b]

OpenNews(u, b) ==
  Tells("BATTLEOPENED", b, u)
    \o (IF u = Me THEN About("OPENBATTLE", b) ELSE <<>>)

Quits(s, u) ==
  [LeavesBattle(s, u) EXCEPT !.users = @ \ {u}, !.chan = @ \ {u}]

ChannelNews(s, u, kind) ==
  IF Me \in s.chan /\ (kind = "LEFT" => u \in s.chan) THEN Of(kind, u) ELSE <<>>

ClientNews(list) == [i \in DOMAIN list |-> [is |-> "CLIENTS", who |-> list[i]]]

Farewells(s, u) ==
  {left \o part \o Of("REMOVEUSER", u) :
     left \in {<<>>, LeaveNews(s, u)}, part \in {<<>>, ChannelNews(s, u, "LEFT")}}

-----------------------------------------------------------------------------
(* A world that the client knows of, somewhere in a session.               *)
Init ==
  /\ srv \in [users : {users \in SUBSET Users : Me \in users},
              founder : [Battles -> Users \cup {None}],
              place : [Users -> Battles \cup {None}],
              bots : [Battles -> SUBSET Bots], chan : SUBSET Users]
  /\ \A u \in Users : srv.place[u] # None => u \in srv.users
  /\ \A u \in Users : srv.place[u] # None => srv.place[u] \in Open(srv)
  /\ \A b \in Open(srv) : srv.place[srv.founder[b]] = b
  /\ \A b \in Battles \ Open(srv) : srv.bots[b] = {}
  /\ srv.chan \in {{}, srv.users}
  /\ in = <<>>
  /\ reg = [users |-> srv.users, battles |-> Open(srv),
            founder |-> srv.founder,
            members |-> [b \in Battles |->
                           {u \in Users : srv.place[u] = b}
                             \cup IF srv.place[Me] = b THEN srv.bots[b] ELSE {}],
            battle |-> srv.place, room |-> srv.place[Me],
            chan |-> srv.chan, hasChan |-> srv.chan # {}]
  /\ events = 0

Event == events < MaxEvents /\ events' = events + 1
Sends(news) == in' = in \o news

(* What other users do.                                                    *)
LogIn(u) ==
  /\ Event /\ u \notin srv.users
  /\ srv' = [srv EXCEPT !.users = @ \cup {u}]
  /\ Sends(Of("ADDUSER", u))
  /\ UNCHANGED reg

LogOut(u) ==
  /\ Event /\ u \in srv.users
  /\ srv' = Quits(srv, u)
  /\ \E news \in Farewells(srv, u) : Sends(news)
  /\ UNCHANGED reg

OtherOpens(u, b) ==
  /\ Event /\ u \in srv.users /\ BattleOf(srv, u) = None /\ b \notin Open(srv)
  /\ srv' = OpensBattle(srv, u, b)
  /\ Sends(OpenNews(u, b))
  /\ UNCHANGED reg

OtherJoins(u, b) ==
  /\ Event /\ u \in srv.users /\ BattleOf(srv, u) = None /\ b \in Open(srv)
  /\ srv' = EntersBattle(srv, u, b)
  /\ \E news \in EnterNews(srv, u, b) : Sends(news)
  /\ UNCHANGED reg

(* Also: I am thrown out of the battle.                                    *)
LeavesOrIsKicked(u) ==
  /\ Event /\ BattleOf(srv, u) # None
  /\ u = Me => ~Founds(srv, Me)
  /\ srv' = LeavesBattle(srv, u)
  /\ Sends(LeaveNews(srv, u))
  /\ UNCHANGED reg

AddsBot(b, n) ==
  /\ Event /\ b \in Open(srv) /\ n \notin srv.bots[b]
  /\ srv' = [srv EXCEPT !.bots[b] = @ \cup {n}]
  /\ Sends(IF BattleOf(srv, Me) = b THEN Tells("ADDBOT", b, n) ELSE <<>>)
  /\ UNCHANGED reg

RemovesBot(b, n) ==
  /\ Event /\ n \in srv.bots[b]
  /\ srv' = [srv EXCEPT !.bots[b] = @ \ {n}]
  /\ Sends(IF BattleOf(srv, Me) = b THEN Tells("REMOVEBOT", b, n) ELSE <<>>)
  /\ UNCHANGED reg

EntersChannel(u) ==
  /\ Event /\ u \in srv.users \ srv.chan
  /\ srv' = [srv EXCEPT !.chan = @ \cup {u}]
  /\ Sends(ChannelNews(srv, u, "JOINED"))
  /\ UNCHANGED reg

PartsChannel(u) ==
  /\ Event /\ u \in srv.chan
  /\ srv' = [srv EXCEPT !.chan = @ \ {u}]
  /\ Sends(ChannelNews(srv, u, "LEFT"))
  /\ UNCHANGED reg

(* A REMOVEUSER about myself, which the client does not believe.           *)
RemovesMe ==
  /\ Event
  /\ Sends(Of("REMOVEUSER", Me))
  /\ UNCHANGED <<srv, reg>>

-----------------------------------------------------------------------------
(* What the user does.  From the list of battles one is joined or founded  *)
(* after the present one was left, and the room is left at once; in the    *)
(* battle room itself the answer of the server is waited for.              *)
OnLeave ==
  /\ Event /\ reg.room # None
  /\ reg' = Leave(reg)
  /\ srv' = LeavesBattle(srv, Me)
  /\ Sends(LeaveNews(srv, Me))

Left(s) == IF reg.room = None THEN s ELSE LeavesBattle(s, Me)
LeftNews == IF reg.room = None THEN <<>> ELSE LeaveNews(srv, Me)
LeftRoom == IF reg.room = None THEN reg ELSE LeaveCurrentBattle(Leave(reg))

DoJoin(b) ==
  /\ Event /\ b \in reg.battles /\ b # reg.room
  /\ reg' = LeftRoom
  /\ IF b \in Open(Left(srv)) /\ BattleOf(Left(srv), Me) = None
     THEN /\ srv' = EntersBattle(Left(srv), Me, b)
          /\ \E news \in EnterNews(Left(srv), Me, b) : Sends(LeftNews \o news)
     ELSE /\ srv' = Left(srv)
          /\ Sends(LeftNews)

(* The room's own battle was chosen in the list.                           *)
DoJoinAgain ==
  /\ Event /\ reg.room # None
  /\ reg' = LeftRoom
  /\ srv' = Left(srv)
  /\ Sends(LeftNews)

OnHost(b) ==
  /\ Event /\ b \notin Open(Left(srv)) /\ BattleOf(Left(srv), Me) = None
  /\ reg' = LeftRoom
  /\ srv' = OpensBattle(Left(srv), Me, b)
  /\ Sends(LeftNews \o OpenNews(Me, b))

JoinChannel ==
  /\ Event /\ Me \notin srv.chan
  /\ srv' = [srv EXCEPT !.chan = @ \cup {Me}]
  /\ \E list \in Listed(srv'.chan) : Sends(<<[is |-> "JOIN"]>> \o ClientNews(list))
  /\ UNCHANGED reg

PartChannel ==
  /\ Event /\ Me \in srv.chan
  /\ srv' = [srv EXCEPT !.chan = @ \ {Me}]
  /\ UNCHANGED <<in, reg>>

-----------------------------------------------------------------------------
(* The messages (TASServer::ExecuteCommand).                               *)
Message1 == Head(in)

Receive(kinds) ==
  /\ in # <<>> /\ Message1.is \in kinds
  /\ in' = Tail(in)
  /\ UNCHANGED <<srv, events>>

RecvUser ==
  \/ Receive({"ADDUSER"}) /\ reg' = OnNewUser(reg, Message1.who)
  \/ /\ Receive({"REMOVEUSER"})
     /\ reg' = IF Message1.who = Me THEN reg ELSE OnUserQuit(reg, Message1.who)

RecvBattle ==
  \/ /\ Receive({"BATTLEOPENED"})
     /\ reg' = OnBattleOpened(reg, Message1.at, Message1.who)
  \/ Receive({"BATTLECLOSED"}) /\ reg' = OnBattleClosed(reg, Message1.at)

RecvRoom ==
  /\ Receive({"OPENBATTLE", "JOINBATTLE"})
  /\ reg' = EnterRoom(reg, Message1.at)

RecvMember ==
  \/ /\ Receive({"JOINEDBATTLE"})
     /\ reg' = OnUserJoinedBattle(reg, Message1.at, Message1.who)
  \/ /\ Receive({"LEFTBATTLE"})
     /\ reg' = OnUserLeftBattle(reg, Message1.at, Message1.who)

RecvBot ==
  \/ /\ Receive({"ADDBOT"})
     /\ reg' = OnBattleAddBot(reg, Message1.at, Message1.who)
  \/ /\ Receive({"REMOVEBOT"})
     /\ reg' = OnUserLeftBattle(reg, Message1.at, Message1.who)

RecvChannel ==
  \/ Receive({"JOIN"}) /\ reg' = OnJoinChannelResult(reg)
  \/ /\ Receive({"JOINED", "CLIENTS"})
     /\ reg' = OnUserJoinChannel(reg, Message1.who)
  \/ Receive({"LEFT"}) /\ reg' = OnChannelPart(reg, Message1.who)

OtherActs ==
  \/ \E u \in Others : LogIn(u) \/ LogOut(u) \/ EntersChannel(u) \/ PartsChannel(u)
  \/ \E u \in Others, b \in Battles : OtherOpens(u, b) \/ OtherJoins(u, b)
  \/ \E u \in Users : LeavesOrIsKicked(u)
  \/ \E b \in Battles, n \in Bots : AddsBot(b, n) \/ RemovesBot(b, n)
  \/ RemovesMe

UserActs ==
  \/ OnLeave \/ DoJoinAgain \/ JoinChannel \/ PartChannel
  \/ \E b \in Battles : DoJoin(b) \/ OnHost(b)

Next ==
  \/ OtherActs \/ UserActs
  \/ RecvUser \/ RecvBattle \/ RecvRoom \/ RecvMember \/ RecvBot \/ RecvChannel

Spec == Init /\ [][Next]_vars

-----------------------------------------------------------------------------
(* No pointer outlives its object: a user is deleted by REMOVEUSER, a      *)
(* battle by BATTLECLOSED or with its founder, however much of the rest    *)
(* the server has said (server.cpp:93-107, 139-145, serverevents.cpp:190). *)
PointersValid ==
  /\ \A b \in reg.battles : reg.members[b] \cap Users \subseteq reg.users
  /\ \A u \in reg.users : reg.battle[u] \in reg.battles \cup {None}
  /\ reg.room \in reg.battles \cup {None}
  /\ reg.chan \subseteq reg.users

(* A user's pointer and the battle's list say the same.                    *)
BothWays ==
  \A u \in reg.users, b \in reg.battles :
    reg.battle[u] = b <=> u \in reg.members[b]

Settled == in = <<>>

(* When nothing is on its way, the client knows the users and the battles  *)
(* that there are and who is where; a loop that passes over half of the    *)
(* users of a closing battle leaves no trace (serverevents.cpp:205-210).   *)
Mirrors ==
  Settled =>
    /\ reg.users = srv.users
    /\ reg.battles = Open(srv)
    /\ \A b \in Open(srv) :
         /\ reg.founder[b] = srv.founder[b]
         /\ reg.members[b] \cap Users = {u \in Users : srv.place[u] = b}

(* Then the battle room shows the battle one is in, and all of its bots,   *)
(* whatever was joined, left and closed before the answers came            *)
(* (ui.cpp:921-1045, battlelisttab.cpp:495-565).                           *)
RoomIsMine ==
  Settled =>
    /\ reg.room = srv.place[Me]
    /\ reg.room # None => srv.bots[reg.room] \subseteq reg.members[reg.room]

(* And the channel shows everybody who is in it.                           *)
ChannelShown == Settled /\ Me \in srv.chan => srv.chan \subseteq reg.chan

(* However late the messages are, the objects and pointers are sound.      *)
ObjectsSound == TypeOK /\ PointersValid /\ BothWays

(* And once they are there, the client knows what there is.                *)
KnowsTheWorld == Mirrors /\ ChannelShown
=============================================================================

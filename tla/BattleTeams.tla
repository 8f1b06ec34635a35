----------------------------- MODULE BattleTeams -----------------------------
(***************************************************************************)
(* Teams and allies in a battle of this client's own.                      *)
(*                                                                         *)
(* The host forces teams and allies, by hand or by the algorithms of       *)
(* Balance, guests change theirs, and each change comes back from the      *)
(* server as a status.  While the balance is locked the host forces back   *)
(* what differs from what it has, which comes back as a status again.      *)
(*                                                                         *)
(* The server takes a command when it is sent and its news take time: a    *)
(* guest's change that it takes before the command is one that it took     *)
(* before the command was sent.                                            *)
(***************************************************************************)
EXTENDS Balance

CONSTANTS
  Me,         \* the founder
  Bots,       \* users that are bots
  Arrivals,   \* the statuses that users come with
  Reports,    \* the statuses that guests and owners of bots choose
  Requests,   \* what the host asks Autobalance for
  IdRequests, \* and FixTeamIDs
  Picks,      \* numbers that the host picks by hand
  Slots,      \* values of a team or ally in a status on the wire: 4 bits
  Positions,  \* numbers of start positions that limit the control teams
  MaxChanges  \* bound on what the host and the guests do

Status == [team : Nat, ally : Nat, spectator : BOOLEAN]

ASSUME TeamsAssumption ==
  /\ Arrivals \cup Reports \subseteq Status
  /\ Me \in Users \ Bots /\ Bots \subseteq Users
  /\ Requests \cup IdRequests \subseteq Request /\ Picks \subseteq Nat
  /\ Slots \in Nat \ {0} /\ MaxChanges \in Nat
  /\ Positions \subseteq Nat \ {0}   \* without any the code reads past an array

VARIABLES
  local,    \* the battle statuses as the host has them
  server,   \* as the server has them
  news,     \* statuses on their way to the host
  locked,   \* m_opts.lockexternalbalancechanges
  changes,  \* counter of what the host and the guests did
  wanted,   \* history: while locked, what the host last chose for each user
  asked     \* history: the algorithms that the last step ran, with the requests

vars == <<local, server, news, locked, changes, wanted, asked>>

Guests == Users \ (Bots \cup {Me})

TypeOK ==
  /\ local \in [Users -> Status] /\ server \in [Users -> Status]
  /\ news \in Seq(Users \X Status)
  /\ locked \in BOOLEAN /\ changes \in 0 .. MaxChanges
  /\ wanted \in [Users -> [team : Nat, ally : Nat]]
  /\ asked \in Seq(Requests \cup IdRequests)

Choice(st) == [u \in Users |-> [team |-> st[u].team, ally |-> st[u].ally]]

Init ==
  /\ local \in [Users -> Arrivals] /\ server = local
  /\ news = <<>> /\ locked \in BOOLEAN /\ changes = 0
  /\ wanted = Choice(local) /\ asked = <<>>

-----------------------------------------------------------------------------
(* Battle::ForceTeam and Battle::ForceAlly, on the world as a record.      *)
World == [local |-> local, server |-> server, news |-> news, wanted |-> wanted]

(* TASBattleStatus: the bit fields.                                        *)
Wire(status) == [status EXCEPT !.team = @ % Slots, !.ally = @ % Slots]

(* The guest's field is changed by the server; of a bot and of this client *)
(* the whole status is sent, as it is known here.                          *)
ForceNumber(w, u, field, v) ==
  LET mine == [w.local EXCEPT ![u][field] = v]
      status == IF u \in Guests THEN [w.server[u] EXCEPT ![field] = v] ELSE Wire(mine[u])
  IN  [local |-> mine,
       server |-> [w.server EXCEPT ![u] = status],
       news |-> Append(w.news, <<u, status>>),
       wanted |-> [w.wanted EXCEPT ![u][field] = v]]

(* Both numbers are forced one after the other.                            *)
ForceUser(w, u, field, v) ==
  IF field = "both" THEN ForceNumber(ForceNumber(w, u, "team", v), u, "ally", v)
  ELSE ForceNumber(w, u, field, v)

(* The loop over the users, for those of us.                               *)
ForceAll(w, field, value, us) ==
  LET done[i \in 0 .. Len(Order)] ==
        IF i = 0 THEN w
        ELSE IF Order[i] \in us THEN ForceUser(done[i - 1], Order[i], field, value[Order[i]])
        ELSE done[i - 1]
  IN  done[Len(Order)]

Autobalance(w, req) ==
  LET us == {u \in Users : w.local[u].team \in TeamsOf(w.local)}
  IN  {ForceAll(w, "ally", allies, us) : allies \in Autobalanced(w.local, req)}

FixTeamIDs(w, req, positions) ==
  IF OneEach(w.local, req.num, positions)
  THEN LET ids == DistinctIds(w.local)
       IN  {ForceAll(w, "team", ids, {u \in Users : ids[u] # w.local[u].team})}
  ELSE {ForceAll(w, "both", ids, Players(w.local)) : ids \in SharedIds(w.local, req, positions)}

-----------------------------------------------------------------------------
Changes == changes < MaxChanges /\ changes' = changes + 1

(* What a command of the host leads to.                                    *)
Becomes(w) ==
  /\ local' = w.local /\ server' = w.server /\ news' = w.news
  /\ wanted' = IF locked THEN w.wanted ELSE wanted
  /\ UNCHANGED locked

OnSelect(u, field, v) ==
  Changes /\ asked' = <<>> /\ Becomes(ForceNumber(World, u, field, v))

OnBalance(req) ==
  Changes /\ asked' = <<req>> /\ \E w \in Autobalance(World, req) : Becomes(w)

OnFixTeams(req, positions) ==
  Changes /\ asked' = <<>> /\ \E w \in FixTeamIDs(World, req, positions) : Becomes(w)

(* Mutant: the alliances are made of the old teams.                        *)
StartBalancedFirst(ids, positions, req) ==
  /\ Changes /\ asked' = IF OneEach(local, ids.num, positions) THEN <<ids, req>> ELSE <<>>
  /\ \E w \in Autobalance(World, req) : \E x \in FixTeamIDs(w, ids, positions) : Becomes(x)

(* StartHostedBattle with automatic control.                               *)
StartHostedBattle(ids, positions, req) ==
  /\ Changes /\ asked' = IF OneEach(local, ids.num, positions) THEN <<ids, req>> ELSE <<>>
  /\ \E w \in FixTeamIDs(World, ids, positions) : \E x \in Autobalance(w, req) : Becomes(x)

(* The status of a bot and of this client is sent whole; it changes here   *)
(* when it comes back.                                                     *)
ForceSpectator(u, spec) ==
  LET status == IF u \in Guests THEN [server[u] EXCEPT !.spectator = TRUE]
                ELSE Wire([local[u] EXCEPT !.spectator = spec])
  IN  /\ Changes
      /\ server' = [server EXCEPT ![u] = status]
      /\ news' = Append(news, <<u, status>>)
      /\ asked' = <<>> /\ UNCHANGED <<local, locked, wanted>>

SendMyBattleStatus ==
  /\ Changes
  /\ server' = [server EXCEPT ![Me] = Wire(local[Me])]
  /\ news' = Append(news, <<Me, Wire(local[Me])>>)
  /\ asked' = <<>> /\ UNCHANGED <<local, locked, wanted>>

SetLockExternalBalanceChanges(value) ==
  /\ Changes /\ locked' = value /\ locked # value
  /\ wanted' = Choice(local)
  /\ asked' = <<>> /\ UNCHANGED <<local, server, news>>

GuestChanges(u, status) ==
  /\ Changes /\ server[u] # status
  /\ server' = [server EXCEPT ![u] = status]
  /\ news' = Append(news, <<u, status>>)
  /\ asked' = <<>> /\ UNCHANGED <<local, locked, wanted>>

(* Mutant: what is forced back is taken over here.                         *)
OnUserBattleStatusUpdatedTaken ==
  /\ news # <<>>
  /\ LET u == Head(news)[1]
         status == Head(news)[2]
         previous == local[u]
         rest == [World EXCEPT !.news = Tail(news)]
         teamed == IF locked /\ previous.team # status.team
                   THEN ForceNumber(rest, u, "team", previous.team) ELSE rest
         allied == IF locked /\ previous.ally # status.ally
                   THEN ForceNumber(teamed, u, "ally", previous.ally) ELSE teamed
     IN  /\ local' = [local EXCEPT ![u] = status]
         /\ server' = allied.server /\ news' = allied.news
  /\ asked' = <<>> /\ UNCHANGED <<locked, changes, wanted>>

(* Mutant: when the team is forced back the ally is not looked at.         *)
OnUserBattleStatusUpdatedEither ==
  /\ news # <<>>
  /\ LET u == Head(news)[1]
         status == Head(news)[2]
         previous == local[u]
         rest == [World EXCEPT !.news = Tail(news)]
         forced == IF locked /\ previous.team # status.team
                   THEN ForceNumber(rest, u, "team", previous.team) ELSE rest
     IN  /\ local' = [local EXCEPT ![u] =
                        IF locked THEN [status EXCEPT !.team = previous.team] ELSE status]
         /\ server' = forced.server /\ news' = forced.news
  /\ asked' = <<>> /\ UNCHANGED <<locked, changes, wanted>>

(* Battle::OnUserBattleStatusUpdated.                                      *)
OnUserBattleStatusUpdated ==
  /\ news # <<>>
  /\ LET u == Head(news)[1]
         status == Head(news)[2]
         previous == local[u]
         rest == [World EXCEPT !.news = Tail(news)]
         teamed == IF locked /\ previous.team # status.team
                   THEN ForceNumber(rest, u, "team", previous.team) ELSE rest
         allied == IF locked /\ previous.ally # status.ally
                   THEN ForceNumber(teamed, u, "ally", previous.ally) ELSE teamed
     IN  /\ local' = [local EXCEPT ![u] =
                        IF locked THEN [status EXCEPT !.team = previous.team,
                                                      !.ally = previous.ally]
                        ELSE status]
         /\ server' = allied.server /\ news' = allied.news
  /\ asked' = <<>> /\ UNCHANGED <<locked, changes, wanted>>

-----------------------------------------------------------------------------
Next ==
  \/ OnUserBattleStatusUpdated
  \/ SendMyBattleStatus
  \/ \E value \in BOOLEAN : SetLockExternalBalanceChanges(value)
  \/ \E u \in Users \ {Me}, status \in Reports : GuestChanges(u, status)
  \/ \E u \in Users, spec \in BOOLEAN : ForceSpectator(u, spec)
  \/ \E u \in Users, field \in {"team", "ally"}, v \in Picks : OnSelect(u, field, v)
  \/ \E req \in Requests : OnBalance(req)
  \/ \E ids \in IdRequests, positions \in Positions :
       \/ OnFixTeams(ids, positions)
       \/ \E req \in Requests : StartHostedBattle(ids, positions, req)

Spec == Init /\ [][Next]_vars

(* The statuses that the server sent are handled.                          *)
FairSpec == Spec /\ WF_vars(OnUserBattleStatusUpdated)

-----------------------------------------------------------------------------
(* When nothing is under way the host and the server have the same         *)
(* statuses, after any commands, changes of guests and forcing back        *)
(* (battle.cpp:245-260, tasserver.cpp:1847-1922).                          *)
Agrees == news = <<>> => server = local

(* While the balance is locked the host decides: when nothing is under     *)
(* way the server has what the host last chose for each user, whatever     *)
(* the guests did in the meantime (battle.cpp:247-259).                    *)
HostDecides == locked /\ news = <<>> => Choice(server) = wanted

(* The forcing back ends: no status is answered by a command for ever.     *)
Settles == <>[](news = <<>>)

Apart(n, S) == \A a, b \in S : n[a] - n[b] \in -1 .. 1

(* The game starts with a team for each player and with alliances whose    *)
(* numbers of players differ by one at most, if that is what was asked     *)
(* for, whatever the teams were (battle.cpp:593-598).                      *)
StartIsFair ==
  Len(asked) = 2 /\ ~asked[2].clans =>
    LET ps == Players(local)
        sides == Alliances(asked[2].num)
    IN  /\ Cardinality(TeamsOf(local)) = Cardinality(ps)
        /\ Apart([a \in sides |-> Cardinality({p \in ps : local[p].ally = a})], sides)

(* Strong clans are not torn apart, whatever their size: their teams go to *)
(* one alliance (battle.cpp:880-910).                                      *)
ClansTogether ==
  asked'[1].clans /\ asked'[1].strong =>
    \A p, q \in Representatives(local) :
      Clan[p] = Clan[q] /\ Clan[p] # NoClan => local'[p].ally = local'[q].ally

(* Players that share a team stay allied (battle.cpp:860-872, 951-967).    *)
TeamsTogether ==
  \A p, q \in Players(local) :
    local[p].team = local[q].team => local'[p].ally = local'[q].ally

(* Both hold of every balancing, whatever was set by hand before.          *)
BalanceKeepsTogether ==
  [][Len(asked') = 1 => ClansTogether /\ TeamsTogether]_vars

(* With the balance locked or not, host and server agree, and the host has *)
(* its way.                                                                *)
HostRules == TypeOK /\ Agrees /\ HostDecides
=============================================================================

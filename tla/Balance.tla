------------------------------- MODULE Balance -------------------------------
(***************************************************************************)
(* How the host divides the players of a battle: Battle::Autobalance into  *)
(* alliances and Battle::FixTeamIDs into control teams, as functions of    *)
(* what the host knows of the users.                                       *)
(*                                                                         *)
(* A status is a record [team, ally, spectator]; the statuses of all users *)
(* are a function.  Both algorithms shuffle, so each yields a set of       *)
(* outcomes.                                                               *)
(***************************************************************************)
EXTENDS Integers, Sequences, FiniteSets, FiniteSetsExt, SequencesExt

CONSTANTS
  Order,      \* the users, bots included, as the list of users goes
  ClanOrder,  \* the clans, as a map goes through them
  Clan,       \* the clan of a user, or NoClan
  Rank,       \* the rank of a user, from 0 (RANK_1) to 6 (RANK_7)
  Boxes       \* the allies that have a start box

NoClan == "no clan"
Users == ToSet(Order)

ASSUME BalanceAssumption ==
  /\ Order \in Seq(Users) /\ IsInjective(Order)
  /\ ClanOrder \in Seq(ToSet(ClanOrder))
  /\ Clan \in [Users -> ToSet(ClanOrder) \cup {NoClan}]
  /\ NoClan \notin ToSet(ClanOrder)
  /\ Rank \in [Users -> 0 .. 6]
  /\ Boxes \subseteq Nat /\ IsFiniteSet(Boxes)

(* What both are asked for: type, support_clans, strong_clans, number.     *)
Request == [byRank : BOOLEAN, clans : BOOLEAN, strong : BOOLEAN, num : Nat]

Players(st) == {u \in Users : ~st[u].spectator}
TeamsOf(st) == {st[u].team : u \in Players(st)}

-----------------------------------------------------------------------------
(* Dealing players to sides: alliances or control teams.                   *)

(* The sum of GetBalanceRank, 1 + 0.1 * rank / 6, in sixtieths: 60 for each *)
(* player and one for each step of its rank.  Two sums that differ by less *)
(* than 0.01 are equal.                                                    *)
RankSum(deal, a) ==
  LET ps == {p \in DOMAIN deal : deal[p] = a}
  IN  60 * Cardinality(ps) + Cardinality({x \in ps \X (1 .. 6) : x[2] <= Rank[x[1]]})

Lowest(deal, sides) ==
  {a \in sides : \A b \in sides : RankSum(deal, a) <= RankSum(deal, b)}

Give(deal, ps, a) ==
  [p \in DOMAIN deal \cup ps |-> IF p \in ps THEN a ELSE deal[p]]

Gives(deals, ps, sides) ==
  UNION {{Give(d, ps, a) : a \in Lowest(d, sides)} : d \in deals}

Members(players, c) == {p \in players : Clan[p] = c}

(* Clans of one are none; neither are those above a fair share, unless     *)
(* strong_clans says so.                                                   *)
IsKept(players, sides, strong, c) ==
  LET size == Cardinality(Members(players, c))
      share == (Cardinality(players) + Cardinality(sides) - 1) \div Cardinality(sides)
  IN  size >= 2 /\ (strong \/ size <= share)

IsDealt(players, sides, req, c) == req.clans /\ IsKept(players, sides, req.strong, c)

(* First clan by clan,                                                     *)
DealClans(players, sides, req) ==
  LET deals[i \in 0 .. Len(ClanOrder)] ==
        IF i = 0 THEN {<<>>}
        ELSE IF IsDealt(players, sides, req, ClanOrder[i])
        THEN Gives(deals[i - 1], Members(players, ClanOrder[i]), sides)
        ELSE deals[i - 1]
  IN  deals[Len(ClanOrder)]

(* then player by player: by rank, or in any order.                        *)
NextOf(left, byRank) == {p \in left : byRank => \A q \in left : Rank[q] <= Rank[p]}

GiveNext(deal, players, sides, byRank) ==
  UNION {Gives({deal}, {p}, sides) : p \in NextOf(players \ DOMAIN deal, byRank)}

DealPlayers(dealt, players, sides, byRank) ==
  LET deals[i \in 0 .. Cardinality(players)] ==
        IF i = 0 THEN dealt
        ELSE UNION {GiveNext(d, players, sides, byRank) : d \in deals[i - 1]}
  IN  deals[Cardinality(players)]

Divide(players, sides, req) ==
  LET rest == {p \in players : Clan[p] = NoClan \/ ~IsDealt(players, sides, req, Clan[p])}
  IN  DealPlayers(DealClans(players, sides, req), rest, sides, req.byRank)

-----------------------------------------------------------------------------
(* Autobalance.                                                            *)

(* The number asked for, or the start boxes and at least two.  The loop    *)
(* over the boxes goes to their number, not to the last of their allies.   *)
Alliances(num) ==
  LET met == {a \in Boxes : a < Cardinality(Boxes)}
      top == Max(met \cup {-1})
  IN  IF num # 0 THEN 0 .. num - 1
      ELSE met \cup {top + i : i \in 1 .. (2 - Cardinality(met))}

(* One player for each team: the last.                                     *)
Place(u) == CHOOSE i \in DOMAIN Order : Order[i] = u

Representatives(st) ==
  {u \in Players(st) :
     \A v \in Players(st) : st[v].team = st[u].team => Place(v) <= Place(u)}

(* Mutant: only the one that was dealt is moved.                           *)
AutobalancedAlone(st, req) ==
  LET reps == Representatives(st)
  IN  {[u \in Users |-> IF u \in reps THEN deal[u] ELSE st[u].ally] :
         deal \in Divide(reps, Alliances(req.num), req)}

(* The allies of all users; those with the team of a player, spectators    *)
(* too, go where the player goes.                                          *)
Autobalanced(st, req) ==
  LET reps == Representatives(st)
      Ally(deal, u) ==
        LET same == {r \in reps : st[r].team = st[u].team}
        IN  IF same = {} THEN st[u].ally ELSE deal[CHOOSE r \in same : TRUE]
  IN  {[u \in Users |-> Ally(deal, u)] : deal \in Divide(reps, Alliances(req.num), req)}

-----------------------------------------------------------------------------
(* FixTeamIDs.                                                             *)

FreeNumber(used) == Min(0 .. Cardinality(used) \ used)

TakeId(ids, u, teams) ==
  LET own == ids.team[u]
      t == IF own \notin ids.used THEN own ELSE FreeNumber(ids.used \cup teams)
  IN  [team |-> [ids.team EXCEPT ![u] = t], used |-> ids.used \cup {t}]

(* One team for each: whoever is first with a team keeps it.               *)
DistinctIds(st) ==
  LET ids[i \in 0 .. Len(Order)] ==
        IF i = 0 THEN [team |-> [u \in Users |-> st[u].team], used |-> {}]
        ELSE IF st[Order[i]].spectator THEN ids[i - 1]
        ELSE TakeId(ids[i - 1], Order[i], TeamsOf(st))
  IN  ids[Len(Order)].team

(* The number of control teams: that of the players unless another one is  *)
(* asked for, and never more than the map has start positions.  The code   *)
(* takes the players from the count of spectators, which an echo may have  *)
(* set back (BattleHost); here the count is right.                         *)
ControlTeams(st, num, positions) ==
  Min({IF num = 0 THEN Cardinality(Players(st)) ELSE num, positions})

OneEach(st, num, positions) ==
  ControlTeams(st, num, positions) >= Cardinality(Players(st))

(* The control teams of the players when there are fewer.                  *)
SharedIds(st, req, positions) ==
  Divide(Players(st), 0 .. ControlTeams(st, req.num, positions) - 1, req)
=============================================================================

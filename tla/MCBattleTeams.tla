--------------------------- MODULE MCBattleTeams ---------------------------
(* Values for the constants of BattleTeams in the model-checking runs.     *)
EXTENDS BattleTeams

CONSTANTS me, g1, b1, red

MCOrder == <<b1, g1, me>>
MCClanOrder == <<red>>
\* A clan that is too big for one of three sides.
MCClan == [u \in {b1, g1, me} |-> IF u = b1 THEN NoClan ELSE red]
MCRank == [u \in {b1, g1, me} |-> IF u = g1 THEN 6 ELSE 0]

MCArrivals == {[team |-> 0, ally |-> 0, spectator |-> FALSE],
               [team |-> 1, ally |-> 0, spectator |-> FALSE]}

MCReports == MCArrivals \cup {[team |-> 1, ally |-> 1, spectator |-> TRUE]}

MCRequests == {[byRank |-> FALSE, clans |-> FALSE, strong |-> FALSE, num |-> 0],
               [byRank |-> TRUE, clans |-> TRUE, strong |-> TRUE, num |-> 3],
               [byRank |-> TRUE, clans |-> TRUE, strong |-> FALSE, num |-> 0]}
MCIdRequests == {[byRank |-> FALSE, clans |-> FALSE, strong |-> FALSE, num |-> 0]}
=============================================================================

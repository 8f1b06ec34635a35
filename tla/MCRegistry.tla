----------------------------- MODULE MCRegistry -----------------------------
(* Instances of Registry.  The names sort as they are listed: the bots     *)
(* stand next to each other, between the users.                            *)
EXTENDS Registry, TLC

CONSTANTS me, u1, u2, x1, x2

MCRank == u1 :> 1 @@ x1 :> 2 @@ x2 :> 3 @@ me :> 4 @@ u2 :> 5

Alike == Permutations(Battles)
=============================================================================

----------------------------- MODULE MCWorkQueue -----------------------------
(* Constants for model-checking WorkQueue.                                 *)
EXTENDS WorkQueue, TLC

CONSTANTS i1, i2, i3, i4

(* Two items of the same priority, one above and one below them, as        *)
(* unitsync gives 100 to minimaps, 200 to map infos and a negative hash to *)
(* prefetched maps (springunitsync.cpp:1157-1238).                         *)
MCPriority == i1 :> 1 @@ i2 :> 1 @@ i3 :> 2 @@ i4 :> 0
=============================================================================

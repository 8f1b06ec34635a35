----------------------------- MODULE MCHostInfo -----------------------------
(* Instances of HostInfo.  Nothing in it tells one map from another, nor    *)
(* one place from another.                                                 *)
EXTENDS HostInfo, TLC

Alike == Permutations(Maps) \cup Permutations(Places)
=============================================================================

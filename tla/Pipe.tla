-------------------------------- MODULE Pipe --------------------------------
(***************************************************************************)
(* What a connection promises to the commands given to it: the server gets *)
(* them in the order in which they were given, nothing is left out, sent   *)
(* twice or mixed with another command, and a new connection starts with   *)
(* nothing of the one before.  Commands are cut in chunks, numbered in the *)
(* order in which they were given.  Outgoing implements it.                *)
(***************************************************************************)
EXTENDS Integers, Sequences

CONSTANT Size    \* the chunks of a command

VARIABLES
  given,    \* the number of commands given to this connection
  got       \* the chunks the server got from it

vars == <<given, got>>

Init == given = 0 /\ got = <<>>

Give == given' = given + 1 /\ UNCHANGED got

(* Some more chunks of what was given, in order.                           *)
Deliver ==
  /\ UNCHANGED given
  /\ \E n \in Len(got) .. given * Size :
       got' = [i \in 1 .. n |-> i]

(* A command is given and chunks are delivered at the same time.           *)
GiveAndDeliver ==
  /\ given' = given + 1
  /\ \E n \in Len(got) .. given' * Size :
       got' = [i \in 1 .. n |-> i]

Renew == given' = 0 /\ got' = <<>>

Next == Give \/ Deliver \/ GiveAndDeliver \/ Renew

Spec == Init /\ [][Next]_vars
=============================================================================

------------------------------- MODULE JobPool -------------------------------
(***************************************************************************)
(* What SpringLobby's worker thread promises to the code that gives it     *)
(* jobs (src/src/thread.h): every job runs at most once, one at a time,    *)
(* highest priority first; a job is either run, cancelled or dropped; once *)
(* the pool is closed at most one more job is begun, and none after the    *)
(* first was dropped.  WorkQueue implements it with threads.               *)
(***************************************************************************)
EXTENDS Integers

CONSTANTS
  Jobs,      \* the jobs
  Priority,  \* their priorities: the highest is run first
  Kept       \* the jobs their owner keeps, and may cancel

VARIABLES
  job,      \* what became of each job
  closing,  \* the owner asked the pool to stop
  late      \* a job was begun after that

vars == <<job, closing, late>>

InState(s) == {i \in Jobs : job[i] = s}

Become(i, s) == job' = [job EXCEPT ![i] = s]

Init ==
  /\ job = [i \in Jobs |-> "new"]
  /\ closing = FALSE
  /\ late = FALSE

Submit(i) ==
  /\ ~closing
  /\ job[i] = "new"
  /\ Become(i, "waiting")
  /\ UNCHANGED <<closing, late>>

Begin(i) ==
  /\ job[i] = "waiting"
  /\ \A j \in InState("waiting") : Priority[j] <= Priority[i]
  /\ InState("running") = {}
  /\ InState("dropped") = {}
  /\ ~late
  /\ Become(i, "running")
  /\ late' = closing
  /\ UNCHANGED closing

Finish(i) ==
  /\ job[i] = "running"
  /\ Become(i, "done")
  /\ UNCHANGED <<closing, late>>

Cancel(i) ==
  /\ ~closing
  /\ i \in Kept
  /\ job[i] = "waiting"
  /\ Become(i, "cancelled")
  /\ UNCHANGED <<closing, late>>

Close ==
  /\ ~closing
  /\ closing' = TRUE
  /\ UNCHANGED <<job, late>>

Drop(i) ==
  /\ closing
  /\ job[i] = "waiting"
  /\ InState("running") = {}
  /\ Become(i, "dropped")
  /\ UNCHANGED <<closing, late>>

Next ==
  \/ \E i \in Jobs : Submit(i) \/ Begin(i) \/ Finish(i) \/ Cancel(i) \/ Drop(i)
  \/ Close

Spec == Init /\ [][Next]_vars
=============================================================================

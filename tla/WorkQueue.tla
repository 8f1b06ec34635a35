------------------------------ MODULE WorkQueue ------------------------------
(***************************************************************************)
(* The worker thread of src/src/thread.cpp: a priority queue of work items *)
(* that the GUI thread fills (WorkerThread::DoWork), may take items out of *)
(* (WorkItem::Cancel) and shuts down (Thread::Wait), and a thread that     *)
(* runs them one by one (WorkerThread::Entry) and sleeps on a semaphore    *)
(* when there are none.  unitsync's asynchronous loads, the torrent        *)
(* downloads and the list of resources each have one such thread.          *)
(*                                                                         *)
(* Every access to the queue is under m_lock, so it is one step; what a    *)
(* thread does before and after it are steps of their own.  m_must_exit is *)
(* a plain bool that one thread writes and the other reads; each read      *)
(* follows a call into a lock or a semaphore, so it is a fresh one.        *)
(***************************************************************************)
EXTENDS Integers, FiniteSets

CONSTANTS
  Items,     \* the work items
  Priority,  \* their priorities
  Kept,      \* the items given with toBeDeleted = FALSE: only these may be
             \* cancelled, the worker deletes the others
  NULL

ASSUME WorkQueueAssumption ==
  /\ IsFiniteSet(Items)
  /\ Priority \in [Items -> Int]
  /\ Kept \subseteq Items
  /\ NULL \notin Items

VARIABLES
  queue,     \* m_queue of the WorkItemQueue: the items of the heap.  An item
             \* points back to the queue exactly while it is in it
  permits,   \* m_thread_sleep_semaphore
  mustExit,  \* m_must_exit
  pc,        \* where the worker is in Entry
  item,      \* the worker's local variable
  caller,    \* what the GUI thread is doing with the pool
  arg,       \* the item it is doing that to
  fate,      \* history: how each item ended
  late       \* history: an item was begun after Wait had set m_must_exit

WorkerVars == <<queue, permits, mustExit, pc, item, caller, arg, fate, late>>

WorkerSteps == {"test", "asleep", "check", "pop", "running", "leftover", "stopped"}
CallerSteps == {"idle", "posting", "removing", "waking", "joining", "joined"}
Fates == {"none", "done", "cancelled", "dropped"}

WorkerTypeOK ==
  /\ queue \subseteq Items
  /\ permits \in Nat
  /\ mustExit \in BOOLEAN
  /\ pc \in WorkerSteps
  /\ item \in Items \cup {NULL}
  /\ pc = "running" => item \in Items
  /\ caller \in CallerSteps
  /\ arg \in Items \cup {NULL}
  /\ caller = "removing" => arg \in Kept
  /\ fate \in [Items -> Fates]
  /\ late \in BOOLEAN

-----------------------------------------------------------------------------
(* What became of an item, as its owner sees it.                           *)
Job == [i \in Items |->
  CASE fate[i] # "none"             -> fate[i]
    [] i \in queue                  -> "waiting"
    [] pc = "running" /\ item = i   -> "running"
    [] OTHER                        -> "new"]

Pool == INSTANCE JobPool WITH Jobs <- Items, job <- Job, closing <- mustExit

-----------------------------------------------------------------------------
WorkerInit ==
  /\ queue = {}
  /\ permits = 0
  /\ mustExit = FALSE
  /\ pc = "test"
  /\ item = NULL
  /\ caller = "idle"
  /\ arg = NULL
  /\ fate = [i \in Items |-> "none"]
  /\ late = FALSE

(* WorkItemQueue::Pop: the heap's front is an item of highest priority.    *)
Front(q) == {i \in q : \A j \in q : Priority[j] <= Priority[i]}

Pop ==
  \/ /\ queue = {}
     /\ item' = NULL
     /\ UNCHANGED queue
  \/ \E i \in Front(queue) : item' = i /\ queue' = queue \ {i}

(* Mutant: a wake-up that is lost unless somebody waits for it, as that of *)
(* a condition variable.                                                   *)
WakeUpSleeper == permits' = IF pc = "asleep" THEN permits + 1 ELSE permits

WakeUp == permits' = permits + 1

-----------------------------------------------------------------------------
(* The worker, WorkerThread::Entry.                                        *)

(* Mutants: a worker that stops at once; one that runs whatever Pop        *)
(* returned.                                                               *)
StopAtOnce ==
  /\ pc = "leftover"
  /\ pc' = "stopped"
  /\ UNCHANGED <<queue, permits, mustExit, item, caller, arg, fate, late>>

PopAndRun ==
  /\ pc = "pop"
  /\ Pop
  /\ pc' = "running"
  /\ late' = (late \/ (mustExit /\ item' # NULL))
  /\ UNCHANGED <<permits, mustExit, caller, arg, fate>>

Test ==
  /\ pc = "test"
  /\ pc' = IF mustExit THEN "leftover" ELSE "asleep"
  /\ UNCHANGED <<queue, permits, mustExit, item, caller, arg, fate, late>>

Woken ==
  /\ pc = "asleep"
  /\ permits > 0
  /\ permits' = permits - 1
  /\ pc' = "check"
  /\ UNCHANGED <<queue, mustExit, item, caller, arg, fate, late>>

(* The hour is over.                                                       *)
SleepTimeout ==
  /\ pc = "asleep"
  /\ pc' = "check"
  /\ UNCHANGED <<queue, permits, mustExit, item, caller, arg, fate, late>>

Check ==
  /\ pc = "check"
  /\ pc' = IF mustExit THEN "test" ELSE "pop"
  /\ UNCHANGED <<queue, permits, mustExit, item, caller, arg, fate, late>>

PopNext ==
  /\ pc = "pop"
  /\ Pop
  /\ pc' = IF item' = NULL THEN "test" ELSE "running"
  /\ late' = (late \/ (mustExit /\ item' # NULL))
  /\ UNCHANGED <<permits, mustExit, caller, arg, fate>>

(* WorkItem::Run returned or threw, and CleanupWorkItem.  The local        *)
(* variable keeps pointing to the item.                                    *)
RunItem ==
  /\ pc = "running"
  /\ fate' = [fate EXCEPT ![item] = "done"]
  /\ pc' = "check"
  /\ UNCHANGED <<queue, permits, mustExit, item, caller, arg, late>>

(* The loop after the worker's main one, an iteration at a time.           *)
DropLeftover ==
  /\ pc = "leftover"
  /\ Pop
  /\ IF item' = NULL
     THEN pc' = "stopped" /\ UNCHANGED fate
     ELSE fate' = [fate EXCEPT ![item'] = "dropped"] /\ UNCHANGED pc
  /\ UNCHANGED <<permits, mustExit, caller, arg, late>>

-----------------------------------------------------------------------------
(* The GUI thread.                                                         *)

(* Mutants: a Wait that does not wake the worker; a Remove that reports    *)
(* success without looking.                                                *)
PostNothing ==
  /\ caller = "waking"
  /\ caller' = "joining"
  /\ UNCHANGED <<queue, permits, mustExit, pc, item, arg, fate, late>>

RemoveAnyway ==
  /\ caller = "removing"
  /\ queue' = queue \ {arg}
  /\ fate' = [fate EXCEPT ![arg] = "cancelled"]
  /\ caller' = "idle"
  /\ UNCHANGED <<permits, mustExit, pc, item, arg, late>>

(* DoWork: Push the item, then wake the worker.                            *)
Push(i) ==
  /\ caller = "idle"
  /\ Job[i] = "new"
  /\ queue' = queue \cup {i}
  /\ caller' = "posting"
  /\ UNCHANGED <<permits, mustExit, pc, item, arg, fate, late>>

Post ==
  /\ caller = "posting"
  /\ WakeUp
  /\ caller' = "idle"
  /\ UNCHANGED <<queue, mustExit, pc, item, arg, fate, late>>

(* WorkItem::Cancel reads the item's m_queue without the lock; when it is  *)
(* not NULL it calls Remove, by which time the worker may have the item.   *)
Cancel(i) ==
  /\ caller = "idle"
  /\ i \in Kept \cap queue
  /\ caller' = "removing"
  /\ arg' = i
  /\ UNCHANGED <<queue, permits, mustExit, pc, item, fate, late>>

Remove ==
  /\ caller = "removing"
  /\ IF arg \in queue
     THEN /\ queue' = queue \ {arg}
          /\ fate' = [fate EXCEPT ![arg] = "cancelled"]
     ELSE UNCHANGED <<queue, fate>>
  /\ caller' = "idle"
  /\ UNCHANGED <<permits, mustExit, pc, item, arg, late>>

(* Thread::Wait, called by the owner's destructor: nothing is given to the *)
(* pool afterwards.                                                        *)
Wait ==
  /\ caller = "idle"
  /\ mustExit' = TRUE
  /\ caller' = "waking"
  /\ UNCHANGED <<queue, permits, pc, item, arg, fate, late>>

PostExit ==
  /\ caller = "waking"
  /\ WakeUp
  /\ caller' = "joining"
  /\ UNCHANGED <<queue, mustExit, pc, item, arg, fate, late>>

Join ==
  /\ caller = "joining"
  /\ pc = "stopped"
  /\ caller' = "joined"
  /\ UNCHANGED <<queue, permits, mustExit, pc, item, arg, fate, late>>

-----------------------------------------------------------------------------
WorkerStep == Test \/ Woken \/ Check \/ PopNext \/ RunItem \/ DropLeftover
CallerStep == Post \/ Remove \/ PostExit \/ Join

WorkerNext ==
  \/ Test \/ Woken \/ SleepTimeout \/ Check \/ PopNext \/ RunItem \/ DropLeftover
  \/ Post \/ Remove \/ PostExit \/ Join
  \/ \E i \in Items : Push(i) \/ Cancel(i)
  \/ Wait

WorkerSpec == WorkerInit /\ [][WorkerNext]_WorkerVars

(* A thread that can go on does, and a work item's Run returns.  No hour   *)
(* has to pass, nothing has to be submitted and nobody has to call Wait.   *)
WorkerFairSpec == WorkerSpec /\ WF_WorkerVars(WorkerStep) /\ WF_WorkerVars(CallerStep)

-----------------------------------------------------------------------------
(* A worker that sleeps with nothing to wake it has nothing to do: an item *)
(* in the queue, or the order to stop, comes with a post of the semaphore  *)
(* that was made or is about to be.  (DoWork pushes first and wakes up     *)
(* afterwards, thread.cpp:107; the worker looks at the queue after it took *)
(* the permit, thread.cpp:119.)                                            *)
NoLostWakeUp ==
  pc = "asleep" /\ permits = 0 =>
    /\ queue # {} => caller = "posting"
    /\ mustExit => caller = "waking"

(* When Wait returns no item is left in the queue or half done: each one   *)
(* that was submitted was run, cancelled or dropped (thread.cpp:136).      *)
NothingLeft ==
  caller = "joined" => \A i \in Items : Job[i] \notin {"waiting", "running"}

(* The worker thread does what the pool of jobs promises: an item runs     *)
(* once, highest priority first, a cancelled one never, and at most one is *)
(* begun after Wait was called.                                            *)
ImplementsPool == Pool!Spec

(* Every item submitted is run, cancelled or dropped, although the worker  *)
(* sleeps an hour at a time (thread.cpp:119).                              *)
Served == \A i \in Items : Job[i] = "waiting" ~> Job[i] \in Fates

(* Wait returns: the destructors of the pool's owners do not hang.         *)
WaitReturns == mustExit ~> caller = "joined"
=============================================================================

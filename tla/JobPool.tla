------------------------------ MODULE JobPool ------------------------------
(***************************************************************************)
(* runJobsMT (GlobalRouter.cpp and, line for line the same, Par.cpp): one  *)
(* call that runs handle(0) .. handle(numJobs - 1) on numThreads threads.  *)
(* The threads draw job indices from a shared counter under a mutex; the   *)
(* caller joins them in order.  With fewer than two threads or two jobs    *)
(* the caller runs the jobs itself.                                        *)
(*                                                                         *)
(* jobIdx = globalJobIdx++ is a load and a store, as it compiles to, so    *)
(* that the mutex is what makes it atomic.                                 *)
(***************************************************************************)
EXTENDS Integers

CONSTANTS JobCounts,    \* the values of numJobs a call is made with
          ThreadCounts  \* the values of numofThreads a call is made with

ASSUME CountsAssumption == JobCounts \subseteq Nat /\ ThreadCounts \subseteq Nat

VARIABLES
  numJobs, numofThreads, \* the arguments, fixed by the call
  mainPc,        \* where the caller is
  i,             \* the caller's loop variable
  pc,            \* where each thread is
  jobIdx,        \* each thread's local jobIdx
  globalJobIdx,  \* the shared counter
  mtx,           \* the thread that holds the mutex, or NoThread
  started,       \* history: how often handle(j) was entered
  finished       \* history: how often handle(j) returned

args == <<numJobs, numofThreads>>
caller == <<mainPc, i>>
shared == <<globalJobIdx, mtx>>
history == <<started, finished>>
vars == <<args, caller, pc, jobIdx, shared, history>>

NoThread == -1
numThreads == IF numJobs <= numofThreads THEN numJobs ELSE numofThreads
Threads == 0 .. numThreads - 1
Jobs == 0 .. numJobs - 1
Multi == numThreads > 1

ThreadPc == {"none", "lock", "load", "store", "unlock", "test", "handle", "exited"}
MainPc == {"loop", "handle", "spawn", "join", "returned"}

Init ==
  /\ numJobs \in JobCounts
  /\ numofThreads \in ThreadCounts
  /\ mainPc = IF Multi THEN "spawn" ELSE "loop"
  /\ i = 0
  /\ pc = [t \in Threads |-> "none"]
  /\ jobIdx = [t \in Threads |-> 0]
  /\ globalJobIdx = 0
  /\ mtx = NoThread
  /\ started = [j \in Jobs |-> 0]
  /\ finished = [j \in Jobs |-> 0]
----------------------------------------------------------------------------
(* The caller, with at most one thread: the plain loop. *)
SeqHandle ==
  /\ mainPc = "loop" /\ i < numJobs
  /\ mainPc' = "handle"
  /\ started' = [started EXCEPT ![i] = @ + 1]
  /\ UNCHANGED <<args, i, pc, jobIdx, shared, finished>>

SeqHandled ==
  /\ mainPc = "handle"
  /\ mainPc' = "loop"
  /\ i' = i + 1
  /\ finished' = [finished EXCEPT ![i] = @ + 1]
  /\ UNCHANGED <<args, pc, jobIdx, shared, started>>

SeqReturn ==
  /\ mainPc = "loop" /\ i >= numJobs
  /\ mainPc' = "returned"
  /\ UNCHANGED <<args, i, pc, jobIdx, shared, history>>

(* The caller, with several threads: start them all, then join them all. *)
Spawn ==
  /\ mainPc = "spawn" /\ i < numThreads
  /\ pc' = [pc EXCEPT ![i] = "lock"]
  /\ i' = i + 1
  /\ UNCHANGED <<args, mainPc, jobIdx, shared, history>>

Spawned ==
  /\ mainPc = "spawn" /\ i = numThreads
  /\ mainPc' = "join"
  /\ i' = 0
  /\ UNCHANGED <<args, pc, jobIdx, shared, history>>

Join ==
  /\ mainPc = "join" /\ i < numThreads
  /\ pc[i] = "exited"
  /\ i' = i + 1
  /\ UNCHANGED <<args, mainPc, pc, jobIdx, shared, history>>

Joined ==
  /\ mainPc = "join" /\ i = numThreads
  /\ mainPc' = "returned"
  /\ UNCHANGED <<args, i, pc, jobIdx, shared, history>>

(* thread_func *)
LockAlwaysFree(t) ==    \* mutant: no mutex around the counter
  /\ pc[t] = "lock"
  /\ mtx' = t
  /\ pc' = [pc EXCEPT ![t] = "load"]
  /\ UNCHANGED <<args, caller, jobIdx, globalJobIdx, history>>

Lock(t) ==
  /\ pc[t] = "lock" /\ mtx = NoThread
  /\ mtx' = t
  /\ pc' = [pc EXCEPT ![t] = "load"]
  /\ UNCHANGED <<args, caller, jobIdx, globalJobIdx, history>>

Load(t) ==
  /\ pc[t] = "load"
  /\ jobIdx' = [jobIdx EXCEPT ![t] = globalJobIdx]
  /\ pc' = [pc EXCEPT ![t] = "store"]
  /\ UNCHANGED <<args, caller, shared, history>>

Store(t) ==
  /\ pc[t] = "store"
  /\ globalJobIdx' = jobIdx[t] + 1
  /\ pc' = [pc EXCEPT ![t] = "unlock"]
  /\ UNCHANGED <<args, caller, jobIdx, mtx, history>>

Unlock(t) ==
  /\ pc[t] = "unlock"
  /\ mtx' = NoThread
  /\ pc' = [pc EXCEPT ![t] = "test"]
  /\ UNCHANGED <<args, caller, jobIdx, globalJobIdx, history>>

Break(t) ==
  /\ pc[t] = "test" /\ jobIdx[t] >= numJobs
  /\ pc' = [pc EXCEPT ![t] = "exited"]
  /\ UNCHANGED <<args, caller, jobIdx, shared, history>>

Handle(t) ==
  /\ pc[t] = "test" /\ jobIdx[t] < numJobs
  /\ pc' = [pc EXCEPT ![t] = "handle"]
  /\ started' = [started EXCEPT ![jobIdx[t]] = @ + 1]
  /\ UNCHANGED <<args, caller, jobIdx, shared, finished>>

Handled(t) ==
  /\ pc[t] = "handle"
  /\ pc' = [pc EXCEPT ![t] = "lock"]
  /\ finished' = [finished EXCEPT ![jobIdx[t]] = @ + 1]
  /\ UNCHANGED <<args, caller, jobIdx, shared, started>>

Main == SeqHandle \/ SeqHandled \/ SeqReturn \/ Spawn \/ Spawned \/ Join \/ Joined
Thread(t) ==
  Lock(t) \/ Load(t) \/ Store(t) \/ Unlock(t) \/ Break(t) \/ Handle(t) \/ Handled(t)

(* The call has returned: nothing more happens in it. *)
Returned == mainPc = "returned" /\ UNCHANGED vars

Next == Main \/ (\E t \in Threads : Thread(t)) \/ Returned

(* The operating system runs every thread and the caller, and hands a free *)
(* mutex to some waiting thread; no fairness among the waiters is assumed. *)
Spec == Init /\ [][Next]_vars /\ WF_vars(Main \/ \E t \in Threads : Thread(t))
----------------------------------------------------------------------------
TypeOK ==
  /\ numJobs \in Nat /\ numofThreads \in Nat
  /\ mainPc \in MainPc
  /\ i \in Nat
  /\ pc \in [Threads -> ThreadPc]
  /\ jobIdx \in [Threads -> Nat]
  /\ globalJobIdx \in Nat
  /\ mtx \in Threads \cup {NoThread}
  /\ started \in [Jobs -> Nat]
  /\ finished \in [Jobs -> Nat]

(* No job index is handed out twice: the routing of a net, and the commit  *)
(* of its tree to the shared demands, run at most once per call.           *)
NoJobTwice == \A j \in Jobs : started[j] <= 1

(* When runJobsMT returns every handler has run to its end, so the next    *)
(* batch (or the overflow check, or main's merge) never races a job.       *)
AllDoneAtReturn ==
  mainPc = "returned" => \A j \in Jobs : started[j] = 1 /\ finished[j] = 1

(* What runJobsMT promises (ParallelFor), as a refinement: a handler is    *)
(* running between its two history counts, and one that is entered again   *)
(* is in none of the states the contract allows.                           *)
jobStatus ==
  [j \in Jobs |-> IF started[j] = 0 THEN "todo"
                  ELSE IF started[j] > 1 THEN "repeated"
                  ELSE IF finished[j] = 0 THEN "running" ELSE "done"]

PF == INSTANCE ParallelFor WITH
        JobSets <- {0 .. n - 1 : n \in JobCounts},
        status <- jobStatus,
        parallel <- Multi,
        returned <- mainPc = "returned"

ImplementsParallelFor == PF!Spec
=============================================================================

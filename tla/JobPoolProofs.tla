--------------------------- MODULE JobPoolProofs ---------------------------
(***************************************************************************)
(* Proofs about JobPool for every number of jobs and threads.              *)
(***************************************************************************)
EXTENDS JobPool, TLAPS

(* The thread has drawn jobIdx[t], stored the counter, and not finished it. *)
HoldsTicket(t) == pc[t] \in {"unlock", "test", "handle"}

(* The mutex is held exactly between the lock and the unlock. *)
MutexInv ==
  \A t \in Threads : pc[t] \in {"load", "store", "unlock"} <=> mtx = t

(* Every drawn index lies below the counter and belongs to one thread. *)
TicketInv ==
  /\ \A t \in Threads : pc[t] = "store" => jobIdx[t] = globalJobIdx
  /\ \A t \in Threads : HoldsTicket(t) => jobIdx[t] < globalJobIdx
  /\ \A t, u \in Threads :
       HoldsTicket(t) /\ HoldsTicket(u) /\ jobIdx[t] = jobIdx[u] => t = u
  /\ \A t \in Threads : pc[t] = "handle" => jobIdx[t] < numJobs
  /\ \A t \in Threads : pc[t] = "exited" => globalJobIdx >= numJobs

Undrawn(j) ==
  \/ j >= globalJobIdx
  \/ \E t \in Threads : pc[t] \in {"unlock", "test"} /\ jobIdx[t] = j

InHandler(j) == \E t \in Threads : pc[t] = "handle" /\ jobIdx[t] = j

(* With several threads, the history of a job index follows from where the *)
(* counter and the threads are.                                            *)
MultiHistory ==
  \A j \in Jobs :
    /\ Undrawn(j) => started[j] = 0 /\ finished[j] = 0
    /\ InHandler(j) => started[j] = 1 /\ finished[j] = 0
    /\ ~Undrawn(j) /\ ~InHandler(j) => started[j] = 1 /\ finished[j] = 1

(* Which threads exist while the caller starts and joins them. *)
MultiCaller ==
  /\ mainPc \in {"spawn", "join", "returned"}
  /\ i <= numThreads
  /\ mainPc = "spawn" => \A t \in Threads : pc[t] = "none" <=> t >= i
  /\ mainPc = "join" =>
       \A t \in Threads : pc[t] # "none" /\ (t < i => pc[t] = "exited")
  /\ mainPc = "returned" => \A t \in Threads : pc[t] = "exited"

(* With at most one thread the caller is alone and runs the jobs in order. *)
SeqInv ==
  /\ mainPc \in {"loop", "handle", "returned"}
  /\ i <= numJobs
  /\ mainPc = "handle" => i < numJobs
  /\ mainPc = "returned" => i = numJobs
  /\ \A t \in Threads : pc[t] = "none"
  /\ \A j \in Jobs :
       /\ j < i => started[j] = 1 /\ finished[j] = 1
       /\ j > i => started[j] = 0 /\ finished[j] = 0
       /\ j = i => /\ started[j] = IF mainPc = "handle" THEN 1 ELSE 0
                   /\ finished[j] = 0

IInv ==
  /\ TypeOK
  /\ Multi => MutexInv /\ TicketInv /\ MultiHistory /\ MultiCaller
  /\ ~Multi => SeqInv
----------------------------------------------------------------------------
(* The arguments never change, so neither do the sets derived from them. *)
LEMMA ArgsFixed ==
  [Next]_vars => /\ numJobs' = numJobs /\ numofThreads' = numofThreads
                 /\ numThreads' = numThreads
                 /\ Threads' = Threads /\ Jobs' = Jobs /\ (Multi' <=> Multi)
<1> SUFFICES ASSUME [Next]_vars
             PROVE  /\ numJobs' = numJobs /\ numofThreads' = numofThreads
                    /\ numThreads' = numThreads
                    /\ Threads' = Threads /\ Jobs' = Jobs /\ (Multi' <=> Multi)
  OBVIOUS
<1>1. numJobs' = numJobs /\ numofThreads' = numofThreads
  BY DEF Next, Main, Thread, Returned, vars, args, SeqHandle, SeqHandled, SeqReturn,
         Spawn, Spawned, Join, Joined, Lock, Load, Store, Unlock, Break, Handle, Handled
<1>2. QED
  BY <1>1 DEF Threads, Jobs, Multi, numThreads

(* Thread indices and job indices are numbers; the mutex is free or held. *)
LEMMA Sorts ==
  ASSUME numJobs \in Nat, numofThreads \in Nat
  PROVE  /\ numThreads \in Nat
         /\ Threads \subseteq Nat /\ Jobs \subseteq Nat
         /\ NoThread \notin Threads
BY DEF Threads, Jobs, numThreads, NoThread

(* Counting one more start or end of a job keeps a history function typed. *)
LEMMA CountOneMore ==
  ASSUME NEW S, NEW f \in [S -> Nat], NEW x
  PROVE  [f EXCEPT ![x] = @ + 1] \in [S -> Nat]
<1>1. ASSUME NEW y \in S
      PROVE  [f EXCEPT ![x] = @ + 1][y] \in Nat
  <2>1. CASE y = x
    BY <2>1
  <2>2. CASE y # x
    BY <2>2
  <2>3. QED
    BY <2>1, <2>2
<1>2. QED
  BY <1>1

(* One step of a call keeps every variable's type. *)
LEMMA TypeStep == TypeOK /\ [Next]_vars => TypeOK'
<1> SUFFICES ASSUME TypeOK, [Next]_vars
             PROVE  TypeOK'
  OBVIOUS
<1>0. /\ numJobs' = numJobs /\ numofThreads' = numofThreads
      /\ Threads' = Threads /\ Jobs' = Jobs
  BY ArgsFixed
<1> USE <1>0 DEF TypeOK, MainPc, ThreadPc, caller, shared, history
<1>1. CASE SeqHandle
  BY <1>1, CountOneMore DEF SeqHandle
<1>2. CASE SeqHandled
  BY <1>2, CountOneMore DEF SeqHandled
<1>3. CASE SeqReturn
  BY <1>3 DEF SeqReturn
<1>4. CASE Spawn
  <2>1. i \in Threads
    BY <1>4, Sorts DEF Spawn, Threads
  <2>2. QED
    BY <1>4, <2>1 DEF Spawn
<1>5. CASE Spawned
  BY <1>5 DEF Spawned
<1>6. CASE Join
  BY <1>6 DEF Join
<1>7. CASE Joined
  BY <1>7 DEF Joined
<1>8. ASSUME NEW t \in Threads, Lock(t) PROVE TypeOK'
  BY <1>8 DEF Lock
<1>9. ASSUME NEW t \in Threads, Load(t) PROVE TypeOK'
  BY <1>9 DEF Load
<1>10. ASSUME NEW t \in Threads, Store(t) PROVE TypeOK'
  BY <1>10 DEF Store
<1>11. ASSUME NEW t \in Threads, Unlock(t) PROVE TypeOK'
  BY <1>11 DEF Unlock
<1>12. ASSUME NEW t \in Threads, Break(t) PROVE TypeOK'
  BY <1>12 DEF Break
<1>13. ASSUME NEW t \in Threads, Handle(t) PROVE TypeOK'
  BY <1>13, CountOneMore DEF Handle
<1>14. ASSUME NEW t \in Threads, Handled(t) PROVE TypeOK'
  BY <1>14, CountOneMore DEF Handled
<1>15. CASE UNCHANGED vars
  BY <1>15 DEF vars, args
<1>16. QED
  BY <1>1, <1>2, <1>3, <1>4, <1>5, <1>6, <1>7, <1>8, <1>9, <1>10, <1>11, <1>12,
     <1>13, <1>14, <1>15 DEF Next, Main, Thread, Returned

(* Type correctness: every variable of a runJobsMT call keeps its type,    *)
(* for any number of jobs and threads.                                     *)
THEOREM TypeCorrect == Spec => []TypeOK
<1>1. Init => TypeOK
  BY CountsAssumption
     DEF Init, TypeOK, MainPc, ThreadPc, NoThread, Threads, Jobs
<1>2. QED
  BY <1>1, TypeStep, PTL DEF Spec

(* One step of a call that the caller runs by itself. *)
LEMMA SeqStep ==
  TypeOK /\ TypeOK' /\ ~Multi /\ SeqInv /\ [Next]_vars => SeqInv'
<1> SUFFICES ASSUME TypeOK, TypeOK', ~Multi, SeqInv, [Next]_vars
             PROVE  SeqInv'
  OBVIOUS
<1>0. /\ numJobs' = numJobs /\ numJobs \in Nat /\ i \in Nat
      /\ Threads' = Threads /\ Jobs' = Jobs /\ Jobs \subseteq Nat
      /\ started \in [Jobs -> Nat] /\ finished \in [Jobs -> Nat]
  BY ArgsFixed, Sorts DEF TypeOK
<1> USE <1>0 DEF SeqInv, caller, shared, history
<1>1. CASE SeqHandle
  BY <1>1 DEF SeqHandle
<1>2. CASE SeqHandled
  BY <1>2 DEF SeqHandled
<1>3. CASE SeqReturn
  BY <1>3 DEF SeqReturn
<1>4. ~(Spawn \/ Spawned \/ Join \/ Joined)
  BY DEF Spawn, Spawned, Join, Joined
<1>5. ASSUME NEW t \in Threads PROVE ~Thread(t)
  BY DEF Thread, Lock, Load, Store, Unlock, Break, Handle, Handled
<1>6. CASE UNCHANGED vars
  BY <1>6 DEF vars, args
<1>7. QED
  BY <1>1, <1>2, <1>3, <1>4, <1>5, <1>6 DEF Next, Main, Returned

MultiInv == MutexInv /\ TicketInv /\ MultiHistory /\ MultiCaller

(* A step of the caller while threads exist: it touches no lock, no ticket *)
(* and no history, and lets a thread run or waits for one.                 *)
LEMMA MultiMainStep ==
  TypeOK /\ Multi /\ MultiInv /\ [Next]_vars /\ Main => MultiInv'
<1> SUFFICES ASSUME TypeOK, Multi, MultiInv, [Next]_vars, Main
             PROVE  MultiInv'
  OBVIOUS
<1>0. /\ numJobs' = numJobs /\ numJobs \in Nat /\ i \in Nat
      /\ numThreads' = numThreads /\ numThreads \in Nat
      /\ Threads' = Threads /\ Jobs' = Jobs /\ Jobs \subseteq Nat
      /\ Threads = 0 .. numThreads - 1
      /\ pc \in [Threads -> ThreadPc]
  BY ArgsFixed, Sorts DEF TypeOK, Threads
<1> USE <1>0 DEF MultiInv, caller, shared, history
<1>1. ~(SeqHandle \/ SeqHandled \/ SeqReturn)
  BY DEF MultiCaller, SeqHandle, SeqHandled, SeqReturn
<1>2. CASE Spawn
  <2>1. i \in Threads /\ pc[i] = "none" /\ pc' = [pc EXCEPT ![i] = "lock"]
    BY <1>2 DEF Spawn, MultiCaller
  <2>2. UNCHANGED <<jobIdx, globalJobIdx, mtx, started, finished>>
    BY <1>2 DEF Spawn
  <2>3. MutexInv'
    BY <2>1, <2>2 DEF MutexInv
  <2>4. TicketInv'
    BY <2>1, <2>2 DEF TicketInv, HoldsTicket
  <2>5. \A j : (Undrawn(j)' <=> Undrawn(j)) /\ (InHandler(j)' <=> InHandler(j))
    BY <2>1, <2>2 DEF Undrawn, InHandler
  <2>6. MultiHistory'
    BY <2>2, <2>5 DEF MultiHistory
  <2>7. MultiCaller'
    BY <1>2, <2>1 DEF Spawn, MultiCaller, ThreadPc
  <2>8. QED
    BY <2>3, <2>4, <2>6, <2>7
<1>3. CASE Spawned \/ Join \/ Joined
  <2>1. UNCHANGED <<pc, jobIdx, globalJobIdx, mtx, started, finished>>
    BY <1>3 DEF Spawned, Join, Joined
  <2>2. MutexInv' /\ TicketInv'
    BY <2>1 DEF MutexInv, TicketInv, HoldsTicket
  <2>3. \A j : (Undrawn(j)' <=> Undrawn(j)) /\ (InHandler(j)' <=> InHandler(j))
    BY <2>1 DEF Undrawn, InHandler
  <2>4. MultiHistory'
    BY <2>1, <2>3 DEF MultiHistory
  <2>5. MultiCaller'
    BY <1>3 DEF Spawned, Join, Joined, MultiCaller
  <2>6. QED
    BY <2>2, <2>4, <2>5
<1>4. QED
  BY <1>1, <1>2, <1>3 DEF Main

(* The mutex stays with one thread at a time through every thread step. *)
LEMMA MutexStep ==
  ASSUME TypeOK, MutexInv, Threads' = Threads, NEW t \in Threads, Thread(t)
  PROVE  MutexInv'
<1>0. pc \in [Threads -> ThreadPc] /\ NoThread \notin Threads
  BY Sorts DEF TypeOK
<1> USE <1>0 DEF MutexInv, caller, shared, history
<1>1. CASE Lock(t)
  BY <1>1 DEF Lock
<1>2. CASE Load(t) \/ Store(t)
  BY <1>2 DEF Load, Store
<1>3. CASE Unlock(t)
  BY <1>3 DEF Unlock
<1>4. CASE Break(t) \/ Handle(t) \/ Handled(t)
  BY <1>4 DEF Break, Handle, Handled
<1>5. QED
  BY <1>1, <1>2, <1>3, <1>4 DEF Thread

(* Tickets stay below the counter and distinct: a stored counter is always *)
(* one past the ticket of the thread that stored it.                       *)
LEMMA TicketStep ==
  ASSUME TypeOK, MutexInv, TicketInv, Threads' = Threads, numJobs' = numJobs,
         NEW t \in Threads, Thread(t)
  PROVE  TicketInv'
<1>0. /\ pc \in [Threads -> ThreadPc] /\ jobIdx \in [Threads -> Nat]
      /\ globalJobIdx \in Nat /\ numJobs \in Nat
  BY DEF TypeOK
<1> USE <1>0 DEF TicketInv, HoldsTicket, caller, shared, history
<1>1. CASE Lock(t)
  BY <1>1 DEF Lock
<1>2. CASE Load(t)
  BY <1>2 DEF Load
<1>3. CASE Store(t)
  <2>1. \A u \in Threads : pc[u] = "store" => u = t
    BY <1>3 DEF Store, MutexInv
  <2>2. QED
    BY <1>3, <2>1 DEF Store
<1>4. CASE Unlock(t)
  BY <1>4 DEF Unlock
<1>5. CASE Break(t)
  BY <1>5 DEF Break
<1>6. CASE Handle(t)
  BY <1>6 DEF Handle
<1>7. CASE Handled(t)
  BY <1>7 DEF Handled
<1>8. QED
  BY <1>1, <1>2, <1>3, <1>4, <1>5, <1>6, <1>7 DEF Thread

(* The history follows the tickets: a step that starts or ends a job moves *)
(* exactly that job from one of the three cases to the next.               *)
LEMMA HistoryStep ==
  ASSUME TypeOK, TicketInv, MultiHistory, Threads' = Threads, Jobs' = Jobs,
         NEW t \in Threads, Thread(t)
  PROVE  MultiHistory'
<1>0. /\ pc \in [Threads -> ThreadPc] /\ jobIdx \in [Threads -> Nat]
      /\ globalJobIdx \in Nat /\ numJobs \in Nat /\ Jobs \subseteq Nat
      /\ started \in [Jobs -> Nat] /\ finished \in [Jobs -> Nat]
  BY Sorts DEF TypeOK
<1> USE <1>0 DEF MultiHistory, caller, shared, history
<1>1. CASE Lock(t) \/ Load(t) \/ Store(t) \/ Unlock(t) \/ Break(t)
  <2>1. \A j \in Jobs : Undrawn(j)' <=> Undrawn(j)
    <3>1. CASE Lock(t)
      BY <3>1 DEF Lock, Undrawn
    <3>2. CASE Load(t)
      BY <3>2 DEF Load, Undrawn
    <3>3. CASE Store(t)
      BY <3>3 DEF Store, Undrawn, TicketInv
    <3>4. CASE Unlock(t)
      BY <3>4 DEF Unlock, Undrawn
    <3>5. CASE Break(t)
      BY <3>5 DEF Break, Undrawn, Jobs
    <3>6. QED
      BY <1>1, <3>1, <3>2, <3>3, <3>4, <3>5
  <2>2. \A j \in Jobs : InHandler(j)' <=> InHandler(j)
    BY <1>1 DEF Lock, Load, Store, Unlock, Break, InHandler
  <2>3. UNCHANGED <<started, finished>>
    BY <1>1 DEF Lock, Load, Store, Unlock, Break
  <2>4. QED
    BY <2>1, <2>2, <2>3
<1>2. CASE Handle(t)
  <2>0. PICK k \in Nat : k = jobIdx[t]
    OBVIOUS
  <2>1. /\ k \in Jobs /\ pc[t] = "test" /\ pc' = [pc EXCEPT ![t] = "handle"]
        /\ started' = [started EXCEPT ![k] = @ + 1]
        /\ UNCHANGED <<jobIdx, globalJobIdx, finished>>
    BY <1>2, <2>0 DEF Handle, Jobs
  <2>2. k < globalJobIdx
    BY <2>0, <2>1 DEF TicketInv, HoldsTicket
  <2>3. \A u \in Threads : HoldsTicket(u) /\ jobIdx[u] = k => u = t
    BY <2>0, <2>1 DEF TicketInv, HoldsTicket
  <2>4. ~Undrawn(k)' /\ InHandler(k)' /\ started'[k] = 1 /\ finished'[k] = 0
    BY <2>0, <2>1, <2>2, <2>3 DEF Undrawn, InHandler, HoldsTicket
  <2>5. \A j \in Jobs \ {k} :
          /\ Undrawn(j)' <=> Undrawn(j)
          /\ InHandler(j)' <=> InHandler(j)
          /\ started'[j] = started[j] /\ finished'[j] = finished[j]
    BY <2>0, <2>1 DEF Undrawn, InHandler
  <2>6. QED
    BY <2>4, <2>5
<1>3. CASE Handled(t)
  <2>0. PICK k \in Nat : k = jobIdx[t]
    OBVIOUS
  <2>1. /\ pc[t] = "handle" /\ pc' = [pc EXCEPT ![t] = "lock"]
        /\ finished' = [finished EXCEPT ![k] = @ + 1]
        /\ UNCHANGED <<jobIdx, globalJobIdx, started>>
    BY <1>3, <2>0 DEF Handled
  <2>2. k \in Jobs /\ k < globalJobIdx
    BY <2>0, <2>1 DEF TicketInv, HoldsTicket, Jobs
  <2>3. \A u \in Threads : HoldsTicket(u) /\ jobIdx[u] = k => u = t
    BY <2>0, <2>1 DEF TicketInv, HoldsTicket
  <2>4. ~Undrawn(k)' /\ ~InHandler(k)' /\ started'[k] = 1 /\ finished'[k] = 1
    BY <2>0, <2>1, <2>2, <2>3 DEF Undrawn, InHandler, HoldsTicket
  <2>5. \A j \in Jobs \ {k} :
          /\ Undrawn(j)' <=> Undrawn(j)
          /\ InHandler(j)' <=> InHandler(j)
          /\ started'[j] = started[j] /\ finished'[j] = finished[j]
    BY <2>0, <2>1 DEF Undrawn, InHandler
  <2>6. QED
    BY <2>4, <2>5
<1>4. QED
  BY <1>1, <1>2, <1>3 DEF Thread

(* A thread never un-starts and never leaves "exited". *)
LEMMA CallerStep ==
  ASSUME TypeOK, MultiCaller, Threads' = Threads, numThreads' = numThreads,
         NEW t \in Threads, Thread(t)
  PROVE  MultiCaller'
<1>1. /\ pc \in [Threads -> ThreadPc] /\ UNCHANGED <<mainPc, i>>
      /\ pc[t] \notin {"none", "exited"}
      /\ \E q \in ThreadPc \ {"none"} : pc' = [pc EXCEPT ![t] = q]
  BY DEF TypeOK, ThreadPc, Thread, caller, Lock, Load, Store, Unlock, Break, Handle,
         Handled
<1>2. QED
  BY <1>1 DEF MultiCaller

(* The inductive invariant of one runJobsMT call. *)
THEOREM Invariant == Spec => []IInv
<1>1. Init => IInv
  <2> SUFFICES ASSUME Init
               PROVE  IInv
    OBVIOUS
  <2>1. TypeOK
    BY CountsAssumption
       DEF Init, TypeOK, MainPc, ThreadPc, NoThread, Threads, Jobs
  <2>2. Multi => MultiInv
    BY Sorts, <2>1 DEF Init, TypeOK, MultiInv, MutexInv, TicketInv, HoldsTicket,
       MultiHistory, MultiCaller, Undrawn, InHandler, Threads, Jobs
  <2>3. ~Multi => SeqInv
    BY Sorts, <2>1 DEF Init, TypeOK, SeqInv
  <2>4. QED
    BY <2>1, <2>2, <2>3 DEF IInv, MultiInv
<1>2. IInv /\ [Next]_vars => IInv'
  <2> SUFFICES ASSUME IInv, [Next]_vars
               PROVE  IInv'
    OBVIOUS
  <2>1. TypeOK /\ TypeOK'
    BY TypeStep DEF IInv
  <2>2. /\ numJobs' = numJobs /\ numThreads' = numThreads /\ (Multi' <=> Multi)
        /\ Threads' = Threads /\ Jobs' = Jobs
    BY ArgsFixed
  <2>3. CASE ~Multi
    BY <2>1, <2>2, <2>3, SeqStep DEF IInv
  <2>4. CASE Multi
    <3>0. MultiInv
      BY <2>4 DEF IInv, MultiInv
    <3>1. ASSUME Main PROVE MultiInv'
      BY <2>1, <2>4, <3>0, <3>1, MultiMainStep
    <3>2. ASSUME NEW t \in Threads, Thread(t) PROVE MultiInv'
      <4>1. MutexInv'
        BY <2>1, <2>2, <3>0, <3>2, MutexStep DEF MultiInv
      <4>2. TicketInv'
        BY <2>1, <2>2, <3>0, <3>2, TicketStep DEF MultiInv
      <4>3. MultiHistory'
        BY <2>1, <2>2, <3>0, <3>2, HistoryStep DEF MultiInv
      <4>4. MultiCaller'
        BY <2>1, <2>2, <3>0, <3>2, CallerStep DEF MultiInv
      <4>5. QED
        BY <4>1, <4>2, <4>3, <4>4 DEF MultiInv
    <3>3. ASSUME UNCHANGED vars PROVE MultiInv'
      BY <2>2, <3>0, <3>3 DEF vars, caller, shared, history, MultiInv, MutexInv, TicketInv,
         HoldsTicket, MultiHistory, MultiCaller, Undrawn, InHandler
    <3>4. MultiInv'
      BY <3>1, <3>2, <3>3 DEF Next, Returned
    <3>5. QED
      BY <2>1, <2>2, <2>4, <3>4 DEF IInv, MultiInv
  <2>5. QED
    BY <2>3, <2>4
<1>3. QED
  BY <1>1, <1>2, PTL DEF Spec
----------------------------------------------------------------------------
(* No job index is handed to two threads: a net of a batch is routed and   *)
(* its tree committed at most once, whatever the threads' interleaving.    *)
THEOREM JobsRunOnce == Spec => []NoJobTwice
<1>1. IInv => NoJobTwice
  <2> SUFFICES ASSUME IInv, NEW j \in Jobs
               PROVE  started[j] <= 1
    BY DEF NoJobTwice
  <2>1. j \in Nat /\ i \in Nat
    BY Sorts DEF IInv, TypeOK
  <2>2. CASE Multi
    BY <2>2 DEF IInv, MultiHistory
  <2>3. CASE ~Multi
    BY <2>1, <2>3 DEF IInv, SeqInv
  <2>4. QED
    BY <2>2, <2>3
<1>2. QED
  BY <1>1, Invariant, PTL

(* When runJobsMT returns, every handler has run to its end exactly once:  *)
(* the caller's next batch, and its overflow check, never race a job.      *)
LEMMA ReturnedMeansDone == IInv => AllDoneAtReturn
<1> SUFFICES ASSUME IInv, mainPc = "returned", NEW j \in Jobs
             PROVE  started[j] = 1 /\ finished[j] = 1
  BY DEF AllDoneAtReturn
<1>1. j \in Nat /\ i \in Nat /\ numJobs \in Nat /\ globalJobIdx \in Nat /\ j < numJobs
  BY Sorts DEF IInv, TypeOK, Jobs
<1>2. CASE Multi
  <2>1. \A t \in Threads : pc[t] = "exited"
    BY <1>2 DEF IInv, MultiCaller
  <2>2. 0 \in Threads
    BY <1>2, Sorts DEF IInv, TypeOK, Multi, Threads
  <2>3. globalJobIdx >= numJobs
    BY <1>2, <2>1, <2>2 DEF IInv, TicketInv
  <2>4. ~Undrawn(j) /\ ~InHandler(j)
    BY <1>1, <2>1, <2>3 DEF Undrawn, InHandler
  <2>5. QED
    BY <1>2, <2>4 DEF IInv, MultiHistory
<1>3. CASE ~Multi
  BY <1>1, <1>3 DEF IInv, SeqInv
<1>4. QED
  BY <1>2, <1>3

(* When runJobsMT returns every job has been handled. *)
THEOREM DoneAtReturn == Spec => []AllDoneAtReturn
BY Invariant, ReturnedMeansDone, PTL
----------------------------------------------------------------------------
(* Entering a handler is the abstract Start of that job. *)
LEMMA StartStep ==
  ASSUME IInv, [Next]_vars, NEW j \in Jobs,
         started[j] = 0, finished[j] = 0,
         Multi \/ \A k \in Jobs : started[k] = 0 \/ finished[k] = 1,
         started' = [started EXCEPT ![j] = @ + 1], finished' = finished,
         mainPc # "returned", mainPc' # "returned"
  PROVE  PF!Start(j)
<1>1. Jobs' = Jobs /\ (Multi' <=> Multi)
  BY ArgsFixed
<1>2. started \in [Jobs -> Nat] /\ finished \in [Jobs -> Nat]
  BY DEF IInv, TypeOK
<1>3. jobStatus[j] = "todo" /\ jobStatus' = [jobStatus EXCEPT ![j] = "running"]
  <2>1. started'[j] = 1 /\ finished'[j] = 0
    BY <1>2
  <2>2. \A k \in Jobs \ {j} : started'[k] = started[k] /\ finished'[k] = finished[k]
    BY <1>2
  <2>3. jobStatus[j] = "todo"
    BY DEF jobStatus
  <2>4. jobStatus' = [k \in Jobs |-> IF k = j THEN "running" ELSE jobStatus[k]]
    BY <1>1, <2>1, <2>2 DEF jobStatus
  <2>5. QED
    BY <2>3, <2>4 DEF jobStatus
<1>4. Multi \/ \A k \in DOMAIN jobStatus : jobStatus[k] # "running"
  BY <1>2 DEF jobStatus
<1>5. QED
  BY <1>1, <1>3, <1>4 DEF PF!Start

(* Leaving a handler is the abstract Finish of that job. *)
LEMMA FinishStep ==
  ASSUME IInv, [Next]_vars, NEW j \in Jobs,
         started[j] = 1, finished[j] = 0,
         finished' = [finished EXCEPT ![j] = @ + 1], started' = started,
         mainPc # "returned", mainPc' # "returned"
  PROVE  PF!Finish(j)
<1>1. Jobs' = Jobs /\ (Multi' <=> Multi)
  BY ArgsFixed
<1>2. started \in [Jobs -> Nat] /\ finished \in [Jobs -> Nat]
  BY DEF IInv, TypeOK
<1>3. jobStatus[j] = "running" /\ jobStatus' = [jobStatus EXCEPT ![j] = "done"]
  <2>1. started'[j] = 1 /\ finished'[j] = 1
    BY <1>2
  <2>2. \A k \in Jobs \ {j} : started'[k] = started[k] /\ finished'[k] = finished[k]
    BY <1>2
  <2>3. jobStatus[j] = "running"
    BY DEF jobStatus
  <2>4. jobStatus' = [k \in Jobs |-> IF k = j THEN "done" ELSE jobStatus[k]]
    BY <1>1, <2>1, <2>2 DEF jobStatus
  <2>5. QED
    BY <2>3, <2>4 DEF jobStatus
<1>4. QED
  BY <1>1, <1>3 DEF PF!Finish

(* The caller's last step is the abstract Return. *)
LEMMA ReturnStep ==
  ASSUME IInv, IInv', [Next]_vars, UNCHANGED history,
         mainPc # "returned", mainPc' = "returned"
  PROVE  PF!Return
<1>1. Jobs' = Jobs /\ (Multi' <=> Multi)
  BY ArgsFixed
<1>0. AllDoneAtReturn'
  BY ReturnedMeansDone, PTL
<1>2. \A j \in Jobs : started[j] = 1 /\ finished[j] = 1
  BY <1>0, <1>1 DEF AllDoneAtReturn, history
<1>3. jobStatus' = jobStatus /\ \A j \in DOMAIN jobStatus : jobStatus[j] = "done"
  BY <1>1, <1>2 DEF jobStatus, history
<1>4. QED
  BY <1>1, <1>3 DEF PF!Return

(* Every other step changes nothing that a caller of runJobsMT can see. *)
LEMMA InternalStep ==
  ASSUME [Next]_vars, UNCHANGED history,
         (mainPc = "returned") <=> (mainPc' = "returned")
  PROVE  UNCHANGED PF!vars
<1>1. Jobs' = Jobs /\ (Multi' <=> Multi)
  BY ArgsFixed
<1>2. jobStatus' = jobStatus
  BY <1>1 DEF jobStatus, history
<1>3. QED
  BY <1>1, <1>2 DEF PF!vars

(* runJobsMT implements the parallel for loop its callers rely on: every   *)
(* step starts a job, finishes one, returns, or is invisible.              *)
THEOREM RefinesParallelFor == Spec => PF!SafeSpec
<1>1. Init => PF!Init
  <2> SUFFICES ASSUME Init
               PROVE  PF!Init
    OBVIOUS
  <2>1. jobStatus = [j \in 0 .. numJobs - 1 |-> "todo"]
    BY DEF Init, jobStatus, Jobs
  <2>2. 0 .. numJobs - 1 \in {0 .. n - 1 : n \in JobCounts}
    BY DEF Init
  <2>3. Multi \in BOOLEAN /\ (mainPc = "returned") = FALSE
    BY DEF Init, Multi
  <2>4. QED
    BY <2>1, <2>2, <2>3 DEF PF!Init
<1>2. IInv /\ IInv' /\ [Next]_vars => [PF!Next]_(PF!vars)
  <2> SUFFICES ASSUME IInv, IInv', [Next]_vars
               PROVE  PF!Next \/ UNCHANGED PF!vars
    OBVIOUS
  <2>0. /\ DOMAIN jobStatus = Jobs /\ Jobs \subseteq Nat /\ i \in Nat /\ numJobs \in Nat
        /\ Jobs = 0 .. numJobs - 1
    BY Sorts DEF jobStatus, IInv, TypeOK, Jobs
  <2>1. ASSUME SeqHandle PROVE PF!Start(i) /\ i \in Jobs
    <3>1. ~Multi
      BY <2>1 DEF SeqHandle, IInv, MultiCaller
    <3>2. i \in Jobs
      BY <2>0, <2>1 DEF SeqHandle
    <3>3. started[i] = 0 /\ finished[i] = 0
      BY <2>1, <3>1, <3>2 DEF SeqHandle, IInv, SeqInv
    <3>4. \A k \in Jobs : started[k] = 0 \/ finished[k] = 1
      BY <2>0, <3>1, <3>3 DEF IInv, SeqInv
    <3>5. QED
      BY <2>1, <3>2, <3>3, <3>4, StartStep DEF SeqHandle
  <2>2. ASSUME SeqHandled PROVE PF!Finish(i) /\ i \in Jobs
    <3>1. ~Multi
      BY <2>2 DEF SeqHandled, IInv, MultiCaller
    <3>2. i \in Jobs
      BY <2>0, <2>2, <3>1 DEF SeqHandled, IInv, SeqInv
    <3>3. started[i] = 1 /\ finished[i] = 0
      BY <2>2, <3>1, <3>2 DEF SeqHandled, IInv, SeqInv
    <3>4. QED
      BY <2>2, <3>2, <3>3, FinishStep DEF SeqHandled
  <2>3. ASSUME SeqReturn \/ Joined PROVE PF!Return
    BY <2>3, ReturnStep DEF SeqReturn, Joined
  <2>4. ASSUME Spawn \/ Spawned \/ Join PROVE UNCHANGED PF!vars
    BY <2>4, InternalStep DEF Spawn, Spawned, Join
  <2>5. ASSUME NEW t \in Threads, Thread(t)
        PROVE  \/ \E j \in Jobs : PF!Start(j) \/ PF!Finish(j)
               \/ UNCHANGED PF!vars
    <3>1. Multi
      BY <2>5 DEF IInv, SeqInv, Thread, Lock, Load, Store, Unlock, Break, Handle, Handled
    <3>2. mainPc' = mainPc
      BY <2>5 DEF Thread, Lock, Load, Store, Unlock, Break, Handle, Handled, caller
    <3>3. mainPc = "returned" => pc[t] = "exited"
      BY <2>5, <3>1 DEF IInv, MultiCaller
    <3>4. mainPc # "returned"
      BY <2>5, <3>3 DEF Thread, Lock, Load, Store, Unlock, Break, Handle, Handled
    <3>5. jobIdx[t] \in Nat /\ globalJobIdx \in Nat
      BY <2>5 DEF IInv, TypeOK
    <3>6. CASE Handle(t)
      <4>1. jobIdx[t] \in Jobs /\ Undrawn(jobIdx[t])
        BY <2>0, <2>5, <3>5, <3>6 DEF Handle, Undrawn
      <4>2. started[jobIdx[t]] = 0 /\ finished[jobIdx[t]] = 0
        BY <3>1, <4>1 DEF IInv, MultiHistory
      <4>3. PF!Start(jobIdx[t])
        BY <3>1, <3>2, <3>4, <3>6, <4>1, <4>2, StartStep DEF Handle
      <4>4. QED
        BY <4>1, <4>3
    <3>7. CASE Handled(t)
      <4>1. jobIdx[t] \in Jobs /\ InHandler(jobIdx[t])
        BY <2>0, <2>5, <3>1, <3>5, <3>7 DEF Handled, InHandler, IInv, TicketInv
      <4>2. started[jobIdx[t]] = 1 /\ finished[jobIdx[t]] = 0
        BY <3>1, <4>1 DEF IInv, MultiHistory
      <4>3. PF!Finish(jobIdx[t])
        BY <3>2, <3>4, <3>7, <4>1, <4>2, FinishStep DEF Handled
      <4>4. QED
        BY <4>1, <4>3
    <3>8. CASE Lock(t) \/ Load(t) \/ Store(t) \/ Unlock(t) \/ Break(t)
      BY <3>2, <3>8, InternalStep DEF Lock, Load, Store, Unlock, Break
    <3>9. QED
      BY <2>5, <3>6, <3>7, <3>8 DEF Thread
  <2>6. ASSUME UNCHANGED vars PROVE UNCHANGED PF!vars
    BY <2>6, InternalStep DEF vars, caller
  <2>7. QED
    BY <2>0, <2>1, <2>2, <2>3, <2>4, <2>5, <2>6 DEF Next, Main, Returned, PF!Next
<1>3. QED
  BY <1>1, <1>2, Invariant, PTL DEF Spec, PF!SafeSpec
=============================================================================

-------------------------- MODULE BatchScheduler ---------------------------
(***************************************************************************)
(* GlobalRouter::getBatches and Scheduler::scheduleOrderEq: split the nets *)
(* to route, which come in a sorted list, into batches.  The batches run   *)
(* one after the other and the nets of a batch run concurrently, so nets   *)
(* whose bounding boxes meet must not share a batch, and what the sort put *)
(* first must not be overtaken.                                            *)
(*                                                                         *)
(* A net is its position in the sorted list.  batches[k] of the code is    *)
(* {p : batchOf[p] = k}, and assigned[p] is batchOf[p] # Unassigned.       *)
(***************************************************************************)
EXTENDS Integers

CONSTANTS NetCounts,     \* the lengths of netsToRoute
          Boxes,         \* the bounding boxes a net can have
          ThreadCounts,  \* the values of numofThreads
          INT_MAX        \* the largest int

BoxType == [lx : Int, hx : Int, ly : Int, hy : Int]

(* BoxT::hp, the half perimeter, and boost's intersects on closed boxes. *)
hp(b) == (b.hx - b.lx) + (b.hy - b.ly)
Intersects(b, c) ==
  /\ b.lx <= c.hx /\ c.lx <= b.hx
  /\ b.ly <= c.hy /\ c.ly <= b.hy

ASSUME SchedulerAssumption ==
  /\ NetCounts \subseteq Nat
  /\ ThreadCounts \subseteq Nat
  /\ Boxes \subseteq BoxType
  /\ INT_MAX \in Int
  /\ \A b \in Boxes : hp(b) <= INT_MAX

VARIABLES
  numofThreads, \* the router's thread count
  numNets,      \* netsToRoute.size()
  box,          \* box[p]: the bounding box of the net at position p
  pc,           \* where the scheduler is
  batchOf,      \* the batch each net was put in
  numBatches,   \* batches.size()
  rtree,        \* the nets of the batch under construction
  lastUnroute,  \* every net before it has a batch
  i,            \* the scan's position
  lastMetric    \* no net with a larger half perimeter may join the batch

input == <<numofThreads, numNets, box>>
batchVars == <<input, pc, batchOf, numBatches, rtree, lastUnroute, i, lastMetric>>

Unassigned == 0
Pos == 0 .. numNets - 1
AtEnd(p) == p >= numNets
Metric(p) == hp(box[p])
hasConflict(p) == \E q \in rtree : q # p /\ Intersects(box[q], box[p])

BatchInit ==
  /\ numofThreads \in ThreadCounts
  /\ numNets \in NetCounts
  /\ box \in [Pos -> Boxes]
  /\ pc = "start"
  /\ batchOf = [p \in Pos |-> Unassigned]
  /\ numBatches = 0
  /\ rtree = {}
  /\ lastUnroute = 0
  /\ i = 0
  /\ lastMetric = INT_MAX
----------------------------------------------------------------------------
(* getBatches with one thread: one batch, which runJobsMT runs in order. *)
SingleBatch ==
  /\ pc = "start" /\ numofThreads = 1
  /\ batchOf' = [p \in Pos |-> 1]
  /\ numBatches' = 1
  /\ pc' = "done"
  /\ UNCHANGED <<input, rtree, lastUnroute, i, lastMetric>>

Schedule ==
  /\ pc = "start" /\ numofThreads # 1
  /\ pc' = "batch"
  /\ UNCHANGED <<input, batchOf, numBatches, rtree, lastUnroute, i, lastMetric>>

(* create a new batch from a seed *)
NewBatch ==
  /\ pc = "batch" /\ ~AtEnd(lastUnroute)
  /\ numBatches' = numBatches + 1
  /\ rtree' = {}
  /\ lastMetric' = INT_MAX
  /\ i' = lastUnroute
  /\ pc' = "scan"
  /\ UNCHANGED <<input, batchOf, lastUnroute>>

Done ==
  /\ pc = "batch" /\ AtEnd(lastUnroute)
  /\ pc' = "done"
  /\ UNCHANGED <<input, batchOf, numBatches, rtree, lastUnroute, i, lastMetric>>

(* The loop over i. *)
ScanAssigned ==
  /\ pc = "scan" /\ ~AtEnd(i)
  /\ batchOf[i] # Unassigned
  /\ i' = i + 1
  /\ UNCHANGED <<input, pc, batchOf, numBatches, rtree, lastUnroute, lastMetric>>

CanScan ==
  /\ pc = "scan" /\ ~AtEnd(i)
  /\ batchOf[i] = Unassigned

ScanBreak ==
  /\ CanScan
  /\ Metric(i) > lastMetric
  /\ pc' = "seed"
  /\ UNCHANGED <<input, batchOf, numBatches, rtree, lastUnroute, i, lastMetric>>

ScanConflictKeepMetric ==    \* mutant: a blocked net does not stop larger ones
  /\ CanScan
  /\ Metric(i) <= lastMetric
  /\ hasConflict(i)
  /\ i' = i + 1
  /\ UNCHANGED <<input, pc, batchOf, numBatches, rtree, lastUnroute, lastMetric>>

ScanConflict ==
  /\ CanScan
  /\ Metric(i) <= lastMetric
  /\ hasConflict(i)
  /\ lastMetric' = Metric(i)
  /\ i' = i + 1
  /\ UNCHANGED <<input, pc, batchOf, numBatches, rtree, lastUnroute>>

ScanPlaceWithoutUpdate ==    \* mutant: updateSet is not called
  /\ CanScan
  /\ Metric(i) <= lastMetric
  /\ ~hasConflict(i)
  /\ batchOf' = [batchOf EXCEPT ![i] = numBatches]
  /\ i' = i + 1
  /\ UNCHANGED <<input, pc, numBatches, rtree, lastUnroute, lastMetric>>

ScanPlace ==
  /\ CanScan
  /\ Metric(i) <= lastMetric
  /\ ~hasConflict(i)
  /\ batchOf' = [batchOf EXCEPT ![i] = numBatches]
  /\ rtree' = rtree \cup {i}
  /\ i' = i + 1
  /\ UNCHANGED <<input, pc, numBatches, lastUnroute, lastMetric>>

ScanEnd ==
  /\ pc = "scan" /\ AtEnd(i)
  /\ pc' = "seed"
  /\ UNCHANGED <<input, batchOf, numBatches, rtree, lastUnroute, i, lastMetric>>

(* find the next seed *)
SeedAssignedStays ==    \* mutant: the increment is lost
  /\ pc = "seed" /\ ~AtEnd(lastUnroute)
  /\ batchOf[lastUnroute] # Unassigned
  /\ UNCHANGED batchVars

SeedAssigned ==
  /\ pc = "seed" /\ ~AtEnd(lastUnroute)
  /\ batchOf[lastUnroute] # Unassigned
  /\ lastUnroute' = lastUnroute + 1
  /\ UNCHANGED <<input, pc, batchOf, numBatches, rtree, i, lastMetric>>

SeedFoundPastOne ==    \* mutant: the seed search steps over the seed
  /\ pc = "seed"
  /\ ~AtEnd(lastUnroute) => batchOf[lastUnroute] = Unassigned
  /\ pc' = "batch"
  /\ lastUnroute' = lastUnroute + 1
  /\ UNCHANGED <<input, batchOf, numBatches, rtree, i, lastMetric>>

SeedFound ==
  /\ pc = "seed"
  /\ ~AtEnd(lastUnroute) => batchOf[lastUnroute] = Unassigned
  /\ pc' = "batch"
  /\ UNCHANGED <<input, batchOf, numBatches, rtree, lastUnroute, i, lastMetric>>

Step ==
  \/ SingleBatch \/ Schedule \/ NewBatch \/ Done
  \/ ScanAssigned \/ ScanBreak \/ ScanConflict \/ ScanPlace \/ ScanEnd
  \/ SeedAssigned \/ SeedFound

(* The batches have been handed to the caller. *)
Returned == pc = "done" /\ UNCHANGED batchVars

BatchNext == Step \/ Returned

(* One thread computes the batches, and it keeps running. *)
BatchSpec == BatchInit /\ [][BatchNext]_batchVars /\ WF_batchVars(Step)
----------------------------------------------------------------------------
TypeOK ==
  /\ numofThreads \in Nat
  /\ numNets \in Nat
  /\ box \in [Pos -> Boxes]
  /\ pc \in {"start", "batch", "scan", "seed", "done"}
  /\ batchOf \in [Pos -> Nat]
  /\ numBatches \in Nat
  /\ rtree \subseteq Pos
  /\ lastUnroute \in Nat
  /\ i \in Nat
  /\ lastMetric \in Int

Concurrent(p, q) ==
  numofThreads # 1 /\ p # q /\ batchOf[p] # Unassigned /\ batchOf[p] = batchOf[q]

(* Nets that can be routed at the same time have disjoint bounding boxes:  *)
(* the demands of an edge inside one of the boxes have one writer.         *)
ConflictFree ==
  \A p, q \in Pos : Concurrent(p, q) => ~Intersects(box[p], box[q])

(* "OrderEq": where the list puts a smaller net before a larger one, the   *)
(* larger one is never routed first, and where the two boxes meet it is    *)
(* routed in a later batch, as it would be without threads.                *)
OrderEq ==
  \A p, q \in Pos :
    /\ numofThreads # 1 /\ p < q
    /\ Metric(p) < Metric(q)
    /\ batchOf[q] # Unassigned
    => /\ batchOf[p] # Unassigned
       /\ batchOf[p] <= batchOf[q]
       /\ Intersects(box[p], box[q]) => batchOf[p] < batchOf[q]

(* Every net is in a batch when the batches are returned, and no batch is  *)
(* empty, so there are at most as many batches as nets.                    *)
AllScheduled ==
  pc = "done" =>
    /\ \A p \in Pos : batchOf[p] \in 1 .. numBatches
    /\ numofThreads # 1 =>
         \A k \in 1 .. numBatches : \E p \in Pos : batchOf[p] = k

(* The scheduler ends: every batch places at least its seed. *)
Terminates == <>(pc = "done")
=============================================================================
